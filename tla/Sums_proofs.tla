----------------------------- MODULE Sums_proofs -----------------------------
(***************************************************************************)
(* Sums in proofs. MapThenSumSet of the community modules is a fold chosen *)
(* by CHOOSE: here that fold is shown to exist, to be the only one and not *)
(* to depend on the order, so that its terms can be taken one at a time.   *)
(*                                                                         *)
(* The library's induction theorems take an operator as a parameter, which *)
(* the provers cannot instantiate. The first two lemmas say the same of a  *)
(* set: a set of numbers, or of subsets, that a step never leaves.         *)
(***************************************************************************)
EXTENDS Integers, FiniteSets, FiniteSetsExt, FiniteSetTheorems, WellFoundedInduction, TLAPS

\* Induction over the natural numbers, for a set of numbers.
LEMMA NumbersByInduction ==
    ASSUME NEW K,
           0 \in K,
           \A n \in Nat : n \in K => n + 1 \in K
    PROVE  Nat \subseteq K
<1>1. SUFFICES ASSUME Nat \ K # {} PROVE FALSE
  OBVIOUS
<1>2. PICK n \in Nat \ K : \A m \in Nat \ K : ~(<<m, n>> \in OpToRel(<, Nat))
  BY <1>1, NatLessThanWellFounded, WFMin, Zenon
<1>3. \A m \in Nat \ K : ~(m < n)
  BY <1>2 DEF OpToRel
<1>4. n # 0
  OBVIOUS
<1>5. n - 1 \in Nat /\ n - 1 < n
  BY <1>4
<1>6. n - 1 \in K
  BY <1>3, <1>5
<1> QED
  BY <1>5, <1>6

\* Induction over the subsets of a finite set, for a set of subsets.
LEMMA SubsetsByInduction ==
    ASSUME NEW S, IsFiniteSet(S), NEW K,
           \A T \in SUBSET S : (\A U \in SUBSET T : U # T => U \in K) => T \in K
    PROVE  SUBSET S \subseteq K
<1>1. SUFFICES ASSUME ~(SUBSET S \subseteq K) PROVE FALSE
  OBVIOUS
<1> DEFINE Rest == {T \in SUBSET S : T \notin K}
<1>2. IsWellFoundedOn(StrictSubsetOrdering(S), SUBSET S)
  BY FS_StrictSubsetOrderingWellFounded, FS_FiniteSubsetsOfFinite, Zenon
<1>3. Rest \subseteq SUBSET S /\ Rest # {}
  BY <1>1
<1> DEFINE Order == StrictSubsetOrdering(S)
           Subsets == SUBSET S
<1>4. \E T \in Rest : \A U \in Rest : ~(<<U, T>> \in Order)
  <2>1. IsWellFoundedOn(Order, Subsets) /\ Rest \subseteq Subsets /\ Rest # {}
    BY <1>2, <1>3, Zenon
  <2> HIDE DEF Rest, Order, Subsets
  <2> QED  BY ONLY <2>1, WFMin, Zenon
<1>5. PICK T \in Rest : \A U \in Rest : ~(<<U, T>> \in StrictSubsetOrdering(S))
  BY <1>4
<1>6. \A U \in SUBSET T : U # T => U \in K
  BY <1>5 DEF StrictSubsetOrdering
<1> QED
  BY <1>5, <1>6

-----------------------------------------------------------------------------
Pick(s) == CHOOSE x \in s : TRUE

SumUpTo(it, f, S) ==
    it = [s \in SUBSET S |-> IF s = {} THEN 0 ELSE f[Pick(s)] + it[s \ {Pick(s)}]]

\* The sum of f over S, as the folds of the library compute it.
Sum(f, S) == (CHOOSE it : SumUpTo(it, f, S))[S]

\* What the fold takes first is a member.
LEMMA PickIsIn == ASSUME NEW s, s # {} PROVE Pick(s) \in s
  BY Zenon DEF Pick

\* A fold of integers exists: by induction over the size of the subsets.
LEMMA SumUpToExists ==
    ASSUME NEW S, IsFiniteSet(S), NEW f, \A x \in S : f[x] \in Int
    PROVE  \E it \in [SUBSET S -> Int] : SumUpTo(it, f, S)
<1> DEFINE Small(n) == {s \in SUBSET S : Cardinality(s) <= n}
           Step(it, s) == IF s = {} THEN 0 ELSE f[Pick(s)] + it[s \ {Pick(s)}]
           Upto(it, n) == \A s \in Small(n) : it[s] = Step(it, s)
           K == {n \in Nat : \E it \in [SUBSET S -> Int] : Upto(it, n)}
<1>1. \A s \in SUBSET S : IsFiniteSet(s) /\ Cardinality(s) \in Nat /\ Cardinality(s) <= Cardinality(S)
  BY FS_Subset, FS_CardinalityType
<1>2. ASSUME NEW s \in SUBSET S, s # {}
      PROVE  /\ Pick(s) \in s
             /\ s \ {Pick(s)} \in SUBSET S
             /\ Cardinality(s \ {Pick(s)}) = Cardinality(s) - 1
  <2>1. Pick(s) \in s
    BY <1>2, PickIsIn
  <2>2. Cardinality(s \ {Pick(s)}) = Cardinality(s) - 1
    BY <1>1, <2>1, FS_RemoveElement
  <2> QED  BY <2>1, <2>2
<1>3. 0 \in K
  <2>1. [s \in SUBSET S |-> 0] \in [SUBSET S -> Int]
    OBVIOUS
  <2>2. \A s \in Small(0) : s = {}
    BY <1>1, FS_EmptySet
  <2>3. Upto([s \in SUBSET S |-> 0], 0)
    BY <2>2
  <2> HIDE DEF Upto
  <2> QED  BY <2>1, <2>3
<1>4. ASSUME NEW n \in Nat, n \in K PROVE n + 1 \in K
  <2>1. PICK it \in [SUBSET S -> Int] : Upto(it, n)
    BY <1>4
  <2> DEFINE next == [s \in SUBSET S |-> Step(it, s)]
  <2>2. ASSUME NEW s \in SUBSET S PROVE Step(it, s) \in Int
    <3>1. CASE s = {}
      BY <3>1
    <3>2. CASE s # {}
      <4>1. f[Pick(s)] \in Int /\ it[s \ {Pick(s)}] \in Int
        BY <1>2, <3>2
      <4> QED  BY <3>2, <4>1
    <3> QED  BY <3>1, <3>2
  <2>3. next \in [SUBSET S -> Int]
    BY <2>2
  <2>4. \A s \in Small(n) : next[s] = it[s]
    BY <2>1
  <2>5. ASSUME NEW s \in Small(n + 1) PROVE next[s] = Step(next, s)
    <3>1. CASE s = {}
      BY <3>1
    <3>2. CASE s # {}
      <4>1. s \ {Pick(s)} \in Small(n)
        BY <1>1, <1>2, <2>5, <3>2
      <4> QED  BY <2>4, <3>2, <4>1
    <3> QED  BY <3>1, <3>2
  <2>6. Upto(next, n + 1)
    BY <2>5
  <2> HIDE DEF next, Upto
  <2> QED  BY <2>3, <2>6
<1>5. Cardinality(S) \in K
  <2> HIDE DEF K
  <2>1. Nat \subseteq K
    BY <1>3, <1>4, NumbersByInduction
  <2> QED  BY <2>1, <1>1
<1>6. PICK it \in [SUBSET S -> Int] : Upto(it, Cardinality(S))
  BY <1>5
<1>7. Small(Cardinality(S)) = SUBSET S
  BY <1>1
<1>8. it = [s \in SUBSET S |-> Step(it, s)]
  BY <1>6, <1>7
<1> QED
  BY <1>8 DEF SumUpTo

\* Two folds of the same function agree wherever both are defined.
LEMMA SumUpToUnique ==
    ASSUME NEW S, IsFiniteSet(S), NEW f, NEW g, \A x \in S : f[x] = g[x],
           NEW A, NEW B, S \subseteq A, S \subseteq B,
           NEW i, NEW j, SumUpTo(i, f, A), SumUpTo(j, g, B)
    PROVE  i[S] = j[S]
<1> DEFINE K == {s \in SUBSET S : i[s] = j[s]}
<1>1. ASSUME NEW T \in SUBSET S, \A U \in SUBSET T : U # T => U \in K
      PROVE  T \in K
  <2>1. i[T] = IF T = {} THEN 0 ELSE f[Pick(T)] + i[T \ {Pick(T)}]
    BY Zenon DEF SumUpTo
  <2>2. j[T] = IF T = {} THEN 0 ELSE g[Pick(T)] + j[T \ {Pick(T)}]
    BY Zenon DEF SumUpTo
  <2>3. CASE T = {}
    BY <2>1, <2>2, <2>3
  <2>4. CASE T # {}
    <3>1. Pick(T) \in T
      BY <2>4, PickIsIn
    <3>2. T \ {Pick(T)} \in K
      BY <1>1, <3>1
    <3>3. f[Pick(T)] = g[Pick(T)]
      BY <3>1
    <3> QED  BY <2>1, <2>2, <2>4, <3>2, <3>3
  <2> QED  BY <2>3, <2>4
<1>2. SUBSET S \subseteq K
  <2> HIDE DEF K
  <2> QED  BY <1>1, SubsetsByInduction
<1> QED
  BY <1>2

\* A set whose members have integer values in f.
Summable(f, S) == IsFiniteSet(S) /\ \A x \in S : f[x] \in Int

\* The fold that Sum chooses is one.
LEMMA SumIsFold ==
    ASSUME NEW f, NEW S, Summable(f, S)
    PROVE  \E it \in [SUBSET S -> Int] : SumUpTo(it, f, S) /\ Sum(f, S) = it[S]
<1>1. PICK g \in [SUBSET S -> Int] : SumUpTo(g, f, S)
  BY SumUpToExists DEF Summable
<1>2. PICK it : it = CHOOSE i : SumUpTo(i, f, S)
  OBVIOUS
<1>3. SumUpTo(it, f, S)
  BY <1>1, <1>2, Zenon
<1>4. \A s \in SUBSET S : it[s] = g[s]
  <2> SUFFICES ASSUME NEW s \in SUBSET S PROVE it[s] = g[s]
    OBVIOUS
  <2>1. IsFiniteSet(s)
    BY FS_Subset DEF Summable
  <2> QED  BY <1>1, <1>3, <2>1, SumUpToUnique
<1>5. it = [s \in SUBSET S |-> IF s = {} THEN 0 ELSE f[Pick(s)] + it[s \ {Pick(s)}]]
  BY <1>3, Zenon DEF SumUpTo
<1>6. it \in [SUBSET S -> Int]
  BY <1>4, <1>5
<1>7. Sum(f, S) = it[S]
  BY <1>2, Zenon DEF Sum
<1> QED
  BY <1>3, <1>6, <1>7

\* Any fold of f over a larger set gives the sums of its subsets.
LEMMA FoldIsSum ==
    ASSUME NEW f, NEW S, Summable(f, S), NEW A, S \subseteq A,
           NEW g, \A x \in S : f[x] = g[x],
           NEW it, SumUpTo(it, g, A)
    PROVE  it[S] = Sum(f, S)
<1>1. PICK i \in [SUBSET S -> Int] : SumUpTo(i, f, S) /\ Sum(f, S) = i[S]
  BY SumIsFold
<1>2. IsFiniteSet(S)
  BY DEF Summable
<1>3. i[S] = it[S]
  BY <1>1, <1>2, SumUpToUnique
<1> QED
  BY <1>1, <1>3

\* The sum over nothing.
LEMMA SumEmpty == ASSUME NEW f PROVE Sum(f, {}) = 0
<1>1. Summable(f, {})
  BY FS_EmptySet DEF Summable
<1>2. PICK it \in [SUBSET {} -> Int] : SumUpTo(it, f, {}) /\ Sum(f, {}) = it[{}]
  BY <1>1, SumIsFold
<1>3. it[{}] = 0
  BY <1>2 DEF SumUpTo
<1> QED
  BY <1>2, <1>3

\* A sum of integers is one.
LEMMA SumInt == ASSUME NEW f, NEW S, Summable(f, S) PROVE Sum(f, S) \in Int
<1>1. PICK it \in [SUBSET S -> Int] : SumUpTo(it, f, S) /\ Sum(f, S) = it[S]
  BY SumIsFold
<1> QED
  BY <1>1

\* The step of the fold.
LEMMA SumPick ==
    ASSUME NEW f, NEW S, Summable(f, S), S # {}
    PROVE  Sum(f, S) = f[Pick(S)] + Sum(f, S \ {Pick(S)})
<1>1. PICK it \in [SUBSET S -> Int] : SumUpTo(it, f, S) /\ Sum(f, S) = it[S]
  BY SumIsFold
<1>2. it[S] = f[Pick(S)] + it[S \ {Pick(S)}]
  BY <1>1, Zenon DEF SumUpTo
<1>3. Summable(f, S \ {Pick(S)})
  BY FS_RemoveElement DEF Summable
<1>4. it[S \ {Pick(S)}] = Sum(f, S \ {Pick(S)})
  <2>1. PICK T : T = S \ {Pick(S)}
    OBVIOUS
  <2>2. T \subseteq S /\ Summable(f, T)
    BY <1>3, <2>1
  <2>3. it[T] = Sum(f, T)
    BY <1>1, <2>2, FoldIsSum
  <2> QED  BY <2>1, <2>3
<1> QED
  BY <1>1, <1>2, <1>4

\* The order in which a sum is taken does not matter.
LEMMA SumRemove ==
    ASSUME NEW f, NEW S, Summable(f, S), NEW x \in S
    PROVE  Sum(f, S) = f[x] + Sum(f, S \ {x})
<1> DEFINE K == {T \in SUBSET S : \A y \in T : Sum(f, T) = f[y] + Sum(f, T \ {y})}
<1>0. \A T \in SUBSET S : Summable(f, T)
  BY FS_Subset DEF Summable
<1>1. ASSUME NEW T \in SUBSET S, \A U \in SUBSET T : U # T => U \in K
      PROVE  T \in K
  <2> SUFFICES ASSUME NEW y \in T PROVE Sum(f, T) = f[y] + Sum(f, T \ {y})
    OBVIOUS
  <2>1. PICK p : p = Pick(T)
    OBVIOUS
  <2>2. p \in T
    BY <2>1, PickIsIn
  <2>3. Sum(f, T) = f[p] + Sum(f, T \ {p})
    BY <1>0, <2>1, SumPick
  <2>4. CASE p = y
    BY <2>3, <2>4
  <2>5. CASE p # y
    <3>1. T \ {p} \in K /\ T \ {y} \in K
      BY <1>1, <2>2
    <3>2. y \in T \ {p} /\ p \in T \ {y}
      BY <2>2, <2>5
    <3>3. Sum(f, T \ {p}) = f[y] + Sum(f, (T \ {p}) \ {y})
      BY <3>1, <3>2
    <3>4. Sum(f, T \ {y}) = f[p] + Sum(f, (T \ {y}) \ {p})
      BY <3>1, <3>2
    <3>5. (T \ {p}) \ {y} = (T \ {y}) \ {p}
      OBVIOUS
    <3>6. PICK rest : rest = Sum(f, (T \ {y}) \ {p})
      OBVIOUS
    <3>7. rest \in Int
      <4>1. (T \ {y}) \ {p} \in SUBSET S
        OBVIOUS
      <4> QED  BY <1>0, <3>6, <4>1, SumInt
    <3>8. f[y] \in Int /\ f[p] \in Int
      BY <2>2 DEF Summable
    <3>9. Sum(f, T) = f[p] + (f[y] + rest) /\ Sum(f, T \ {y}) = f[p] + rest
      BY <2>3, <3>3, <3>4, <3>5, <3>6
    <3> QED  BY <3>7, <3>8, <3>9
  <2> QED  BY <2>4, <2>5
<1>2. SUBSET S \subseteq K
  <2>1. IsFiniteSet(S)
    BY DEF Summable
  <2> HIDE DEF K
  <2> QED  BY <1>1, <2>1, SubsetsByInduction
<1> QED
  BY <1>2

\* A new member adds its value.
LEMMA SumAdd ==
    ASSUME NEW f, NEW S, Summable(f, S), NEW x, x \notin S, f[x] \in Int
    PROVE  /\ Summable(f, S \cup {x})
           /\ Sum(f, S \cup {x}) = f[x] + Sum(f, S)
<1>1. Summable(f, S \cup {x})
  BY FS_AddElement DEF Summable
<1>2. PICK T : T = S \cup {x}
  OBVIOUS
<1>3. T \ {x} = S /\ x \in T
  BY <1>2
<1>4. Sum(f, T) = f[x] + Sum(f, T \ {x})
  BY <1>1, <1>2, <1>3, SumRemove
<1> QED
  BY <1>1, <1>2, <1>3, <1>4

\* Functions that agree on a set have the same sum over it.
LEMMA SumEqual ==
    ASSUME NEW f, NEW g, NEW S, Summable(f, S), \A x \in S : f[x] = g[x]
    PROVE  Sum(g, S) = Sum(f, S)
<1>1. Summable(g, S)
  BY DEF Summable
<1>2. PICK it \in [SUBSET S -> Int] : SumUpTo(it, g, S) /\ Sum(g, S) = it[S]
  BY <1>1, SumIsFold
<1>3. it[S] = Sum(f, S)
  BY <1>2, FoldIsSum
<1> QED
  BY <1>2, <1>3

\* One value changes, the others do not.
LEMMA SumChange ==
    ASSUME NEW f, NEW g, NEW S, Summable(f, S), NEW x \in S,
           g[x] \in Int, \A y \in S \ {x} : f[y] = g[y]
    PROVE  /\ Summable(g, S)
           /\ Sum(g, S) = Sum(f, S) - f[x] + g[x]
<1>1. Summable(g, S)
  BY DEF Summable
<1>2. Summable(f, S \ {x})
  BY FS_RemoveElement DEF Summable
<1>3. PICK rest : rest = Sum(f, S \ {x})
  OBVIOUS
<1>4. rest \in Int
  BY <1>2, <1>3, SumInt
<1>5. Sum(g, S \ {x}) = rest
  BY <1>2, <1>3, SumEqual
<1>6. Sum(f, S) = f[x] + rest /\ Sum(g, S) = g[x] + rest
  BY <1>1, <1>3, <1>5, SumRemove
<1>7. f[x] \in Int
  BY DEF Summable
<1> QED
  BY <1>1, <1>4, <1>6, <1>7

\* A sum of natural numbers is one, and no term exceeds it.
LEMMA SumNat ==
    ASSUME NEW f, NEW S, IsFiniteSet(S), \A x \in S : f[x] \in Nat
    PROVE  /\ Summable(f, S)
           /\ Sum(f, S) \in Nat
           /\ \A x \in S : f[x] <= Sum(f, S)
<1> DEFINE K == {T \in SUBSET S : Sum(f, T) \in Nat}
<1>0. \A T \in SUBSET S : Summable(f, T)
  BY FS_Subset DEF Summable
<1>1. ASSUME NEW T \in SUBSET S, \A U \in SUBSET T : U # T => U \in K
      PROVE  T \in K
  <2>1. CASE T = {}
    BY <2>1, SumEmpty
  <2>2. CASE T # {}
    <3>1. PICK y : y \in T
      BY <2>2
    <3>2. T \ {y} \in K
      BY <1>1, <3>1
    <3>3. Sum(f, T) = f[y] + Sum(f, T \ {y})
      BY <1>0, <3>1, SumRemove
    <3>4. f[y] \in Nat
      BY <3>1
    <3> QED  BY <3>2, <3>3, <3>4
  <2> QED  BY <2>1, <2>2
<1>2. SUBSET S \subseteq K
  <2> HIDE DEF K
  <2> QED  BY <1>1, SubsetsByInduction
<1>3. ASSUME NEW x \in S PROVE f[x] <= Sum(f, S)
  <2>1. S \ {x} \in K
    BY <1>2
  <2>2. Sum(f, S) = f[x] + Sum(f, S \ {x})
    BY <1>0, SumRemove
  <2> QED  BY <2>1, <2>2
<1> QED
  BY <1>0, <1>2, <1>3
=============================================================================
