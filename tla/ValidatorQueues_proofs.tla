------------------------ MODULE ValidatorQueues_proofs ------------------------
(***************************************************************************)
(* Proofs about the priority queues, for any validators, powers and places *)
(* in the active set: the maps of a queue stay inverse to each other, the  *)
(* heaps stay ordered, and the queues do to the sets of ValidatorSet what  *)
(* its procedures say.                                                     *)
(*                                                                         *)
(* A heap that is being repaired is in order but around one position, and  *)
(* AroundOrdered says so: below what is above that position comes what is  *)
(* below it. Every round of swim or sink moves the position by a level and *)
(* keeps this, whatever power stands at the position: the one of a         *)
(* validator that was appended, that took the place of a deleted one, or   *)
(* that was changed in place. The inductive invariant adds that no         *)
(* validator is in both queues, which is what keeps the maps inverse, and  *)
(* that none waits while there is room, without which insert would put an  *)
(* already waiting validator into the active queue as well.                *)
(***************************************************************************)
EXTENDS ValidatorQueues, Sums_proofs, SequenceTheorems

-----------------------------------------------------------------------------
(***************************************************************************)
(* A queue, its addresses and its positions.                               *)
(***************************************************************************)

\* A queue whose two maps are inverse to each other.
Proper(q) ==
    /\ q \in PQ
    /\ \A i \in 1..Size(q) : q.addressToPos[q.posToAddress[i]] = i
    /\ \A v \in Validator : Queued(q, v) => v \in In(q)

\* What the queue holds, seen from either map.
LEMMA Places ==
    ASSUME NEW q, Proper(q)
    PROVE  /\ Size(q) \in Nat
           /\ q.posToAddress \in Seq(Validator)
           /\ q.addressToPos \in [Validator -> Nat]
           /\ \A i \in 1..Size(q) :
                 q.posToAddress[i] \in Validator /\ q.addressToPos[q.posToAddress[i]] = i
           /\ \A v \in Validator :
                 Queued(q, v) => /\ q.addressToPos[v] \in 1..Size(q)
                                 /\ q.posToAddress[q.addressToPos[v]] = v
           /\ In(q) = {v \in Validator : Queued(q, v)}
<1>1. q.posToAddress \in Seq(Validator) /\ q.addressToPos \in [Validator -> Nat]
  BY DEF Proper, PQ
<1>2. Size(q) \in Nat /\ DOMAIN q.posToAddress = 1..Size(q)
  BY <1>1, LenProperties DEF Size
<1>3. \A i \in 1..Size(q) : q.posToAddress[i] \in Validator
  BY <1>1, <1>2, ElementOfSeq DEF Size
<1>4. \A i \in 1..Size(q) : q.addressToPos[q.posToAddress[i]] = i
  BY DEF Proper
<1>5. In(q) = {q.posToAddress[i] : i \in 1..Size(q)}
  BY <1>2 DEF In, ToSet
<1>6. \A v \in Validator : Queued(q, v) => \E i \in 1..Size(q) : v = q.posToAddress[i]
  BY <1>5 DEF Proper
<1>7. \A i \in 1..Size(q) : Queued(q, q.posToAddress[i])
  BY <1>2, <1>4 DEF Queued
<1> QED
  BY <1>1, <1>2, <1>3, <1>4, <1>5, <1>6, <1>7

\* A queue put together from two maps that are inverse to each other.
LEMMA MakeProper ==
    ASSUME NEW a \in Seq(Validator), NEW p \in [Validator -> Nat],
           \A i \in 1..Len(a) : p[a[i]] = i,
           \A v \in Validator : p[v] # 0 => p[v] \in 1..Len(a) /\ a[p[v]] = v
    PROVE  /\ Proper([posToAddress |-> a, addressToPos |-> p])
           /\ Size([posToAddress |-> a, addressToPos |-> p]) = Len(a)
<1>1. PICK q : q = [posToAddress |-> a, addressToPos |-> p]
  OBVIOUS
<1>2. q.posToAddress = a /\ q.addressToPos = p /\ q \in PQ
  BY <1>1 DEF PQ
<1>3. DOMAIN a = 1..Len(a)
  BY LenProperties
<1>4. \A v \in Validator : Queued(q, v) => v \in In(q)
  BY <1>2, <1>3 DEF Queued, In, ToSet
<1> QED
  BY <1>1, <1>2, <1>4 DEF Proper, Size

SameMembers(q, r) ==
    /\ Size(r) = Size(q)
    /\ \A v \in Validator : Queued(r, v) <=> Queued(q, v)

\* Exchanging two positions moves nobody else.
LEMMA ExchangeProper ==
    ASSUME NEW q, Proper(q), NEW i \in 1..Size(q), NEW j \in 1..Size(q)
    PROVE  /\ Proper(Exchange(q, i, j))
           /\ SameMembers(q, Exchange(q, i, j))
           /\ \A k \in 1..Size(q) :
                 Exchange(q, i, j).posToAddress[k] =
                     IF k = i THEN q.posToAddress[j]
                     ELSE IF k = j THEN q.posToAddress[i] ELSE q.posToAddress[k]
<1>1. PICK a, p, n : a = q.posToAddress /\ p = q.addressToPos /\ n = Size(q)
  OBVIOUS
<1>2. /\ n \in Nat /\ n = Len(a)
      /\ a \in Seq(Validator) /\ p \in [Validator -> Nat]
      /\ \A k \in 1..n : a[k] \in Validator /\ p[a[k]] = k
      /\ \A v \in Validator : p[v] # 0 => p[v] \in 1..n /\ a[p[v]] = v
  BY <1>1, Places DEF Queued, Size
<1>3. PICK b : b = [a EXCEPT ![j] = a[i], ![i] = a[j]]
  OBVIOUS
<1>4. /\ b \in Seq(Validator) /\ Len(b) = n
      /\ \A k \in 1..n : b[k] = IF k = i THEN a[j] ELSE IF k = j THEN a[i] ELSE a[k]
  <2>1. PICK c : c = [a EXCEPT ![j] = a[i]]
    OBVIOUS
  <2>2. /\ c \in Seq(Validator) /\ Len(c) = n
        /\ \A k \in 1..n : c[k] = IF k = j THEN a[i] ELSE a[k]
    BY <1>1, <1>2, <2>1, ExceptSeq
  <2>3. b = [c EXCEPT ![i] = a[j]]
    BY <1>3, <2>1
  <2>4. /\ b \in Seq(Validator) /\ Len(b) = n
        /\ \A k \in 1..n : b[k] = IF k = i THEN a[j] ELSE c[k]
    BY <1>1, <1>2, <2>2, <2>3, ExceptSeq
  <2> QED
    BY <2>2, <2>4
<1>5. PICK r : r = [p EXCEPT ![a[i]] = j, ![a[j]] = i]
  OBVIOUS
<1>6. /\ r \in [Validator -> Nat]
      /\ \A v \in Validator : r[v] = IF v = a[j] THEN i ELSE IF v = a[i] THEN j ELSE p[v]
  BY <1>1, <1>2, <1>5
<1>7. \A k \in 1..n : r[b[k]] = k
  <2> TAKE k \in 1..n
  <2>1. i \in 1..n /\ j \in 1..n
    BY <1>1
  <2>2. a[k] \in Validator /\ a[i] \in Validator /\ a[j] \in Validator
    BY <1>2, <2>1
  <2>3. p[a[k]] = k /\ p[a[i]] = i /\ p[a[j]] = j
    BY <1>2, <2>1
  <2>4. b[k] = IF k = i THEN a[j] ELSE IF k = j THEN a[i] ELSE a[k]
    BY <1>4
  <2>5. r[b[k]] = IF b[k] = a[j] THEN i ELSE IF b[k] = a[i] THEN j ELSE p[b[k]]
    BY <1>6, <2>2, <2>4
  <2> QED
    BY <2>3, <2>4, <2>5
<1>8. \A v \in Validator : r[v] # 0 => r[v] \in 1..n /\ b[r[v]] = v
  <2> TAKE v \in Validator
  <2>1. i \in 1..n /\ j \in 1..n
    BY <1>1
  <2>2. r[v] = IF v = a[j] THEN i ELSE IF v = a[i] THEN j ELSE p[v]
    BY <1>6
  <2>3. p[a[i]] = i /\ p[a[j]] = j
    BY <1>2, <2>1
  <2>4. CASE v = a[j]
    BY <1>4, <2>1, <2>2, <2>4
  <2>5. CASE v # a[j] /\ v = a[i]
    BY <1>4, <2>1, <2>2, <2>5
  <2>6. CASE v # a[j] /\ v # a[i]
    <3>1. r[v] = p[v]
      BY <2>2, <2>6
    <3>2. SUFFICES ASSUME p[v] # 0 PROVE p[v] \in 1..n /\ b[p[v]] = v
      BY <3>1
    <3>3. p[v] \in 1..n /\ a[p[v]] = v
      BY <1>2, <3>2
    <3>4. p[v] # i /\ p[v] # j
      BY <2>6, <3>3
    <3> QED
      BY <1>4, <3>3, <3>4
  <2> QED
    BY <2>4, <2>5, <2>6
<1>9. Exchange(q, i, j) = [posToAddress |-> b, addressToPos |-> r]
  BY <1>1, <1>3, <1>5 DEF Exchange
<1>10. Proper(Exchange(q, i, j)) /\ Size(Exchange(q, i, j)) = n
  BY <1>4, <1>6, <1>7, <1>8, <1>9, MakeProper
<1>11. \A v \in Validator : r[v] # 0 <=> p[v] # 0
  <2>1. i # 0 /\ j # 0 /\ p[a[i]] = i /\ p[a[j]] = j
    BY <1>1, <1>2
  <2> QED
    BY <1>6, <2>1
<1> QED
  BY <1>1, <1>4, <1>9, <1>10, <1>11 DEF SameMembers, Queued

\* The last one is dropped.
LEMMA DropLastProper ==
    ASSUME NEW q, Proper(q), Size(q) > 0
    PROVE  /\ Proper(DropLast(q))
           /\ Size(DropLast(q)) = Size(q) - 1
           /\ \A i \in 1..(Size(q) - 1) : DropLast(q).posToAddress[i] = q.posToAddress[i]
           /\ \A v \in Validator :
                 Queued(DropLast(q), v) <=> Queued(q, v) /\ v # q.posToAddress[Size(q)]
<1>1. PICK a, p, n : a = q.posToAddress /\ p = q.addressToPos /\ n = Size(q)
  OBVIOUS
<1>2. /\ n \in Nat \ {0} /\ n = Len(a)
      /\ a \in Seq(Validator) /\ p \in [Validator -> Nat]
      /\ \A k \in 1..n : a[k] \in Validator /\ p[a[k]] = k
      /\ \A v \in Validator : p[v] # 0 => p[v] \in 1..n /\ a[p[v]] = v
  BY <1>1, Places DEF Queued, Size
<1>3. PICK b : b = SubSeq(a, 1, n - 1)
  OBVIOUS
<1>4. b \in Seq(Validator) /\ Len(b) = n - 1 /\ \A k \in 1..(n - 1) : b[k] = a[k]
  <2>1. \A k \in 1..(n - 1) : a[k] \in Validator
    BY <1>2
  <2>2. 1 \in Int /\ n - 1 \in Int /\ (1 <= n - 1 \/ n - 1 = 0)
    BY <1>2
  <2>3. /\ b \in Seq(Validator)
        /\ Len(b) = IF 1 <= n - 1 THEN (n - 1) - 1 + 1 ELSE 0
        /\ \A k \in 1..((n - 1) - 1 + 1) : b[k] = a[1 + k - 1]
    BY <1>3, <2>1, <2>2, SubSeqProperties
  <2>4. Len(b) = n - 1
    BY <1>2, <2>2, <2>3
  <2>5. \A k \in 1..(n - 1) : b[k] = a[k]
    BY <1>2, <2>3
  <2> QED
    BY <2>3, <2>4, <2>5
<1>5. PICK r : r = [p EXCEPT ![a[n]] = 0]
  OBVIOUS
<1>6. /\ r \in [Validator -> Nat]
      /\ \A v \in Validator : r[v] = IF v = a[n] THEN 0 ELSE p[v]
  BY <1>2, <1>5
<1>7. \A k \in 1..(n - 1) : r[b[k]] = k
  <2> TAKE k \in 1..(n - 1)
  <2>1. k \in 1..n /\ n \in 1..n /\ k # n
    BY <1>2
  <2>2. a[k] \in Validator /\ p[a[k]] = k /\ p[a[n]] = n
    BY <1>2, <2>1
  <2>3. b[k] = a[k]
    BY <1>4
  <2> QED
    BY <1>6, <2>1, <2>2, <2>3
<1>8. \A v \in Validator : r[v] # 0 => r[v] \in 1..(n - 1) /\ b[r[v]] = v
  <2> SUFFICES ASSUME NEW v \in Validator, r[v] # 0
               PROVE  r[v] \in 1..(n - 1) /\ b[r[v]] = v
    OBVIOUS
  <2>1. v # a[n] /\ r[v] = p[v]
    BY <1>6
  <2>2. p[v] \in 1..n /\ a[p[v]] = v
    BY <1>2, <2>1
  <2>3. p[v] \in 1..(n - 1)
    BY <1>2, <2>1, <2>2
  <2> QED
    BY <1>4, <2>1, <2>2, <2>3
<1>9. DropLast(q) = [posToAddress |-> b, addressToPos |-> r]
  BY <1>1, <1>2, <1>3, <1>5 DEF DropLast, Front, Last
<1>10. Proper(DropLast(q)) /\ Size(DropLast(q)) = n - 1
  BY <1>4, <1>6, <1>7, <1>8, <1>9, MakeProper
<1>11. \A v \in Validator : r[v] # 0 <=> p[v] # 0 /\ v # a[n]
  BY <1>6
<1> QED
  BY <1>1, <1>4, <1>9, <1>10, <1>11 DEF Queued

Appended(q, v) ==
    [posToAddress |-> Append(q.posToAddress, v),
     addressToPos |-> [q.addressToPos EXCEPT ![v] = Size(q) + 1]]

\* A new one is put last.
LEMMA AppendProper ==
    ASSUME NEW q, Proper(q), NEW v \in Validator, ~Queued(q, v), NEW r, r = Appended(q, v)
    PROVE  /\ Proper(r)
           /\ Size(r) = Size(q) + 1
           /\ r.posToAddress[Size(q) + 1] = v
           /\ \A i \in 1..Size(q) : r.posToAddress[i] = q.posToAddress[i]
           /\ \A u \in Validator : Queued(r, u) <=> Queued(q, u) \/ u = v
<1>1. PICK a, p, n : a = q.posToAddress /\ p = q.addressToPos /\ n = Size(q)
  OBVIOUS
<1>2. /\ n \in Nat /\ n = Len(a)
      /\ a \in Seq(Validator) /\ p \in [Validator -> Nat]
      /\ \A k \in 1..n : a[k] \in Validator /\ p[a[k]] = k
      /\ \A u \in Validator : p[u] # 0 => p[u] \in 1..n /\ a[p[u]] = u
      /\ p[v] = 0
  BY <1>1, Places DEF Queued, Size
<1>3. PICK b, s : b = Append(a, v) /\ s = [p EXCEPT ![v] = n + 1]
  OBVIOUS
<1>4. /\ b \in Seq(Validator) /\ Len(b) = n + 1 /\ b[n + 1] = v
      /\ \A k \in 1..n : b[k] = a[k]
  BY <1>2, <1>3, AppendProperties
<1>5. /\ s \in [Validator -> Nat]
      /\ \A u \in Validator : s[u] = IF u = v THEN n + 1 ELSE p[u]
  BY <1>2, <1>3
<1>6. \A k \in 1..(n + 1) : s[b[k]] = k
  <2> TAKE k \in 1..(n + 1)
  <2>1. CASE k = n + 1
    BY <1>4, <1>5, <2>1
  <2>2. CASE k \in 1..n
    <3>1. a[k] \in Validator /\ p[a[k]] = k /\ b[k] = a[k]
      BY <1>2, <1>4, <2>2
    <3>2. a[k] # v
      BY <1>2, <2>2, <3>1
    <3> QED
      BY <1>5, <3>1, <3>2
  <2> QED
    BY <1>2, <2>1, <2>2
<1>7. \A u \in Validator : s[u] # 0 => s[u] \in 1..(n + 1) /\ b[s[u]] = u
  <2> SUFFICES ASSUME NEW u \in Validator, s[u] # 0
               PROVE  s[u] \in 1..(n + 1) /\ b[s[u]] = u
    OBVIOUS
  <2>1. CASE u = v
    BY <1>2, <1>4, <1>5, <2>1
  <2>2. CASE u # v
    <3>1. s[u] = p[u]
      BY <1>5, <2>2
    <3>2. p[u] \in 1..n /\ a[p[u]] = u
      BY <1>2, <3>1
    <3> QED
      BY <1>2, <1>4, <3>1, <3>2
  <2> QED
    BY <2>1, <2>2
<1>8. r = [posToAddress |-> b, addressToPos |-> s]
  BY <1>1, <1>3 DEF Appended
<1>9. Proper(r) /\ Size(r) = n + 1
  <2>1. \A k \in 1..Len(b) : s[b[k]] = k
    BY <1>4, <1>6
  <2>2. \A u \in Validator : s[u] # 0 => s[u] \in 1..Len(b) /\ b[s[u]] = u
    BY <1>4, <1>7
  <2>3. b \in Seq(Validator) /\ s \in [Validator -> Nat]
    BY <1>4, <1>5
  <2>4. /\ Proper([posToAddress |-> b, addressToPos |-> s])
        /\ Size([posToAddress |-> b, addressToPos |-> s]) = Len(b)
    BY ONLY <2>1, <2>2, <2>3, MakeProper
  <2> QED
    BY <1>4, <1>8, <2>4
<1>10. \A u \in Validator : s[u] # 0 <=> p[u] # 0 \/ u = v
  BY <1>2, <1>5
<1>11. r.posToAddress = b /\ r.addressToPos = s
  BY <1>8
<1>12. \A u \in Validator : Queued(r, u) <=> Queued(q, u) \/ u = v
  BY <1>1, <1>10, <1>11 DEF Queued
<1> QED
  BY <1>1, <1>4, <1>9, <1>11, <1>12

-----------------------------------------------------------------------------
(***************************************************************************)
(* Heaps of numbers with one place out of order: f[i] is the key at i.     *)
(***************************************************************************)

\* The positions above and below.
LEMMA Halves ==
    ASSUME NEW i \in Nat, i > 1
    PROVE  /\ i \div 2 \in Nat
           /\ i \div 2 >= 1
           /\ i \div 2 < i
           /\ i = 2 * (i \div 2) \/ i = 2 * (i \div 2) + 1
OBVIOUS

Ordered(f, i) == f[i \div 2] <= f[i]

\* The places around pos are in order, whatever is at pos.
AroundOrdered(f, n, pos) ==
    /\ \A i \in 2..n : i # pos /\ i \div 2 # pos => Ordered(f, i)
    /\ pos > 1 => \A i \in 2..n : i \div 2 = pos => f[pos \div 2] <= f[i]

NotTooLarge(f, n, pos) == \A i \in 2..n : i \div 2 = pos => Ordered(f, i)
NotTooSmall(f, pos) == pos > 1 => Ordered(f, pos)

IsHeap(f, n) == \A i \in 2..n : Ordered(f, i)

\* A heap is in order around every place.
LEMMA HeapAround ==
    ASSUME NEW n \in Nat, NEW f \in [1..n -> Int], IsHeap(f, n), NEW pos \in 1..n
    PROVE  AroundOrdered(f, n, pos) /\ NotTooLarge(f, n, pos) /\ NotTooSmall(f, pos)
<1>1. \A i \in 2..n : i \div 2 = pos /\ pos > 1 => f[pos \div 2] <= f[i]
  <2> SUFFICES ASSUME NEW i \in 2..n, i \div 2 = pos, pos > 1 PROVE f[pos \div 2] <= f[i]
    OBVIOUS
  <2>1. f[pos \div 2] <= f[pos] /\ f[pos] <= f[i]
    BY DEF IsHeap, Ordered
  <2>2. pos \div 2 \in 1..n
    BY Halves
  <2> QED
    BY <2>1, <2>2
<1> QED
  BY <1>1 DEF AroundOrdered, NotTooLarge, NotTooSmall, IsHeap

\* A heap but around a place, where the key is neither too large nor too small.
LEMMA AroundIsHeap ==
    ASSUME NEW n \in Nat, NEW f, NEW pos \in 1..n,
           AroundOrdered(f, n, pos), NotTooLarge(f, n, pos), NotTooSmall(f, pos)
    PROVE  IsHeap(f, n)
BY DEF AroundOrdered, NotTooLarge, NotTooSmall, IsHeap

Exchanged(f, g, i, j) ==
    /\ g[i] = f[j] /\ g[j] = f[i]
    /\ \A k \in DOMAIN f : k # i /\ k # j => g[k] = f[k]

\* One level up.
LEMMA RoundUp ==
    ASSUME NEW n \in Nat, NEW f \in [1..n -> Int], NEW g \in [1..n -> Int], NEW pos \in 2..n,
           AroundOrdered(f, n, pos), NotTooLarge(f, n, pos),
           f[pos \div 2] > f[pos], Exchanged(f, g, pos \div 2, pos)
    PROVE  AroundOrdered(g, n, pos \div 2) /\ NotTooLarge(g, n, pos \div 2)
<1>1. PICK up : up = pos \div 2
  OBVIOUS
<1>2. up \in 1..n /\ up < pos
  BY <1>1, Halves
<1>3. g[up] = f[pos] /\ g[pos] = f[up] /\ \A k \in 1..n : k # up /\ k # pos => g[k] = f[k]
  BY <1>1 DEF Exchanged
<1>4. \A i \in 2..n : i \div 2 \in 1..n /\ i \div 2 < i
  BY Halves
<1>5. \A i \in 2..n : i # pos /\ i \div 2 # pos => f[i \div 2] <= f[i]
  BY DEF AroundOrdered, Ordered
<1>6. \A i \in 2..n : i \div 2 = pos => f[up] <= f[i]
  BY <1>1 DEF AroundOrdered
<1>7. f[up] > f[pos]
  BY <1>1
<1>8. \A i \in 2..n : i \div 2 = up => f[pos] <= g[i] /\ f[up] <= g[i]
  <2> SUFFICES ASSUME NEW i \in 2..n, i \div 2 = up PROVE f[pos] <= g[i] /\ f[up] <= g[i]
    OBVIOUS
  <2>1. CASE i = pos
    BY <1>2, <1>3, <1>7, <2>1
  <2>2. CASE i # pos
    <3>1. i # up /\ i \div 2 # pos
      BY <1>2, <1>4
    <3>2. f[up] <= f[i]
      BY <1>5, <2>2, <3>1
    <3>3. g[i] = f[i]
      BY <1>3, <2>2, <3>1
    <3> QED
      BY <1>2, <1>7, <3>2, <3>3
  <2> QED
    BY <2>1, <2>2
<1>9. NotTooLarge(g, n, up)
  BY <1>3, <1>8 DEF NotTooLarge, Ordered
<1>10. \A i \in 2..n : i # up /\ i \div 2 # up => g[i \div 2] <= g[i]
  <2> SUFFICES ASSUME NEW i \in 2..n, i # up, i \div 2 # up PROVE g[i \div 2] <= g[i]
    OBVIOUS
  <2>0. i # pos /\ g[i] = f[i]
    BY <1>1, <1>3
  <2>1. CASE i \div 2 = pos
    <3>1. f[up] <= f[i]
      BY <1>6, <2>1
    <3> QED
      BY <1>3, <2>0, <2>1, <3>1
  <2>2. CASE i \div 2 # pos
    <3>1. g[i \div 2] = f[i \div 2]
      BY <1>3, <1>4, <2>2
    <3>2. f[i \div 2] <= f[i]
      BY <1>5, <2>0, <2>2
    <3> QED
      BY <2>0, <3>1, <3>2
  <2> QED
    BY <2>1, <2>2
<1>11. up > 1 => \A i \in 2..n : i \div 2 = up => g[up \div 2] <= g[i]
  <2> SUFFICES ASSUME up > 1, NEW i \in 2..n, i \div 2 = up PROVE g[up \div 2] <= g[i]
    OBVIOUS
  <2>1. up \in 2..n /\ up \div 2 \in 1..n /\ up \div 2 < up
    BY <1>2, <1>4
  <2>2. f[up \div 2] <= f[up]
    <3>1. up # pos /\ up \div 2 # pos
      BY <1>2, <2>1
    <3> QED
      BY <1>5, <2>1, <3>1
  <2>3. g[up \div 2] = f[up \div 2]
    BY <1>2, <1>3, <2>1
  <2>4. f[up] <= g[i]
    BY <1>8
  <2> QED
    BY <1>2, <2>1, <2>2, <2>3, <2>4
<1> QED
  BY <1>1, <1>9, <1>10, <1>11 DEF AroundOrdered, Ordered

LeastChild(f, n, pos, child) ==
    child \div 2 = pos /\ \A i \in 2..n : i \div 2 = pos => f[child] <= f[i]

\* One level down, to the smaller child.
LEMMA RoundDown ==
    ASSUME NEW n \in Nat, NEW f \in [1..n -> Int], NEW g \in [1..n -> Int],
           NEW pos \in 1..n, NEW child \in 2..n, LeastChild(f, n, pos, child),
           AroundOrdered(f, n, pos), NotTooSmall(f, pos),
           f[pos] > f[child], Exchanged(f, g, child, pos)
    PROVE  AroundOrdered(g, n, child) /\ NotTooSmall(g, child)
<1>0. child \div 2 = pos /\ \A i \in 2..n : i \div 2 = pos => f[child] <= f[i]
  BY DEF LeastChild
<1>1. g[child] = f[pos] /\ g[pos] = f[child] /\ \A k \in 1..n : k # child /\ k # pos => g[k] = f[k]
  BY DEF Exchanged
<1>2. pos < child
  BY <1>0, Halves
<1>3. \A i \in 2..n : i \div 2 \in 1..n /\ i \div 2 < i
  BY Halves
<1>4. \A i \in 2..n : i # pos /\ i \div 2 # pos => f[i \div 2] <= f[i]
  BY DEF AroundOrdered, Ordered
<1>5. NotTooSmall(g, child)
  BY <1>0, <1>1 DEF NotTooSmall, Ordered
<1>6. \A i \in 2..n : i # child /\ i \div 2 # child => g[i \div 2] <= g[i]
  <2> SUFFICES ASSUME NEW i \in 2..n, i # child, i \div 2 # child PROVE g[i \div 2] <= g[i]
    OBVIOUS
  <2>1. CASE i \div 2 = pos
    <3>1. i # pos /\ g[i] = f[i]
      BY <1>1, <1>3, <2>1
    <3>2. f[child] <= f[i]
      BY <1>0, <2>1
    <3> QED
      BY <1>1, <2>1, <3>1, <3>2
  <2>2. CASE i = pos
    <3>1. pos > 1 /\ g[pos \div 2] = f[pos \div 2]
      BY <1>1, <1>2, <1>3, <2>2
    <3>2. f[pos \div 2] <= f[child]
      BY <1>0, <3>1 DEF AroundOrdered
    <3> QED
      BY <1>1, <2>2, <3>1, <3>2
  <2>3. CASE i # pos /\ i \div 2 # pos
    <3>1. g[i] = f[i]
      BY <1>1, <2>3
    <3>2. g[i \div 2] = f[i \div 2]
      BY <1>1, <1>3, <2>3
    <3>3. f[i \div 2] <= f[i]
      BY <1>4, <2>3
    <3> QED
      BY <3>1, <3>2, <3>3
  <2> QED
    BY <2>1, <2>2, <2>3
<1>7. \A i \in 2..n : i \div 2 = child => g[pos] <= g[i]
  <2> SUFFICES ASSUME NEW i \in 2..n, i \div 2 = child PROVE g[pos] <= g[i]
    OBVIOUS
  <2>1. i # pos /\ i # child /\ i \div 2 # pos
    BY <1>0, <1>2, <1>3
  <2>2. f[child] <= f[i]
    BY <1>4, <2>1
  <2> QED
    BY <1>1, <2>1, <2>2
<1> QED
  BY <1>0, <1>5, <1>6, <1>7 DEF AroundOrdered, Ordered

\* Nothing in a heap is below its top.
LEMMA TopIsLeast ==
    ASSUME NEW n \in Nat, NEW f \in [1..n -> Int], IsHeap(f, n)
    PROVE  \A i \in 1..n : f[1] <= f[i]
<1> DEFINE K == {k \in Nat : \A i \in 1..n : i <= k => f[1] <= f[i]}
<1>1. 0 \in K
  OBVIOUS
<1>2. \A k \in Nat : k \in K => k + 1 \in K
  <2> SUFFICES ASSUME NEW k \in Nat, k \in K, NEW i \in 1..n, i <= k + 1
               PROVE  f[1] <= f[i]
    OBVIOUS
  <2>1. CASE i = 1
    BY <2>1
  <2>2. CASE i # 1
    <3>1. i \in 2..n /\ i \div 2 \in 1..n /\ i \div 2 <= k
      BY <2>2, Halves
    <3>2. f[1] <= f[i \div 2] /\ f[i \div 2] <= f[i]
      BY <3>1 DEF IsHeap, Ordered
    <3> QED
      BY <3>1, <3>2
  <2> QED
    BY <2>1, <2>2
<1> HIDE DEF K
<1>3. Nat \subseteq K
  BY <1>1, <1>2, NumbersByInduction
<1>4. n \in K
  BY <1>3
<1> QED
  BY <1>4 DEF K

-----------------------------------------------------------------------------
(***************************************************************************)
(* Swim and sink: a loop is a function from the number of its rounds. Each *)
(* round that does something moves the place out of order by a level, so   *)
(* that the loop has ended after as many rounds as there are positions.    *)
(***************************************************************************)
Keys(q, key) == [i \in 1..Size(q) |-> KeyAt(q, key, i)]

\* The keys of a queue, by position.
LEMMA KeysType ==
    ASSUME NEW q, Proper(q), NEW key \in [Validator -> Int]
    PROVE  Keys(q, key) \in [1..Size(q) -> Int]
BY Places DEF Keys, KeyAt

\* Exchanging positions exchanges their keys.
LEMMA ExchangeKeys ==
    ASSUME NEW q, Proper(q), NEW key \in [Validator -> Int],
           NEW i \in 1..Size(q), NEW j \in 1..Size(q)
    PROVE  /\ Keys(Exchange(q, i, j), key) \in [1..Size(q) -> Int]
           /\ Exchanged(Keys(q, key), Keys(Exchange(q, i, j), key), i, j)
<1>1. PICK r : r = Exchange(q, i, j)
  OBVIOUS
<1>2. /\ Proper(r) /\ Size(r) = Size(q)
      /\ \A k \in 1..Size(q) :
            r.posToAddress[k] = IF k = i THEN q.posToAddress[j]
                                ELSE IF k = j THEN q.posToAddress[i] ELSE q.posToAddress[k]
  BY <1>1, ExchangeProper DEF SameMembers
<1>3. Keys(r, key) \in [1..Size(q) -> Int]
  BY <1>2, KeysType
<1>4. \A k \in 1..Size(q) : /\ Keys(r, key)[k] = key[r.posToAddress[k]]
                            /\ Keys(q, key)[k] = key[q.posToAddress[k]]
  BY <1>2 DEF Keys, KeyAt
<1>5. Exchanged(Keys(q, key), Keys(r, key), i, j)
  <2>1. /\ Keys(r, key)[i] = Keys(q, key)[j]
        /\ Keys(r, key)[j] = Keys(q, key)[i]
    BY <1>2, <1>4
  <2>2. \A k \in 1..Size(q) : k # i /\ k # j => Keys(r, key)[k] = Keys(q, key)[k]
    BY <1>2, <1>4
  <2>3. DOMAIN Keys(q, key) = 1..Size(q)
    BY DEF Keys
  <2> QED
    BY <2>1, <2>2, <2>3 DEF Exchanged
<1> QED
  BY <1>1, <1>3, <1>5

\* What the loop of swim keeps: all is in order but, perhaps, above the position.
SwimState(q, key, s) ==
    /\ Proper(s.queue)
    /\ SameMembers(q, s.queue)
    /\ s.pos \in 1..Size(q)
    /\ AroundOrdered(Keys(s.queue, key), Size(q), s.pos)
    /\ NotTooLarge(Keys(s.queue, key), Size(q), s.pos)

SwimEnded(key, s) == NotTooSmall(Keys(s.queue, key), s.pos)

\* A round of swim moves up, or there is nothing left to do.
LEMMA SwimRoundKeeps ==
    ASSUME NEW q, NEW key \in [Validator -> Int], NEW s, SwimState(q, key, s)
    PROVE  /\ SwimState(q, key, SwimRound(s, key))
           /\ SwimEnded(key, s) => SwimRound(s, key) = s
           /\ ~SwimEnded(key, s) => SwimRound(s, key).pos < s.pos
<1>1. PICK r, pos, n : r = s.queue /\ pos = s.pos /\ n = Size(q)
  OBVIOUS
<1>2. PICK f : f = Keys(r, key)
  OBVIOUS
<1>3. /\ Proper(r) /\ SameMembers(q, r) /\ Size(r) = n /\ n \in Nat /\ pos \in 1..n
      /\ AroundOrdered(f, n, pos) /\ NotTooLarge(f, n, pos)
  BY <1>1, <1>2, Places DEF SwimState, SameMembers
<1>4. f \in [1..n -> Int]
  BY <1>2, <1>3, KeysType
<1>5. SwimEnded(key, s) <=> NotTooSmall(f, pos)
  BY <1>1, <1>2 DEF SwimEnded
<1>6. pos > 1 => pos \div 2 \in 1..n /\ pos \div 2 < pos
  BY <1>3, Halves
<1>7. pos > 1 => KeyAt(r, key, pos \div 2) = f[pos \div 2] /\ KeyAt(r, key, pos) = f[pos]
  BY <1>2, <1>3, <1>6 DEF Keys
<1>8. CASE SwimEnded(key, s)
  <2>1. ~(pos > 1 /\ KeyAt(r, key, pos \div 2) > KeyAt(r, key, pos))
    BY <1>3, <1>4, <1>5, <1>6, <1>7, <1>8 DEF NotTooSmall, Ordered
  <2>2. SwimRound(s, key) = s
    BY <1>1, <2>1 DEF SwimRound
  <2> QED
    BY <1>8, <2>2
<1>9. CASE ~SwimEnded(key, s)
  <2>1. pos > 1 /\ f[pos \div 2] > f[pos]
    BY <1>3, <1>4, <1>5, <1>6, <1>9 DEF NotTooSmall, Ordered
  <2>2. SwimRound(s, key) = [queue |-> Exchange(r, pos \div 2, pos), pos |-> pos \div 2]
    BY <1>1, <1>7, <2>1 DEF SwimRound
  <2>3. PICK t : t = Exchange(r, pos \div 2, pos)
    OBVIOUS
  <2>4. Proper(t) /\ SameMembers(r, t)
    BY <1>3, <1>6, <2>1, <2>3, ExchangeProper
  <2>5. /\ Keys(t, key) \in [1..n -> Int]
        /\ Exchanged(f, Keys(t, key), pos \div 2, pos)
    BY <1>2, <1>3, <1>6, <2>1, <2>3, ExchangeKeys
  <2>6. pos \in 2..n
    BY <1>3, <2>1
  <2>7. /\ AroundOrdered(Keys(t, key), n, pos \div 2)
        /\ NotTooLarge(Keys(t, key), n, pos \div 2)
    BY <1>3, <1>4, <2>1, <2>5, <2>6, RoundUp
  <2>8. SameMembers(q, t)
    BY <1>3, <2>4 DEF SameMembers
  <2>9. SwimState(q, key, [queue |-> t, pos |-> pos \div 2])
    BY <1>1, <1>6, <2>1, <2>4, <2>7, <2>8 DEF SwimState
  <2> QED
    BY <1>1, <1>6, <1>9, <2>1, <2>2, <2>3, <2>9
<1> QED
  BY <1>8, <1>9

\* The loop of swim, round by round.
LEMMA SwimIsLoop ==
    ASSUME NEW q, Size(q) \in Nat, NEW key, NEW pos
    PROVE  \E f : /\ f[0] = [queue |-> q, pos |-> pos]
                  /\ \A k \in 1..Size(q) : f[k] = SwimRound(f[k - 1], key)
                  /\ Swim(q, key, pos) = f[Size(q)].queue
<1> DEFINE Start == [queue |-> q, pos |-> pos]
           Upto(f, m) == f = [n \in 0..m |-> IF n = 0 THEN Start ELSE SwimRound(f[n - 1], key)]
           K == {m \in Nat : \E f : Upto(f, m)}
<1>1. 0 \in K
  <2>1. Upto([n \in 0..0 |-> Start], 0)
    OBVIOUS
  <2> QED
    BY <2>1
<1>2. \A m \in Nat : m \in K => m + 1 \in K
  <2> SUFFICES ASSUME NEW m \in Nat, m \in K PROVE m + 1 \in K
    OBVIOUS
  <2>1. PICK f : Upto(f, m)
    OBVIOUS
  <2>2. PICK next : next = SwimRound(f[m], key)
    OBVIOUS
  <2>3. PICK longer : longer = [n \in 0..(m + 1) |-> IF n = m + 1 THEN next ELSE f[n]]
    OBVIOUS
  <2>4. m \in Nat
    OBVIOUS
  <2>5. \A n \in 0..(m + 1) : longer[n] = IF n = 0 THEN Start ELSE SwimRound(longer[n - 1], key)
    <3> TAKE n \in 0..(m + 1)
    <3>1. CASE n = m + 1
      BY <2>2, <2>3, <2>4, <3>1
    <3>2. CASE n \in 0..m
      <4>1. longer[n] = f[n] /\ (n # 0 => longer[n - 1] = f[n - 1])
        BY <2>3, <2>4, <3>2
      <4>2. f[n] = IF n = 0 THEN Start ELSE SwimRound(f[n - 1], key)
        BY <2>1, <3>2
      <4> QED
        BY <4>1, <4>2
    <3> QED
      BY <2>4, <3>1, <3>2
  <2>6. Upto(longer, m + 1)
    BY <2>3, <2>5
  <2>7. \E other : Upto(other, m + 1)
    BY <2>6
  <2> HIDE DEF Upto
  <2> QED
    BY <2>4, <2>7
<1>3. Nat \subseteq K
  <2> HIDE DEF K
  <2> QED
    BY <1>1, <1>2, NumbersByInduction
<1>4. \E f : Upto(f, Size(q))
  BY <1>3
<1>5. PICK f : f = CHOOSE g : Upto(g, Size(q))
  OBVIOUS
<1>6. Upto(f, Size(q))
  <2> HIDE DEF Upto
  <2> QED
    BY <1>4, <1>5
<1>7. Swim(q, key, pos) = f[Size(q)].queue
  BY <1>5, Zenon DEF Swim
<1>8. /\ f[0] = Start
      /\ \A k \in 1..Size(q) : f[k] = SwimRound(f[k - 1], key)
  <2>1. \A n \in 0..Size(q) : f[n] = IF n = 0 THEN Start ELSE SwimRound(f[n - 1], key)
    BY <1>6
  <2> HIDE DEF Start
  <2> QED
    BY <2>1
<1> QED
  BY <1>7, <1>8

\* A position whose key is perhaps too small swims to its place.
LEMMA SwimHeap ==
    ASSUME NEW q, Proper(q), NEW key \in [Validator -> Int], NEW pos \in 1..Size(q),
           AroundOrdered(Keys(q, key), Size(q), pos), NotTooLarge(Keys(q, key), Size(q), pos)
    PROVE  /\ Proper(Swim(q, key, pos))
           /\ SameMembers(q, Swim(q, key, pos))
           /\ IsHeap(Keys(Swim(q, key, pos), key), Size(q))
<1>1. PICK n : n = Size(q)
  OBVIOUS
<1>2. n \in Nat
  BY <1>1, Places
<1>3. PICK f : /\ f[0] = [queue |-> q, pos |-> pos]
               /\ \A k \in 1..n : f[k] = SwimRound(f[k - 1], key)
               /\ Swim(q, key, pos) = f[n].queue
  BY <1>1, <1>2, SwimIsLoop
<1> DEFINE After(k) == /\ SwimState(q, key, f[k])
                       /\ SwimEnded(key, f[k]) \/ f[k].pos <= n - k
           K == {k \in Nat : k <= n => After(k)}
<1>4. 0 \in K
  <2>1. SwimState(q, key, f[0])
    BY <1>3 DEF SwimState, SameMembers
  <2>2. f[0].pos <= n - 0
    BY <1>1, <1>2, <1>3
  <2> QED
    BY <2>1, <2>2
<1>5. \A k \in Nat : k \in K => k + 1 \in K
  <2> SUFFICES ASSUME NEW k \in Nat, k \in K, k + 1 <= n PROVE After(k + 1)
    OBVIOUS
  <2>1. /\ SwimState(q, key, f[k])
        /\ SwimEnded(key, f[k]) \/ f[k].pos <= n - k
    BY <1>2
  <2>2. PICK s, t : s = f[k] /\ t = f[k + 1]
    OBVIOUS
  <2>3. t = SwimRound(s, key)
    BY <1>2, <1>3, <2>2
  <2>4. /\ SwimState(q, key, t)
        /\ SwimEnded(key, s) => t = s
        /\ ~SwimEnded(key, s) => t.pos < s.pos
    BY <2>1, <2>2, <2>3, SwimRoundKeeps
  <2>5. s.pos \in Nat /\ t.pos \in Nat
    BY <2>1, <2>2, <2>4 DEF SwimState
  <2>6. SwimEnded(key, t) \/ t.pos <= n - (k + 1)
    BY <1>2, <2>1, <2>2, <2>4, <2>5
  <2> QED
    BY <2>2, <2>4, <2>6
<1>6. Nat \subseteq K
  <2> HIDE DEF K
  <2> QED
    BY <1>4, <1>5, NumbersByInduction
<1>7. After(n)
  BY <1>2, <1>6
<1>8. SwimState(q, key, f[n]) /\ SwimEnded(key, f[n])
  <2>1. f[n].pos \in 1..n
    BY <1>1, <1>7 DEF SwimState
  <2> QED
    BY <1>2, <1>7, <2>1
<1>9. PICK r, p : r = f[n].queue /\ p = f[n].pos
  OBVIOUS
<1>10. /\ Proper(r) /\ SameMembers(q, r) /\ p \in 1..n
       /\ AroundOrdered(Keys(r, key), n, p) /\ NotTooLarge(Keys(r, key), n, p)
       /\ NotTooSmall(Keys(r, key), p)
  BY <1>1, <1>8, <1>9 DEF SwimState, SwimEnded
<1>11. IsHeap(Keys(r, key), n)
  BY <1>2, <1>10, AroundIsHeap
<1> QED
  BY <1>1, <1>3, <1>9, <1>10, <1>11

\* A position whose key is not too small stays.
LEMMA SwimStays ==
    ASSUME NEW q, Proper(q), NEW key \in [Validator -> Int], NEW pos \in 1..Size(q),
           NotTooSmall(Keys(q, key), pos)
    PROVE  Swim(q, key, pos) = q
<1>1. PICK n : n = Size(q)
  OBVIOUS
<1>2. n \in Nat
  BY <1>1, Places
<1>3. PICK f : /\ f[0] = [queue |-> q, pos |-> pos]
               /\ \A k \in 1..n : f[k] = SwimRound(f[k - 1], key)
               /\ Swim(q, key, pos) = f[n].queue
  BY <1>1, <1>2, SwimIsLoop
<1>4. SwimRound([queue |-> q, pos |-> pos], key) = [queue |-> q, pos |-> pos]
  <2>1. pos > 1 => pos \div 2 \in 1..n /\ pos \in 1..n
    BY <1>1, <1>2, Halves
  <2>2. PICK g : g = Keys(q, key)
    OBVIOUS
  <2>3. g \in [1..n -> Int] /\ (pos > 1 => g[pos \div 2] <= g[pos])
    BY <1>1, <2>2, KeysType DEF NotTooSmall, Ordered
  <2>4. pos > 1 => KeyAt(q, key, pos \div 2) = g[pos \div 2] /\ KeyAt(q, key, pos) = g[pos]
    BY <1>1, <2>1, <2>2 DEF Keys
  <2>5. ~(pos > 1 /\ KeyAt(q, key, pos \div 2) > KeyAt(q, key, pos))
    BY <2>1, <2>3, <2>4
  <2> QED
    BY <2>5 DEF SwimRound
<1> DEFINE K == {k \in Nat : k <= n => f[k] = f[0]}
<1>5. 0 \in K
  OBVIOUS
<1>6. \A k \in Nat : k \in K => k + 1 \in K
  <2> SUFFICES ASSUME NEW k \in Nat, k \in K, k + 1 <= n PROVE f[k + 1] = f[0]
    OBVIOUS
  <2>1. f[k + 1] = SwimRound(f[k], key)
    BY <1>2, <1>3
  <2>2. f[k] = f[0]
    BY <1>2
  <2> QED
    BY <1>3, <1>4, <2>1, <2>2
<1>7. Nat \subseteq K
  <2> HIDE DEF K
  <2> QED
    BY <1>5, <1>6, NumbersByInduction
<1>8. f[n] = f[0]
  BY <1>2, <1>7
<1> QED
  BY <1>3, <1>8

\* What the loop of sink keeps: all is in order but, perhaps, below the position.
SinkState(q, key, s) ==
    /\ Proper(s.queue)
    /\ SameMembers(q, s.queue)
    /\ s.pos \in 1..Size(q)
    /\ AroundOrdered(Keys(s.queue, key), Size(q), s.pos)
    /\ NotTooSmall(Keys(s.queue, key), s.pos)

SinkEnded(q, key, s) == NotTooLarge(Keys(s.queue, key), Size(q), s.pos)

\* The child that sink looks at is one, and none is smaller.
LEMMA SmallerChild ==
    ASSUME NEW q, Proper(q), NEW key \in [Validator -> Int], NEW pos \in 1..Size(q),
           2 * pos <= Size(q)
    PROVE  /\ SmallerPosition(q, key, 2 * pos) \in 2..Size(q)
           /\ SmallerPosition(q, key, 2 * pos) \div 2 = pos
           /\ SmallerPosition(q, key, 2 * pos) > pos
           /\ \A i \in 2..Size(q) : i \div 2 = pos =>
                 Keys(q, key)[SmallerPosition(q, key, 2 * pos)] <= Keys(q, key)[i]
<1>1. PICK n, c, d : n = Size(q) /\ c = 2 * pos /\ d = SmallerPosition(q, key, 2 * pos)
  OBVIOUS
<1>2. n \in Nat /\ pos \in Nat /\ pos >= 1
  BY <1>1, Places
<1>3. c \in 2..n /\ c \in Nat /\ c > pos /\ c + 1 \in Nat
  BY <1>1, <1>2
<1>4. c \div 2 = pos /\ (c + 1) \div 2 = pos
  BY <1>1, <1>2
<1>5. PICK f : f = Keys(q, key)
  OBVIOUS
<1>6. f \in [1..n -> Int]
  BY <1>1, <1>5, KeysType
<1>7. KeyAt(q, key, c) = f[c] /\ (c < n => KeyAt(q, key, c + 1) = f[c + 1])
  BY <1>1, <1>2, <1>3, <1>5 DEF Keys
<1>8. d = IF c < n /\ f[c] > f[c + 1] THEN c + 1 ELSE c
  BY <1>1, <1>7 DEF SmallerPosition
<1>9. d \in 2..n /\ d \div 2 = pos /\ d > pos
  BY <1>2, <1>3, <1>4, <1>8
<1>10. \A i \in 2..n : i \div 2 = pos => i = c \/ (i = c + 1 /\ c < n)
  <2> SUFFICES ASSUME NEW i \in 2..n, i \div 2 = pos PROVE i = c \/ (i = c + 1 /\ c < n)
    OBVIOUS
  <2>1. i \in Nat /\ (i = 2 * pos \/ i = 2 * pos + 1)
    BY <1>2, Halves
  <2> QED
    BY <1>1, <1>2, <2>1
<1>11. \A i \in 2..n : i \div 2 = pos => f[d] <= f[i]
  <2> SUFFICES ASSUME NEW i \in 2..n, i \div 2 = pos PROVE f[d] <= f[i]
    OBVIOUS
  <2>1. i = c \/ (i = c + 1 /\ c < n)
    BY <1>10
  <2>2. f[c] \in Int /\ (c < n => f[c + 1] \in Int)
    BY <1>2, <1>3, <1>6
  <2> QED
    BY <1>8, <2>1, <2>2
<1> QED
  BY <1>1, <1>5, <1>9, <1>11

\* A round of sink moves down, or there is nothing left to do.
LEMMA SinkRoundKeeps ==
    ASSUME NEW q, NEW key \in [Validator -> Int], NEW s, SinkState(q, key, s)
    PROVE  /\ SinkState(q, key, SinkRound(s, key))
           /\ SinkEnded(q, key, s) => SinkRound(s, key) = s
           /\ ~SinkEnded(q, key, s) => SinkRound(s, key).pos > s.pos
<1>1. PICK r, pos, n : r = s.queue /\ pos = s.pos /\ n = Size(q)
  OBVIOUS
<1>2. PICK f, d : f = Keys(r, key) /\ d = SmallerPosition(r, key, 2 * pos)
  OBVIOUS
<1>3. /\ Proper(r) /\ SameMembers(q, r) /\ Size(r) = n /\ n \in Nat /\ pos \in 1..n
      /\ AroundOrdered(f, n, pos) /\ NotTooSmall(f, pos)
  BY <1>1, <1>2, Places DEF SinkState, SameMembers
<1>4. f \in [1..n -> Int]
  BY <1>2, <1>3, KeysType
<1>5. SinkEnded(q, key, s) <=> NotTooLarge(f, n, pos)
  BY <1>1, <1>2 DEF SinkEnded
<1>6. 2 * pos <= n => /\ d \in 2..n /\ d \div 2 = pos /\ d > pos
                      /\ \A i \in 2..n : i \div 2 = pos => f[d] <= f[i]
  BY <1>2, <1>3, SmallerChild
<1>7. 2 * pos <= n => KeyAt(r, key, d) = f[d] /\ KeyAt(r, key, pos) = f[pos]
  BY <1>2, <1>3, <1>6 DEF Keys
<1>8. 2 * pos <= n => f[d] \in Int /\ f[pos] \in Int
  BY <1>3, <1>4, <1>6
<1>9. NotTooLarge(f, n, pos) <=> ~(2 * pos <= n /\ f[pos] > f[d])
  <2>1. CASE 2 * pos <= n
    <3>1. ASSUME f[pos] <= f[d], NEW i \in 2..n, i \div 2 = pos PROVE f[pos] <= f[i]
      <4>1. f[d] <= f[i] /\ f[i] \in Int
        BY <1>3, <1>4, <1>6, <2>1, <3>1
      <4> QED
        BY <1>8, <2>1, <3>1, <4>1
    <3>2. NotTooLarge(f, n, pos) => f[pos] <= f[d]
      BY <1>6, <2>1 DEF NotTooLarge, Ordered
    <3>3. f[pos] <= f[d] => NotTooLarge(f, n, pos)
      BY <3>1 DEF NotTooLarge, Ordered
    <3> QED
      BY <1>8, <2>1, <3>2, <3>3
  <2>2. CASE ~(2 * pos <= n)
    <3>1. \A i \in 2..n : i \div 2 # pos
      BY <1>3, <2>2, Halves
    <3> QED
      BY <2>2, <3>1 DEF NotTooLarge
  <2> QED
    BY <2>1, <2>2
<1>10. CASE SinkEnded(q, key, s)
  <2>1. ~(2 * pos <= Size(r) /\ KeyAt(r, key, pos) > KeyAt(r, key, d))
    BY <1>3, <1>5, <1>7, <1>9, <1>10
  <2>2. SinkRound(s, key) = s
    BY <1>1, <1>2, <2>1 DEF SinkRound
  <2> QED
    BY <1>10, <2>2
<1>11. CASE ~SinkEnded(q, key, s)
  <2>1. 2 * pos <= n /\ f[pos] > f[d]
    BY <1>5, <1>9, <1>11
  <2>2. SinkRound(s, key) = [queue |-> Exchange(r, d, pos), pos |-> d]
    BY <1>1, <1>2, <1>3, <1>7, <2>1 DEF SinkRound
  <2>3. PICK t : t = Exchange(r, d, pos)
    OBVIOUS
  <2>4. d \in 2..n /\ d \in 1..n /\ d \div 2 = pos /\ d > pos
    BY <1>3, <1>6, <2>1
  <2>5. Proper(t) /\ SameMembers(r, t)
    BY <1>3, <2>3, <2>4, ExchangeProper
  <2>6. Keys(t, key) \in [1..n -> Int] /\ Exchanged(f, Keys(t, key), d, pos)
    BY <1>2, <1>3, <2>3, <2>4, ExchangeKeys
  <2>7. LeastChild(f, n, pos, d)
    BY <1>6, <2>1 DEF LeastChild
  <2>8. AroundOrdered(Keys(t, key), n, d) /\ NotTooSmall(Keys(t, key), d)
    <3>1. PICK g : g = Keys(t, key)
      OBVIOUS
    <3>2. g \in [1..n -> Int] /\ Exchanged(f, g, d, pos)
      BY <2>6, <3>1
    <3>3. n \in Nat /\ pos \in 1..n /\ AroundOrdered(f, n, pos) /\ NotTooSmall(f, pos)
      BY <1>3
    <3>4. f[pos] > f[d] /\ d \in 2..n
      BY <2>1, <2>4
    <3>5. \A a \in 1..n, c \in 2..n :
              /\ LeastChild(f, n, a, c) /\ AroundOrdered(f, n, a) /\ NotTooSmall(f, a)
              /\ f[a] > f[c] /\ Exchanged(f, g, c, a)
              => AroundOrdered(g, n, c) /\ NotTooSmall(g, c)
      BY ONLY <1>4, <3>2, <3>3, RoundDown
    <3>6. AroundOrdered(g, n, d) /\ NotTooSmall(g, d)
      BY <2>7, <3>2, <3>3, <3>4, <3>5
    <3> QED
      BY <3>1, <3>6
  <2>9. SameMembers(q, t)
    BY <1>3, <2>5 DEF SameMembers
  <2>10. SinkState(q, key, [queue |-> t, pos |-> d])
    BY <1>1, <2>4, <2>5, <2>8, <2>9 DEF SinkState
  <2> QED
    BY <1>1, <1>11, <2>2, <2>3, <2>4, <2>10
<1> QED
  BY <1>10, <1>11

\* The loop of sink, round by round.
LEMMA SinkIsLoop ==
    ASSUME NEW q, Size(q) \in Nat, NEW key, NEW pos
    PROVE  \E f : /\ f[0] = [queue |-> q, pos |-> pos]
                  /\ \A k \in 1..Size(q) : f[k] = SinkRound(f[k - 1], key)
                  /\ Sink(q, key, pos) = f[Size(q)].queue
<1> DEFINE Start == [queue |-> q, pos |-> pos]
           Upto(f, m) == f = [n \in 0..m |-> IF n = 0 THEN Start ELSE SinkRound(f[n - 1], key)]
           K == {m \in Nat : \E f : Upto(f, m)}
<1>1. 0 \in K
  <2>1. Upto([n \in 0..0 |-> Start], 0)
    OBVIOUS
  <2> QED
    BY <2>1
<1>2. \A m \in Nat : m \in K => m + 1 \in K
  <2> SUFFICES ASSUME NEW m \in Nat, m \in K PROVE m + 1 \in K
    OBVIOUS
  <2>1. PICK f : Upto(f, m)
    OBVIOUS
  <2>2. PICK next : next = SinkRound(f[m], key)
    OBVIOUS
  <2>3. PICK longer : longer = [n \in 0..(m + 1) |-> IF n = m + 1 THEN next ELSE f[n]]
    OBVIOUS
  <2>4. m \in Nat
    OBVIOUS
  <2>5. \A n \in 0..(m + 1) : longer[n] = IF n = 0 THEN Start ELSE SinkRound(longer[n - 1], key)
    <3> TAKE n \in 0..(m + 1)
    <3>1. CASE n = m + 1
      BY <2>2, <2>3, <2>4, <3>1
    <3>2. CASE n \in 0..m
      <4>1. longer[n] = f[n] /\ (n # 0 => longer[n - 1] = f[n - 1])
        BY <2>3, <2>4, <3>2
      <4>2. f[n] = IF n = 0 THEN Start ELSE SinkRound(f[n - 1], key)
        BY <2>1, <3>2
      <4> QED
        BY <4>1, <4>2
    <3> QED
      BY <2>4, <3>1, <3>2
  <2>6. Upto(longer, m + 1)
    BY <2>3, <2>5
  <2>7. \E other : Upto(other, m + 1)
    BY <2>6
  <2> HIDE DEF Upto
  <2> QED
    BY <2>4, <2>7
<1>3. Nat \subseteq K
  <2> HIDE DEF K
  <2> QED
    BY <1>1, <1>2, NumbersByInduction
<1>4. \E f : Upto(f, Size(q))
  BY <1>3
<1>5. PICK f : f = CHOOSE g : Upto(g, Size(q))
  OBVIOUS
<1>6. Upto(f, Size(q))
  <2> HIDE DEF Upto
  <2> QED
    BY <1>4, <1>5
<1>7. Sink(q, key, pos) = f[Size(q)].queue
  BY <1>5, Zenon DEF Sink
<1>8. /\ f[0] = Start
      /\ \A k \in 1..Size(q) : f[k] = SinkRound(f[k - 1], key)
  <2>1. \A n \in 0..Size(q) : f[n] = IF n = 0 THEN Start ELSE SinkRound(f[n - 1], key)
    BY <1>6
  <2> HIDE DEF Start
  <2> QED
    BY <2>1
<1> QED
  BY <1>7, <1>8

\* A position whose key is perhaps too large sinks to its place.
LEMMA SinkHeap ==
    ASSUME NEW q, Proper(q), NEW key \in [Validator -> Int], NEW pos \in 1..Size(q),
           AroundOrdered(Keys(q, key), Size(q), pos), NotTooSmall(Keys(q, key), pos)
    PROVE  /\ Proper(Sink(q, key, pos))
           /\ SameMembers(q, Sink(q, key, pos))
           /\ IsHeap(Keys(Sink(q, key, pos), key), Size(q))
<1>1. PICK n : n = Size(q)
  OBVIOUS
<1>2. n \in Nat
  BY <1>1, Places
<1>3. PICK f : /\ f[0] = [queue |-> q, pos |-> pos]
               /\ \A k \in 1..n : f[k] = SinkRound(f[k - 1], key)
               /\ Sink(q, key, pos) = f[n].queue
  BY <1>1, <1>2, SinkIsLoop
<1> DEFINE After(k) == /\ SinkState(q, key, f[k])
                       /\ SinkEnded(q, key, f[k]) \/ f[k].pos > k
           K == {k \in Nat : k <= n => After(k)}
<1>4. 0 \in K
  <2>1. SinkState(q, key, f[0])
    BY <1>3 DEF SinkState, SameMembers
  <2>2. f[0].pos > 0
    BY <1>1, <1>2, <1>3
  <2> QED
    BY <2>1, <2>2
<1>5. \A k \in Nat : k \in K => k + 1 \in K
  <2> SUFFICES ASSUME NEW k \in Nat, k \in K, k + 1 <= n PROVE After(k + 1)
    OBVIOUS
  <2>1. /\ SinkState(q, key, f[k])
        /\ SinkEnded(q, key, f[k]) \/ f[k].pos > k
    BY <1>2
  <2>2. PICK s, t : s = f[k] /\ t = f[k + 1]
    OBVIOUS
  <2>3. t = SinkRound(s, key)
    BY <1>2, <1>3, <2>2
  <2>4. /\ SinkState(q, key, t)
        /\ SinkEnded(q, key, s) => t = s
        /\ ~SinkEnded(q, key, s) => t.pos > s.pos
    BY <2>1, <2>2, <2>3, SinkRoundKeeps
  <2>5. s.pos \in Nat /\ t.pos \in Nat
    BY <2>1, <2>2, <2>4 DEF SinkState
  <2>6. SinkEnded(q, key, t) \/ t.pos > k + 1
    BY <1>2, <2>1, <2>2, <2>4, <2>5
  <2> QED
    BY <2>2, <2>4, <2>6
<1>6. Nat \subseteq K
  <2> HIDE DEF K
  <2> QED
    BY <1>4, <1>5, NumbersByInduction
<1>7. After(n)
  BY <1>2, <1>6
<1>8. SinkState(q, key, f[n]) /\ SinkEnded(q, key, f[n])
  <2>1. f[n].pos \in 1..n
    BY <1>1, <1>7 DEF SinkState
  <2> QED
    BY <1>2, <1>7, <2>1
<1>9. PICK r, p : r = f[n].queue /\ p = f[n].pos
  OBVIOUS
<1>10. /\ Proper(r) /\ SameMembers(q, r) /\ p \in 1..n
       /\ AroundOrdered(Keys(r, key), n, p) /\ NotTooSmall(Keys(r, key), p)
       /\ NotTooLarge(Keys(r, key), n, p)
  BY <1>1, <1>8, <1>9 DEF SinkState, SinkEnded
<1>11. IsHeap(Keys(r, key), n)
  BY <1>2, <1>10, AroundIsHeap
<1> QED
  BY <1>1, <1>3, <1>9, <1>10, <1>11

-----------------------------------------------------------------------------
(***************************************************************************)
(* The operations of a queue keep it a heap, and change its members by the *)
(* validator that they are about.                                          *)
(***************************************************************************)
HeapUnder(q, key) == Proper(q) /\ IsHeap(Keys(q, key), Size(q))

\* Who moves within a queue stays in it.
LEMMA SameIn ==
    ASSUME NEW q, NEW r, Proper(q), Proper(r), SameMembers(q, r)
    PROVE  In(r) = In(q) /\ Size(r) = Size(q)
BY Places DEF SameMembers

\* insert
LEMMA InsertHeap ==
    ASSUME NEW q, NEW key \in [Validator -> Int], HeapUnder(q, key),
           NEW v \in Validator, ~Queued(q, v)
    PROVE  /\ HeapUnder(Insert(q, key, v), key)
           /\ In(Insert(q, key, v)) = In(q) \cup {v}
           /\ Size(Insert(q, key, v)) = Size(q) + 1
<1>1. PICK n, t : n = Size(q) /\ t = Appended(q, v)
  OBVIOUS
<1>2. Proper(q) /\ n \in Nat /\ IsHeap(Keys(q, key), n)
  BY <1>1, Places DEF HeapUnder
<1>3. /\ Proper(t) /\ Size(t) = n + 1
      /\ \A i \in 1..n : t.posToAddress[i] = q.posToAddress[i]
      /\ \A u \in Validator : Queued(t, u) <=> Queued(q, u) \/ u = v
  BY <1>1, <1>2, AppendProper
<1>4. PICK f, g : f = Keys(q, key) /\ g = Keys(t, key)
  OBVIOUS
<1>5. f \in [1..n -> Int] /\ g \in [1..(n + 1) -> Int] /\ \A i \in 1..n : g[i] = f[i]
  <2>1. f \in [1..n -> Int]
    BY <1>1, <1>2, <1>4, KeysType
  <2>2. g \in [1..(n + 1) -> Int]
    BY <1>3, <1>4, KeysType
  <2>3. \A i \in 1..n : i \in 1..(n + 1)
    BY <1>2
  <2>4. f = [i \in 1..n |-> key[q.posToAddress[i]]]
    BY <1>1, <1>4 DEF Keys, KeyAt
  <2>5. g = [i \in 1..(n + 1) |-> key[t.posToAddress[i]]]
    BY <1>3, <1>4 DEF Keys, KeyAt
  <2>6. \A i \in 1..n : g[i] = f[i]
    BY <1>3, <2>3, <2>4, <2>5
  <2> QED
    BY <2>1, <2>2, <2>6
<1>6. \A i \in 2..(n + 1) : i \div 2 \in 1..n /\ i \div 2 # n + 1
  BY <1>2, Halves
<1>7. AroundOrdered(g, n + 1, n + 1) /\ NotTooLarge(g, n + 1, n + 1)
  <2>1. ASSUME NEW i \in 2..(n + 1), i # n + 1 PROVE g[i \div 2] <= g[i]
    <3>1. i \in 2..n /\ i \in 1..n /\ i \div 2 \in 1..n
      BY <1>2, <1>6, <2>1
    <3>2. f[i \div 2] <= f[i]
      BY <1>2, <1>4, <3>1 DEF IsHeap, Ordered
    <3> QED
      BY <1>5, <3>1, <3>2
  <2> QED
    BY <1>6, <2>1 DEF AroundOrdered, NotTooLarge, Ordered
<1>8. PICK r : r = Swim(t, key, n + 1)
  OBVIOUS
<1>9. Proper(r) /\ SameMembers(t, r) /\ IsHeap(Keys(r, key), n + 1)
  <2>1. n + 1 \in 1..Size(t)
    BY <1>2, <1>3
  <2>2. AroundOrdered(Keys(t, key), Size(t), n + 1) /\ NotTooLarge(Keys(t, key), Size(t), n + 1)
    BY <1>3, <1>4, <1>7
  <2> QED
    BY <1>3, <1>8, <2>1, <2>2, SwimHeap
<1>10. Insert(q, key, v) = r
  BY <1>1, <1>8 DEF Insert, Appended
<1>11. Size(r) = n + 1 /\ \A u \in Validator : Queued(r, u) <=> Queued(q, u) \/ u = v
  BY <1>3, <1>9 DEF SameMembers
<1>12. In(r) = In(q) \cup {v}
  BY <1>2, <1>9, <1>11, Places
<1> QED
  BY <1>1, <1>9, <1>10, <1>11, <1>12 DEF HeapUnder

\* The last one takes the place of another, which is dropped.
LEMMA TakenOut ==
    ASSUME NEW q, Proper(q), NEW key \in [Validator -> Int], NEW pos \in 1..Size(q),
           AroundOrdered(Keys(q, key), Size(q), pos)
    PROVE  LET t == DropLast(Exchange(q, pos, Size(q)))
           IN  /\ Proper(t) /\ Size(t) = Size(q) - 1
               /\ In(t) = In(q) \ {q.posToAddress[pos]}
               /\ AroundOrdered(Keys(t, key), Size(q) - 1, pos)
<1>1. PICK n, x, t : n = Size(q) /\ x = Exchange(q, pos, n) /\ t = DropLast(x)
  OBVIOUS
<1>2. n \in Nat /\ n \in 1..n /\ pos \in 1..n /\ n > 0
  BY <1>1, Places
<1>3. /\ Proper(x) /\ SameMembers(q, x) /\ Size(x) = n
      /\ \A k \in 1..n : x.posToAddress[k] = IF k = pos THEN q.posToAddress[n]
                                             ELSE IF k = n THEN q.posToAddress[pos]
                                             ELSE q.posToAddress[k]
  <2>1. Proper(q) /\ n \in 1..Size(q) /\ pos \in 1..Size(q)
    BY <1>1, <1>2
  <2>2. /\ Proper(x) /\ SameMembers(q, x)
        /\ \A k \in 1..Size(q) : x.posToAddress[k] = IF k = pos THEN q.posToAddress[n]
                                                     ELSE IF k = n THEN q.posToAddress[pos]
                                                     ELSE q.posToAddress[k]
    <3>1. \A i \in 1..Size(q), j \in 1..Size(q) :
              /\ Proper(Exchange(q, i, j)) /\ SameMembers(q, Exchange(q, i, j))
              /\ \A k \in 1..Size(q) :
                    Exchange(q, i, j).posToAddress[k] =
                        IF k = i THEN q.posToAddress[j]
                        ELSE IF k = j THEN q.posToAddress[i] ELSE q.posToAddress[k]
      BY ONLY <2>1, ExchangeProper
    <3> QED
      BY <1>1, <2>1, <3>1
  <2> QED
    BY <1>1, <2>2 DEF SameMembers
<1>4. x.posToAddress[n] = q.posToAddress[pos]
  BY <1>2, <1>3
<1>5. /\ Proper(t) /\ Size(t) = n - 1
      /\ \A i \in 1..(n - 1) : t.posToAddress[i] = x.posToAddress[i]
      /\ \A v \in Validator : Queued(t, v) <=> Queued(q, v) /\ v # q.posToAddress[pos]
  BY <1>1, <1>2, <1>3, <1>4, DropLastProper DEF SameMembers
<1>6. In(t) = In(q) \ {q.posToAddress[pos]}
  BY <1>5, Places
<1>7. PICK f, g : f = Keys(q, key) /\ g = Keys(t, key)
  OBVIOUS
<1>8. \A i \in 1..(n - 1) : i # pos => g[i] = f[i]
  <2> SUFFICES ASSUME NEW i \in 1..(n - 1), i # pos PROVE g[i] = f[i]
    OBVIOUS
  <2>1. i \in 1..n /\ i # n
    BY <1>2
  <2>2. t.posToAddress[i] = q.posToAddress[i]
    BY <1>3, <1>5, <2>1
  <2>3. g[i] = key[t.posToAddress[i]] /\ f[i] = key[q.posToAddress[i]]
    BY <1>1, <1>5, <1>7, <2>1 DEF Keys, KeyAt
  <2> QED
    BY <2>2, <2>3
<1>9. \A i \in 2..(n - 1) : i \in 2..n /\ i \in 1..(n - 1) /\ i \div 2 \in 1..(n - 1) /\ i \div 2 < i
  BY <1>2, Halves
<1>10. /\ \A i \in 2..n : i # pos /\ i \div 2 # pos => f[i \div 2] <= f[i]
       /\ pos > 1 => \A i \in 2..n : i \div 2 = pos => f[pos \div 2] <= f[i]
  BY <1>1, <1>7 DEF AroundOrdered, Ordered
<1>11. \A i \in 2..(n - 1) : i # pos /\ i \div 2 # pos => g[i \div 2] <= g[i]
  <2> SUFFICES ASSUME NEW i \in 2..(n - 1), i # pos, i \div 2 # pos PROVE g[i \div 2] <= g[i]
    OBVIOUS
  <2>1. f[i \div 2] <= f[i]
    BY <1>9, <1>10
  <2>2. g[i] = f[i] /\ g[i \div 2] = f[i \div 2]
    BY <1>8, <1>9
  <2> QED
    BY <2>1, <2>2
<1>12. pos > 1 => \A i \in 2..(n - 1) : i \div 2 = pos => g[pos \div 2] <= g[i]
  <2> SUFFICES ASSUME pos > 1, NEW i \in 2..(n - 1), i \div 2 = pos PROVE g[pos \div 2] <= g[i]
    OBVIOUS
  <2>1. pos \in 2..(n - 1) /\ i # pos /\ pos \div 2 # pos /\ pos \div 2 \in 1..(n - 1)
    BY <1>2, <1>9
  <2>2. f[pos \div 2] <= f[i]
    BY <1>9, <1>10
  <2>3. g[i] = f[i] /\ g[pos \div 2] = f[pos \div 2]
    BY <1>8, <1>9, <2>1
  <2> QED
    BY <2>2, <2>3
<1>13. AroundOrdered(g, n - 1, pos)
  BY <1>11, <1>12 DEF AroundOrdered, Ordered
<1> QED
  BY <1>1, <1>5, <1>6, <1>7, <1>13

\* pop
LEMMA PopHeap ==
    ASSUME NEW q, NEW key \in [Validator -> Int], HeapUnder(q, key), Size(q) # 0
    PROVE  /\ HeapUnder(Pop(q, key), key)
           /\ In(Pop(q, key)) = In(q) \ {Top(q)}
           /\ Size(Pop(q, key)) = Size(q) - 1
<1>1. PICK n, t : n = Size(q) /\ t = DropLast(Exchange(q, 1, n))
  OBVIOUS
<1>2. Proper(q) /\ n \in Nat \ {0} /\ 1 \in 1..n /\ IsHeap(Keys(q, key), n)
  BY <1>1, Places DEF HeapUnder
<1>3. AroundOrdered(Keys(q, key), n, 1)
  BY <1>1, <1>2, HeapAround, KeysType
<1>4. /\ Proper(t) /\ Size(t) = n - 1 /\ In(t) = In(q) \ {Top(q)}
      /\ AroundOrdered(Keys(t, key), n - 1, 1)
  BY <1>1, <1>2, <1>3, TakenOut DEF Top
<1>5. PICK r : r = Sink(t, key, 1)
  OBVIOUS
<1>6. Pop(q, key) = r
  BY <1>1, <1>5 DEF Pop
<1>7. CASE n = 1
  <2>1. Size(t) = 0
    BY <1>4, <1>7
  <2>2. r = t
    <3>1. PICK f : /\ f[0] = [queue |-> t, pos |-> 1]
                   /\ Sink(t, key, 1) = f[Size(t)].queue
      BY <2>1, SinkIsLoop
    <3> QED
      BY <1>5, <2>1, <3>1
  <2>3. IsHeap(Keys(t, key), 0)
    BY DEF IsHeap
  <2> QED
    BY <1>1, <1>4, <1>6, <1>7, <2>1, <2>2, <2>3 DEF HeapUnder
<1>8. CASE n # 1
  <2>1. 1 \in 1..Size(t) /\ NotTooSmall(Keys(t, key), 1)
    BY <1>2, <1>4, <1>8 DEF NotTooSmall
  <2>2. AroundOrdered(Keys(t, key), Size(t), 1)
    BY <1>4
  <2>3. Proper(r) /\ SameMembers(t, r) /\ IsHeap(Keys(r, key), Size(t))
    BY <1>4, <1>5, <2>1, <2>2, SinkHeap
  <2>4. In(r) = In(t) /\ Size(r) = Size(t)
    BY <1>4, <2>3, SameIn
  <2> QED
    BY <1>1, <1>4, <1>6, <2>3, <2>4 DEF HeapUnder
<1> QED
  BY <1>7, <1>8

\* deleteReheapify: the validator that takes the place may belong above it or
\* below it, and its own key may have changed already.
LEMMA DeleteHeap ==
    ASSUME NEW q, Proper(q), NEW key \in [Validator -> Int], NEW v \in Validator, Queued(q, v),
           AroundOrdered(Keys(q, key), Size(q), q.addressToPos[v])
    PROVE  /\ HeapUnder(DeleteReheapify(q, key, v), key)
           /\ In(DeleteReheapify(q, key, v)) = In(q) \ {v}
           /\ Size(DeleteReheapify(q, key, v)) = Size(q) - 1
<1>1. PICK n, pos, t : /\ n = Size(q) /\ pos = q.addressToPos[v]
                       /\ t = DropLast(Exchange(q, pos, n))
  OBVIOUS
<1>2. n \in Nat /\ pos \in 1..n /\ q.posToAddress[pos] = v
  BY <1>1, Places
<1>3. /\ Proper(t) /\ Size(t) = n - 1 /\ In(t) = In(q) \ {v}
      /\ AroundOrdered(Keys(t, key), n - 1, pos)
  BY <1>1, <1>2, TakenOut
<1>4. CASE pos = n
  <2>1. DeleteReheapify(q, key, v) = t
    BY <1>1, <1>4 DEF DeleteReheapify
  <2>2. IsHeap(Keys(t, key), n - 1)
    <3>1. \A i \in 2..(n - 1) : i # pos /\ i \div 2 # pos
      BY <1>2, <1>4, Halves
    <3> QED
      BY <1>3, <3>1 DEF AroundOrdered, IsHeap
  <2> QED
    BY <1>1, <1>3, <2>1, <2>2 DEF HeapUnder
<1>5. CASE pos # n
  <2>1. pos \in 1..Size(t) /\ Size(t) \in Nat
    BY <1>2, <1>3, <1>5, Places
  <2>2. PICK f : f = Keys(t, key)
    OBVIOUS
  <2>3. f \in [1..Size(t) -> Int] /\ AroundOrdered(f, Size(t), pos)
    BY <1>3, <2>2, KeysType
  <2>4. PICK s, r : s = Swim(t, key, pos) /\ r = Sink(s, key, pos)
    OBVIOUS
  <2>5. DeleteReheapify(q, key, v) = r
    BY <1>1, <1>5, <2>4 DEF DeleteReheapify, SwimAndSink
  <2>6. /\ Proper(s) /\ SameMembers(t, s)
        /\ AroundOrdered(Keys(s, key), Size(t), pos) /\ NotTooSmall(Keys(s, key), pos)
    <3>1. CASE NotTooSmall(f, pos)
      <4>1. s = t
        BY <1>3, <2>1, <2>2, <2>4, <3>1, SwimStays
      <4> QED
        BY <1>3, <2>2, <2>3, <3>1, <4>1 DEF SameMembers
    <3>2. CASE ~NotTooSmall(f, pos)
      <4>1. pos > 1 /\ f[pos \div 2] > f[pos]
        <5>1. pos > 1 => pos \div 2 \in 1..Size(t)
          BY <2>1, Halves
        <5> QED
          BY <2>1, <2>3, <3>2, <5>1 DEF NotTooSmall, Ordered
      <4>2. NotTooLarge(f, Size(t), pos)
        <5> SUFFICES ASSUME NEW i \in 2..Size(t), i \div 2 = pos PROVE f[pos] <= f[i]
          BY DEF NotTooLarge, Ordered
        <5>1. f[pos \div 2] <= f[i]
          BY <2>3, <4>1 DEF AroundOrdered
        <5>2. pos \div 2 \in 1..Size(t) /\ i \in 1..Size(t)
          BY <2>1, <4>1, Halves
        <5> QED
          BY <2>1, <2>3, <4>1, <5>1, <5>2
      <4>3. Proper(s) /\ SameMembers(t, s) /\ IsHeap(Keys(s, key), Size(t))
        BY <1>3, <2>1, <2>2, <2>3, <2>4, <4>2, SwimHeap
      <4>4. Keys(s, key) \in [1..Size(t) -> Int]
        BY <4>3, KeysType DEF SameMembers
      <4> QED
        BY <2>1, <4>3, <4>4, HeapAround
    <3> QED
      BY <3>1, <3>2
  <2>7. Size(s) = Size(t) /\ pos \in 1..Size(s)
    BY <2>1, <2>6 DEF SameMembers
  <2>8. Proper(r) /\ SameMembers(s, r) /\ IsHeap(Keys(r, key), Size(s))
    BY <2>4, <2>6, <2>7, SinkHeap
  <2>9. In(r) = In(t) /\ Size(r) = Size(t)
    BY <1>3, <2>6, <2>8, SameIn
  <2> QED
    BY <1>1, <1>3, <2>5, <2>7, <2>8, <2>9 DEF HeapUnder
<1> QED
  BY <1>4, <1>5

\* increaseReheapify
LEMMA IncreasedHeap ==
    ASSUME NEW q, Proper(q), NEW key \in [Validator -> Int], NEW v \in Validator, Queued(q, v),
           AroundOrdered(Keys(q, key), Size(q), q.addressToPos[v]),
           NotTooSmall(Keys(q, key), q.addressToPos[v])
    PROVE  /\ HeapUnder(KeyIncreased(q, key, v), key)
           /\ In(KeyIncreased(q, key, v)) = In(q)
           /\ Size(KeyIncreased(q, key, v)) = Size(q)
<1>1. PICK pos : pos = q.addressToPos[v] /\ pos \in 1..Size(q)
  BY Places
<1>2. PICK r : r = Sink(q, key, pos)
  OBVIOUS
<1>3. Proper(r) /\ SameMembers(q, r) /\ IsHeap(Keys(r, key), Size(q))
  BY <1>1, <1>2, SinkHeap
<1>4. In(r) = In(q) /\ Size(r) = Size(q)
  BY <1>3, SameIn
<1> QED
  BY <1>1, <1>2, <1>3, <1>4 DEF KeyIncreased, HeapUnder

\* decreaseReheapify
LEMMA DecreasedHeap ==
    ASSUME NEW q, Proper(q), NEW key \in [Validator -> Int], NEW v \in Validator, Queued(q, v),
           AroundOrdered(Keys(q, key), Size(q), q.addressToPos[v]),
           NotTooLarge(Keys(q, key), Size(q), q.addressToPos[v])
    PROVE  /\ HeapUnder(KeyDecreased(q, key, v), key)
           /\ In(KeyDecreased(q, key, v)) = In(q)
           /\ Size(KeyDecreased(q, key, v)) = Size(q)
<1>1. PICK pos : pos = q.addressToPos[v] /\ pos \in 1..Size(q)
  BY Places
<1>2. PICK r : r = Swim(q, key, pos)
  OBVIOUS
<1>3. Proper(r) /\ SameMembers(q, r) /\ IsHeap(Keys(r, key), Size(q))
  BY <1>1, <1>2, SwimHeap
<1>4. In(r) = In(q) /\ Size(r) = Size(q)
  BY <1>3, SameIn
<1> QED
  BY <1>1, <1>2, <1>3, <1>4 DEF KeyDecreased, HeapUnder

\* The key of one validator changed, in a heap that is not repaired yet.
LEMMA KeyChange ==
    ASSUME NEW q, NEW key \in [Validator -> Int], HeapUnder(q, key), NEW v \in Validator,
           NEW new \in [Validator -> Int], \A u \in Validator : u # v => new[u] = key[u]
    PROVE  /\ ~Queued(q, v) => HeapUnder(q, new)
           /\ Queued(q, v) =>
                 /\ AroundOrdered(Keys(q, new), Size(q), q.addressToPos[v])
                 /\ key[v] <= new[v] => NotTooSmall(Keys(q, new), q.addressToPos[v])
                 /\ new[v] <= key[v] => NotTooLarge(Keys(q, new), Size(q), q.addressToPos[v])
<1>1. PICK n, f, g : n = Size(q) /\ f = Keys(q, key) /\ g = Keys(q, new)
  OBVIOUS
<1>2. /\ Proper(q) /\ n \in Nat /\ IsHeap(f, n)
      /\ f \in [1..n -> Int] /\ g \in [1..n -> Int]
  BY <1>1, Places, KeysType DEF HeapUnder
<1>3. \A i \in 1..n : /\ f[i] = key[q.posToAddress[i]] /\ g[i] = new[q.posToAddress[i]]
                      /\ q.posToAddress[i] \in Validator
                      /\ q.addressToPos[q.posToAddress[i]] = i
  BY <1>1, <1>2, Places DEF Keys, KeyAt
<1>4. CASE ~Queued(q, v)
  <2>1. \A i \in 1..n : q.posToAddress[i] # v
    BY <1>2, <1>3, <1>4 DEF Queued
  <2>2. g = f
    BY <1>2, <1>3, <2>1
  <2> QED
    BY <1>1, <1>2, <1>4, <2>2 DEF HeapUnder
<1>5. CASE Queued(q, v)
  <2>1. PICK pos : pos = q.addressToPos[v] /\ pos \in 1..n /\ q.posToAddress[pos] = v
    BY <1>1, <1>2, <1>5, Places
  <2>2. \A i \in 1..n : i # pos => g[i] = f[i]
    BY <1>3, <2>1
  <2>3. f[pos] = key[v] /\ g[pos] = new[v]
    BY <1>3, <2>1
  <2>4. AroundOrdered(f, n, pos) /\ NotTooLarge(f, n, pos) /\ NotTooSmall(f, pos)
    BY <1>2, <2>1, HeapAround
  <2>5. \A i \in 2..n : i \in 1..n /\ i \div 2 \in 1..n /\ i \div 2 < i
    BY <1>2, Halves
  <2>6. pos > 1 => pos \in 2..n
    BY <1>2, <2>1
  <2>7. AroundOrdered(g, n, pos)
    <3>1. ASSUME NEW i \in 2..n, i # pos, i \div 2 # pos PROVE g[i \div 2] <= g[i]
      <4>1. f[i \div 2] <= f[i]
        BY <2>4, <3>1 DEF AroundOrdered, Ordered
      <4> QED
        BY <2>2, <2>5, <3>1, <4>1
    <3>2. ASSUME pos > 1, NEW i \in 2..n, i \div 2 = pos PROVE g[pos \div 2] <= g[i]
      <4>1. f[pos \div 2] <= f[i]
        BY <2>4, <3>2 DEF AroundOrdered
      <4>2. i # pos /\ pos \div 2 # pos /\ pos \div 2 \in 1..n
        BY <2>5, <2>6, <3>2
      <4> QED
        BY <2>2, <2>5, <4>1, <4>2
    <3> QED
      BY <3>1, <3>2 DEF AroundOrdered, Ordered
  <2>8. key[v] <= new[v] => NotTooSmall(g, pos)
    <3> SUFFICES ASSUME key[v] <= new[v], pos > 1 PROVE g[pos \div 2] <= g[pos]
      BY DEF NotTooSmall, Ordered
    <3>1. f[pos \div 2] <= f[pos]
      BY <2>4 DEF NotTooSmall, Ordered
    <3>2. pos \div 2 # pos /\ pos \div 2 \in 1..n
      BY <2>5, <2>6
    <3>3. g[pos \div 2] = f[pos \div 2] /\ f[pos \div 2] \in Int
      BY <1>2, <2>2, <3>2
    <3> QED
      BY <2>3, <3>1, <3>3
  <2>9. new[v] <= key[v] => NotTooLarge(g, n, pos)
    <3> SUFFICES ASSUME new[v] <= key[v], NEW i \in 2..n, i \div 2 = pos PROVE g[pos] <= g[i]
      BY DEF NotTooLarge, Ordered
    <3>1. f[pos] <= f[i]
      BY <2>4 DEF NotTooLarge, Ordered
    <3>2. g[i] = f[i] /\ f[i] \in Int
      BY <1>2, <2>2, <2>5
    <3> QED
      BY <2>3, <3>1, <3>2
  <2> QED
    BY <1>1, <1>5, <2>1, <2>7, <2>8, <2>9
<1> QED
  BY <1>4, <1>5

\* min
LEMMA TopOfHeap ==
    ASSUME NEW q, NEW key \in [Validator -> Int], HeapUnder(q, key), Size(q) # 0
    PROVE  /\ Top(q) \in In(q) /\ Top(q) \in Validator /\ Queued(q, Top(q))
           /\ \A u \in In(q) : key[Top(q)] <= key[u]
<1>1. PICK n, f : n = Size(q) /\ f = Keys(q, key)
  OBVIOUS
<1>2. Proper(q) /\ n \in Nat /\ 1 \in 1..n /\ f \in [1..n -> Int] /\ IsHeap(f, n)
  BY <1>1, Places, KeysType DEF HeapUnder
<1>3. \A i \in 1..n : f[1] <= f[i]
  BY <1>2, TopIsLeast
<1>4. \A i \in 1..n : f[i] = key[q.posToAddress[i]]
  BY <1>1 DEF Keys, KeyAt
<1>5. Top(q) \in Validator /\ q.addressToPos[Top(q)] = 1
  BY <1>1, <1>2, Places DEF Top
<1>6. Queued(q, Top(q)) /\ Top(q) \in In(q)
  BY <1>2, <1>5, Places DEF Queued
<1>7. ASSUME NEW u \in In(q) PROVE key[Top(q)] <= key[u]
  <2>1. u \in Validator /\ Queued(q, u)
    BY <1>2, <1>7, Places
  <2>2. q.addressToPos[u] \in 1..n /\ q.posToAddress[q.addressToPos[u]] = u
    BY <1>1, <1>2, <2>1, Places
  <2> QED
    BY <1>2, <1>3, <1>4, <2>2 DEF Top
<1> QED
  BY <1>5, <1>6, <1>7


-----------------------------------------------------------------------------
(***************************************************************************)
(* The two queues of a validator set under powers that were just written:  *)
(* which validators each procedure moves, and that it leaves two heaps.    *)
(***************************************************************************)

\* A queue as the set of its members.
LEMMA Membership ==
    ASSUME NEW q, Proper(q)
    PROVE  /\ In(q) \subseteq Validator
           /\ Size(q) \in Nat
           /\ \A v \in Validator : Queued(q, v) <=> v \in In(q)
           /\ Size(q) = 0 <=> In(q) = {}
<1>1. In(q) = {v \in Validator : Queued(q, v)} /\ Size(q) \in Nat
  BY Places
<1>2. Size(q) # 0 => In(q) # {}
  <2>1. ASSUME Size(q) # 0 PROVE In(q) # {}
    <3>1. 1 \in 1..Size(q)
      BY <1>1, <2>1
    <3>2. q.posToAddress[1] \in Validator /\ q.addressToPos[q.posToAddress[1]] = 1
      BY <3>1, Places
    <3> QED
      BY <1>1, <3>2 DEF Queued
  <2> QED
    BY <2>1
<1>3. In(q) # {} => Size(q) # 0
  <2>1. ASSUME NEW v \in Validator, Queued(q, v) PROVE Size(q) # 0
    <3>1. q.addressToPos[v] \in 1..Size(q)
      BY <2>1, Places
    <3> QED
      BY <1>1, <3>1
  <2> QED
    BY <1>1, <2>1
<1> QED
  BY <1>1, <1>2, <1>3

\* Every queued validator is in one queue, and nobody waits while there is room.
Settled(a, w, pow) ==
    /\ HeapUnder(a, pow)
    /\ HeapUnder(w, Minus(pow))
    /\ In(a) \cap In(w) = {}
    /\ Size(w) # 0 => Size(a) >= ActiveLimit

\* The validators of A with the least power, and those of W with the most.
WeakestIn(A, pow) == {m \in A : \A u \in A : pow[m] <= pow[u]}
StrongestIn(W, pow) == {m \in W : \A u \in W : pow[u] <= pow[m]}

\* Two queues after the power of v was written, and before they are repaired.
Written(a, w, v, old, pow) ==
    /\ Settled(a, w, old)
    /\ v \in Validator
    /\ old \in [Validator -> Int]
    /\ pow \in [Validator -> Int]
    /\ \A u \in Validator : u # v => pow[u] = old[u]

\* Negated powers, the keys of the waiting queue.
LEMMA MinusType ==
    ASSUME NEW pow \in [Validator -> Int]
    PROVE  Minus(pow) \in [Validator -> Int] /\ \A u \in Validator : Minus(pow)[u] = 0 - pow[u]
BY DEF Minus

\* What holds of the queues before they are repaired.
LEMMA WrittenQueues ==
    ASSUME NEW a, NEW w, NEW v, NEW old, NEW pow, Written(a, w, v, old, pow)
    PROVE  /\ Proper(a) /\ Proper(w)
           /\ ~Queued(a, v) => HeapUnder(a, pow)
           /\ Queued(a, v) =>
                 /\ ~Queued(w, v)
                 /\ AroundOrdered(Keys(a, pow), Size(a), a.addressToPos[v])
                 /\ old[v] <= pow[v] => NotTooSmall(Keys(a, pow), a.addressToPos[v])
                 /\ pow[v] <= old[v] => NotTooLarge(Keys(a, pow), Size(a), a.addressToPos[v])
           /\ ~Queued(w, v) => HeapUnder(w, Minus(pow))
           /\ Queued(w, v) =>
                 /\ ~Queued(a, v)
                 /\ AroundOrdered(Keys(w, Minus(pow)), Size(w), w.addressToPos[v])
                 /\ pow[v] <= old[v] => NotTooSmall(Keys(w, Minus(pow)), w.addressToPos[v])
                 /\ old[v] <= pow[v] =>
                       NotTooLarge(Keys(w, Minus(pow)), Size(w), w.addressToPos[v])
<1>1. /\ HeapUnder(a, old) /\ HeapUnder(w, Minus(old)) /\ In(a) \cap In(w) = {}
      /\ v \in Validator /\ old \in [Validator -> Int] /\ pow \in [Validator -> Int]
      /\ \A u \in Validator : u # v => pow[u] = old[u]
  BY DEF Written, Settled
<1>2. Proper(a) /\ Proper(w)
  BY <1>1 DEF HeapUnder
<1>3. ~(Queued(a, v) /\ Queued(w, v))
  BY <1>1, <1>2, Membership
<1>4. /\ ~Queued(a, v) => HeapUnder(a, pow)
      /\ Queued(a, v) =>
            /\ AroundOrdered(Keys(a, pow), Size(a), a.addressToPos[v])
            /\ old[v] <= pow[v] => NotTooSmall(Keys(a, pow), a.addressToPos[v])
            /\ pow[v] <= old[v] => NotTooLarge(Keys(a, pow), Size(a), a.addressToPos[v])
  BY ONLY <1>1, KeyChange
<1>5. PICK less, now : less = Minus(old) /\ now = Minus(pow)
  OBVIOUS
<1>6. /\ less \in [Validator -> Int] /\ now \in [Validator -> Int]
      /\ \A u \in Validator : less[u] = 0 - old[u] /\ now[u] = 0 - pow[u]
  BY <1>1, <1>5, MinusType
<1>7. /\ \A u \in Validator : u # v => now[u] = less[u]
      /\ pow[v] <= old[v] => less[v] <= now[v]
      /\ old[v] <= pow[v] => now[v] <= less[v]
  BY <1>1, <1>6
<1>8. HeapUnder(w, less)
  BY <1>1, <1>5
<1>9. /\ ~Queued(w, v) => HeapUnder(w, now)
      /\ Queued(w, v) =>
            /\ AroundOrdered(Keys(w, now), Size(w), w.addressToPos[v])
            /\ less[v] <= now[v] => NotTooSmall(Keys(w, now), w.addressToPos[v])
            /\ now[v] <= less[v] => NotTooLarge(Keys(w, now), Size(w), w.addressToPos[v])
  BY ONLY <1>1, <1>6, <1>7, <1>8, KeyChange
<1> QED
  BY <1>2, <1>3, <1>4, <1>5, <1>7, <1>9

\* The tops of two heaps, for the choices of ValidatorSet.
LEMMA Tops ==
    ASSUME NEW q, NEW pow \in [Validator -> Int], Size(q) # 0
    PROVE  /\ HeapUnder(q, pow) => Top(q) \in WeakestIn(In(q), pow)
           /\ HeapUnder(q, Minus(pow)) => Top(q) \in StrongestIn(In(q), pow)
<1>1. ASSUME HeapUnder(q, pow) PROVE Top(q) \in WeakestIn(In(q), pow)
  BY <1>1, TopOfHeap DEF WeakestIn
<1>2. ASSUME HeapUnder(q, Minus(pow)) PROVE Top(q) \in StrongestIn(In(q), pow)
  <2>1. PICK now : now = Minus(pow)
    OBVIOUS
  <2>2. now \in [Validator -> Int] /\ \A u \in Validator : now[u] = 0 - pow[u]
    BY <2>1, MinusType
  <2>3. /\ Top(q) \in In(q) /\ Top(q) \in Validator
        /\ \A u \in In(q) : now[Top(q)] <= now[u]
    BY <1>2, <2>1, <2>2, TopOfHeap
  <2>4. In(q) \subseteq Validator
    BY <1>2, Membership DEF HeapUnder
  <2>5. ASSUME NEW u \in In(q) PROVE pow[u] <= pow[Top(q)]
    <3>1. pow[u] \in Int /\ pow[Top(q)] \in Int /\ u \in Validator
      BY <2>3, <2>4
    <3>2. 0 - pow[Top(q)] <= 0 - pow[u]
      BY <2>2, <2>3, <3>1
    <3> QED
      BY <3>1, <3>2
  <2> QED
    BY <2>3, <2>5 DEF StrongestIn
<1> QED
  BY <1>1, <1>2

\* Who is where after increaseReshuffle, as ValidatorSet says it.
IncreasedSets(a, w, aNew, wNew, v, pow, newPower) ==
    \/ /\ v \in In(a) /\ In(aNew) = In(a) /\ In(wNew) = In(w)
    \/ /\ v \notin In(a) /\ Size(a) < ActiveLimit
       /\ In(aNew) = In(a) \cup {v} /\ In(wNew) = In(w)
    \/ /\ v \notin In(a) /\ Size(a) >= ActiveLimit
       /\ \E m \in WeakestIn(In(a), pow) :
             \/ /\ pow[m] < newPower
                /\ In(aNew) = (In(a) \ {m}) \cup {v}
                /\ In(wNew) = (In(w) \ {v}) \cup {m}
             \/ /\ ~(pow[m] < newPower)
                /\ In(wNew) = In(w) \cup {v}
                /\ In(aNew) = In(a)

\* increaseReshuffle, after the power of v grew or stayed.
LEMMA IncreaseReshuffles ==
    ASSUME NEW v, NEW pow, NEW newPower \in Nat,
           Written(activeQueue, waitingQueue, v, power, pow), power[v] <= pow[v],
           IncreaseReshuffle(v, pow, newPower)
    PROVE  /\ Settled(activeQueue', waitingQueue', pow)
           /\ IncreasedSets(activeQueue, waitingQueue, activeQueue', waitingQueue', v, pow, newPower)
<1>1. PICK a, w, less : a = activeQueue /\ w = waitingQueue /\ less = Minus(pow)
  OBVIOUS
<1>2. /\ Settled(a, w, power) /\ v \in Validator
      /\ pow \in [Validator -> Int] /\ less \in [Validator -> Int]
  BY <1>1, MinusType DEF Written
<1>3. /\ Proper(a) /\ Proper(w)
      /\ ~Queued(a, v) => HeapUnder(a, pow)
      /\ Queued(a, v) =>
            /\ ~Queued(w, v)
            /\ AroundOrdered(Keys(a, pow), Size(a), a.addressToPos[v])
            /\ NotTooSmall(Keys(a, pow), a.addressToPos[v])
      /\ ~Queued(w, v) => HeapUnder(w, less)
      /\ Queued(w, v) =>
            /\ ~Queued(a, v)
            /\ AroundOrdered(Keys(w, less), Size(w), w.addressToPos[v])
            /\ NotTooLarge(Keys(w, less), Size(w), w.addressToPos[v])
  BY <1>1, WrittenQueues
<1>4. /\ In(a) \cap In(w) = {} /\ In(a) \subseteq Validator /\ In(w) \subseteq Validator
      /\ Size(a) \in Nat /\ Size(w) \in Nat
      /\ Size(w) # 0 => Size(a) >= ActiveLimit
      /\ Queued(a, v) <=> v \in In(a)
      /\ Queued(w, v) <=> v \in In(w)
      /\ Size(w) = 0 <=> In(w) = {}
      /\ ActiveLimit \in Nat /\ ActiveLimit >= 1
  BY <1>2, <1>3, Membership, ValidatorQueuesAssumption DEF Settled
<1>5. CASE Queued(a, v)
  <2>1. activeQueue' = KeyIncreased(a, pow, v) /\ waitingQueue' = w
    BY <1>1, <1>5 DEF IncreaseReshuffle
  <2>2. HeapUnder(activeQueue', pow) /\ In(activeQueue') = In(a) /\ Size(activeQueue') = Size(a)
    BY <1>2, <1>3, <1>5, <2>1, IncreasedHeap
  <2>3. Settled(activeQueue', waitingQueue', pow)
    BY <1>1, <1>3, <1>4, <1>5, <2>1, <2>2 DEF Settled
  <2> QED
    BY <1>1, <1>4, <1>5, <2>1, <2>2, <2>3 DEF IncreasedSets
<1>6. CASE ~Queued(a, v) /\ Size(a) < ActiveLimit
  <2>1. activeQueue' = Insert(a, pow, v) /\ waitingQueue' = w
    BY <1>1, <1>6 DEF IncreaseReshuffle
  <2>2. /\ HeapUnder(activeQueue', pow) /\ In(activeQueue') = In(a) \cup {v}
        /\ Size(activeQueue') = Size(a) + 1
    BY <1>2, <1>3, <1>6, <2>1, InsertHeap
  <2>3. In(w) = {} /\ ~Queued(w, v) /\ Size(w) = 0
    BY <1>4, <1>6
  <2>4. Settled(activeQueue', waitingQueue', pow)
    BY <1>1, <1>3, <2>1, <2>2, <2>3 DEF Settled
  <2> QED
    BY <1>1, <1>4, <1>6, <2>1, <2>2, <2>4 DEF IncreasedSets
<1>7. CASE ~Queued(a, v) /\ ~(Size(a) < ActiveLimit)
  <2>0. PICK top : top = Top(a)
    OBVIOUS
  <2>1. HeapUnder(a, pow) /\ Size(a) # 0 /\ Size(a) >= ActiveLimit
    BY <1>3, <1>4, <1>7
  <2>2. top \in WeakestIn(In(a), pow) /\ top \in In(a)
    BY <1>2, <2>0, <2>1, Tops DEF WeakestIn
  <2>3. top \in Validator /\ top # v /\ top \notin In(w)
    BY <1>4, <1>7, <2>2
  <2>4. CASE pow[top] < newPower
    <3>1. PICK rest : rest = IF Queued(w, v) THEN DeleteReheapify(w, less, v) ELSE w
      OBVIOUS
    <3>2. activeQueue' = Insert(Pop(a, pow), pow, v) /\ waitingQueue' = Insert(rest, less, top)
      BY <1>1, <1>7, <2>0, <2>4, <3>1 DEF IncreaseReshuffle
    <3>3. HeapUnder(rest, less) /\ In(rest) = In(w) \ {v}
      <4>1. CASE Queued(w, v)
        BY <1>2, <1>3, <3>1, <4>1, DeleteHeap
      <4>2. CASE ~Queued(w, v)
        BY <1>3, <1>4, <3>1, <4>2
      <4> QED
        BY <4>1, <4>2
    <3>4. /\ HeapUnder(waitingQueue', less)
          /\ In(waitingQueue') = (In(w) \ {v}) \cup {top}
      <4>1. ~Queued(rest, top)
        BY <2>3, <3>3, Membership DEF HeapUnder
      <4> QED
        BY <1>2, <2>3, <3>2, <3>3, <4>1, InsertHeap
    <3>5. PICK p : p = Pop(a, pow)
      OBVIOUS
    <3>6. HeapUnder(p, pow) /\ In(p) = In(a) \ {top} /\ Size(p) = Size(a) - 1
      BY <1>2, <2>0, <2>1, <3>5, PopHeap
    <3>7. ~Queued(p, v)
      BY <1>2, <1>4, <1>7, <3>6, Membership DEF HeapUnder
    <3>8. /\ HeapUnder(activeQueue', pow)
          /\ In(activeQueue') = (In(a) \ {top}) \cup {v}
          /\ Size(activeQueue') = Size(a)
      BY <1>2, <1>4, <3>2, <3>5, <3>6, <3>7, InsertHeap
    <3>9. Settled(activeQueue', waitingQueue', pow)
      BY <1>1, <1>4, <2>1, <2>3, <3>4, <3>8, <1>7 DEF Settled
    <3> QED
      BY <1>1, <1>4, <1>7, <2>1, <2>2, <2>4, <3>4, <3>8, <3>9 DEF IncreasedSets
  <2>5. CASE ~(pow[top] < newPower)
    <3>1. /\ waitingQueue' = IF Queued(w, v) THEN KeyDecreased(w, less, v) ELSE Insert(w, less, v)
          /\ activeQueue' = a
      BY <1>1, <1>7, <2>0, <2>5 DEF IncreaseReshuffle
    <3>2. HeapUnder(waitingQueue', less) /\ In(waitingQueue') = In(w) \cup {v}
      <4>1. CASE Queued(w, v)
        <5>1. HeapUnder(waitingQueue', less) /\ In(waitingQueue') = In(w)
          BY <1>2, <1>3, <3>1, <4>1, DecreasedHeap
        <5> QED
          BY <1>4, <4>1, <5>1
      <4>2. CASE ~Queued(w, v)
        BY <1>2, <1>3, <3>1, <4>2, InsertHeap
      <4> QED
        BY <4>1, <4>2
    <3>3. Settled(activeQueue', waitingQueue', pow)
      BY <1>1, <1>4, <1>7, <2>1, <3>1, <3>2 DEF Settled
    <3> QED
      BY <1>1, <1>4, <1>7, <2>1, <2>2, <2>5, <3>1, <3>2, <3>3 DEF IncreasedSets
  <2> QED
    BY <2>4, <2>5
<1> QED
  BY <1>5, <1>6, <1>7

\* Who is where after reduceReshuffle.
ReducedSets(a, w, aNew, wNew, v, pow, newPower) ==
    \/ /\ v \in In(w)
       /\ In(wNew) = IF newPower = 0 THEN In(w) \ {v} ELSE In(w)
       /\ In(aNew) = In(a)
    \/ /\ v \in In(a) \ In(w) /\ newPower = 0
       /\ \/ /\ In(w) = {}
             /\ In(aNew) = In(a) \ {v} /\ In(wNew) = In(w)
          \/ /\ In(w) # {}
             /\ \E s \in StrongestIn(In(w), pow) :
                   /\ In(aNew) = (In(a) \ {v}) \cup {s}
                   /\ In(wNew) = In(w) \ {s}
    \/ /\ v \in In(a) \ In(w) /\ newPower # 0
       /\ \/ /\ In(w) = {}
             /\ In(aNew) = In(a) /\ In(wNew) = In(w)
          \/ /\ In(w) # {}
             /\ \E m \in WeakestIn(In(a), pow), s \in StrongestIn(In(w), pow) :
                   \/ /\ pow[m] < pow[s]
                      /\ In(aNew) = (In(a) \ {m}) \cup {s}
                      /\ In(wNew) = (In(w) \ {s}) \cup {m}
                   \/ /\ ~(pow[m] < pow[s])
                      /\ In(aNew) = In(a) /\ In(wNew) = In(w)

\* reduceReshuffle, after the power of v shrank.
LEMMA ReduceReshuffles ==
    ASSUME NEW v, NEW pow, NEW newPower \in Nat,
           Written(activeQueue, waitingQueue, v, power, pow), pow[v] <= power[v],
           ReduceReshuffle(v, pow, newPower)
    PROVE  /\ Settled(activeQueue', waitingQueue', pow)
           /\ ReducedSets(activeQueue, waitingQueue, activeQueue', waitingQueue', v, pow, newPower)
<1>1. PICK a, w, less : a = activeQueue /\ w = waitingQueue /\ less = Minus(pow)
  OBVIOUS
<1>2. /\ Settled(a, w, power) /\ v \in Validator
      /\ pow \in [Validator -> Int] /\ less \in [Validator -> Int]
  BY <1>1, MinusType DEF Written
<1>3. /\ Proper(a) /\ Proper(w)
      /\ ~Queued(a, v) => HeapUnder(a, pow)
      /\ Queued(a, v) =>
            /\ ~Queued(w, v)
            /\ AroundOrdered(Keys(a, pow), Size(a), a.addressToPos[v])
            /\ NotTooLarge(Keys(a, pow), Size(a), a.addressToPos[v])
      /\ ~Queued(w, v) => HeapUnder(w, less)
      /\ Queued(w, v) =>
            /\ ~Queued(a, v)
            /\ AroundOrdered(Keys(w, less), Size(w), w.addressToPos[v])
            /\ NotTooSmall(Keys(w, less), w.addressToPos[v])
  BY <1>1, WrittenQueues
<1>4. /\ In(a) \cap In(w) = {} /\ In(a) \subseteq Validator /\ In(w) \subseteq Validator
      /\ Size(a) \in Nat /\ Size(w) \in Nat
      /\ Size(w) # 0 => Size(a) >= ActiveLimit
      /\ Queued(a, v) <=> v \in In(a)
      /\ Queued(w, v) <=> v \in In(w)
      /\ Size(w) = 0 <=> In(w) = {}
      /\ Size(a) = 0 <=> In(a) = {}
      /\ ActiveLimit \in Nat /\ ActiveLimit >= 1
  BY <1>2, <1>3, Membership, ValidatorQueuesAssumption DEF Settled
<1>5. CASE Queued(w, v)
  <2>0. v \in In(w) /\ HeapUnder(a, pow) /\ Size(a) >= ActiveLimit
    BY <1>3, <1>4, <1>5
  <2>1. /\ waitingQueue' = IF newPower = 0 THEN DeleteReheapify(w, less, v)
                           ELSE KeyIncreased(w, less, v)
        /\ activeQueue' = a
    BY <1>1, <1>5 DEF ReduceReshuffle, ReduceWaiting
  <2>2. /\ HeapUnder(waitingQueue', less)
        /\ In(waitingQueue') = IF newPower = 0 THEN In(w) \ {v} ELSE In(w)
    <3>1. CASE newPower = 0
      BY <1>2, <1>3, <1>5, <2>1, <3>1, DeleteHeap
    <3>2. CASE newPower # 0
      BY <1>2, <1>3, <1>5, <2>1, <3>2, IncreasedHeap
    <3> QED
      BY <3>1, <3>2
  <2>3. Settled(activeQueue', waitingQueue', pow)
    BY <1>1, <1>4, <2>0, <2>1, <2>2 DEF Settled
  <2> QED
    BY <1>1, <2>0, <2>1, <2>2, <2>3 DEF ReducedSets
<1>6. CASE ~Queued(w, v) /\ Queued(a, v) /\ newPower = 0
  <2>0. v \in In(a) \ In(w) /\ HeapUnder(w, less)
    BY <1>3, <1>4, <1>6
  <2>1. PICK rest : rest = DeleteReheapify(a, pow, v)
    OBVIOUS
  <2>2. HeapUnder(rest, pow) /\ In(rest) = In(a) \ {v} /\ Size(rest) = Size(a) - 1
    BY <1>2, <1>3, <1>6, <2>1, DeleteHeap
  <2>3. RemoveActive(v, pow)
    BY <1>1, <1>6 DEF ReduceReshuffle, ReduceWaiting
  <2>4. CASE Size(w) = 0
    <3>1. activeQueue' = rest /\ waitingQueue' = w
      BY <1>1, <2>1, <2>3, <2>4 DEF RemoveActive
    <3>2. Settled(activeQueue', waitingQueue', pow)
      BY <1>1, <1>4, <2>0, <2>2, <2>4, <3>1 DEF Settled
    <3> QED
      BY <1>1, <1>4, <1>6, <2>0, <2>2, <2>4, <3>1, <3>2 DEF ReducedSets
  <2>5. CASE Size(w) # 0
    <3>1. PICK top : top = Top(w)
      OBVIOUS
    <3>2. top \in StrongestIn(In(w), pow) /\ top \in In(w)
      BY <1>1, <1>2, <2>0, <2>5, <3>1, Tops DEF StrongestIn
    <3>3. top \in Validator /\ top \notin In(a) /\ ~Queued(rest, top)
      BY <1>4, <2>2, <3>2, Membership DEF HeapUnder
    <3>4. activeQueue' = Insert(rest, pow, top) /\ waitingQueue' = Pop(w, less)
      BY <1>1, <2>1, <2>3, <2>5, <3>1 DEF RemoveActive
    <3>5. /\ HeapUnder(activeQueue', pow) /\ In(activeQueue') = (In(a) \ {v}) \cup {top}
          /\ Size(activeQueue') = Size(a)
      BY <1>2, <1>4, <2>2, <3>3, <3>4, InsertHeap
    <3>6. HeapUnder(waitingQueue', less) /\ In(waitingQueue') = In(w) \ {top}
      BY <1>2, <2>0, <2>5, <3>1, <3>4, PopHeap
    <3>7. Settled(activeQueue', waitingQueue', pow)
      BY <1>1, <1>4, <2>5, <3>5, <3>6 DEF Settled
    <3> QED
      BY <1>1, <1>4, <1>6, <2>0, <2>5, <3>2, <3>5, <3>6, <3>7 DEF ReducedSets
  <2> QED
    BY <2>4, <2>5
<1>7. CASE ~Queued(w, v) /\ Queued(a, v) /\ newPower # 0
  <2>0. v \in In(a) \ In(w) /\ HeapUnder(w, less) /\ Size(a) # 0
    BY <1>3, <1>4, <1>7
  <2>1. PICK active, m, s : active = KeyDecreased(a, pow, v) /\ m = Top(active) /\ s = Top(w)
    OBVIOUS
  <2>2. HeapUnder(active, pow) /\ In(active) = In(a) /\ Size(active) = Size(a)
    BY <1>2, <1>3, <1>7, <2>1, DecreasedHeap
  <2>3. ReduceActive(v, pow)
    BY <1>1, <1>7 DEF ReduceReshuffle, ReduceWaiting
  <2>4. m \in WeakestIn(In(a), pow) /\ m \in In(a)
    BY <1>2, <2>0, <2>1, <2>2, Tops DEF WeakestIn
  <2>5. Size(w) # 0 => s \in StrongestIn(In(w), pow) /\ s \in In(w)
    BY <1>1, <1>2, <2>0, <2>1, Tops DEF StrongestIn
  <2>6. CASE ~(Size(w) # 0 /\ pow[m] < pow[s])
    <3>1. activeQueue' = active /\ waitingQueue' = w
      BY <1>1, <2>1, <2>3, <2>6 DEF ReduceActive
    <3>2. Settled(activeQueue', waitingQueue', pow)
      BY <1>1, <1>4, <2>0, <2>2, <3>1 DEF Settled
    <3> QED
      BY <1>1, <1>4, <1>7, <2>0, <2>2, <2>4, <2>5, <2>6, <3>1, <3>2 DEF ReducedSets
  <2>7. CASE Size(w) # 0 /\ pow[m] < pow[s]
    <3>1. PICK pa, pw : pa = Pop(active, pow) /\ pw = Pop(w, less)
      OBVIOUS
    <3>2. activeQueue' = Insert(pa, pow, s) /\ waitingQueue' = Insert(pw, less, m)
      BY <1>1, <2>1, <2>3, <2>7, <3>1 DEF ReduceActive
    <3>3. HeapUnder(pa, pow) /\ In(pa) = In(a) \ {m} /\ Size(pa) = Size(a) - 1
      BY <1>2, <2>0, <2>1, <2>2, <3>1, PopHeap
    <3>4. HeapUnder(pw, less) /\ In(pw) = In(w) \ {s}
      BY <1>2, <2>0, <2>1, <2>7, <3>1, PopHeap
    <3>5. /\ m \in Validator /\ s \in Validator /\ s \in In(w)
          /\ ~Queued(pa, s) /\ ~Queued(pw, m)
      BY <1>4, <2>4, <2>5, <2>7, <3>3, <3>4, Membership DEF HeapUnder
    <3>6. /\ HeapUnder(activeQueue', pow) /\ In(activeQueue') = (In(a) \ {m}) \cup {s}
          /\ Size(activeQueue') = Size(a)
      BY <1>2, <1>4, <3>2, <3>3, <3>5, InsertHeap
    <3>7. HeapUnder(waitingQueue', less) /\ In(waitingQueue') = (In(w) \ {s}) \cup {m}
      BY <1>2, <3>2, <3>4, <3>5, InsertHeap
    <3>8. Settled(activeQueue', waitingQueue', pow)
      BY <1>1, <1>4, <2>4, <2>7, <3>5, <3>6, <3>7 DEF Settled
    <3> QED
      BY <1>1, <1>4, <1>7, <2>0, <2>4, <2>5, <2>7, <3>6, <3>7, <3>8 DEF ReducedSets
  <2> QED
    BY <2>6, <2>7
<1>8. Queued(w, v) \/ Queued(a, v)
  BY <1>1 DEF ReduceReshuffle, ReduceWaiting
<1> QED
  BY <1>5, <1>6, <1>7, <1>8

-----------------------------------------------------------------------------
(***************************************************************************)
(* The specification.                                                      *)
(***************************************************************************)
QueuesInv ==
    /\ power \in [Validator -> 0..MaxPower]
    /\ Settled(activeQueue, waitingQueue, power)

\* The queues of a new validator set.
LEMMA EmptyHeap ==
    ASSUME NEW key
    PROVE  HeapUnder(EmptyPQ, key) /\ In(EmptyPQ) = {} /\ Size(EmptyPQ) = 0
<1>1. PICK a, p : a = <<>> /\ p = [v \in Validator |-> 0]
  OBVIOUS
<1>2. a \in Seq(Validator) /\ Len(a) = 0 /\ p \in [Validator -> Nat]
  BY <1>1
<1>3. /\ \A i \in 1..Len(a) : p[a[i]] = i
      /\ \A v \in Validator : p[v] # 0 => p[v] \in 1..Len(a) /\ a[p[v]] = v
  BY <1>1, <1>2
<1>4. PICK q : q = EmptyPQ
  OBVIOUS
<1>5. q = [posToAddress |-> a, addressToPos |-> p]
  BY <1>1, <1>4 DEF EmptyPQ
<1>6. Proper(q) /\ Size(q) = 0
  BY <1>2, <1>3, <1>5, MakeProper
<1>7. In(q) = {}
  BY <1>6, Membership
<1>8. IsHeap(Keys(q, key), 0)
  BY DEF IsHeap
<1> QED
  BY <1>4, <1>6, <1>7, <1>8 DEF HeapUnder

\* A new validator set.
LEMMA QueuesInitInv == QueuesInit => QueuesInv
<1> SUFFICES ASSUME QueuesInit PROVE QueuesInv
  OBVIOUS
<1>1. power \in [Validator -> 0..MaxPower]
  BY ValidatorQueuesAssumption DEF QueuesInit
<1>2. /\ HeapUnder(activeQueue, power) /\ HeapUnder(waitingQueue, Minus(power))
      /\ In(activeQueue) = {} /\ Size(waitingQueue) = 0
  BY EmptyHeap DEF QueuesInit
<1> QED
  BY <1>1, <1>2 DEF QueuesInv, Settled

\* Every step writes a power and then increases or reduces.
Reshuffled(v, newPower) ==
    \/ IncreasedSets(activeQueue, waitingQueue, activeQueue', waitingQueue', v, power', newPower)
    \/ /\ ReducedSets(activeQueue, waitingQueue, activeQueue', waitingQueue', v, power', newPower)
       /\ newPower = power'[v]

\* A step keeps the invariant, and is a reshuffling of sets.
LEMMA QueuesStep ==
    ASSUME QueuesInv, QueuesNext
    PROVE  QueuesInv' /\ \E v \in Validator, newPower \in 0..MaxPower : Reshuffled(v, newPower)
<1> USE ValidatorQueuesAssumption
<1>1. power \in [Validator -> 0..MaxPower] /\ power \in [Validator -> Int]
  <2>1. power \in [Validator -> 0..MaxPower] /\ 0..MaxPower \subseteq Int
    BY DEF QueuesInv
  <2> QED
    BY <2>1
<1>2. Settled(activeQueue, waitingQueue, power)
  BY DEF QueuesInv
<1>3. ASSUME NEW v \in Validator, NEW newPower \in 0..MaxPower,
             power' = [power EXCEPT ![v] = newPower]
      PROVE  /\ power' \in [Validator -> 0..MaxPower]
             /\ power'[v] = newPower
             /\ Written(activeQueue, waitingQueue, v, power, power')
  <2>1. power' \in [Validator -> 0..MaxPower] /\ power' \in [Validator -> Int]
    BY <1>1, <1>3
  <2>2. power'[v] = newPower /\ \A u \in Validator : u # v => power'[u] = power[u]
    BY <1>1, <1>3
  <2> QED
    BY <1>1, <1>2, <2>1, <2>2 DEF Written
<1>4. ASSUME NEW v \in Validator, NEW newPower \in 1..MaxPower, Increase(v, newPower)
      PROVE  QueuesInv' /\ Reshuffled(v, newPower)
  <2>1. /\ newPower \in Nat /\ newPower \in 0..MaxPower
        /\ newPower > power[v] /\ power[v] \in Int
        /\ power' = [power EXCEPT ![v] = newPower]
        /\ IncreaseReshuffle(v, power', newPower)
    BY <1>1, <1>4 DEF Increase
  <2>2. /\ power' \in [Validator -> 0..MaxPower]
        /\ power'[v] = newPower
        /\ Written(activeQueue, waitingQueue, v, power, power')
    BY <1>3, <2>1
  <2>3. power[v] <= power'[v]
    BY <2>1, <2>2
  <2>4. PICK pow : pow = power'
    OBVIOUS
  <2>5. /\ Settled(activeQueue', waitingQueue', pow)
        /\ IncreasedSets(activeQueue, waitingQueue, activeQueue', waitingQueue', v, pow, newPower)
    BY <2>1, <2>2, <2>3, <2>4, IncreaseReshuffles
  <2> QED
    BY <2>2, <2>4, <2>5 DEF QueuesInv, Reshuffled
<1>5. ASSUME NEW v \in Validator, NEW newPower \in 0..MaxPower, Reduce(v, newPower)
      PROVE  QueuesInv' /\ Reshuffled(v, newPower)
  <2>1. /\ newPower \in Nat
        /\ newPower < power[v] /\ power[v] \in Int
        /\ power' = [power EXCEPT ![v] = newPower]
        /\ ReduceReshuffle(v, power', newPower)
    BY <1>1, <1>5 DEF Reduce
  <2>2. /\ power' \in [Validator -> 0..MaxPower]
        /\ power'[v] = newPower
        /\ Written(activeQueue, waitingQueue, v, power, power')
    BY <1>3, <2>1
  <2>3. power'[v] <= power[v]
    BY <2>1, <2>2
  <2>4. PICK pow : pow = power'
    OBVIOUS
  <2>5. /\ Settled(activeQueue', waitingQueue', pow)
        /\ ReducedSets(activeQueue, waitingQueue, activeQueue', waitingQueue', v, pow, newPower)
    BY <2>1, <2>2, <2>3, <2>4, ReduceReshuffles
  <2> QED
    BY <2>2, <2>4, <2>5 DEF QueuesInv, Reshuffled
<1>6. ASSUME NEW v \in Validator, NEW newCollateral \in 1..MaxPower,
             DepositWithoutPower(v, newCollateral)
      PROVE  QueuesInv' /\ Reshuffled(v, newCollateral)
  <2>1. /\ newCollateral \in Nat
        /\ power' = power /\ power[v] \in Int
        /\ IncreaseReshuffle(v, power, newCollateral)
    BY <1>1, <1>6 DEF DepositWithoutPower
  <2>2. Written(activeQueue, waitingQueue, v, power, power)
    BY <1>1, <1>2, <1>6 DEF Written
  <2>3. power[v] <= power[v]
    BY <2>1
  <2>4. /\ Settled(activeQueue', waitingQueue', power)
        /\ IncreasedSets(activeQueue, waitingQueue, activeQueue', waitingQueue', v, power,
                         newCollateral)
    BY <2>1, <2>2, <2>3, IncreaseReshuffles
  <2> QED
    BY <1>1, <2>1, <2>4 DEF QueuesInv, Reshuffled
<1>7. 1..MaxPower \subseteq 0..MaxPower
  OBVIOUS
<1> QED
  BY <1>4, <1>5, <1>6, <1>7 DEF QueuesNext

\* The invariant.
LEMMA QueuesInvIsInductive == QueuesSpec => []QueuesInv
<1>1. QueuesInit => QueuesInv
  BY QueuesInitInv
<1>2. QueuesInv /\ [QueuesNext]_queueVars => QueuesInv'
  <2>1. QueuesInv /\ QueuesNext => QueuesInv'
    BY QueuesStep
  <2>2. QueuesInv /\ UNCHANGED queueVars => QueuesInv'
    <3> SUFFICES ASSUME QueuesInv, UNCHANGED queueVars PROVE QueuesInv'
      OBVIOUS
    <3>1. power' = power /\ activeQueue' = activeQueue /\ waitingQueue' = waitingQueue
      BY DEF queueVars
    <3> QED
      BY <3>1 DEF QueuesInv
  <2> QED
    BY <2>1, <2>2
<1> QED
  BY <1>1, <1>2, PTL DEF QueuesSpec

\* The two maps of each queue stay inverse to each other (LibPQ): a validator is
\* found at its position.
THEOREM QueuesTyped == QueuesSpec => []QueuesTypeOK
<1>1. QueuesInv => QueuesTypeOK
  BY DEF QueuesInv, Settled, HeapUnder, Proper, QueuesTypeOK
<1> QED
  BY <1>1, QueuesInvIsInductive, PTL

\* Both heaps stay ordered, whatever is inserted, popped, deleted from the middle
\* or changed in place (LibMinPQ, LibMaxPQ).
THEOREM QueuesAreHeaps == QueuesSpec => []HeapsOrdered
<1>1. QueuesInv => HeapsOrdered
  <2> SUFFICES ASSUME QueuesInv PROVE HeapsOrdered
    OBVIOUS
  <2>1. /\ HeapUnder(activeQueue, power) /\ HeapUnder(waitingQueue, Minus(power))
        /\ power \in [Validator -> Int]
    <3>1. power \in [Validator -> 0..MaxPower] /\ 0..MaxPower \subseteq Int
      BY ValidatorQueuesAssumption DEF QueuesInv
    <3> QED
      BY <3>1 DEF QueuesInv, Settled
  <2>2. ASSUME NEW i \in 2..Size(activeQueue)
        PROVE  KeyAt(activeQueue, power, i \div 2) <= KeyAt(activeQueue, power, i)
    <3>1. Size(activeQueue) \in Nat
      BY <2>1, Places DEF HeapUnder
    <3>2. i \in 1..Size(activeQueue) /\ i \div 2 \in 1..Size(activeQueue)
      BY <2>2, <3>1, Halves
    <3>3. Keys(activeQueue, power)[i \div 2] <= Keys(activeQueue, power)[i]
      BY <2>1, <2>2 DEF HeapUnder, IsHeap, Ordered
    <3> QED
      BY <3>2, <3>3 DEF Keys
  <2>3. ASSUME NEW i \in 2..Size(waitingQueue)
        PROVE  KeyAt(waitingQueue, power, i \div 2) >= KeyAt(waitingQueue, power, i)
    <3>1. PICK less : less = Minus(power)
      OBVIOUS
    <3>2. /\ Size(waitingQueue) \in Nat
          /\ \A k \in 1..Size(waitingQueue) : waitingQueue.posToAddress[k] \in Validator
      BY <2>1, Places DEF HeapUnder
    <3>3. i \in 1..Size(waitingQueue) /\ i \div 2 \in 1..Size(waitingQueue)
      BY <2>3, <3>2, Halves
    <3>4. Keys(waitingQueue, less)[i \div 2] <= Keys(waitingQueue, less)[i]
      BY <2>1, <2>3, <3>1 DEF HeapUnder, IsHeap, Ordered
    <3>5. PICK child, parent : /\ child = waitingQueue.posToAddress[i]
                               /\ parent = waitingQueue.posToAddress[i \div 2]
      OBVIOUS
    <3>6. child \in Validator /\ parent \in Validator /\ less[parent] <= less[child]
      BY <3>2, <3>3, <3>4, <3>5 DEF Keys, KeyAt
    <3>7. /\ less[child] = 0 - power[child] /\ less[parent] = 0 - power[parent]
          /\ power[child] \in Int /\ power[parent] \in Int
      BY <2>1, <3>1, <3>6, MinusType
    <3>8. power[parent] >= power[child]
      BY <3>6, <3>7
    <3> QED
      BY <3>5, <3>8 DEF KeyAt
  <2> QED
    BY <2>2, <2>3 DEF HeapsOrdered
<1> QED
  BY <1>1, QueuesInvIsInductive, PTL

\* As many validators as positions.
LEMMA SizeIsCardinality ==
    ASSUME NEW q, Proper(q)
    PROVE  Cardinality(In(q)) = Size(q)
<1>1. PICK n, a : n = Size(q) /\ a = q.posToAddress
  OBVIOUS
<1>2. /\ n \in Nat /\ a \in Seq(Validator) /\ DOMAIN a = 1..n
      /\ \A i \in 1..n : q.addressToPos[a[i]] = i
  BY <1>1, Places, LenProperties DEF Size
<1>3. In(q) = {a[i] : i \in 1..n}
  BY <1>1, <1>2 DEF In, ToSet
<1>4. PICK f : f = [i \in 1..n |-> a[i]]
  OBVIOUS
<1>5. f \in [1..n -> In(q)]
  BY <1>3, <1>4
<1>6. \A i, j \in 1..n : f[i] = f[j] => i = j
  BY <1>2, <1>4
<1>7. \A v \in In(q) : \E i \in 1..n : f[i] = v
  BY <1>3, <1>4
<1>8. f \in Bijection(1..n, In(q))
  BY <1>5, <1>6, <1>7 DEF Bijection, Injection, Surjection, IsInjective
<1>9. ExistsBijection(1..n, In(q))
  BY <1>8 DEF ExistsBijection
<1> QED
  BY <1>1, <1>2, <1>9, FS_CountingElements

\* The queues implement the reshuffling of ValidatorSet: whatever the heaps pick
\* is one of the weakest active and strongest waiting validators.
THEOREM QueuesReshuffleAsSets == QueuesSpec => ReshuffleAsSets
<1>1. ASSUME NEW v \in Validator, NEW newPower \in 0..MaxPower, QueuesInv, Reshuffled(v, newPower)
      PROVE  \/ Sets!IncreaseReshuffle(v, newPower)
             \/ Sets!ReduceReshuffle(v, newPower) /\ newPower = power'[v]
  <2>1. Sets!Cardinality(In(activeQueue)) = Size(activeQueue) /\ Size(activeQueue) \in Nat
    <3>1. \A S : Sets!Cardinality(S) = Cardinality(S)
      BY DEF Sets!Cardinality, Cardinality
    <3> QED
      BY <1>1, <3>1, SizeIsCardinality, Membership DEF QueuesInv, Settled, HeapUnder
  <2>2. Sets!Power' = power'
    BY DEF Sets!Power
  <2>3. \A S : /\ Sets!Weakest(S, power') = WeakestIn(S, power')
               /\ Sets!Strongest(S, power') = StrongestIn(S, power')
    BY DEF Sets!Weakest, Sets!Strongest, WeakestIn, StrongestIn
  <2>4. ASSUME IncreasedSets(activeQueue, waitingQueue, activeQueue', waitingQueue', v, power',
                             newPower)
        PROVE  Sets!IncreaseReshuffle(v, newPower)
    <3>1. CASE v \in In(activeQueue)
      BY <2>4, <3>1 DEF IncreasedSets, Sets!IncreaseReshuffle
    <3>2. CASE v \notin In(activeQueue) /\ Size(activeQueue) < ActiveLimit
      BY <2>1, <2>4, <3>2, ValidatorQueuesAssumption DEF IncreasedSets, Sets!IncreaseReshuffle
    <3>3. CASE v \notin In(activeQueue) /\ Size(activeQueue) >= ActiveLimit
      <4>1. PICK m \in WeakestIn(In(activeQueue), power') :
                \/ /\ power'[m] < newPower
                   /\ In(activeQueue)' = (In(activeQueue) \ {m}) \cup {v}
                   /\ In(waitingQueue)' = (In(waitingQueue) \ {v}) \cup {m}
                \/ /\ ~(power'[m] < newPower)
                   /\ In(waitingQueue)' = In(waitingQueue) \cup {v}
                   /\ In(activeQueue)' = In(activeQueue)
        BY <2>1, <2>4, <3>3, ValidatorQueuesAssumption DEF IncreasedSets
      <4>2. m \in Sets!Weakest(In(activeQueue), Sets!Power')
        BY <2>2, <2>3
      <4>3. Sets!Cardinality(In(activeQueue)) >= ActiveLimit
        BY <2>1, <3>3
      <4> QED
        BY <2>2, <3>3, <4>1, <4>2, <4>3 DEF Sets!IncreaseReshuffle
    <3> QED
      BY <2>1, <3>1, <3>2, <3>3, ValidatorQueuesAssumption
  <2>5. ASSUME ReducedSets(activeQueue, waitingQueue, activeQueue', waitingQueue', v, power',
                           newPower)
        PROVE  Sets!ReduceReshuffle(v, newPower)
    BY <2>2, <2>3, <2>5 DEF ReducedSets, Sets!ReduceReshuffle
  <2> QED
    BY <1>1, <2>4, <2>5 DEF Reshuffled
<1>2. QueuesInv /\ [QueuesNext]_queueVars =>
          [\E v \in Validator, newPower \in 0..MaxPower :
              \/ Sets!IncreaseReshuffle(v, newPower)
              \/ Sets!ReduceReshuffle(v, newPower) /\ newPower = power'[v]]_queueVars
  BY <1>1, QueuesStep
<1> QED
  BY <1>2, QueuesInvIsInductive, PTL DEF QueuesSpec, ReshuffleAsSets
=============================================================================
