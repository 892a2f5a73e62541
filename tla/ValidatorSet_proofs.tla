------------------------ MODULE ValidatorSet_proofs ------------------------
(***************************************************************************)
(* What reshuffling and confirming a change do to a validator set: the     *)
(* types they keep, and the three parts of ValidatorSetWellFormed.         *)
(***************************************************************************)
EXTENDS ValidatorSet, TLAPS, FiniteSetTheorems

\* Reshuffling an insertion or an increase moves validators only.
LEMMA IncreaseReshuffleType ==
    ASSUME ValidatorSetTypeOK, NEW v \in Validator, NEW newPower,
           IncreaseReshuffle(v, newPower)
    PROVE  /\ activeValidators' \in SUBSET Validator
           /\ waitingValidators' \in SUBSET Validator
BY DEF IncreaseReshuffle, ValidatorSetTypeOK, Weakest

LEMMA ReduceReshuffleType ==
    ASSUME ValidatorSetTypeOK, NEW v \in Validator, NEW newPower,
           ReduceReshuffle(v, newPower)
    PROVE  /\ activeValidators' \in SUBSET Validator
           /\ waitingValidators' \in SUBSET Validator
BY DEF ReduceReshuffle, ValidatorSetTypeOK, Weakest, Strongest

LEMMA ConfirmDepositType ==
    ASSUME ValidatorSetTypeOK, NEW v \in Validator, NEW amount \in Nat,
           ConfirmDeposit(v, amount)
    PROVE  /\ confirmedCollateral' \in [Validator -> Nat]
           /\ federatedPower' \in [Validator -> Nat]
           /\ totalConfirmedCollateral' \in Nat
           /\ activeValidators' \in SUBSET Validator
           /\ waitingValidators' \in SUBSET Validator
<1>1. IncreaseReshuffle(v, confirmedCollateral'[v])
  BY DEF ConfirmDeposit
<1>2. QED
  BY <1>1, IncreaseReshuffleType DEF ConfirmDeposit, ValidatorSetTypeOK

LEMMA ConfirmWithdrawType ==
    ASSUME ValidatorSetTypeOK, NEW v \in Validator, NEW amount \in Nat,
           ConfirmWithdraw(v, amount)
    PROVE  /\ confirmedCollateral' \in [Validator -> Nat]
           /\ federatedPower' \in [Validator -> Nat]
           /\ hasMetadata' \in [Validator -> BOOLEAN]
           /\ totalConfirmedCollateral' \in Nat
           /\ activeValidators' \in SUBSET Validator
           /\ waitingValidators' \in SUBSET Validator
<1>1. /\ activeValidators' \in SUBSET Validator
      /\ waitingValidators' \in SUBSET Validator
  <2>1. ReduceReshuffle(v, confirmedCollateral[v] - amount)
    BY DEF ConfirmWithdraw
  <2>2. QED
    BY <2>1, ReduceReshuffleType
<1>2. PICK gone \in BOOLEAN :
         /\ federatedPower' = [federatedPower EXCEPT ![v] = IF gone THEN 0 ELSE @]
         /\ hasMetadata' = [hasMetadata EXCEPT ![v] = IF gone THEN FALSE ELSE @]
  BY DEF ConfirmWithdraw
<1>3. federatedPower' \in [Validator -> Nat]
  BY <1>2 DEF ValidatorSetTypeOK
<1>4. hasMetadata' \in [Validator -> BOOLEAN]
  <2>1. CASE gone
    BY <1>2, <2>1 DEF ValidatorSetTypeOK
  <2>2. CASE ~gone
    BY <1>2, <2>2 DEF ValidatorSetTypeOK
  <2>3. QED
    BY <2>1, <2>2
<1>5. /\ confirmedCollateral' \in [Validator -> Nat]
      /\ totalConfirmedCollateral' \in Nat
  BY DEF ConfirmWithdraw, ValidatorSetTypeOK
<1>6. QED
  BY <1>1, <1>3, <1>4, <1>5

LEMMA ConfirmFederatedPowerType ==
    ASSUME ValidatorSetTypeOK, NEW v \in Validator, NEW power \in Nat,
           ConfirmFederatedPower(v, power)
    PROVE  /\ confirmedCollateral' \in [Validator -> Nat]
           /\ federatedPower' \in [Validator -> Nat]
           /\ totalConfirmedCollateral' \in Nat
           /\ activeValidators' \in SUBSET Validator
           /\ waitingValidators' \in SUBSET Validator
<1>1. CASE federatedPower[v] = power
  BY <1>1 DEF ConfirmFederatedPower, ValidatorSetTypeOK
<1>2. CASE IncreaseReshuffle(v, power)
  BY <1>2, IncreaseReshuffleType DEF ConfirmFederatedPower, ValidatorSetTypeOK
<1>3. CASE ReduceReshuffle(v, power)
  BY <1>3, ReduceReshuffleType DEF ConfirmFederatedPower, ValidatorSetTypeOK
<1>4. QED
  BY <1>1, <1>2, <1>3 DEF ConfirmFederatedPower

-----------------------------------------------------------------------------
(***************************************************************************)
(* The active set and the waiting set stay disjoint, and validators wait   *)
(* only for a full active set. Powers do not matter here.                  *)
(***************************************************************************)

\* Subsets of Validator can be counted.
LEMMA ActiveFinite ==
    ASSUME NEW S \in SUBSET Validator
    PROVE  IsFiniteSet(S) /\ Cardinality(S) \in Nat
BY ValidatorSetAssumption, FS_Subset, FS_CardinalityType

\* Exchanging a member for another one keeps the size of a set.
LEMMA ExchangeCardinality ==
    ASSUME NEW S \in SUBSET Validator, NEW x \in S, NEW y \in Validator \ S
    PROVE  Cardinality((S \ {x}) \cup {y}) = Cardinality(S)
<1>1. IsFiniteSet(S) /\ Cardinality(S) \in Nat
  BY ActiveFinite
<1>2. IsFiniteSet(S \ {x}) /\ Cardinality(S \ {x}) = Cardinality(S) - 1
  BY <1>1, FS_RemoveElement
<1>3. Cardinality((S \ {x}) \cup {y}) = Cardinality(S \ {x}) + 1
  BY <1>2, FS_AddElement
<1>4. QED
  BY <1>1, <1>2, <1>3

\* Adding a new member makes a set larger by one, removing one smaller.
LEMMA StepCardinality ==
    ASSUME NEW S \in SUBSET Validator
    PROVE  /\ \A y \in Validator \ S : Cardinality(S \cup {y}) = Cardinality(S) + 1
           /\ \A x \in S : Cardinality(S \ {x}) = Cardinality(S) - 1
BY ActiveFinite, FS_AddElement, FS_RemoveElement

LEMMA IncreaseReshuffleSets ==
    ASSUME ValidatorSetTypeOK, SetsAreDisjoint, WaitingOnlyWhenFull,
           NEW v \in Validator, NEW newPower, IncreaseReshuffle(v, newPower)
    PROVE  SetsAreDisjoint' /\ WaitingOnlyWhenFull'
<1> USE DEF SetsAreDisjoint, WaitingOnlyWhenFull
<1>0. /\ activeValidators \in SUBSET Validator
      /\ waitingValidators \in SUBSET Validator
      /\ Cardinality(activeValidators) \in Nat
      /\ ActiveLimit \in Nat
  BY ActiveFinite, ValidatorSetAssumption DEF ValidatorSetTypeOK
<1>1. CASE v \in activeValidators /\ UNCHANGED <<activeValidators, waitingValidators>>
  BY <1>1
<1>2. CASE /\ v \notin activeValidators
           /\ Cardinality(activeValidators) < ActiveLimit
           /\ activeValidators' = activeValidators \cup {v}
           /\ UNCHANGED waitingValidators
  <2>1. waitingValidators = {}
    BY <1>0, <1>2
  <2>2. Cardinality(activeValidators \cup {v}) = Cardinality(activeValidators) + 1
    BY <1>0, <1>2, StepCardinality
  <2>3. QED
    BY <1>0, <1>2, <2>1, <2>2
<1>3. ASSUME v \notin activeValidators,
             Cardinality(activeValidators) >= ActiveLimit,
             NEW m \in activeValidators,
             activeValidators' = (activeValidators \ {m}) \cup {v},
             waitingValidators' = (waitingValidators \ {v}) \cup {m}
      PROVE  SetsAreDisjoint' /\ WaitingOnlyWhenFull'
  <2>1. Cardinality((activeValidators \ {m}) \cup {v}) = Cardinality(activeValidators)
    BY <1>0, <1>3, ExchangeCardinality
  <2>2. QED
    BY <1>0, <1>3, <2>1
<1>4. ASSUME v \notin activeValidators,
             Cardinality(activeValidators) >= ActiveLimit,
             waitingValidators' = waitingValidators \cup {v},
             UNCHANGED activeValidators
      PROVE  SetsAreDisjoint' /\ WaitingOnlyWhenFull'
  BY <1>0, <1>4
<1>5. QED
  BY <1>1, <1>2, <1>3, <1>4 DEF IncreaseReshuffle, Weakest

LEMMA ReduceReshuffleSets ==
    ASSUME ValidatorSetTypeOK, SetsAreDisjoint, WaitingOnlyWhenFull,
           NEW v \in Validator, NEW newPower, ReduceReshuffle(v, newPower)
    PROVE  SetsAreDisjoint' /\ WaitingOnlyWhenFull'
<1> USE DEF SetsAreDisjoint, WaitingOnlyWhenFull
<1>0. /\ activeValidators \in SUBSET Validator
      /\ waitingValidators \in SUBSET Validator
      /\ Cardinality(activeValidators) \in Nat
      /\ ActiveLimit \in Nat
  BY ActiveFinite, ValidatorSetAssumption DEF ValidatorSetTypeOK
<1>1. CASE /\ waitingValidators' \in {waitingValidators \ {v}, waitingValidators}
           /\ UNCHANGED activeValidators
  BY <1>1
<1>2. CASE /\ v \in activeValidators
           /\ waitingValidators = {}
           /\ activeValidators' = activeValidators \ {v}
           /\ UNCHANGED waitingValidators
  <2>1. Cardinality(activeValidators \ {v}) = Cardinality(activeValidators) - 1
    BY <1>0, <1>2, StepCardinality
  <2>2. QED
    BY <1>0, <1>2, <2>1
<1>3. ASSUME NEW m \in activeValidators, NEW w \in waitingValidators,
             activeValidators' = (activeValidators \ {m}) \cup {w},
             \/ waitingValidators' = waitingValidators \ {w}
             \/ waitingValidators' = (waitingValidators \ {w}) \cup {m}
      PROVE  SetsAreDisjoint' /\ WaitingOnlyWhenFull'
  <2>1. w \in Validator \ activeValidators
    BY <1>0
  <2>2. Cardinality((activeValidators \ {m}) \cup {w}) = Cardinality(activeValidators)
    BY <1>0, <2>1, ExchangeCardinality
  <2>3. QED
    BY <1>0, <1>3, <2>1, <2>2
<1>4. QED
  BY <1>1, <1>2, <1>3 DEF ReduceReshuffle, Weakest, Strongest

-----------------------------------------------------------------------------
(***************************************************************************)
(* The order of the two sets. In the proofs p holds the powers before the  *)
(* change of v's power, q those after it.                                  *)
(***************************************************************************)

\* The powers are natural numbers, before and after.
LEMMA PowerType ==
    ASSUME ValidatorSetTypeOK, ValidatorSetTypeOK'
    PROVE  Power \in [Validator -> Nat] /\ Power' \in [Validator -> Nat]
BY DEF ValidatorSetTypeOK, Power

\* Only v's power is different after the step.
OnlyPowerOf(v) == \A u \in Validator \ {v} : Power'[u] = Power[u]

LEMMA IncreaseReshuffleOrder ==
    ASSUME ValidatorSetTypeOK, ValidatorSetTypeOK', ValidatorSetWellFormed,
           NEW v \in Validator, NEW newPower, newPower = Power'[v],
           OnlyPowerOf(v), Power[v] <= newPower,
           IncreaseReshuffle(v, newPower)
    PROVE  ActiveAreStrongest'
<1>1. PICK p \in [Validator -> Nat], q \in [Validator -> Nat] : Power = p /\ Power' = q
  BY PowerType
<1>2. PICK A \in SUBSET Validator, W \in SUBSET Validator :
         activeValidators = A /\ waitingValidators = W
  BY DEF ValidatorSetTypeOK
<1>3. /\ \A u \in Validator \ {v} : q[u] = p[u]
      /\ \A a \in A, w \in W : p[w] <= p[a]
      /\ A \cap W = {}
      /\ newPower = q[v] /\ p[v] <= q[v]
  BY <1>1, <1>2 DEF OnlyPowerOf, ValidatorSetWellFormed, ActiveAreStrongest, SetsAreDisjoint
<1>4. SUFFICES \A a \in activeValidators', w \in waitingValidators' : q[w] <= q[a]
  BY <1>1 DEF ActiveAreStrongest
<1>5. CASE v \in A /\ activeValidators' = A /\ waitingValidators' = W
  <2>1. \A a \in A, w \in W : q[w] <= q[a]
    BY <1>3, <1>5
  <2>2. QED
    BY <1>5, <2>1
<1>6. CASE Cardinality(A) < ActiveLimit /\ waitingValidators' = W
  <2>1. W = {}
    BY <1>2, <1>6, ActiveFinite, ValidatorSetAssumption
    DEF ValidatorSetWellFormed, WaitingOnlyWhenFull
  <2>2. QED
    BY <1>6, <2>1
<1>7. ASSUME v \notin A, NEW m \in Weakest(A, q),
             IF q[m] < q[v]
             THEN /\ activeValidators' = (A \ {m}) \cup {v}
                  /\ waitingValidators' = (W \ {v}) \cup {m}
             ELSE /\ waitingValidators' = W \cup {v}
                  /\ activeValidators' = A
      PROVE  \A a \in activeValidators', w \in waitingValidators' : q[w] <= q[a]
  <2>1. m \in A /\ \A u \in A : q[m] <= q[u]
    BY <1>7 DEF Weakest
  <2>2. /\ q[m] < q[v] =>
              \A a \in (A \ {m}) \cup {v}, w \in (W \ {v}) \cup {m} : q[w] <= q[a]
        /\ ~(q[m] < q[v]) => \A a \in A, w \in W \cup {v} : q[w] <= q[a]
    BY <1>3, <1>7, <2>1
  <2>3. QED
    BY <1>7, <2>2
<1>8. QED
  BY <1>1, <1>2, <1>3, <1>5, <1>6, <1>7 DEF IncreaseReshuffle

LEMMA ReduceReshuffleOrder ==
    ASSUME ValidatorSetTypeOK, ValidatorSetTypeOK', ValidatorSetWellFormed,
           NEW v \in Validator, NEW newPower, newPower = Power'[v],
           OnlyPowerOf(v), newPower <= Power[v],
           ReduceReshuffle(v, newPower)
    PROVE  ActiveAreStrongest'
<1>1. PICK p \in [Validator -> Nat], q \in [Validator -> Nat] : Power = p /\ Power' = q
  BY PowerType
<1>2. PICK A \in SUBSET Validator, W \in SUBSET Validator :
         activeValidators = A /\ waitingValidators = W
  BY DEF ValidatorSetTypeOK
<1>3. /\ \A u \in Validator \ {v} : q[u] = p[u]
      /\ \A a \in A, w \in W : p[w] <= p[a]
      /\ A \cap W = {}
      /\ newPower = q[v] /\ q[v] <= p[v]
  BY <1>1, <1>2 DEF OnlyPowerOf, ValidatorSetWellFormed, ActiveAreStrongest, SetsAreDisjoint
<1>4. SUFFICES \A a \in activeValidators', w \in waitingValidators' : q[w] <= q[a]
  BY <1>1 DEF ActiveAreStrongest
<1>5. CASE v \in W /\ waitingValidators' \in {W \ {v}, W} /\ activeValidators' = A
  <2>1. \A a \in A, w \in W : q[w] <= q[a]
    BY <1>3, <1>5
  <2>2. QED
    BY <1>5, <2>1
<1>6. CASE waitingValidators' = {}
  BY <1>6
<1>7. ASSUME v \in A, NEW s \in Strongest(W, q),
             \/ /\ activeValidators' = (A \ {v}) \cup {s}
                /\ waitingValidators' = W \ {s}
             \/ \E m \in Weakest(A, q) :
                   IF q[m] < q[s]
                   THEN /\ activeValidators' = (A \ {m}) \cup {s}
                        /\ waitingValidators' = (W \ {s}) \cup {m}
                   ELSE activeValidators' = A /\ waitingValidators' = W
      PROVE  \A a \in activeValidators', w \in waitingValidators' : q[w] <= q[a]
  <2>1. s \in W /\ \A u \in W : q[u] <= q[s]
    BY <1>7 DEF Strongest
  <2>2. /\ \A a \in (A \ {v}) \cup {s}, w \in W \ {s} : q[w] <= q[a]
        /\ \A m \in A : (\A u \in A : q[m] <= q[u]) =>
              /\ q[m] < q[s] =>
                    \A a \in (A \ {m}) \cup {s}, w \in (W \ {s}) \cup {m} : q[w] <= q[a]
              /\ ~(q[m] < q[s]) => \A a \in A, w \in W : q[w] <= q[a]
    BY <1>3, <1>7, <2>1
  <2>3. CASE /\ activeValidators' = (A \ {v}) \cup {s}
             /\ waitingValidators' = W \ {s}
    BY <2>2, <2>3
  <2>4. ASSUME NEW m \in Weakest(A, q),
               IF q[m] < q[s]
               THEN /\ activeValidators' = (A \ {m}) \cup {s}
                    /\ waitingValidators' = (W \ {s}) \cup {m}
               ELSE activeValidators' = A /\ waitingValidators' = W
        PROVE  \A a \in activeValidators', w \in waitingValidators' : q[w] <= q[a]
    <3>1. m \in A /\ \A u \in A : q[m] <= q[u]
      BY <2>4 DEF Weakest
    <3>2. CASE q[m] < q[s]
      BY <2>2, <2>4, <3>1, <3>2
    <3>3. CASE ~(q[m] < q[s])
      BY <2>2, <2>4, <3>1, <3>3
    <3>4. QED
      BY <3>2, <3>3
  <2>5. QED
    BY <1>7, <2>3, <2>4
<1>8. QED
  BY <1>1, <1>2, <1>3, <1>5, <1>6, <1>7 DEF ReduceReshuffle

-----------------------------------------------------------------------------
(***************************************************************************)
(* Confirming a change keeps the validator set well formed.                *)
(***************************************************************************)

\* Collateral that is powerless (Federated, before the owner assigned power)
\* cannot disturb the order either.
NoPowerYet == PermissionMode = "Federated" /\ \A v \in Validator : federatedPower[v] = 0

LEMMA NoPowerOrder ==
    ASSUME ValidatorSetTypeOK', NoPowerYet'
    PROVE  ActiveAreStrongest'
<1>1. Power' \in [Validator -> Nat] /\ \A v \in Validator : Power'[v] = 0
  BY DEF NoPowerYet, ValidatorSetTypeOK, Power
<1>2. \A a \in activeValidators', w \in waitingValidators' : a \in Validator /\ w \in Validator
  BY DEF ValidatorSetTypeOK
<1>3. 0 <= 0
  OBVIOUS
<1>4. QED
  BY <1>1, <1>2, <1>3 DEF ActiveAreStrongest

LEMMA ConfirmDepositWellFormed ==
    ASSUME ValidatorSetTypeOK, ValidatorSetTypeOK', ValidatorSetWellFormed,
           PermissionMode # "Federated" \/ NoPowerYet,
           NEW v \in Validator, NEW amount \in Nat, ConfirmDeposit(v, amount)
    PROVE  ValidatorSetWellFormed'
<1>1. IncreaseReshuffle(v, confirmedCollateral'[v])
  BY DEF ConfirmDeposit
<1>2. SetsAreDisjoint' /\ WaitingOnlyWhenFull'
  BY <1>1, IncreaseReshuffleSets DEF ValidatorSetWellFormed
<1>3. CASE PermissionMode # "Federated"
  <2>1. Power = confirmedCollateral /\ Power' = confirmedCollateral'
    BY <1>3 DEF Power
  <2>2. /\ confirmedCollateral \in [Validator -> Nat]
        /\ confirmedCollateral' = [confirmedCollateral EXCEPT ![v] = @ + amount]
    BY DEF ValidatorSetTypeOK, ConfirmDeposit
  <2>3. confirmedCollateral'[v] = Power'[v] /\ OnlyPowerOf(v)
    BY <2>1, <2>2 DEF OnlyPowerOf
  <2>4. confirmedCollateral[v] <= confirmedCollateral[v] + amount
    BY <2>2
  <2>5. Power[v] <= confirmedCollateral'[v]
    BY <2>1, <2>2, <2>4
  <2>6. ActiveAreStrongest'
    BY <1>1, <2>3, <2>5, IncreaseReshuffleOrder
  <2>7. QED
    BY <1>2, <2>6 DEF ValidatorSetWellFormed
<1>4. CASE NoPowerYet
  <2>1. NoPowerYet'
    BY <1>4 DEF NoPowerYet, ConfirmDeposit
  <2>2. QED
    BY <1>2, <2>1, NoPowerOrder DEF ValidatorSetWellFormed
<1>5. QED
  BY <1>3, <1>4

LEMMA ConfirmWithdrawWellFormed ==
    ASSUME ValidatorSetTypeOK, ValidatorSetTypeOK', ValidatorSetWellFormed,
           PermissionMode # "Federated" \/ NoPowerYet,
           NEW v \in Validator, NEW amount \in Nat, ConfirmWithdraw(v, amount)
    PROVE  ValidatorSetWellFormed'
<1>1. ReduceReshuffle(v, confirmedCollateral[v] - amount)
  BY DEF ConfirmWithdraw
<1>2. SetsAreDisjoint' /\ WaitingOnlyWhenFull'
  BY <1>1, ReduceReshuffleSets DEF ValidatorSetWellFormed
<1>3. CASE PermissionMode # "Federated"
  <2>1. Power = confirmedCollateral /\ Power' = confirmedCollateral'
    BY <1>3 DEF Power
  <2>2. /\ confirmedCollateral \in [Validator -> Nat]
        /\ confirmedCollateral' = [confirmedCollateral EXCEPT ![v] = confirmedCollateral[v] - amount]
    BY DEF ValidatorSetTypeOK, ConfirmWithdraw
  <2>3. confirmedCollateral[v] - amount = Power'[v] /\ OnlyPowerOf(v)
    BY <2>1, <2>2 DEF OnlyPowerOf
  <2>4. confirmedCollateral[v] - amount <= Power[v]
    BY <2>1, <2>2
  <2>5. ActiveAreStrongest'
    BY <1>1, <2>3, <2>4, ReduceReshuffleOrder
  <2>6. QED
    BY <1>2, <2>5 DEF ValidatorSetWellFormed
<1>4. CASE NoPowerYet
  <2>1. PICK gone \in BOOLEAN :
           federatedPower' = [federatedPower EXCEPT ![v] = IF gone THEN 0 ELSE @]
    BY DEF ConfirmWithdraw
  <2>2. NoPowerYet'
    BY <1>4, <2>1 DEF NoPowerYet, ValidatorSetTypeOK
  <2>3. QED
    BY <1>2, <2>2, NoPowerOrder DEF ValidatorSetWellFormed
<1>5. QED
  BY <1>3, <1>4

LEMMA ConfirmFederatedPowerWellFormed ==
    ASSUME ValidatorSetTypeOK, ValidatorSetTypeOK', ValidatorSetWellFormed,
           PermissionMode = "Federated",
           NEW v \in Validator, NEW power \in Nat, ConfirmFederatedPower(v, power)
    PROVE  ValidatorSetWellFormed'
<1>1. Power = federatedPower /\ Power' = federatedPower'
  BY DEF Power
<1>2. /\ federatedPower \in [Validator -> Nat]
      /\ federatedPower' = [federatedPower EXCEPT ![v] = power]
  BY DEF ValidatorSetTypeOK, ConfirmFederatedPower
<1>3. power = Power'[v] /\ OnlyPowerOf(v)
  BY <1>1, <1>2 DEF OnlyPowerOf
<1>4. CASE federatedPower[v] = power /\ UNCHANGED <<activeValidators, waitingValidators>>
  <2>1. federatedPower' = federatedPower
    BY <1>2, <1>4
  <2>2. QED
    BY <1>1, <1>4, <2>1 DEF ValidatorSetWellFormed, SetsAreDisjoint, WaitingOnlyWhenFull,
                            ActiveAreStrongest
<1>5. CASE federatedPower[v] < power /\ IncreaseReshuffle(v, power)
  <2>1. Power[v] <= power
    BY <1>1, <1>2, <1>5
  <2>2. QED
    BY <1>3, <1>5, <2>1, IncreaseReshuffleSets, IncreaseReshuffleOrder
    DEF ValidatorSetWellFormed
<1>6. CASE federatedPower[v] > power /\ ReduceReshuffle(v, power)
  <2>1. power <= Power[v]
    BY <1>1, <1>2, <1>6
  <2>2. QED
    BY <1>3, <1>6, <2>1, ReduceReshuffleSets, ReduceReshuffleOrder
    DEF ValidatorSetWellFormed
<1>7. QED
  BY <1>4, <1>5, <1>6 DEF ConfirmFederatedPower

-----------------------------------------------------------------------------
(***************************************************************************)
(* Who is a member. An increase makes v one; a reduction to zero, and      *)
(* nothing else, ends its membership.                                      *)
(***************************************************************************)

LEMMA IncreaseReshuffleMembers ==
    ASSUME NEW v, NEW newPower, IncreaseReshuffle(v, newPower)
    PROVE  Members' = Members \cup {v}
BY DEF IncreaseReshuffle, Weakest, Members

LEMMA ReduceReshuffleMembers ==
    ASSUME NEW v, NEW newPower, SetsAreDisjoint, ReduceReshuffle(v, newPower)
    PROVE  /\ v \in Members
           /\ newPower = 0 => Members' = Members \ {v}
           /\ newPower # 0 => Members' = Members
BY DEF ReduceReshuffle, Weakest, Strongest, Members, SetsAreDisjoint

LEMMA ConfirmDepositMembers ==
    ASSUME ValidatorSetTypeOK, MembersHaveCollateral,
           NEW v \in Validator, NEW amount \in Nat \ {0}, ConfirmDeposit(v, amount)
    PROVE  MembersHaveCollateral' /\ Members' = Members \cup {v}
<1>1. /\ confirmedCollateral \in [Validator -> Nat]
      /\ confirmedCollateral' = [confirmedCollateral EXCEPT ![v] = confirmedCollateral[v] + amount]
  BY DEF ValidatorSetTypeOK, ConfirmDeposit
<1>2. Members' = Members \cup {v}
  BY IncreaseReshuffleMembers DEF ConfirmDeposit
<1>3. confirmedCollateral[v] + amount > 0
  BY <1>1
<1>4. QED
  BY <1>1, <1>2, <1>3 DEF MembersHaveCollateral

LEMMA ConfirmWithdrawMembers ==
    ASSUME ValidatorSetTypeOK, MembersHaveCollateral, SetsAreDisjoint,
           NEW v \in Validator, NEW amount \in Nat, ConfirmWithdraw(v, amount)
    PROVE  MembersHaveCollateral' /\ Members \ {v} \subseteq Members' /\ Members' \subseteq Members
<1>0. confirmedCollateral[v] \in Nat /\ amount <= confirmedCollateral[v]
  BY DEF ValidatorSetTypeOK, ConfirmWithdraw
<1>1. PICK rest \in Nat :
         /\ confirmedCollateral' = [confirmedCollateral EXCEPT ![v] = rest]
         /\ ReduceReshuffle(v, rest)
  <2>1. confirmedCollateral[v] - amount \in Nat
    BY <1>0
  <2>2. QED
    BY <2>1 DEF ConfirmWithdraw
<1>2. /\ v \in Members
      /\ rest = 0 => Members' = Members \ {v}
      /\ rest # 0 => Members' = Members
  BY <1>1, ReduceReshuffleMembers
<1>3. confirmedCollateral \in [Validator -> Nat]
  BY DEF ValidatorSetTypeOK
<1>4. MembersHaveCollateral'
  <2>1. /\ confirmedCollateral'[v] = rest
        /\ \A u \in Validator \ {v} : confirmedCollateral'[u] = confirmedCollateral[u]
    BY <1>1, <1>3
  <2>2. v \in Members' <=> rest > 0
    BY <1>1, <1>2
  <2>3. \A u \in Validator \ {v} : u \in Members' <=> u \in Members
    BY <1>1, <1>2
  <2>4. QED
    BY <2>1, <2>2, <2>3 DEF MembersHaveCollateral
<1>5. QED
  BY <1>1, <1>2, <1>4
=============================================================================
