---------------------------- MODULE ValidatorSet ----------------------------
(***************************************************************************)
(* LibValidatorSet: the collateral of every validator, and the split of    *)
(* the members into a bounded active set and an unbounded waiting set.     *)
(* The parent's subnet actor and the child's gateway each keep one.        *)
(*                                                                         *)
(* The two heaps are sets here. A heap decides only which of the weakest   *)
(* active (strongest waiting) validators is picked when powers tie: that   *)
(* choice is left open.                                                    *)
(***************************************************************************)
EXTENDS Integers, FiniteSets

CONSTANTS
    Validator,        \* addresses that may ever hold collateral
    PermissionMode,   \* "Collateral", "Federated" or "Static"
    ActiveLimit       \* activeLimit, the capacity of the active set

ASSUME ValidatorSetAssumption ==
    /\ IsFiniteSet(Validator)
    /\ PermissionMode \in {"Collateral", "Federated", "Static"}
    /\ ActiveLimit \in Nat \ {0}

VARIABLES
    totalCollateral,           \* supplied by each validator, confirmed or not
    confirmedCollateral,       \* confirmed for each validator
    federatedPower,            \* power assigned by the owner
    hasMetadata,               \* whether the validator's public key is set
    totalConfirmedCollateral,  \* the running total kept next to the set
    activeValidators,          \* members that produce blocks
    waitingValidators          \* members that do not fit in the active set

validatorSetVars ==
    <<totalCollateral, confirmedCollateral, federatedPower, hasMetadata,
      totalConfirmedCollateral, activeValidators, waitingValidators>>

ValidatorSetTypeOK ==
    /\ totalCollateral \in [Validator -> Nat]
    /\ confirmedCollateral \in [Validator -> Nat]
    /\ federatedPower \in [Validator -> Nat]
    /\ hasMetadata \in [Validator -> BOOLEAN]
    /\ totalConfirmedCollateral \in Nat
    /\ activeValidators \in SUBSET Validator
    /\ waitingValidators \in SUBSET Validator

ValidatorSetInit ==
    /\ totalCollateral = [v \in Validator |-> 0]
    /\ confirmedCollateral = [v \in Validator |-> 0]
    /\ federatedPower = [v \in Validator |-> 0]
    /\ hasMetadata = [v \in Validator |-> FALSE]
    /\ totalConfirmedCollateral = 0
    /\ activeValidators = {}
    /\ waitingValidators = {}

Members == activeValidators \cup waitingValidators

Power == IF PermissionMode = "Federated" THEN federatedPower ELSE confirmedCollateral

Weakest(S, power) == {v \in S : \A u \in S : power[v] <= power[u]}

Strongest(S, power) == {v \in S : \A u \in S : power[u] <= power[v]}

-----------------------------------------------------------------------------
(***************************************************************************)
(* Reshuffling. Both procedures run after the power of v was written, so   *)
(* they read the new powers; a revert is an action that is not enabled.    *)
(***************************************************************************)

\* Variant: v is activated and left in the waiting queue.
IncreaseReshuffleKeepsWaiting(v, newPower) ==
    \/ /\ v \in activeValidators
       /\ UNCHANGED <<activeValidators, waitingValidators>>
    \/ /\ v \notin activeValidators
       /\ Cardinality(activeValidators) < ActiveLimit
       /\ activeValidators' = activeValidators \cup {v}
       /\ UNCHANGED waitingValidators
    \/ /\ v \notin activeValidators
       /\ Cardinality(activeValidators) >= ActiveLimit
       /\ \E m \in Weakest(activeValidators, Power') :
             IF Power'[m] < newPower
             THEN /\ activeValidators' = (activeValidators \ {m}) \cup {v}
                  /\ waitingValidators' = waitingValidators \cup {m}
             ELSE /\ waitingValidators' = waitingValidators \cup {v}
                  /\ UNCHANGED activeValidators

\* Variant: the replaced validator is dropped instead of waiting.
IncreaseReshuffleDropsReplaced(v, newPower) ==
    \/ /\ v \in activeValidators
       /\ UNCHANGED <<activeValidators, waitingValidators>>
    \/ /\ v \notin activeValidators
       /\ Cardinality(activeValidators) < ActiveLimit
       /\ activeValidators' = activeValidators \cup {v}
       /\ UNCHANGED waitingValidators
    \/ /\ v \notin activeValidators
       /\ Cardinality(activeValidators) >= ActiveLimit
       /\ \E m \in Weakest(activeValidators, Power') :
             IF Power'[m] < newPower
             THEN /\ activeValidators' = (activeValidators \ {m}) \cup {v}
                  /\ waitingValidators' = waitingValidators \ {v}
             ELSE /\ waitingValidators' = waitingValidators \cup {v}
                  /\ UNCHANGED activeValidators

\* Inserting into an active set with room does not look into the waiting set.
IncreaseReshuffle(v, newPower) ==
    \/ /\ v \in activeValidators
       /\ UNCHANGED <<activeValidators, waitingValidators>>
    \/ /\ v \notin activeValidators
       /\ Cardinality(activeValidators) < ActiveLimit
       /\ activeValidators' = activeValidators \cup {v}
       /\ UNCHANGED waitingValidators
    \/ /\ v \notin activeValidators
       /\ Cardinality(activeValidators) >= ActiveLimit
       /\ \E m \in Weakest(activeValidators, Power') :
             IF Power'[m] < newPower
             THEN /\ activeValidators' = (activeValidators \ {m}) \cup {v}
                  /\ waitingValidators' = (waitingValidators \ {v}) \cup {m}
             ELSE /\ waitingValidators' = waitingValidators \cup {v}
                  /\ UNCHANGED activeValidators

\* Variant: no waiting validator is promoted when an active one leaves.
ReduceReshuffleNoPromotion(v, newPower) ==
    \/ /\ v \in waitingValidators
       /\ waitingValidators' = IF newPower = 0 THEN waitingValidators \ {v} ELSE waitingValidators
       /\ UNCHANGED activeValidators
    \/ /\ v \in activeValidators \ waitingValidators
       /\ activeValidators' = IF newPower = 0 THEN activeValidators \ {v} ELSE activeValidators
       /\ UNCHANGED waitingValidators

\* Disabled, as the code reverts, when v is in neither set.
ReduceReshuffle(v, newPower) ==
    \/ /\ v \in waitingValidators
       /\ waitingValidators' = IF newPower = 0 THEN waitingValidators \ {v} ELSE waitingValidators
       /\ UNCHANGED activeValidators
    \/ /\ v \in activeValidators \ waitingValidators
       /\ newPower = 0
       /\ IF waitingValidators = {}
          THEN /\ activeValidators' = activeValidators \ {v}
               /\ UNCHANGED waitingValidators
          ELSE \E w \in Strongest(waitingValidators, Power') :
                  /\ activeValidators' = (activeValidators \ {v}) \cup {w}
                  /\ waitingValidators' = waitingValidators \ {w}
    \/ /\ v \in activeValidators \ waitingValidators
       /\ newPower # 0
       /\ IF waitingValidators = {}
          THEN UNCHANGED <<activeValidators, waitingValidators>>
          ELSE \E m \in Weakest(activeValidators, Power'),
                  w \in Strongest(waitingValidators, Power') :
                  IF Power'[m] < Power'[w]
                  THEN /\ activeValidators' = (activeValidators \ {m}) \cup {w}
                       /\ waitingValidators' = (waitingValidators \ {w}) \cup {m}
                  ELSE UNCHANGED <<activeValidators, waitingValidators>>

-----------------------------------------------------------------------------
(***************************************************************************)
(* Confirming a change. totalCollateral is the caller's: the code records  *)
(* a deposit or a withdrawal there first, and confirmWithdraw reads it. So *)
(* is hasMetadata, but for the deletion of a record.                       *)
(***************************************************************************)

\* Variant: the running total is forgotten.
ConfirmDepositNoTotal(v, amount) ==
    /\ confirmedCollateral' = [confirmedCollateral EXCEPT ![v] = @ + amount]
    /\ IncreaseReshuffle(v, confirmedCollateral'[v])
    /\ UNCHANGED <<federatedPower, totalConfirmedCollateral>>

ConfirmDeposit(v, amount) ==
    /\ confirmedCollateral' = [confirmedCollateral EXCEPT ![v] = @ + amount]
    /\ UNCHANGED federatedPower
    /\ totalConfirmedCollateral' = totalConfirmedCollateral + amount
    /\ IncreaseReshuffle(v, confirmedCollateral'[v])

\* The subtractions are checked: an amount that is not covered reverts. The
\* whole record goes with the last collateral, total and confirmed.
ConfirmWithdraw(v, amount) ==
    LET newCollateral == confirmedCollateral[v] - amount
        gone == newCollateral = 0 /\ totalCollateral'[v] = 0
    IN  /\ amount <= confirmedCollateral[v]
        /\ amount <= totalConfirmedCollateral
        /\ confirmedCollateral' = [confirmedCollateral EXCEPT ![v] = newCollateral]
        /\ federatedPower' = [federatedPower EXCEPT ![v] = IF gone THEN 0 ELSE @]
        /\ hasMetadata' = [hasMetadata EXCEPT ![v] = IF gone THEN FALSE ELSE @]
        /\ ReduceReshuffle(v, newCollateral)
        /\ totalConfirmedCollateral' = totalConfirmedCollateral - amount

ConfirmFederatedPower(v, power) ==
    /\ federatedPower' = [federatedPower EXCEPT ![v] = power]
    /\ UNCHANGED <<confirmedCollateral, totalConfirmedCollateral>>
    /\ \/ /\ federatedPower[v] = power
          /\ UNCHANGED <<activeValidators, waitingValidators>>
       \/ /\ federatedPower[v] < power
          /\ IncreaseReshuffle(v, power)
       \/ /\ federatedPower[v] > power
          /\ ReduceReshuffle(v, power)

-----------------------------------------------------------------------------
(***************************************************************************)
(* What the two sets promise.                                              *)
(***************************************************************************)

\* No validator is queued twice, and the active set respects its limit.
SetsAreDisjoint ==
    /\ activeValidators \cap waitingValidators = {}
    /\ Cardinality(activeValidators) <= ActiveLimit

\* A validator waits only because the active set has no room (the insertion
\* into a set with room would otherwise leave it in both).
WaitingOnlyWhenFull ==
    waitingValidators # {} => Cardinality(activeValidators) = ActiveLimit

\* Waiting validators "do no have as high collateral as Active validators".
ActiveAreStrongest ==
    \A a \in activeValidators, w \in waitingValidators : Power[w] <= Power[a]

\* Reshuffling keeps the two sets disjoint, the active set full before anyone
\* waits, and nobody waiting who is stronger than an active validator, however
\* many increases, reductions and departures are confirmed (LibValidatorSet).
ValidatorSetWellFormed ==
    /\ SetsAreDisjoint
    /\ WaitingOnlyWhenFull
    /\ ActiveAreStrongest

\* Collateral is what makes a member: whoever has confirmed collateral is in
\* one of the sets, and nobody else is.
MembersHaveCollateral ==
    \A v \in Validator : v \in Members <=> confirmedCollateral[v] > 0
=============================================================================
