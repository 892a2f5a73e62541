-------------------------- MODULE CollateralLedger --------------------------
(***************************************************************************)
(* What the parent promises about collateral, without saying how: every    *)
(* validator has two books, what it supplied and what is confirmed, and    *)
(* between them a numbered log of changes which is confirmed strictly in   *)
(* its order. A change moves the supplied book when it is recorded and the *)
(* confirmed book when it is confirmed; while the log is empty both may    *)
(* move at once. Recording looks at the supplied book only, and confirming *)
(* asks nothing: that a confirmation always finds the collateral it takes  *)
(* is a theorem (CollateralLedger_proofs), not a guard.                    *)
(***************************************************************************)
EXTENDS Integers

CONSTANT Validator

VARIABLES
    supplied,   \* what each validator has put in and not asked back
    confirmed,  \* what is confirmed for each validator
    pending,    \* the log: number -> [validator, delta]
    first,      \* number of the first entry of the log
    next        \* number of the next entry

ledgerVars == <<supplied, confirmed, pending, first, next>>

Entry == [validator : Validator, delta : Int]

Init ==
    /\ supplied = [v \in Validator |-> 0]
    /\ confirmed = [v \in Validator |-> 0]
    /\ first = 1
    /\ next = 1
    /\ pending = [n \in {} |-> {}]

\* v supplies or takes back collateral; its book cannot go below zero.
Supply(v) ==
    /\ supplied'[v] \in Nat
    /\ supplied' = [supplied EXCEPT ![v] = supplied'[v]]

\* How far the step moves the supplied book of v.
Delta(v) == supplied'[v] - supplied[v]

\* Both books at once, when nothing is waiting between them.
Direct(v) ==
    /\ first = next
    /\ Supply(v)
    /\ confirmed' = [confirmed EXCEPT ![v] = @ + Delta(v)]
    /\ UNCHANGED <<pending, first, next>>

\* The change goes to the end of the log, after a number of empty changes.
Record(v, empty) ==
    LET number == next + empty
    IN  /\ Supply(v)
        /\ pending' = [n \in first..number |->
                          IF n < next THEN pending[n]
                          ELSE [validator |-> v, delta |-> IF n = number THEN Delta(v) ELSE 0]]
        /\ next' = number + 1
        /\ UNCHANGED <<confirmed, first>>

Confirm ==
    /\ first < next
    /\ LET entry == pending[first]
       IN  confirmed' = [confirmed EXCEPT ![entry.validator] = @ + entry.delta]
    /\ pending' = [n \in (first + 1)..(next - 1) |-> pending[n]]
    /\ first' = first + 1
    /\ UNCHANGED <<supplied, next>>

Next ==
    \/ \E v \in Validator : Direct(v)
    \/ \E v \in Validator, empty \in {0, 1} : Record(v, empty)
    \/ Confirm

Spec == Init /\ [][Next]_ledgerVars

\* Nobody's confirmed collateral is ever overdrawn.
NeverOverdrawn == confirmed \in [Validator -> Nat]

\* The next change can be confirmed: its validator's collateral covers it.
HeadConfirmable ==
    first < next => confirmed[pending[first].validator] + pending[first].delta \in Nat
=============================================================================
