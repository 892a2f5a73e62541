-------------------------- MODULE MCValidatorQueues --------------------------
(***************************************************************************)
(* Small instances of the priority queues.                                 *)
(***************************************************************************)
EXTENDS ValidatorQueues, TLC

\* Validators differ in nothing but their place, and who is in no queue has no
\* power: states that only exchange names count once.
PowersInPlace ==
    <<[i \in 1..Size(activeQueue) |-> KeyAt(activeQueue, power, i)],
      [i \in 1..Size(waitingQueue) |-> KeyAt(waitingQueue, power, i)]>>
=============================================================================
