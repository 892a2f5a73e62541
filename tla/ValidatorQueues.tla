--------------------------- MODULE ValidatorQueues ---------------------------
(***************************************************************************)
(* The two priority queues behind a validator set: active validators in an *)
(* index heap with the weakest on top (LibMinPQ), waiting validators in    *)
(* one with the strongest on top (LibMaxPQ). Both read the powers of their *)
(* members from the set, so a power changes while its owner is in a heap,  *)
(* and the heap is repaired afterwards.                                    *)
(*                                                                         *)
(* LibMaxPQ is LibMinPQ with its comparison turned round: one set of       *)
(* operators serves both, with the power, or minus the power, as the key.  *)
(***************************************************************************)
EXTENDS Integers, Sequences, SequencesExt

CONSTANTS
    Validator,    \* addresses that may become members
    MaxPower,     \* highest power
    ActiveLimit   \* activeLimit, the capacity of the active set

ASSUME ValidatorQueuesAssumption ==
    /\ IsFiniteSet(Validator)
    /\ MaxPower \in Nat
    /\ ActiveLimit \in Nat \ {0}

\* Positions are uint16 and sink doubles them: with more members than this the
\* doubled position wraps around or reverts, which is not modelled.
ASSUME DoubledPositionsFit == Cardinality(Validator) < 32768

VARIABLES
    power,        \* getPower of each validator
    activeQueue,  \* [posToAddress, addressToPos], the size is the length
    waitingQueue

queueVars == <<power, activeQueue, waitingQueue>>

PQ == [posToAddress : Seq(Validator), addressToPos : [Validator -> Nat]]
EmptyPQ == [posToAddress |-> <<>>, addressToPos |-> [v \in Validator |-> 0]]

Size(q) == Len(q.posToAddress)
Queued(q, v) == q.addressToPos[v] # 0
Top(q) == q.posToAddress[1]
In(q) == ToSet(q.posToAddress)

-----------------------------------------------------------------------------
(***************************************************************************)
(* LibPQ, and LibMinPQ over the keys key.                                  *)
(***************************************************************************)

\* Variant: the positions are not exchanged with the addresses.
ExchangeAddresses(q, pos1, pos2) ==
    [q EXCEPT !.posToAddress = [@ EXCEPT ![pos1] = q.posToAddress[pos2],
                                         ![pos2] = q.posToAddress[pos1]]]

Exchange(q, pos1, pos2) ==
    LET addr1 == q.posToAddress[pos1]
        addr2 == q.posToAddress[pos2]
    IN  [posToAddress |-> [q.posToAddress EXCEPT ![pos2] = addr1, ![pos1] = addr2],
         addressToPos |-> [q.addressToPos EXCEPT ![addr1] = pos2, ![addr2] = pos1]]

\* The size goes down by one and the last position is deleted.
DropLast(q) ==
    [posToAddress |-> Front(q.posToAddress),
     addressToPos |-> [q.addressToPos EXCEPT ![Last(q.posToAddress)] = 0]]

KeyAt(q, key, pos) == key[q.posToAddress[pos]]

\* A round of the loop of swim, from the state s, a queue and a position. The loop
\* ends (a break changes nothing, nor does a round after it) before there are more
\* rounds than positions: each one is a level up.
SwimRound(s, key) ==
    LET parentPos == s.pos \div 2
    IN  IF s.pos > 1 /\ KeyAt(s.queue, key, parentPos) > KeyAt(s.queue, key, s.pos)
        THEN [queue |-> Exchange(s.queue, parentPos, s.pos), pos |-> parentPos]
        ELSE s

Swim(q, key, pos) ==
    LET swum[n \in 0..Size(q)] ==
            IF n = 0 THEN [queue |-> q, pos |-> pos] ELSE SwimRound(swum[n - 1], key)
    IN  swum[Size(q)].queue

\* Variant: the second child is never chosen.
FirstPosition(q, key, pos) == pos

\* The child at pos, or its sibling if that one is smaller.
SmallerPosition(q, key, pos) ==
    IF pos < Size(q) /\ KeyAt(q, key, pos) > KeyAt(q, key, pos + 1) THEN pos + 1 ELSE pos

\* A round of the loop of sink.
SinkRound(s, key) ==
    LET childPos == SmallerPosition(s.queue, key, 2 * s.pos)
    IN  IF /\ 2 * s.pos <= Size(s.queue)
           /\ KeyAt(s.queue, key, s.pos) > KeyAt(s.queue, key, childPos)
        THEN [queue |-> Exchange(s.queue, childPos, s.pos), pos |-> childPos]
        ELSE s

Sink(q, key, pos) ==
    LET sunk[n \in 0..Size(q)] ==
            IF n = 0 THEN [queue |-> q, pos |-> pos] ELSE SinkRound(sunk[n - 1], key)
    IN  sunk[Size(q)].queue

Insert(q, key, v) ==
    LET pos == Size(q) + 1
    IN  Swim([posToAddress |-> Append(q.posToAddress, v),
              addressToPos |-> [q.addressToPos EXCEPT ![v] = pos]], key, pos)

Pop(q, key) == Sink(DropLast(Exchange(q, 1, Size(q))), key, 1)

\* Variant: the validator that takes the place is only sunk.
SinkOnly(q, key, pos) == Sink(q, key, pos)

\* "swim pos up in case exchanged index is smaller, sink pos down in case
\* updated pos is larger"
SwimAndSink(q, key, pos) == Sink(Swim(q, key, pos), key, pos)

DeleteReheapify(q, key, v) ==
    LET pos == q.addressToPos[v]
        rest == DropLast(Exchange(q, pos, Size(q)))
    IN  IF pos = Size(q) THEN rest ELSE SwimAndSink(rest, key, pos)

KeyIncreased(q, key, v) == Sink(q, key, q.addressToPos[v])
KeyDecreased(q, key, v) == Swim(q, key, q.addressToPos[v])

-----------------------------------------------------------------------------
(***************************************************************************)
(* LibValidatorSet over the queues; pow are the powers already written.    *)
(***************************************************************************)

Minus(pow) == [v \in Validator |-> 0 - pow[v]]

IncreaseReshuffle(v, pow, newPower) ==
    IF Queued(activeQueue, v)
    THEN /\ activeQueue' = KeyIncreased(activeQueue, pow, v)
         /\ UNCHANGED waitingQueue
    ELSE IF Size(activeQueue) < ActiveLimit
    THEN /\ activeQueue' = Insert(activeQueue, pow, v)
         /\ UNCHANGED waitingQueue
    ELSE IF pow[Top(activeQueue)] < newPower
    THEN LET rest == IF Queued(waitingQueue, v)
                     THEN DeleteReheapify(waitingQueue, Minus(pow), v)
                     ELSE waitingQueue
         IN  /\ activeQueue' = Insert(Pop(activeQueue, pow), pow, v)
             /\ waitingQueue' = Insert(rest, Minus(pow), Top(activeQueue))
    ELSE /\ waitingQueue' = IF Queued(waitingQueue, v)
                            THEN KeyDecreased(waitingQueue, Minus(pow), v)
                            ELSE Insert(waitingQueue, Minus(pow), v)
         /\ UNCHANGED activeQueue

ReduceWaiting(v, pow, newPower) ==
    /\ Queued(waitingQueue, v)
    /\ waitingQueue' = IF newPower = 0
                       THEN DeleteReheapify(waitingQueue, Minus(pow), v)
                       ELSE KeyIncreased(waitingQueue, Minus(pow), v)
    /\ UNCHANGED activeQueue

RemoveActive(v, pow) ==
    LET rest == DeleteReheapify(activeQueue, pow, v)
    IN  IF Size(waitingQueue) # 0
        THEN /\ activeQueue' = Insert(rest, pow, Top(waitingQueue))
             /\ waitingQueue' = Pop(waitingQueue, Minus(pow))
        ELSE activeQueue' = rest /\ UNCHANGED waitingQueue

ReduceActive(v, pow) ==
    LET active == KeyDecreased(activeQueue, pow, v)
        weakest == Top(active)
        strongest == Top(waitingQueue)
    IN  IF Size(waitingQueue) # 0 /\ pow[weakest] < pow[strongest]
        THEN /\ activeQueue' = Insert(Pop(active, pow), pow, strongest)
             /\ waitingQueue' = Insert(Pop(waitingQueue, Minus(pow)), Minus(pow), weakest)
        ELSE activeQueue' = active /\ UNCHANGED waitingQueue

ReduceReshuffle(v, pow, newPower) ==
    \/ ReduceWaiting(v, pow, newPower)
    \/ /\ ~Queued(waitingQueue, v) /\ Queued(activeQueue, v)
       /\ IF newPower = 0 THEN RemoveActive(v, pow) ELSE ReduceActive(v, pow)

-----------------------------------------------------------------------------
QueuesInit ==
    /\ power = [v \in Validator |-> 0]
    /\ activeQueue = EmptyPQ
    /\ waitingQueue = EmptyPQ

\* A deposit is confirmed, or a higher power is assigned.
Increase(v, newPower) ==
    /\ newPower > power[v]
    /\ power' = [power EXCEPT ![v] = newPower]
    /\ IncreaseReshuffle(v, power', newPower)

\* A withdrawal is confirmed, or a lower power is assigned.
Reduce(v, newPower) ==
    /\ newPower < power[v]
    /\ power' = [power EXCEPT ![v] = newPower]
    /\ ReduceReshuffle(v, power', newPower)

\* Where power is assigned, a confirmed deposit reshuffles by the collateral,
\* and the power stays.
DepositWithoutPower(v, newCollateral) ==
    /\ IncreaseReshuffle(v, power, newCollateral)
    /\ UNCHANGED power

QueuesNext ==
    \/ \E v \in Validator, newPower \in 1..MaxPower : Increase(v, newPower)
    \/ \E v \in Validator, newPower \in 0..MaxPower : Reduce(v, newPower)
    \/ \E v \in Validator, newCollateral \in 1..MaxPower : DepositWithoutPower(v, newCollateral)

QueuesSpec == QueuesInit /\ [][QueuesNext]_queueVars

-----------------------------------------------------------------------------
(***************************************************************************)
(* Properties.                                                             *)
(***************************************************************************)

\* The two maps of a queue are inverse to each other, so that a validator is
\* found where it is and removed validators leave no position behind (LibPQ).
QueuesTypeOK ==
    /\ power \in [Validator -> 0..MaxPower]
    /\ \A q \in {activeQueue, waitingQueue} :
          /\ q \in PQ
          /\ \A i \in 1..Size(q) : q.addressToPos[q.posToAddress[i]] = i
          /\ \A v \in Validator : Queued(q, v) => v \in In(q)

\* Both heaps are ordered below every position, although keys change in place.
HeapsOrdered ==
    /\ \A i \in 2..Size(activeQueue) :
          KeyAt(activeQueue, power, i \div 2) <= KeyAt(activeQueue, power, i)
    /\ \A i \in 2..Size(waitingQueue) :
          KeyAt(waitingQueue, power, i \div 2) >= KeyAt(waitingQueue, power, i)

Sets ==
    INSTANCE ValidatorSet WITH
        PermissionMode <- "Collateral",
        totalCollateral <- power,
        confirmedCollateral <- power,
        federatedPower <- power,
        hasMetadata <- power,
        totalConfirmedCollateral <- power,
        activeValidators <- In(activeQueue),
        waitingValidators <- In(waitingQueue)

\* The queues implement the reshuffling of ValidatorSet, which chooses among the
\* weakest active and the strongest waiting validators: whatever was inserted,
\* deleted and reordered before, the tops of the heaps are such validators, and
\* nobody is lost or doubled on the way between them.
ReshuffleAsSets ==
    [][\E v \in Validator, newPower \in 0..MaxPower :
          \/ Sets!IncreaseReshuffle(v, newPower)
          \/ Sets!ReduceReshuffle(v, newPower) /\ newPower = power'[v]]_queueVars
=============================================================================
