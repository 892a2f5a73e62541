------------------------ MODULE ParentAndChild_proofs ------------------------
(***************************************************************************)
(* Proofs about ParentAndChild, for any number of validators, relayers,    *)
(* changes and checkpoints, whatever pieces of the parent's events the     *)
(* client delivers and whichever checkpoints the relayers submit, in       *)
(* whatever order and with whatever lists of the members' signatures.      *)
(*                                                                         *)
(* The invariants build on each other. PairLogInv: the events number every *)
(* change ever recorded, from 1 without a gap, and the child's log reaches *)
(* from its own first to its own last number within them. ChildInv: the    *)
(* membership is the active set under the last number applied. CutInv and  *)
(* RelayInv: a checkpoint is signed by the membership that the one before  *)
(* carried, and the parent has confirmed what the last one carried.        *)
(* TrackedInv: the child's collateral is what the requests it applied add  *)
(* up to. In between, the parent alone is shown to be a SubnetActor, so    *)
(* that all theorems about one hold here.                                  *)
(***************************************************************************)
EXTENDS ParentAndChild, SubnetActor_proofs

Request == [configurationNumber : Nat \ {0}, change : Change]

\* Event n carries the number n, and there is one for every recorded change.
EventsAreNumbered ==
    /\ requests \in Seq(Request)
    /\ Len(requests) = nextConfigurationNumber - 1
    /\ \A n \in 1..Len(requests) : requests[n].configurationNumber = n

ChildLogTypeOK ==
    /\ cNextConfigurationNumber \in Nat \ {0}
    /\ cStartConfigurationNumber \in 1..cNextConfigurationNumber
    /\ cChanges \in [cStartConfigurationNumber..(cNextConfigurationNumber - 1) -> Change]
    /\ cApplyUpTo \in (cStartConfigurationNumber - 1)..(cNextConfigurationNumber - 1)

\* A checkpoint carries 0 or a number that the child has stored.
CheckpointsAreNumbered ==
    /\ \E S : checkpoints \in Seq([number : Nat, membership : S])
    /\ CheckpointsConfirmRecorded

PairLogInv ==
    /\ TypeOK
    /\ EventsAreNumbered
    /\ ChildLogTypeOK
    /\ ChildLogIsParents
    /\ CheckpointsAreNumbered

cLogVars == <<cChanges, cNextConfigurationNumber, cStartConfigurationNumber, cApplyUpTo>>

-----------------------------------------------------------------------------
\* The numbers of the parent's log, as integers.
LEMMA ParentNumbers ==
    ASSUME TypeOK
    PROVE  /\ nextConfigurationNumber \in Nat \ {0}
           /\ startConfigurationNumber \in 1..nextConfigurationNumber
           /\ changes \in [startConfigurationNumber..(nextConfigurationNumber - 1) -> Change]
    BY DEF TypeOK, LogTypeOK

\* What a call can do to the log: nothing, add to its end or, in the loop of
\* confirmChange, take its first change away.
LEMMA ParentStepLog ==
    ASSUME TypeOK, ParentStep
    PROVE  \/ UNCHANGED logVars
           \/ \E cs \in Seq(Change) : RecordChanges(cs)
           \/ ConfirmNext
<1> DEFINE Goal == \/ UNCHANGED logVars
                   \/ \E cs \in Seq(Change) : RecordChanges(cs)
                   \/ ConfirmNext
<1>1. ASSUME NEW a \in Funder, NEW amount \in Amounts,
             PreFund(a, amount) \/ PreRelease(a, amount)
      PROVE  Goal
    BY <1>1 DEF PreFund, PreRelease
<1>2. ASSUME NEW v \in Validator, NEW amount \in Amounts,
             \/ JoinBeforeBootstrap(v, amount)
             \/ StakeBeforeBootstrap(v, amount)
             \/ UnstakeBeforeBootstrap(v, amount)
      PROVE  Goal
    BY <1>2 DEF JoinBeforeBootstrap, StakeBeforeBootstrap, UnstakeBeforeBootstrap
<1>3. ASSUME NEW v \in Validator, NEW amount \in Nat
      PROVE  /\ JoinRequests(v, amount) \in Seq(Change)
             /\ <<DepositRequest(v, amount)>> \in Seq(Change)
             /\ <<WithdrawRequest(v, amount)>> \in Seq(Change)
    BY <1>3, RequestType DEF JoinRequests
<1>4. ASSUME NEW v \in Validator, NEW amount \in Amounts,
             \/ JoinAfterBootstrap(v, amount)
             \/ StakeAfterBootstrap(v, amount)
             \/ UnstakeAfterBootstrap(v, amount)
      PROVE  Goal
    <2>1. amount \in Nat
        BY SubnetActorAssumption
    <2>2. \/ RecordChanges(JoinRequests(v, amount))
          \/ RecordChanges(<<DepositRequest(v, amount)>>)
          \/ RecordChanges(<<WithdrawRequest(v, amount)>>)
        BY <1>4 DEF JoinAfterBootstrap, StakeAfterBootstrap, UnstakeAfterBootstrap
    <2> QED
        BY <1>3, <2>1, <2>2
<1>5. ASSUME NEW v \in Validator, LeaveAfterBootstrap(v)
      PROVE  Goal
    <2>1. totalCollateral[v] \in Nat
        BY DEF TypeOK, ValidatorSetTypeOK
    <2>2. RecordChanges(<<WithdrawRequest(v, totalCollateral[v])>>)
        BY <1>5 DEF LeaveAfterBootstrap
    <2> QED
        BY <1>3, <2>1, <2>2
<1>6. ASSUME NEW v \in Validator,
             LeaveBeforeBootstrap(v) \/ Claim(v) \/ (v \in Announcer /\ AddBootstrapNode(v))
      PROVE  Goal
    BY <1>6 DEF LeaveBeforeBootstrap, Claim, AddBootstrapNode
<1>7. CASE Kill \/ SetPaused
    BY <1>7 DEF Kill, SetPaused
<1> QED
    BY <1>1, <1>2, <1>4, <1>5, <1>6, <1>7, SubnetActorAssumption DEF ParentStep

\* A call of a validator only adds to the end of the log, or leaves its end
\* where it was.
LEMMA ParentLogGrows ==
    ASSUME TypeOK, ParentStep
    PROVE  \/ nextConfigurationNumber' = nextConfigurationNumber
           \/ /\ startConfigurationNumber' = startConfigurationNumber
              /\ nextConfigurationNumber <= nextConfigurationNumber'
<1>1. ASSUME NEW cs \in Seq(Change), RecordChanges(cs)
      PROVE  /\ startConfigurationNumber' = startConfigurationNumber
             /\ nextConfigurationNumber <= nextConfigurationNumber'
    <2>1. Len(cs) \in Nat /\ nextConfigurationNumber \in Nat
        BY ParentNumbers
    <2>2. /\ nextConfigurationNumber' = nextConfigurationNumber + Len(cs)
          /\ startConfigurationNumber' = startConfigurationNumber
        BY <1>1 DEF RecordChanges
    <2> QED
        BY <2>1, <2>2
<1> QED
    BY <1>1, ParentStepLog DEF ConfirmNext, logVars

\* A step of validators is a step of the subnet actor.
LEMMA ParentStepIsNext == ParentStep => Next
    BY DEF ParentStep, Next

-----------------------------------------------------------------------------
LEMMA PairLogInit == PairInit => PairLogInv
<1> SUFFICES ASSUME PairInit PROVE PairLogInv
    OBVIOUS
<1>1. TypeOK
    BY InitTypeOK DEF PairInit
<1>2. /\ nextConfigurationNumber = 1
      /\ requests = <<>>
    BY DEF PairInit, Init
<1>3. EventsAreNumbered
    BY <1>2 DEF EventsAreNumbered
<1>4. /\ cChanges = [n \in {} |-> {}]
      /\ cNextConfigurationNumber = 1
      /\ cStartConfigurationNumber = 1
      /\ cApplyUpTo = 0
    BY DEF PairInit, Child!ChildInit
<1>5. ChildLogTypeOK
    <2>1. 1..(1 - 1) = {}
        OBVIOUS
    <2> QED
        BY <1>4, <2>1 DEF ChildLogTypeOK
<1>6. ChildLogIsParents
    BY <1>2, <1>4 DEF ChildLogIsParents
<1>7. CheckpointsAreNumbered
    <2>1. checkpoints = <<>>
        BY DEF PairInit
    <2>2. <<>> \in Seq([number : Nat, membership : {}])
        OBVIOUS
    <2>3. CheckpointsConfirmRecorded
        BY <2>1 DEF CheckpointsConfirmRecorded
    <2> QED
        BY <2>1, <2>2, <2>3 DEF CheckpointsAreNumbered
<1> QED
    BY <1>1, <1>3, <1>5, <1>6, <1>7 DEF PairLogInv

\* A sequence is one over any larger set.
LEMMA WiderSeq ==
    ASSUME NEW S, NEW T, S \subseteq T, NEW s \in Seq(S)
    PROVE  s \in Seq(T)
<1>1. Len(s) \in Nat /\ s \in [1..Len(s) -> S]
    BY LenProperties
<1>2. s = [i \in 1..Len(s) |-> s[i]]
    BY <1>1
<1>3. \A i \in 1..Len(s) : s[i] \in T
    BY <1>1
<1>4. [i \in 1..Len(s) |-> s[i]] \in Seq(T)
    BY <1>1, <1>3, IsASeq
<1> QED
    BY <1>2, <1>4

\* Checkpoints carry natural numbers.
LEMMA CheckpointNumbers ==
    ASSUME NEW S, NEW cs \in Seq([number : Nat, membership : S])
    PROVE  \A h \in DOMAIN cs : cs[h].number \in Nat
<1> SUFFICES ASSUME NEW h \in DOMAIN cs PROVE cs[h].number \in Nat
    OBVIOUS
<1>1. h \in 1..Len(cs)
    BY LenProperties
<1>2. cs[h] \in [number : Nat, membership : S]
    BY <1>1, ElementOfSeq
<1> QED
    BY <1>2

\* Nothing is taken back of what was recorded, so checkpoints stay confirmable.
LEMMA CheckpointsStay ==
    ASSUME PairLogInv, TypeOK', checkpoints' = checkpoints,
           nextConfigurationNumber <= nextConfigurationNumber'
    PROVE  CheckpointsAreNumbered'
<1>1. nextConfigurationNumber \in Nat /\ nextConfigurationNumber' \in Nat
    BY DEF PairLogInv, TypeOK, LogTypeOK
<1>2. PICK S : checkpoints \in Seq([number : Nat, membership : S])
    BY DEF PairLogInv, CheckpointsAreNumbered
<1>3. \A h \in DOMAIN checkpoints :
          checkpoints[h].number \in Nat /\ checkpoints[h].number < nextConfigurationNumber
    BY <1>2, CheckpointNumbers
    DEF PairLogInv, CheckpointsAreNumbered, CheckpointsConfirmRecorded
<1>4. \A h \in DOMAIN checkpoints : checkpoints[h].number < nextConfigurationNumber'
    BY <1>1, <1>3
<1> QED
    BY <1>2, <1>4 DEF CheckpointsAreNumbered, CheckpointsConfirmRecorded

\* The child cuts a checkpoint.
LEMMA CheckpointsCut ==
    ASSUME PairLogInv, NEW number \in Nat, number < nextConfigurationNumber,
           nextConfigurationNumber' = nextConfigurationNumber, CutCheckpoint(number)
    PROVE  CheckpointsAreNumbered'
<1>1. PICK S : checkpoints \in Seq([number : Nat, membership : S])
    BY DEF PairLogInv, CheckpointsAreNumbered
<1> DEFINE T == S \cup {cCurrentMembership}
           cut == [number |-> number, membership |-> cCurrentMembership]
<1>2. checkpoints \in Seq([number : Nat, membership : T])
    <2>1. [number : Nat, membership : S] \subseteq [number : Nat, membership : T]
        OBVIOUS
    <2> HIDE DEF T
    <2> QED
        BY <1>1, <2>1, WiderSeq
<1>3. cut \in [number : Nat, membership : T]
    OBVIOUS
<1>4. PICK new : new = checkpoints'
    OBVIOUS
<1>5. new = Append(checkpoints, cut)
    BY <1>4 DEF CutCheckpoint
<1>6. /\ new \in Seq([number : Nat, membership : T])
      /\ \A h \in DOMAIN new :
            (h \in DOMAIN checkpoints /\ new[h] = checkpoints[h]) \/ new[h] = cut
    <2> HIDE DEF T, cut
    <2> QED
        BY <1>2, <1>3, <1>5
<1>7. \A h \in DOMAIN new : new[h].number < nextConfigurationNumber
    <2>1. cut.number = number
        OBVIOUS
    <2> HIDE DEF cut
    <2> QED
        BY <1>6, <2>1 DEF PairLogInv, CheckpointsAreNumbered, CheckpointsConfirmRecorded
<1> HIDE DEF T, cut
<1> QED
    BY <1>4, <1>6, <1>7 DEF CheckpointsAreNumbered, CheckpointsConfirmRecorded

NumberedUpTo(events, last, old) ==
    /\ events \in Seq(Request)
    /\ Len(events) = last
    /\ \A n \in 1..Len(events) : events[n].configurationNumber = n
    /\ \A n \in 1..Len(old) : events[n] = old[n]

\* Numbered events stay numbered when those that follow are appended.
LEMMA NumberedOn ==
    ASSUME NEW old \in Seq(Request), NEW next \in Nat \ {0},
           NEW extra \in Seq(Request),
           Len(old) = next - 1,
           \A n \in 1..Len(old) : old[n].configurationNumber = n,
           \A i \in 1..Len(extra) : extra[i].configurationNumber = next + i - 1
    PROVE  NumberedUpTo(old \o extra, next + Len(extra) - 1, old)
<1> DEFINE new == old \o extra
<1> SUFFICES
           /\ new \in Seq(Request)
           /\ Len(new) = next + Len(extra) - 1
           /\ \A n \in 1..Len(new) : new[n].configurationNumber = n
           /\ \A n \in 1..Len(old) : new[n] = old[n]
    BY DEF NumberedUpTo
<1>1. /\ new \in Seq(Request)
      /\ Len(new) = Len(old) + Len(extra)
      /\ \A n \in 1..(Len(old) + Len(extra)) :
            new[n] = IF n <= Len(old) THEN old[n] ELSE extra[n - Len(old)]
    BY ConcatProperties
<1> HIDE DEF new
<1>2. Len(old) \in Nat /\ Len(extra) \in Nat
    BY LenProperties
<1>3. ASSUME NEW n \in 1..Len(old)
      PROVE  new[n] = old[n]
    <2>1. n \in 1..(Len(old) + Len(extra)) /\ n <= Len(old)
        BY <1>2
    <2> QED
        BY <1>1, <2>1
<1>4. ASSUME NEW n \in 1..Len(new)
      PROVE  new[n].configurationNumber = n
    <2>1. CASE n <= Len(old)
        BY <1>2, <1>3, <1>4, <2>1
    <2>2. CASE ~(n <= Len(old))
        <3>1. n \in 1..(Len(old) + Len(extra)) /\ n - Len(old) \in 1..Len(extra)
            BY <1>1, <1>2, <1>4, <2>2
        <3>2. new[n] = extra[n - Len(old)]
            BY <1>1, <2>2, <3>1
        <3>3. new[n].configurationNumber = next + (n - Len(old)) - 1
            BY <3>1, <3>2
        <3>4. next + (n - Len(old)) - 1 = n
            BY <1>2, <3>1
        <3> QED
            BY <3>3, <3>4
    <2> QED
        BY <2>1, <2>2
<1>5. Len(new) = next + Len(extra) - 1
    BY <1>1
<1> QED
    BY <1>1, <1>3, <1>4, <1>5

\* New events are numbered on from the old ones, which stay.
LEMMA EventsGrow ==
    ASSUME PairLogInv, TypeOK', ParentStep
    PROVE  /\ EventsAreNumbered'
           /\ \A n \in 1..Len(requests) : requests'[n] = requests[n]
           /\ nextConfigurationNumber <= nextConfigurationNumber'
<1>1. PICK next, first, log, events :
          /\ next = nextConfigurationNumber'
          /\ first = startConfigurationNumber'
          /\ log = changes'
          /\ events = requests'
    OBVIOUS
<1>2. /\ nextConfigurationNumber \in Nat \ {0}
      /\ startConfigurationNumber \in 1..nextConfigurationNumber
    BY ParentNumbers DEF PairLogInv
<1>3. /\ next \in Nat \ {0}
      /\ log \in [first..(next - 1) -> Change]
    BY <1>1 DEF TypeOK, LogTypeOK
<1>4. \/ next = nextConfigurationNumber
      \/ first = startConfigurationNumber /\ nextConfigurationNumber <= next
    BY <1>1, ParentLogGrows DEF PairLogInv
<1>5. next - nextConfigurationNumber \in Nat /\ nextConfigurationNumber <= next
    BY <1>2, <1>3, <1>4
<1>6. ASSUME NEW i \in 1..(next - nextConfigurationNumber)
      PROVE  log[nextConfigurationNumber + i - 1] \in Change
    <2>1. first = startConfigurationNumber
        BY <1>2, <1>3, <1>4, <1>6
    <2>2. nextConfigurationNumber + i - 1 \in first..(next - 1)
        BY <1>2, <1>3, <1>6, <2>1
    <2> QED
        BY <1>3, <2>2
<1>7. events = requests \o
          [i \in 1..(next - nextConfigurationNumber) |->
              [configurationNumber |-> nextConfigurationNumber + i - 1,
               change |-> log[nextConfigurationNumber + i - 1]]]
    BY <1>1 DEF ParentStep, EmitRequests
<1>8. /\ requests \in Seq(Request)
      /\ Len(requests) = nextConfigurationNumber - 1
      /\ \A n \in 1..Len(requests) : requests[n].configurationNumber = n
    BY DEF PairLogInv, EventsAreNumbered
<1>9. /\ events \in Seq(Request)
      /\ Len(events) = nextConfigurationNumber + (next - nextConfigurationNumber) - 1
      /\ \A n \in 1..Len(events) : events[n].configurationNumber = n
      /\ \A n \in 1..Len(requests) : events[n] = requests[n]
    <2> DEFINE more == next - nextConfigurationNumber
               event(i) == [configurationNumber |-> nextConfigurationNumber + i - 1,
                            change |-> log[nextConfigurationNumber + i - 1]]
               extra == [i \in 1..more |-> event(i)]
    <2>1. more \in Nat
        BY <1>5
    <2>2. \A i \in 1..more : event(i) \in Request
        <3>1. \A i \in 1..more : nextConfigurationNumber + i - 1 \in Nat \ {0}
            BY <1>2, <1>3
        <3> QED
            BY <1>6, <3>1 DEF Request
    <2>3. extra \in Seq(Request) /\ Len(extra) = more
        <3> HIDE DEF event, more
        <3> QED
            BY <2>1, <2>2, IsASeq
    <2>4. \A i \in 1..more : extra[i].configurationNumber = nextConfigurationNumber + i - 1
        OBVIOUS
    <2>5. events = requests \o extra
        BY <1>7
    <2> HIDE DEF extra, more
    <2>6. /\ events \in Seq(Request)
          /\ Len(events) = nextConfigurationNumber + more - 1
          /\ \A n \in 1..Len(events) : events[n].configurationNumber = n
          /\ \A n \in 1..Len(requests) : events[n] = requests[n]
        <3>1. \A i \in 1..Len(extra) :
                  extra[i].configurationNumber = nextConfigurationNumber + i - 1
            BY <2>3, <2>4
        <3>2. extra \in Seq(Request) /\ Len(extra) = more
            BY <2>3
        <3> HIDE DEF event
        <3>3. /\ events \in Seq(Request)
              /\ Len(events) = nextConfigurationNumber + Len(extra) - 1
              /\ \A n \in 1..Len(events) : events[n].configurationNumber = n
              /\ \A n \in 1..Len(requests) : events[n] = requests[n]
            <4>1. /\ requests \in Seq(Request)
                  /\ nextConfigurationNumber \in Nat \ {0}
                  /\ extra \in Seq(Request)
                  /\ Len(requests) = nextConfigurationNumber - 1
                  /\ \A n \in 1..Len(requests) : requests[n].configurationNumber = n
                  /\ \A i \in 1..Len(extra) :
                        extra[i].configurationNumber = nextConfigurationNumber + i - 1
                  /\ events = requests \o extra
                BY <1>2, <1>8, <2>5, <3>1, <3>2
            <4>2. NumberedUpTo(requests \o extra, nextConfigurationNumber + Len(extra) - 1, requests)
                BY <4>1, NumberedOn
            <4> QED
                BY <4>1, <4>2 DEF NumberedUpTo
        <3> QED
            BY <3>2, <3>3
    <2> QED
        BY <2>6 DEF more
<1>10. Len(events) = next - 1
    BY <1>2, <1>3, <1>9
<1> QED
    BY <1>1, <1>5, <1>9, <1>10 DEF EventsAreNumbered

\* A step of the parent only adds events at the end.
LEMMA PairLogParent ==
    ASSUME PairLogInv, ParentStep
    PROVE  PairLogInv'
<1>1. TypeOK'
    BY ParentStepIsNext, TypeNext DEF PairLogInv
<1>2. /\ EventsAreNumbered'
      /\ \A n \in 1..Len(requests) : requests'[n] = requests[n]
      /\ nextConfigurationNumber <= nextConfigurationNumber'
    BY <1>1, EventsGrow
<1>3. UNCHANGED cLogVars
    BY DEF ParentStep, childVars, cLogVars
<1>4. ChildLogTypeOK'
    BY <1>3 DEF PairLogInv, ChildLogTypeOK, cLogVars
<1>5. ChildLogIsParents'
    <2>1. /\ nextConfigurationNumber \in Nat /\ nextConfigurationNumber' \in Nat
          /\ cNextConfigurationNumber \in Nat
        BY <1>1 DEF PairLogInv, ChildLogTypeOK, TypeOK, LogTypeOK
    <2>2. cNextConfigurationNumber' <= nextConfigurationNumber'
        BY <1>2, <1>3, <2>1 DEF PairLogInv, ChildLogIsParents, cLogVars
    <2>3. \A n \in DOMAIN cChanges : n \in 1..Len(requests)
        BY <2>1 DEF PairLogInv, EventsAreNumbered, ChildLogTypeOK, ChildLogIsParents
    <2> QED
        BY <1>2, <1>3, <2>2, <2>3 DEF PairLogInv, ChildLogIsParents, cLogVars
<1>6. CheckpointsAreNumbered'
    BY <1>1, <1>2, CheckpointsStay DEF ParentStep, relayVars
<1> QED
    BY <1>1, <1>2, <1>4, <1>5, <1>6 DEF PairLogInv

\* The child stores a piece of the events: only the piece that starts with its
\* next number passes.
LEMMA PairLogDeliver ==
    ASSUME PairLogInv, NEW i \in DOMAIN requests, NEW j \in DOMAIN requests, i <= j,
           DeliverChanges(i, j)
    PROVE  PairLogInv'
<1> DEFINE piece == SubSeq(requests, i, j)
<1>1. /\ UNCHANGED <<parentVars, requests>>
      /\ Child!NumbersMatch(piece)
      /\ cChanges' = [n \in cStartConfigurationNumber..(cNextConfigurationNumber + Len(piece) - 1) |->
                         IF n < cNextConfigurationNumber
                         THEN cChanges[n]
                         ELSE piece[n - cNextConfigurationNumber + 1].change]
      /\ cNextConfigurationNumber' = cNextConfigurationNumber + Len(piece)
      /\ cStartConfigurationNumber' = cStartConfigurationNumber
      /\ cApplyUpTo' = cApplyUpTo
    BY DEF DeliverChanges, Child!StoreValidatorChanges
<1>2. /\ requests \in Seq(Request)
      /\ Len(requests) = nextConfigurationNumber - 1
      /\ \A n \in 1..Len(requests) : requests[n].configurationNumber = n
      /\ nextConfigurationNumber \in Nat \ {0}
    BY ParentNumbers DEF PairLogInv, EventsAreNumbered
<1>3. i \in 1..Len(requests) /\ j \in 1..Len(requests)
    BY <1>2
<1>4. /\ Len(piece) = j - i + 1
      /\ \A k \in 1..(j - i + 1) : piece[k] = requests[i + k - 1]
      /\ piece \in Seq(Request)
    BY <1>2, <1>3
<1>5. cNextConfigurationNumber = i
    <2>1. 1 \in DOMAIN piece
        BY <1>3, <1>4
    <2>2. piece[1].configurationNumber = cNextConfigurationNumber + 1 - 1
        BY <1>1, <2>1 DEF Child!NumbersMatch
    <2>3. piece[1] = requests[i]
        BY <1>3, <1>4
    <2> QED
        BY <1>2, <1>3, <2>2, <2>3 DEF PairLogInv, ChildLogTypeOK
<1>6. /\ cNextConfigurationNumber' = j + 1
      /\ cNextConfigurationNumber' \in Nat \ {0}
      /\ cNextConfigurationNumber <= cNextConfigurationNumber'
    <2>1. cNextConfigurationNumber' = cNextConfigurationNumber + Len(piece)
        BY <1>1
    <2>2. i + Len(piece) = j + 1 /\ j + 1 \in Nat \ {0} /\ i <= j + 1
        BY <1>3, <1>4
    <2> HIDE DEF piece
    <2> QED BY <1>5, <2>1, <2>2
<1>7. ASSUME NEW n \in cStartConfigurationNumber..j, ~(n < i)
      PROVE  /\ requests[n] = [configurationNumber |-> n,
                               change |-> piece[n - i + 1].change]
             /\ piece[n - i + 1].change \in Change
    <2>1. n \in i..j /\ n - i + 1 \in 1..(j - i + 1) /\ n \in 1..Len(requests)
        BY <1>2, <1>3, <1>7 DEF PairLogInv, ChildLogTypeOK
    <2>2. piece[n - i + 1] = requests[n]
        <3>1. i + (n - i + 1) - 1 = n
            BY <1>3, <2>1
        <3> HIDE DEF piece
        <3> QED BY <1>4, <2>1, <3>1
    <2>3. requests[n] \in Request /\ requests[n].configurationNumber = n
        BY <1>2, <2>1
    <2> QED
        BY <2>2, <2>3 DEF Request
<1>8. cChanges' = [n \in cStartConfigurationNumber..j |->
                      IF n < i THEN cChanges[n] ELSE piece[n - i + 1].change]
    <2>1. cNextConfigurationNumber + Len(piece) - 1 = j
        BY <1>3, <1>4, <1>5
    <2> HIDE DEF piece
    <2> QED BY <1>1, <1>5, <2>1
<1>9. \A n \in cStartConfigurationNumber..j : n < i => n \in DOMAIN cChanges
    BY <1>3, <1>5 DEF PairLogInv, ChildLogTypeOK
<1>10. ChildLogTypeOK'
    <2>1. \A n \in cStartConfigurationNumber..j :
              (IF n < i THEN cChanges[n] ELSE piece[n - i + 1].change) \in Change
        <3> HIDE DEF piece
        <3> QED BY <1>7, <1>9 DEF PairLogInv, ChildLogTypeOK
    <2>2. cChanges' \in [cStartConfigurationNumber..j -> Change]
        <3> HIDE DEF piece
        <3> QED BY <1>8, <2>1
    <2>3. cNextConfigurationNumber' - 1 = j
        BY <1>3, <1>6
    <2>4. PICK next, first, up, log :
              /\ next = cNextConfigurationNumber'
              /\ first = cStartConfigurationNumber'
              /\ up = cApplyUpTo'
              /\ log = cChanges'
        OBVIOUS
    <2>5. /\ next = j + 1 /\ next \in Nat \ {0}
          /\ first = cStartConfigurationNumber
          /\ up = cApplyUpTo
          /\ log \in [first..(next - 1) -> Change]
        BY <1>1, <1>6, <2>2, <2>3, <2>4
    <2>6. first \in 1..next /\ up \in (first - 1)..(next - 1)
        BY <1>3, <1>5, <2>5 DEF PairLogInv, ChildLogTypeOK
    <2> QED
        BY <2>4, <2>5, <2>6 DEF ChildLogTypeOK
<1>11. ChildLogIsParents'
    <2>1. cNextConfigurationNumber' <= nextConfigurationNumber'
        BY <1>1, <1>2, <1>3, <1>6 DEF parentVars, vars, logVars
    <2>2. \A n \in cStartConfigurationNumber..j :
              requests[n] = [configurationNumber |-> n, change |-> cChanges'[n]]
        <3> HIDE DEF piece
        <3> QED BY <1>7, <1>8, <1>9 DEF PairLogInv, ChildLogIsParents
    <2> QED
        BY <1>1, <1>8, <2>1, <2>2 DEF ChildLogIsParents
<1>12. TypeOK' /\ EventsAreNumbered'
    <2>1. TypeOK'
        BY <1>1, TypeNext DEF PairLogInv, parentVars
    <2>2. nextConfigurationNumber' = nextConfigurationNumber /\ requests' = requests
        BY <1>1 DEF parentVars, vars, logVars
    <2> QED
        BY <2>1, <2>2 DEF PairLogInv, EventsAreNumbered
<1>13. CheckpointsAreNumbered'
    <2>1. nextConfigurationNumber' = nextConfigurationNumber /\ checkpoints' = checkpoints
        BY DEF DeliverChanges, parentVars, vars, logVars, relayVars
    <2> QED
        BY <1>2, <1>12, <2>1, CheckpointsStay
<1> QED
    BY <1>10, <1>11, <1>12, <1>13 DEF PairLogInv

\* Applying a change takes it off the child's log.
LEMMA PairLogApply ==
    ASSUME PairLogInv, ChildApplies
    PROVE  PairLogInv'
<1>1. /\ UNCHANGED <<parentVars, requests>>
      /\ cStartConfigurationNumber <= cApplyUpTo
      /\ cChanges' = [n \in (cStartConfigurationNumber + 1)..(cNextConfigurationNumber - 1) |->
                         cChanges[n]]
      /\ cStartConfigurationNumber' = cStartConfigurationNumber + 1
      /\ cNextConfigurationNumber' = cNextConfigurationNumber
      /\ cApplyUpTo' = cApplyUpTo
    BY DEF ChildApplies, Child!ApplyNext
<1>2. /\ cNextConfigurationNumber \in Nat \ {0}
      /\ cStartConfigurationNumber \in 1..cNextConfigurationNumber
      /\ cApplyUpTo \in (cStartConfigurationNumber - 1)..(cNextConfigurationNumber - 1)
      /\ cChanges \in [cStartConfigurationNumber..(cNextConfigurationNumber - 1) -> Change]
    BY DEF PairLogInv, ChildLogTypeOK
<1>3. \A n \in (cStartConfigurationNumber + 1)..(cNextConfigurationNumber - 1) : n \in DOMAIN cChanges
    BY <1>2
<1>4. cChanges' \in [(cStartConfigurationNumber + 1)..(cNextConfigurationNumber - 1) -> Change]
    BY <1>1, <1>2, <1>3
<1>5. /\ cStartConfigurationNumber + 1 \in 1..cNextConfigurationNumber
      /\ cApplyUpTo \in ((cStartConfigurationNumber + 1) - 1)..(cNextConfigurationNumber - 1)
    BY <1>1, <1>2
<1>6. ChildLogTypeOK'
    BY <1>1, <1>2, <1>4, <1>5 DEF ChildLogTypeOK
<1>7. nextConfigurationNumber' = nextConfigurationNumber /\ requests' = requests
    BY <1>1 DEF parentVars, vars, logVars
<1>8. ChildLogIsParents'
    BY <1>1, <1>3, <1>7 DEF PairLogInv, ChildLogIsParents
<1>9. TypeOK' /\ EventsAreNumbered'
    BY <1>1, <1>7, TypeNext DEF PairLogInv, EventsAreNumbered, parentVars
<1>10. CheckpointsAreNumbered'
    <2>1. checkpoints' = checkpoints
        BY DEF ChildApplies, relayVars
    <2> QED
        BY <1>7, <1>9, <2>1, ParentNumbers, CheckpointsStay DEF PairLogInv
<1> QED
    BY <1>6, <1>8, <1>9, <1>10 DEF PairLogInv

\* The start of a round of applications reaches to the end of the child's log.
LEMMA PairLogStart ==
    ASSUME PairLogInv, CutCheckpointWithChanges
    PROVE  PairLogInv'
<1>1. /\ UNCHANGED <<parentVars, requests>>
      /\ cApplyUpTo' = cNextConfigurationNumber - 1
      /\ UNCHANGED <<cChanges, cNextConfigurationNumber, cStartConfigurationNumber>>
    BY DEF CutCheckpointWithChanges, CutCheckpoint, Child!StartApplying, Child!AppliedNumber,
           Child!storedVars
<1>2. ChildLogTypeOK'
    BY <1>1 DEF PairLogInv, ChildLogTypeOK
<1>3. nextConfigurationNumber' = nextConfigurationNumber /\ requests' = requests
    BY <1>1 DEF parentVars, vars, logVars
<1>4. ChildLogIsParents'
    BY <1>1, <1>3 DEF PairLogInv, ChildLogIsParents
<1>5. TypeOK' /\ EventsAreNumbered'
    BY <1>1, <1>3, TypeNext DEF PairLogInv, EventsAreNumbered, parentVars
<1>6. CheckpointsAreNumbered'
    <2>1. CutCheckpoint(cNextConfigurationNumber - 1)
        BY DEF CutCheckpointWithChanges, Child!AppliedNumber
    <2>2. /\ cNextConfigurationNumber - 1 \in Nat
          /\ cNextConfigurationNumber - 1 < nextConfigurationNumber
        BY ParentNumbers DEF PairLogInv, ChildLogTypeOK, ChildLogIsParents
    <2> QED
        BY <1>3, <2>1, <2>2, CheckpointsCut
<1> QED
    BY <1>2, <1>4, <1>5, <1>6 DEF PairLogInv

\* What moves neither the logs nor the events.
LEMMA PairLogElsewhere ==
    ASSUME PairLogInv, TypeOK', CheckpointsAreNumbered',
           UNCHANGED <<nextConfigurationNumber, requests, cLogVars>>
    PROVE  PairLogInv'
<1>1. EventsAreNumbered'
    BY DEF PairLogInv, EventsAreNumbered
<1>2. ChildLogTypeOK'
    BY DEF PairLogInv, ChildLogTypeOK, cLogVars
<1>3. ChildLogIsParents'
    BY DEF PairLogInv, ChildLogIsParents, cLogVars
<1> QED
    BY <1>1, <1>2, <1>3 DEF PairLogInv

\* A step that touches no log.
LEMMA PairLogUntouched ==
    ASSUME PairLogInv, UNCHANGED <<parentVars, requests, checkpoints, cLogVars>>
    PROVE  PairLogInv'
<1>1. TypeOK'
    BY TypeNext DEF PairLogInv, parentVars
<1>2. nextConfigurationNumber' = nextConfigurationNumber
    BY DEF parentVars, vars, logVars
<1>3. CheckpointsAreNumbered'
    BY <1>1, <1>2, ParentNumbers, CheckpointsStay DEF PairLogInv
<1> QED
    BY <1>1, <1>2, <1>3, PairLogElsewhere

\* Every step keeps the logs in agreement.
LEMMA PairLogNext == PairLogInv /\ [PairNext]_pairVars => PairLogInv'
<1> SUFFICES ASSUME PairLogInv, [PairNext]_pairVars
             PROVE  PairLogInv'
    OBVIOUS
<1>1. CASE ParentStep
    BY <1>1, PairLogParent
<1>2. ASSUME NEW i \in DOMAIN requests, NEW k \in {0, 1}, i + k \in DOMAIN requests,
             DeliverChanges(i, i + k)
      PROVE  PairLogInv'
    <2>1. i \in Nat
        BY DEF PairLogInv, EventsAreNumbered
    <2> QED
        BY <1>2, <2>1, PairLogDeliver
<1>3. CASE CutCheckpointWithChanges
    BY <1>3, PairLogStart
<1>4. CASE ChildApplies
    BY <1>4, PairLogApply
<1>5. CASE StartChild
    BY <1>5, PairLogUntouched DEF StartChild, Child!Construct, Child!storedVars, cLogVars, relayVars
<1>6. CASE CutCheckpointNoChange
    <2>1. /\ UNCHANGED <<parentVars, requests, cLogVars>>
          /\ CutCheckpoint(0)
        BY <1>6 DEF CutCheckpointNoChange, CutCheckpoint, childVars, cLogVars
    <2>2. TypeOK' /\ nextConfigurationNumber' = nextConfigurationNumber
        BY <2>1, TypeNext DEF PairLogInv, parentVars, vars, logVars
    <2>3. CheckpointsAreNumbered'
        BY <2>1, <2>2, ParentNumbers, CheckpointsCut DEF PairLogInv
    <2> QED
        BY <2>1, <2>2, <2>3, PairLogElsewhere
<1>7. ASSUME NEW height \in 0..MaxParentHeight, CommitFinality(height)
      PROVE  PairLogInv'
    BY <1>7, PairLogUntouched
    DEF CommitFinality, Child!CommitParentFinality, Child!storedVars, cLogVars, relayVars
<1>8. ASSUME NEW height \in 0..Len(checkpoints), NEW relayer \in Relayer,
             RepeatCheckpoint(height, relayer)
      PROVE  PairLogInv'
    BY <1>8, PairLogUntouched DEF RepeatCheckpoint, childVars, cLogVars
<1>9. ASSUME NEW height \in DOMAIN checkpoints, NEW relayer \in Relayer,
             SubmitNewCheckpoint(height, relayer)
      PROVE  PairLogInv'
    <2>1. /\ SubmitCheckpoint(checkpoints[height].number)
          /\ UNCHANGED <<childVars, requests, checkpoints>>
        BY <1>9 DEF SubmitNewCheckpoint
    <2>2. checkpoints[height].number \in 0..(nextConfigurationNumber - 1)
        <3>1. PICK S : checkpoints \in Seq([number : Nat, membership : S])
            BY DEF PairLogInv, CheckpointsAreNumbered
        <3>2. checkpoints[height].number \in Nat
            BY <3>1, CheckpointNumbers
        <3>3. checkpoints[height].number < nextConfigurationNumber
            BY DEF PairLogInv, CheckpointsAreNumbered, CheckpointsConfirmRecorded
        <3> QED
            BY <3>2, <3>3, ParentNumbers DEF PairLogInv
    <2>3. TypeOK'
        BY <2>1, <2>2, TypeSubmitCheckpoint DEF PairLogInv
    <2>4. nextConfigurationNumber' = nextConfigurationNumber
        BY <2>1 DEF SubmitCheckpoint, logVars
    <2>5. CheckpointsAreNumbered'
        BY <2>1, <2>3, <2>4, ParentNumbers, CheckpointsStay DEF PairLogInv
    <2> QED
        BY <2>1, <2>3, <2>4, <2>5, PairLogElsewhere DEF childVars, cLogVars
<1>10. CASE UNCHANGED pairVars
    BY <1>10, PairLogUntouched DEF pairVars, childVars, relayVars, cLogVars
<1> QED
    BY <1>1, <1>2, <1>3, <1>4, <1>5, <1>6, <1>7, <1>8, <1>9, <1>10 DEF PairNext

\* Whatever is delivered twice, too early, too late or not at all, each change
\* the child has stored is the parent's change of the same number, and the child
\* never numbers further than the parent (storeChange, recordChange).
THEOREM ChildLogDelivered == PairSpec => []ChildLogIsParents
<1>1. PairLogInv => ChildLogIsParents
    BY DEF PairLogInv
<1> QED
    BY <1>1, PairLogInit, PairLogNext, PTL DEF PairSpec

\* No checkpoint the child cuts, whenever it cuts it, carries a number that the
\* parent has not recorded: confirmChange never refuses one for ever.
THEOREM CheckpointsConfirmable == PairSpec => []CheckpointsConfirmRecorded
<1>1. PairLogInv => CheckpointsConfirmRecorded
    BY DEF PairLogInv, CheckpointsAreNumbered
<1> QED
    BY <1>1, PairLogInit, PairLogNext, PTL DEF PairSpec

-----------------------------------------------------------------------------
(***************************************************************************)
(* The parent, seen without its child, is a subnet actor: what its proofs  *)
(* establish holds in the pair too.                                        *)
(***************************************************************************)

\* What a checkpoint carries is a number that submitCheckpoint may confirm.
LEMMA SubmittedNumber ==
    ASSUME PairLogInv, NEW height \in DOMAIN checkpoints
    PROVE  checkpoints[height].number \in 0..(nextConfigurationNumber - 1)
<1>1. PICK S : checkpoints \in Seq([number : Nat, membership : S])
    BY DEF PairLogInv, CheckpointsAreNumbered
<1>2. checkpoints[height].number \in Nat
    BY <1>1, CheckpointNumbers
<1>3. checkpoints[height].number < nextConfigurationNumber
    BY DEF PairLogInv, CheckpointsAreNumbered, CheckpointsConfirmRecorded
<1> QED
    BY <1>2, <1>3, ParentNumbers DEF PairLogInv

\* Every step of the pair is a step of the subnet actor, or leaves it alone.
LEMMA PairStepIsActorStep == PairLogInv /\ [PairNext]_pairVars => [Next]_vars
<1> SUFFICES ASSUME PairLogInv, [PairNext]_pairVars PROVE [Next]_vars
    OBVIOUS
<1>1. CASE ParentStep
    BY <1>1, ParentStepIsNext
<1>2. ASSUME NEW height \in DOMAIN checkpoints, NEW relayer \in Relayer,
             SubmitNewCheckpoint(height, relayer)
      PROVE  Next
    <2>1. SubmitCheckpoint(checkpoints[height].number)
        BY <1>2 DEF SubmitNewCheckpoint
    <2> QED
        BY <2>1, SubmittedNumber DEF Next
<1>3. CASE \/ StartChild
           \/ \E height \in 0..MaxParentHeight : CommitFinality(height)
           \/ \E i \in DOMAIN requests, k \in {0, 1} : DeliverChanges(i, i + k)
           \/ CutCheckpointNoChange
           \/ CutCheckpointWithChanges
           \/ ChildApplies
           \/ \E height \in 0..Len(checkpoints), relayer \in Relayer :
                 RepeatCheckpoint(height, relayer)
    BY <1>3 DEF StartChild, CommitFinality, DeliverChanges, CutCheckpointNoChange,
                CutCheckpointWithChanges, CutCheckpoint, ChildApplies, RepeatCheckpoint, parentVars
<1>4. CASE UNCHANGED pairVars
    BY <1>4 DEF pairVars, parentVars
<1> QED
    BY <1>1, <1>2, <1>3, <1>4 DEF PairNext

\* The pair implements the subnet actor: no message of the child, and no order in
\* which relayers bring its checkpoints, makes the parent take a step that it
\* could not take by itself (submitCheckpoint).
THEOREM ParentIsSubnetActor == PairSpec => Spec
<1>1. PairInit => Init
    BY DEF PairInit
<1> QED
    BY <1>1, PairLogInit, PairLogNext, PairStepIsActorStep, PTL DEF PairSpec, Spec

-----------------------------------------------------------------------------
(***************************************************************************)
(* The child: its validator set keeps its types, and its membership is the *)
(* active set under the last number it applied.                            *)
(***************************************************************************)

\* What is proved of any validator set, for the child's.
ChildFacts ==
    INSTANCE ValidatorSet_proofs WITH
        PermissionMode <- "Collateral",
        totalCollateral <- cTotalCollateral,
        confirmedCollateral <- cConfirmedCollateral,
        federatedPower <- cFederatedPower,
        hasMetadata <- cHasMetadata,
        totalConfirmedCollateral <- cTotalConfirmedCollateral,
        activeValidators <- cActiveValidators,
        waitingValidators <- cWaitingValidators

cSetVars ==
    <<cTotalCollateral, cConfirmedCollateral, cFederatedPower, cHasMetadata,
      cTotalConfirmedCollateral, cActiveValidators, cWaitingValidators>>

\* The membership goes on with the applied numbers and never stays behind them.
AdoptedInv ==
    /\ cStartConfigurationNumber <= cApplyUpTo =>
          cCurrentMembership.configurationNumber < cStartConfigurationNumber
    /\ cApplyUpTo < cStartConfigurationNumber =>
          cCurrentMembership.configurationNumber = cApplyUpTo
    /\ cCurrentMembership.configurationNumber > 0 =>
          cLastMembership.configurationNumber < cCurrentMembership.configurationNumber
    /\ cApplyUpTo < cStartConfigurationNumber /\ 1 < cStartConfigurationNumber =>
          cCurrentMembership.validators =
              {[addr |-> v, weight |-> cConfirmedCollateral[v]] : v \in cActiveValidators}
    /\ ~cDeployed => cStartConfigurationNumber = 1 /\ cApplyUpTo = 0

ChildSetTypeOK == Child!ValidatorSetTypeOK

FinalityTypeOK ==
    /\ cDeployed \in BOOLEAN
    /\ cLatestParentHeight \in Nat
    /\ cFinalities \in SUBSET Nat

MembershipTypeOK ==
    /\ cCurrentMembership \in Child!Membership
    /\ cLastMembership \in Child!Membership

ChildInv ==
    /\ ChildSetTypeOK
    /\ FinalityTypeOK
    /\ MembershipTypeOK
    /\ AdoptedInv

\* The parent's changes are the child's.
LEMMA SameChange == Child!Change = Change
    BY DEF Child!Change, Child!Operations, Change, Operations

\* The two invariants give the types of TopDownFinality.
LEMMA ChildTyped == PairLogInv /\ ChildInv => Child!ChildTypeOK
    BY SameChange
    DEF PairLogInv, ChildLogTypeOK, ChildInv, ChildSetTypeOK, FinalityTypeOK, MembershipTypeOK,
        Child!ChildTypeOK

LEMMA ChildInvInit == PairInit => ChildInv
<1> SUFFICES ASSUME PairInit PROVE ChildInv
    OBVIOUS
<1>1. Child!ChildInit
    BY DEF PairInit
<1>2. ChildSetTypeOK
    BY <1>1 DEF Child!ChildInit, Child!ValidatorSetInit, ChildSetTypeOK, Child!ValidatorSetTypeOK
<1>3. FinalityTypeOK
    BY <1>1 DEF Child!ChildInit, FinalityTypeOK
<1>4. Child!EmptyMembership \in Child!Membership
    BY DEF Child!EmptyMembership, Child!Membership
<1>5. MembershipTypeOK
    BY <1>1, <1>4 DEF Child!ChildInit, MembershipTypeOK
<1>6. AdoptedInv
    BY <1>1 DEF Child!ChildInit, Child!EmptyMembership, AdoptedInv
<1> QED
    BY <1>2, <1>3, <1>5, <1>6 DEF ChildInv

\* What becomes of the membership, apart from the validators in it.
LEMMA MembershipUpdated ==
    ASSUME MembershipTypeOK, NEW m \in Child!Membership, Child!UpdateMembership(m)
    PROVE  MembershipTypeOK'
    BY DEF MembershipTypeOK, Child!UpdateMembership, Child!membershipVars

\* Confirming a change does to the child's set what it does to any.
LEMMA SameConfirmation ==
    ASSUME NEW v, NEW amount
    PROVE  /\ Child!ConfirmDeposit(v, amount) => ChildFacts!ConfirmDeposit(v, amount)
           /\ Child!ConfirmWithdraw(v, amount) => ChildFacts!ConfirmWithdraw(v, amount)
           /\ Child!ConfirmFederatedPower(v, amount) => ChildFacts!ConfirmFederatedPower(v, amount)
<1>0. \A S : Child!Cardinality(S) = ChildFacts!Cardinality(S)
    BY Zenon DEF Child!Cardinality, ChildFacts!Cardinality
<1>1. \A u, power : Child!IncreaseReshuffle(u, power) => ChildFacts!IncreaseReshuffle(u, power)
    BY <1>0, Zenon
    DEF Child!IncreaseReshuffle, ChildFacts!IncreaseReshuffle, Child!Weakest, ChildFacts!Weakest,
        Child!Power, ChildFacts!Power
<1>2. \A u, power : Child!ReduceReshuffle(u, power) => ChildFacts!ReduceReshuffle(u, power)
    BY Zenon
    DEF Child!ReduceReshuffle, ChildFacts!ReduceReshuffle, Child!Weakest, ChildFacts!Weakest,
        Child!Strongest, ChildFacts!Strongest, Child!Power, ChildFacts!Power
<1>3. Child!ConfirmDeposit(v, amount) => ChildFacts!ConfirmDeposit(v, amount)
    BY <1>1, Zenon DEF Child!ConfirmDeposit, ChildFacts!ConfirmDeposit
<1>4. Child!ConfirmWithdraw(v, amount) => ChildFacts!ConfirmWithdraw(v, amount)
    BY <1>2, Zenon DEF Child!ConfirmWithdraw, ChildFacts!ConfirmWithdraw
<1>5. Child!ConfirmFederatedPower(v, amount) => ChildFacts!ConfirmFederatedPower(v, amount)
    BY <1>1, <1>2, Zenon DEF Child!ConfirmFederatedPower, ChildFacts!ConfirmFederatedPower
<1> QED
    BY <1>3, <1>4, <1>5

\* The child's validator set satisfies what ValidatorSet assumes.
LEMMA ChildAssumption ==
    /\ ChildFacts!IsFiniteSet(Validator)
    /\ "Collateral" \in {"Collateral", "Federated", "Static"}
    /\ ActiveLimit \in Nat \ {0}
<1>1. IsFiniteSet(Validator) <=> ChildFacts!IsFiniteSet(Validator)
    BY Zenon DEF IsFiniteSet, ChildFacts!IsFiniteSet
<1> QED
    BY <1>1, ValidatorSetAssumption

\* One change applied by the child keeps the types of its set.
LEMMA ApplyStoredType ==
    ASSUME ChildSetTypeOK, NEW c \in Change, Child!ApplyStored(c), cTotalCollateral' = cTotalCollateral
    PROVE  ChildSetTypeOK'
<1>1. ChildFacts!ValidatorSetTypeOK
    BY DEF ChildSetTypeOK, Child!ValidatorSetTypeOK, ChildFacts!ValidatorSetTypeOK
<1>2. c.validator \in Validator /\ c.amount \in Nat /\ c.op \in Operations
    BY DEF Change
<1>3. /\ cTotalCollateral' \in [Validator -> Nat]
      /\ cHasMetadata \in [Validator -> BOOLEAN]
    BY DEF ChildSetTypeOK, Child!ValidatorSetTypeOK
<1>4. ASSUME cHasMetadata' = [cHasMetadata EXCEPT ![c.validator] = TRUE]
      PROVE  cHasMetadata' \in [Validator -> BOOLEAN]
    BY <1>2, <1>3, <1>4
<1>5. CASE c.op = "SetMetadata"
    <2>1. /\ cHasMetadata' = [cHasMetadata EXCEPT ![c.validator] = TRUE]
          /\ UNCHANGED <<cConfirmedCollateral, cFederatedPower, cTotalConfirmedCollateral,
                         cActiveValidators, cWaitingValidators>>
        BY <1>5 DEF Child!ApplyStored
    <2> QED
        BY <1>3, <1>4, <2>1 DEF ChildSetTypeOK, Child!ValidatorSetTypeOK
<1>6. CASE c.op = "SetFederatedPower"
    <2>1. /\ cHasMetadata' = [cHasMetadata EXCEPT ![c.validator] = TRUE]
          /\ Child!ConfirmFederatedPower(c.validator, c.amount)
        BY <1>6 DEF Child!ApplyStored
    <2>2. ChildFacts!ConfirmFederatedPower(c.validator, c.amount)
        BY <2>1, SameConfirmation
    <2> QED
        <3>1. /\ cConfirmedCollateral' \in [Validator -> Nat]
              /\ cFederatedPower' \in [Validator -> Nat]
              /\ cTotalConfirmedCollateral' \in Nat
              /\ cActiveValidators' \in SUBSET Validator
              /\ cWaitingValidators' \in SUBSET Validator
            BY <1>1, <1>2, <2>2, ChildAssumption, ChildFacts!ConfirmFederatedPowerType
        <3> QED
            BY <1>3, <1>4, <2>1, <3>1 DEF ChildSetTypeOK, Child!ValidatorSetTypeOK
<1>7. CASE c.op = "Withdraw"
    <2>1. Child!ConfirmWithdraw(c.validator, c.amount)
        BY <1>7 DEF Child!ApplyStored
    <2>2. ChildFacts!ConfirmWithdraw(c.validator, c.amount)
        BY <2>1, SameConfirmation
    <2> QED
        <3>1. /\ cConfirmedCollateral' \in [Validator -> Nat]
              /\ cFederatedPower' \in [Validator -> Nat]
              /\ cHasMetadata' \in [Validator -> BOOLEAN]
              /\ cTotalConfirmedCollateral' \in Nat
              /\ cActiveValidators' \in SUBSET Validator
              /\ cWaitingValidators' \in SUBSET Validator
            BY <1>1, <1>2, <2>2, ChildAssumption, ChildFacts!ConfirmWithdrawType
        <3> QED
            BY <1>3, <3>1 DEF ChildSetTypeOK, Child!ValidatorSetTypeOK
<1>8. CASE c.op = "Deposit"
    <2>1. Child!ConfirmDeposit(c.validator, c.amount) /\ cHasMetadata' = cHasMetadata
        BY <1>8 DEF Child!ApplyStored
    <2>2. ChildFacts!ConfirmDeposit(c.validator, c.amount)
        BY <2>1, SameConfirmation
    <2> QED
        <3>1. /\ cConfirmedCollateral' \in [Validator -> Nat]
              /\ cFederatedPower' \in [Validator -> Nat]
              /\ cTotalConfirmedCollateral' \in Nat
              /\ cActiveValidators' \in SUBSET Validator
              /\ cWaitingValidators' \in SUBSET Validator
            BY <1>1, <1>2, <2>2, ChildAssumption, ChildFacts!ConfirmDepositType
        <3> QED
            BY <1>3, <2>1, <3>1 DEF ChildSetTypeOK, Child!ValidatorSetTypeOK
<1> QED
    BY <1>2, <1>5, <1>6, <1>7, <1>8 DEF Operations

\* The active set, with its collateral, makes a membership.
LEMMA ActiveMembershipType ==
    ASSUME ChildSetTypeOK', cApplyUpTo \in Nat
    PROVE  Child!ActiveMembership \in Child!Membership
<1>1. PICK active, confirmed :
         active = cActiveValidators' /\ confirmed = cConfirmedCollateral'
    OBVIOUS
<1>2. active \in SUBSET Validator /\ confirmed \in [Validator -> Nat]
    BY <1>1 DEF ChildSetTypeOK, Child!ValidatorSetTypeOK
<1>3. \A v \in active : [addr |-> v, weight |-> confirmed[v]] \in [addr : Validator, weight : Nat]
    BY <1>2
<1>4. Child!ActiveMembership =
         [configurationNumber |-> cApplyUpTo,
          validators |-> {[addr |-> v, weight |-> confirmed[v]] : v \in active}]
    BY <1>1 DEF Child!ActiveMembership
<1> QED
    BY <1>3, <1>4 DEF Child!Membership

\* The child applies a change, and adopts the membership after the last of a round.
LEMMA ChildInvApply ==
    ASSUME PairLogInv, ChildInv, ChildApplies
    PROVE  ChildInv'
<1>1. /\ cStartConfigurationNumber <= cApplyUpTo
      /\ cTotalCollateral' = cTotalCollateral
      /\ Child!ApplyStored(cChanges[cStartConfigurationNumber])
      /\ cStartConfigurationNumber' = cStartConfigurationNumber + 1
      /\ IF cStartConfigurationNumber = cApplyUpTo
         THEN Child!UpdateMembership(Child!ActiveMembership)
         ELSE UNCHANGED <<cCurrentMembership, cLastMembership>>
      /\ cApplyUpTo' = cApplyUpTo
      /\ cDeployed' = cDeployed
      /\ UNCHANGED <<cLatestParentHeight, cFinalities>>
    BY DEF ChildApplies, Child!ApplyNext, Child!membershipVars, Child!finalityVars
<1>2. /\ cStartConfigurationNumber \in Nat \ {0}
      /\ cApplyUpTo \in Nat
      /\ cApplyUpTo < cNextConfigurationNumber
      /\ cNextConfigurationNumber \in Nat
      /\ cChanges \in [cStartConfigurationNumber..(cNextConfigurationNumber - 1) -> Change]
    BY DEF PairLogInv, ChildLogTypeOK
<1>3. cChanges[cStartConfigurationNumber] \in Change
    BY <1>1, <1>2
<1>4. ChildSetTypeOK'
    BY <1>1, <1>3, ApplyStoredType DEF ChildInv
<1>5. FinalityTypeOK'
    BY <1>1 DEF ChildInv, FinalityTypeOK
<1>6. Child!ActiveMembership \in Child!Membership
    BY <1>2, <1>4, ActiveMembershipType
<1>7. cDeployed
    BY <1>1, <1>2 DEF ChildInv, AdoptedInv
<1>8. /\ cCurrentMembership.configurationNumber \in Nat
      /\ cLastMembership.configurationNumber \in Nat
      /\ cCurrentMembership.configurationNumber < cStartConfigurationNumber
      /\ cCurrentMembership.configurationNumber > 0 =>
            cLastMembership.configurationNumber < cCurrentMembership.configurationNumber
    BY <1>1 DEF ChildInv, MembershipTypeOK, Child!Membership, AdoptedInv
<1>9. CASE cStartConfigurationNumber # cApplyUpTo
    <2>1. UNCHANGED <<cCurrentMembership, cLastMembership>>
        BY <1>1, <1>9
    <2>2. MembershipTypeOK'
        BY <2>1 DEF ChildInv, MembershipTypeOK
    <2>3. PICK start \in Nat : start = cStartConfigurationNumber' /\ start = cStartConfigurationNumber + 1
        BY <1>1, <1>2
    <2>4. start <= cApplyUpTo /\ cCurrentMembership.configurationNumber < start
        BY <1>1, <1>2, <1>8, <1>9, <2>3
    <2>5. AdoptedInv'
        BY <1>1, <1>2, <1>7, <1>8, <2>1, <2>3, <2>4 DEF AdoptedInv
    <2> QED
        BY <1>4, <1>5, <2>2, <2>5 DEF ChildInv
<1>10. CASE cStartConfigurationNumber = cApplyUpTo
    <2>1. Child!UpdateMembership(Child!ActiveMembership)
        BY <1>1, <1>10
    <2>2. MembershipTypeOK'
        BY <1>6, <2>1, MembershipUpdated DEF ChildInv
    <2>3. PICK adopted : adopted = Child!ActiveMembership
        OBVIOUS
    <2>4. /\ adopted.configurationNumber = cApplyUpTo
          /\ adopted.validators =
                {[addr |-> v, weight |-> cConfirmedCollateral'[v]] : v \in cActiveValidators'}
        BY <2>3 DEF Child!ActiveMembership
    <2>5. /\ adopted # cCurrentMembership
          /\ cCurrentMembership.configurationNumber # 0 =>
                adopted.configurationNumber # cLastMembership.configurationNumber
        BY <1>2, <1>8, <1>10, <2>4
    <2>6. cCurrentMembership' = adopted /\ cLastMembership' = cCurrentMembership
        BY <2>1, <2>3, <2>5 DEF Child!UpdateMembership
    <2>7. /\ cCurrentMembership'.configurationNumber = cApplyUpTo
          /\ cLastMembership'.configurationNumber < cApplyUpTo
        BY <1>2, <1>8, <1>10, <2>4, <2>6
    <2>8. cApplyUpTo' < cStartConfigurationNumber' /\ ~(cStartConfigurationNumber' <= cApplyUpTo')
        BY <1>1, <1>2, <1>10
    <2>9. AdoptedInv'
        BY <1>1, <1>7, <2>4, <2>6, <2>7, <2>8 DEF AdoptedInv
    <2> QED
        BY <1>4, <1>5, <2>2, <2>9 DEF ChildInv
<1> QED
    BY <1>9, <1>10

\* What leaves the membership and the applied numbers alone.
LEMMA ChildInvUntouched ==
    ASSUME ChildInv,
           UNCHANGED <<cSetVars, cDeployed, cStartConfigurationNumber, cApplyUpTo,
                       cCurrentMembership, cLastMembership>>,
           FinalityTypeOK'
    PROVE  ChildInv'
<1>1. ChildSetTypeOK'
    BY DEF ChildInv, ChildSetTypeOK, Child!ValidatorSetTypeOK, cSetVars
<1>2. MembershipTypeOK'
    BY DEF ChildInv, MembershipTypeOK
<1>3. AdoptedInv'
    BY DEF ChildInv, AdoptedInv, cSetVars
<1> QED
    BY <1>1, <1>2, <1>3 DEF ChildInv

\* The child does not move.
LEMMA ChildInvSame ==
    ASSUME ChildInv, UNCHANGED childVars
    PROVE  ChildInv'
<1>1. FinalityTypeOK'
    BY DEF ChildInv, FinalityTypeOK, childVars
<1> QED
    BY <1>1, ChildInvUntouched DEF childVars, cSetVars

\* The genesis validators become the first membership, under number 0.
LEMMA ChildInvStart ==
    ASSUME PairLogInv, ChildInv, StartChild
    PROVE  ChildInv'
<1> DEFINE first == [configurationNumber |-> 0, validators |-> genesisValidators]
<1>1. /\ ~cDeployed /\ cDeployed' = TRUE
      /\ Child!UpdateMembership(first)
      /\ UNCHANGED <<cSetVars, cLatestParentHeight, cFinalities, cStartConfigurationNumber,
                     cApplyUpTo>>
    BY DEF StartChild, Child!Construct, Child!validatorSetVars, Child!finalityVars,
           Child!storedVars, cSetVars
<1>2. first \in Child!Membership
    BY DEF PairLogInv, TypeOK, GenesisTypeOK, GenesisValidator, Child!Membership
<1>3. /\ cStartConfigurationNumber = 1 /\ cApplyUpTo = 0
      /\ cCurrentMembership.configurationNumber = 0
    BY <1>1 DEF ChildInv, AdoptedInv
<1>4. MembershipTypeOK'
    BY <1>1, <1>2, MembershipUpdated DEF ChildInv
<1>5. cCurrentMembership' = first
    BY <1>1, <1>3 DEF Child!UpdateMembership
<1>6. cCurrentMembership'.configurationNumber = 0
    BY <1>5
<1>7. AdoptedInv'
    BY <1>1, <1>3, <1>6 DEF AdoptedInv
<1>8. ChildSetTypeOK'
    BY <1>1 DEF ChildInv, ChildSetTypeOK, Child!ValidatorSetTypeOK, cSetVars
<1>9. FinalityTypeOK'
    BY <1>1 DEF ChildInv, FinalityTypeOK
<1> QED
    BY <1>4, <1>7, <1>8, <1>9 DEF ChildInv

\* A round of applications starts: the membership is the one before its numbers.
LEMMA ChildInvRound ==
    ASSUME PairLogInv, ChildInv, CutCheckpointWithChanges
    PROVE  ChildInv'
<1>1. /\ cDeployed
      /\ cApplyUpTo < cStartConfigurationNumber
      /\ cNextConfigurationNumber # cStartConfigurationNumber
      /\ cApplyUpTo' = cNextConfigurationNumber - 1
      /\ UNCHANGED <<cSetVars, cDeployed, cLatestParentHeight, cFinalities,
                     cStartConfigurationNumber, cCurrentMembership, cLastMembership>>
    BY DEF CutCheckpointWithChanges, Child!StartApplying, Child!ChildIdle, Child!NothingToApply,
           Child!AppliedNumber, Child!validatorSetVars, Child!finalityVars, Child!storedVars,
           Child!membershipVars, cSetVars
<1>2. /\ cStartConfigurationNumber \in Nat /\ cNextConfigurationNumber \in Nat
      /\ cStartConfigurationNumber <= cNextConfigurationNumber
      /\ cApplyUpTo \in Nat
    BY DEF PairLogInv, ChildLogTypeOK
<1>3. PICK last : last = cApplyUpTo' /\ last = cNextConfigurationNumber - 1
    BY <1>1
<1>4. cStartConfigurationNumber <= last /\ ~(last < cStartConfigurationNumber)
    BY <1>1, <1>2, <1>3
<1>5. /\ cCurrentMembership.configurationNumber < cStartConfigurationNumber
      /\ cCurrentMembership.configurationNumber > 0 =>
            cLastMembership.configurationNumber < cCurrentMembership.configurationNumber
    BY <1>1 DEF ChildInv, AdoptedInv
<1>6. AdoptedInv'
    BY <1>1, <1>3, <1>4, <1>5 DEF AdoptedInv
<1>7. ChildSetTypeOK'
    BY <1>1 DEF ChildInv, ChildSetTypeOK, Child!ValidatorSetTypeOK, cSetVars
<1>8. FinalityTypeOK' /\ MembershipTypeOK'
    BY <1>1 DEF ChildInv, FinalityTypeOK, MembershipTypeOK
<1> QED
    BY <1>6, <1>7, <1>8 DEF ChildInv

\* Every step keeps the child's types and its adopted membership.
LEMMA ChildInvNext == PairLogInv /\ ChildInv /\ [PairNext]_pairVars => ChildInv'
<1> SUFFICES ASSUME PairLogInv, ChildInv, [PairNext]_pairVars
             PROVE  ChildInv'
    OBVIOUS
<1>1. CASE StartChild
    BY <1>1, ChildInvStart
<1>2. ASSUME NEW height \in 0..MaxParentHeight, CommitFinality(height)
      PROVE  ChildInv'
    <2>1. height \in Nat
        BY ParentAndChildAssumption
    <2>2. /\ cFinalities' = cFinalities \cup {height}
          /\ cLatestParentHeight' = height
          /\ UNCHANGED <<cSetVars, cDeployed, cStartConfigurationNumber, cApplyUpTo,
                         cCurrentMembership, cLastMembership>>
        BY <1>2 DEF CommitFinality, Child!CommitParentFinality, Child!validatorSetVars,
                    Child!storedVars, Child!membershipVars, cSetVars
    <2>3. FinalityTypeOK'
        BY <2>1, <2>2 DEF ChildInv, FinalityTypeOK
    <2> QED
        BY <2>2, <2>3, ChildInvUntouched
<1>3. ASSUME NEW i \in DOMAIN requests, NEW j, DeliverChanges(i, j)
      PROVE  ChildInv'
    <2>1. UNCHANGED <<cSetVars, cDeployed, cLatestParentHeight, cFinalities,
                      cStartConfigurationNumber, cApplyUpTo, cCurrentMembership, cLastMembership>>
        BY <1>3 DEF DeliverChanges, Child!StoreValidatorChanges, Child!validatorSetVars,
                    Child!finalityVars, Child!membershipVars, cSetVars
    <2>2. FinalityTypeOK'
        BY <2>1 DEF ChildInv, FinalityTypeOK
    <2> QED
        BY <2>1, <2>2, ChildInvUntouched
<1>4. CASE CutCheckpointWithChanges
    BY <1>4, ChildInvRound
<1>5. CASE ChildApplies
    BY <1>5, ChildInvApply
<1>6. CASE \/ ParentStep
           \/ CutCheckpointNoChange
           \/ \E height \in DOMAIN checkpoints, relayer \in Relayer :
                 SubmitNewCheckpoint(height, relayer)
           \/ \E height \in 0..Len(checkpoints), relayer \in Relayer :
                 RepeatCheckpoint(height, relayer)
           \/ UNCHANGED pairVars
    <2>1. UNCHANGED childVars
        BY <1>6 DEF ParentStep, CutCheckpointNoChange, SubmitNewCheckpoint, RepeatCheckpoint, pairVars
    <2> QED
        BY <2>1, ChildInvSame
<1> QED
    BY <1>1, <1>2, <1>3, <1>4, <1>5, <1>6 DEF PairNext

\* The child's membership is the active set under the last number that was
\* applied: no update is lost to the comparisons of updateMembership, and the set
\* is not read half way through a batch (applyFinalityChanges, updateMembership).
THEOREM MembershipAdopted == PairSpec => []ChildMembershipIsAdopted
<1>1. PairLogInv /\ ChildInv => ChildMembershipIsAdopted
    <2> SUFFICES ASSUME PairLogInv, ChildInv,
                        cDeployed, cApplyUpTo < cStartConfigurationNumber,
                        cStartConfigurationNumber > 1
                 PROVE  /\ cCurrentMembership.configurationNumber = cStartConfigurationNumber - 1
                        /\ cCurrentMembership.validators =
                              {[addr |-> v, weight |-> cConfirmedCollateral[v]] : v \in cActiveValidators}
                        /\ cLastMembership.configurationNumber < cCurrentMembership.configurationNumber
        BY DEF ChildMembershipIsAdopted, Child!MembershipIsAdopted, Child!ChildIdle
    <2>1. cApplyUpTo = cStartConfigurationNumber - 1 /\ cApplyUpTo > 0
        BY DEF PairLogInv, ChildLogTypeOK
    <2>2. cStartConfigurationNumber > 1 => 1 < cStartConfigurationNumber
        BY DEF PairLogInv, ChildLogTypeOK
    <2> QED
        BY <2>1, <2>2 DEF ChildInv, AdoptedInv
<1> QED
    BY <1>1, PairLogInit, PairLogNext, ChildInvInit, ChildInvNext, PTL DEF PairSpec

-----------------------------------------------------------------------------
(***************************************************************************)
(* The checkpoints: each is signed by the membership that the one before   *)
(* it carried, and the parent has confirmed what the last one it took      *)
(* carried.                                                                *)
(***************************************************************************)

Checkpoint == [number : Nat, membership : Child!Membership]

\* The configuration number the chains have come to with checkpoint h of cs: the
\* one it confirms or, if it has none, that of the membership which signs it.
Carried(cs, h) ==
    IF h = 0 THEN 0
    ELSE IF cs[h].number = 0 THEN cs[h].membership.configurationNumber
    ELSE cs[h].number

InSequence(cs) ==
    \A h \in 1..Len(cs) :
        /\ cs[h].membership.configurationNumber = Carried(cs, h - 1)
        /\ cs[h].number = 0 \/ cs[h].membership.configurationNumber < cs[h].number

CutInv ==
    /\ checkpoints \in Seq(Checkpoint)
    /\ Len(checkpoints) <= MaxCheckpoints
    /\ InSequence(checkpoints)
    /\ cApplyUpTo = Carried(checkpoints, Len(checkpoints))
    /\ \A h \in 0..Len(checkpoints) : Carried(checkpoints, h) <= cApplyUpTo

RelayInv ==
    /\ lastCheckpoint \in 0..Len(checkpoints)
    /\ confirmUpTo = Carried(checkpoints, lastCheckpoint)
    /\ rewarded \in [0..MaxCheckpoints -> SUBSET Relayer]
    /\ \A h \in 1..MaxCheckpoints : rewarded[h] # {} <=> h <= lastCheckpoint

PairInv == PairLogInv /\ ChildInv /\ CutInv /\ RelayInv

LEMMA CutInvInit == PairInit => CutInv /\ RelayInv
<1> SUFFICES ASSUME PairInit PROVE CutInv /\ RelayInv
    OBVIOUS
<1>1. /\ checkpoints = <<>> /\ lastCheckpoint = 0 /\ cApplyUpTo = 0 /\ confirmUpTo = 0
      /\ rewarded = [h \in 0..MaxCheckpoints |-> {}]
    BY DEF PairInit, Init, Child!ChildInit
<1>2. checkpoints \in Seq(Checkpoint) /\ Len(checkpoints) = 0
    BY <1>1
<1>3. MaxCheckpoints \in Nat
    BY ParentAndChildAssumption
<1>4. CutInv
    BY <1>1, <1>2, <1>3 DEF CutInv, InSequence, Carried
<1>5. RelayInv
    BY <1>1, <1>2, <1>3 DEF RelayInv, Carried
<1> QED
    BY <1>4, <1>5

\* A checkpoint more, in sequence with the last one.
LEMMA SequenceGoesOn ==
    ASSUME NEW cs \in Seq(Checkpoint), InSequence(cs),
           NEW cut \in Checkpoint,
           cut.membership.configurationNumber = Carried(cs, Len(cs)),
           cut.number = 0 \/ cut.membership.configurationNumber < cut.number,
           NEW new, new = Append(cs, cut)
    PROVE  /\ new \in Seq(Checkpoint)
           /\ Len(new) = Len(cs) + 1
           /\ InSequence(new)
           /\ \A h \in 0..Len(cs) : Carried(new, h) = Carried(cs, h)
           /\ Carried(new, Len(cs) + 1) =
                 IF cut.number = 0 THEN cut.membership.configurationNumber ELSE cut.number
<1>1. /\ new \in Seq(Checkpoint)
      /\ Len(cs) \in Nat
      /\ Len(new) = Len(cs) + 1
      /\ \A h \in 1..Len(cs) : new[h] = cs[h]
      /\ new[Len(cs) + 1] = cut
    OBVIOUS
<1>2. \A h \in 0..Len(cs) : Carried(new, h) = Carried(cs, h)
    <2> SUFFICES ASSUME NEW h \in 0..Len(cs) PROVE Carried(new, h) = Carried(cs, h)
        OBVIOUS
    <2>1. h = 0 \/ h \in 1..Len(cs)
        BY <1>1
    <2> QED
        BY <1>1, <2>1 DEF Carried
<1>3. Carried(new, Len(cs) + 1) =
         IF cut.number = 0 THEN cut.membership.configurationNumber ELSE cut.number
    <2>1. Len(cs) + 1 # 0
        BY <1>1
    <2> QED
        BY <1>1, <2>1 DEF Carried
<1>4. ASSUME NEW h \in 1..Len(new)
      PROVE  /\ new[h].membership.configurationNumber = Carried(new, h - 1)
             /\ new[h].number = 0 \/ new[h].membership.configurationNumber < new[h].number
    <2>1. h - 1 \in 0..Len(cs)
        BY <1>1
    <2>2. CASE h \in 1..Len(cs)
        BY <1>1, <1>2, <2>1, <2>2 DEF InSequence
    <2>3. CASE h = Len(cs) + 1
        <3>1. h - 1 = Len(cs)
            BY <1>1, <2>3
        <3> QED
            BY <1>1, <1>2, <2>1, <2>3, <3>1
    <2> QED
        BY <1>1, <2>2, <2>3
<1> QED
    BY <1>1, <1>2, <1>3, <1>4 DEF InSequence

\* A checkpoint is cut for the membership of the last applied number. If it has a
\* number, that is a later one, and what the child applies up to from then on.
LEMMA CutInvCut ==
    ASSUME PairLogInv, ChildInv, CutInv, RelayInv,
           NEW number \in Nat, CutCheckpoint(number),
           cApplyUpTo < cStartConfigurationNumber,
           number = 0 \/ cApplyUpTo < number,
           cApplyUpTo' = IF number = 0 THEN cApplyUpTo ELSE number,
           confirmUpTo' = confirmUpTo
    PROVE  CutInv' /\ RelayInv'
<1> DEFINE cut == [number |-> number, membership |-> cCurrentMembership]
<1>1. cut \in Checkpoint
    BY DEF ChildInv, MembershipTypeOK, Checkpoint
<1>2. cut.number = number /\ cut.membership = cCurrentMembership
    OBVIOUS
<1>3. cCurrentMembership.configurationNumber = cApplyUpTo
    BY DEF ChildInv, AdoptedInv
<1>4. PICK new, last : new = checkpoints' /\ last = cApplyUpTo'
    OBVIOUS
<1>5. /\ new = Append(checkpoints, cut)
      /\ Len(checkpoints) < MaxCheckpoints
      /\ UNCHANGED <<lastCheckpoint, rewarded>>
    BY <1>4 DEF CutCheckpoint
<1> HIDE DEF cut
<1>6. /\ checkpoints \in Seq(Checkpoint)
      /\ InSequence(checkpoints)
      /\ cApplyUpTo = Carried(checkpoints, Len(checkpoints))
      /\ \A h \in 0..Len(checkpoints) : Carried(checkpoints, h) <= cApplyUpTo
    BY DEF CutInv
<1>7. /\ new \in Seq(Checkpoint)
      /\ Len(new) = Len(checkpoints) + 1
      /\ InSequence(new)
      /\ \A h \in 0..Len(checkpoints) : Carried(new, h) = Carried(checkpoints, h)
      /\ Carried(new, Len(checkpoints) + 1) =
            IF cut.number = 0 THEN cut.membership.configurationNumber ELSE cut.number
    <2>1. cut.membership.configurationNumber = Carried(checkpoints, Len(checkpoints))
        BY <1>2, <1>3, <1>6
    <2>2. cut.number = 0 \/ cut.membership.configurationNumber < cut.number
        BY <1>2, <1>3
    <2> QED
        BY ONLY <1>1, <1>5, <1>6, <2>1, <2>2, SequenceGoesOn
<1>8. Carried(new, Len(new)) = last
    BY <1>2, <1>3, <1>4, <1>7
<1>9. Len(checkpoints) \in Nat /\ MaxCheckpoints \in Nat /\ cApplyUpTo \in Nat /\ last \in Nat
    <2>1. cApplyUpTo \in Nat
        BY DEF PairLogInv, ChildLogTypeOK
    <2> QED
        BY <1>4, <1>6, <2>1, ParentAndChildAssumption
<1>10. \A h \in 0..Len(new) : Carried(new, h) <= last
    <2> SUFFICES ASSUME NEW h \in 0..Len(new) PROVE Carried(new, h) <= last
        OBVIOUS
    <2>1. CASE h = Len(new)
        BY <1>8, <1>9, <2>1
    <2>2. CASE h # Len(new)
        <3>1. h \in 0..Len(checkpoints)
            BY <1>7, <1>9, <2>2
        <3>2. Carried(new, h) <= cApplyUpTo /\ Carried(new, h) \in Nat
            <4>1. h = 0 \/ h \in 1..Len(checkpoints)
                BY <1>9, <3>1
            <4>2. Carried(checkpoints, h) \in Nat
                <5>1. CASE h = 0
                    BY <5>1 DEF Carried
                <5>2. CASE h \in 1..Len(checkpoints)
                    <6>1. checkpoints[h] \in Checkpoint
                        BY <1>6, <5>2
                    <6> QED
                        BY <5>2, <6>1 DEF Carried, Checkpoint, Child!Membership
                <5> QED
                    BY <4>1, <5>1, <5>2
            <4> QED
                BY <1>6, <1>7, <3>1, <4>2
        <3> QED
            BY <1>4, <1>9, <3>2
    <2> QED
        BY <2>1, <2>2
<1>11. Len(new) <= MaxCheckpoints
    BY <1>5, <1>7, <1>9
<1>12. CutInv'
    BY <1>4, <1>7, <1>8, <1>10, <1>11 DEF CutInv
<1>13. RelayInv'
    <2>1. lastCheckpoint \in 0..Len(new) /\ Carried(new, lastCheckpoint) = confirmUpTo
        BY <1>7, <1>9 DEF RelayInv
    <2> QED
        BY <1>4, <1>5, <2>1 DEF RelayInv
<1> QED
    BY <1>12, <1>13

\* Neither a validator's call nor a confirmation moves where confirmChange ends.
LEMMA ParentStepLoop == ParentStep => confirmUpTo' = confirmUpTo
    BY DEF ParentStep, PreFund, PreRelease, JoinBeforeBootstrap, JoinAfterBootstrap,
           StakeBeforeBootstrap, StakeAfterBootstrap, UnstakeBeforeBootstrap,
           UnstakeAfterBootstrap, LeaveBeforeBootstrap, LeaveAfterBootstrap, Claim,
           ConfirmNext, Kill, AddBootstrapNode, SetPaused, loopVars

\* What moves neither the checkpoints nor where the two loops end.
LEMMA CutInvSame ==
    ASSUME CutInv, RelayInv,
           UNCHANGED <<checkpoints, lastCheckpoint, rewarded, cApplyUpTo, confirmUpTo>>
    PROVE  CutInv' /\ RelayInv'
    BY DEF CutInv, RelayInv

\* Noting a relayer touches the note of one height, 0 included.
LEMMA Rewards ==
    ASSUME rewarded \in [0..MaxCheckpoints -> SUBSET Relayer],
           NEW height \in 0..MaxCheckpoints, NEW relayer \in Relayer,
           rewarded' = [rewarded EXCEPT ![height] = @ \cup {relayer}]
    PROVE  /\ rewarded' \in [0..MaxCheckpoints -> SUBSET Relayer]
           /\ rewarded'[height] # {}
           /\ \A h \in 1..MaxCheckpoints : h # height => rewarded'[h] = rewarded[h]
    OBVIOUS

\* The next checkpoint is taken: what it carries is what the parent confirms up
\* to, whether it has a number or not.
LEMMA RelaySubmit ==
    ASSUME PairLogInv, CutInv, RelayInv,
           NEW height \in DOMAIN checkpoints, NEW relayer \in Relayer,
           SubmitNewCheckpoint(height, relayer)
    PROVE  CutInv' /\ RelayInv'
<1>1. /\ height = lastCheckpoint + 1
      /\ lastCheckpoint' = height
      /\ rewarded' = [rewarded EXCEPT ![height] = @ \cup {relayer}]
      /\ confirmUpTo < startConfigurationNumber
      /\ confirmUpTo' = NumberToConfirm(checkpoints[height].number)
      /\ checkpoints' = checkpoints
      /\ cApplyUpTo' = cApplyUpTo
    BY DEF SubmitNewCheckpoint, NextHeight, SubmitCheckpoint, Idle, childVars
<1>2. /\ checkpoints \in Seq(Checkpoint)
      /\ Len(checkpoints) <= MaxCheckpoints
      /\ InSequence(checkpoints)
    BY DEF CutInv
<1>3. Len(checkpoints) \in Nat /\ MaxCheckpoints \in Nat /\ height \in 1..Len(checkpoints)
    BY <1>2, ParentAndChildAssumption
<1>4. height \in 1..MaxCheckpoints /\ height \in 0..MaxCheckpoints
    BY <1>2, <1>3
<1>5. /\ confirmUpTo = startConfigurationNumber - 1
      /\ startConfigurationNumber \in Nat \ {0}
    BY <1>1 DEF PairLogInv, TypeOK, LogTypeOK
<1>6. confirmUpTo = Carried(checkpoints, height - 1)
    <2>1. height - 1 = lastCheckpoint
        BY <1>1 DEF RelayInv
    <2> QED
        BY <2>1 DEF RelayInv
<1>7. PICK c : c = checkpoints[height]
    OBVIOUS
<1>8. c \in Checkpoint
    BY <1>2, <1>3, <1>7
<1>9. /\ c.membership.configurationNumber = confirmUpTo
      /\ c.number = 0 \/ confirmUpTo < c.number
    BY <1>2, <1>3, <1>6, <1>7 DEF InSequence
<1>10. Carried(checkpoints, height) = IF c.number = 0 THEN confirmUpTo ELSE c.number
    BY <1>3, <1>7, <1>9 DEF Carried
<1>11. NumberToConfirm(c.number) = IF c.number = 0 THEN confirmUpTo ELSE c.number
    <2>1. c.number \in Nat
        BY <1>8 DEF Checkpoint
    <2> QED
        BY <1>5, <1>9, <2>1 DEF NumberToConfirm
<1>12. confirmUpTo' = Carried(checkpoints, height)
    BY <1>1, <1>7, <1>10, <1>11
<1>13. /\ rewarded' \in [0..MaxCheckpoints -> SUBSET Relayer]
       /\ rewarded'[height] # {}
       /\ \A h \in 1..MaxCheckpoints : h # height => rewarded'[h] = rewarded[h]
    BY <1>1, <1>4, Rewards DEF RelayInv
<1>14. \A h \in 1..MaxCheckpoints : rewarded'[h] # {} <=> h <= height
    <2> SUFFICES ASSUME NEW h \in 1..MaxCheckpoints PROVE rewarded'[h] # {} <=> h <= height
        OBVIOUS
    <2>1. CASE h = height
        BY <1>3, <1>13, <2>1
    <2>2. CASE h # height
        <3>1. h <= height <=> h <= lastCheckpoint
            BY <1>1, <1>3, <2>2 DEF RelayInv
        <3>2. rewarded'[h] = rewarded[h]
            BY <1>13, <2>2
        <3> QED
            BY <3>1, <3>2 DEF RelayInv
    <2> QED
        BY <2>1, <2>2
<1>15. CutInv'
    BY <1>1 DEF CutInv
<1>16. RelayInv'
    BY <1>1, <1>3, <1>12, <1>13, <1>14 DEF RelayInv
<1> QED
    BY <1>15, <1>16

\* The last checkpoint once more notes another relayer for it.
LEMMA RelayRepeat ==
    ASSUME CutInv, RelayInv,
           NEW height \in 0..Len(checkpoints), NEW relayer \in Relayer,
           RepeatCheckpoint(height, relayer)
    PROVE  CutInv' /\ RelayInv'
<1>1. /\ height = lastCheckpoint
      /\ rewarded' = [rewarded EXCEPT ![height] = @ \cup {relayer}]
      /\ UNCHANGED <<checkpoints, lastCheckpoint, cApplyUpTo, confirmUpTo>>
    BY DEF RepeatCheckpoint, childVars, parentVars, vars, loopVars
<1>2. height \in 0..MaxCheckpoints
    <2>1. Len(checkpoints) \in Nat /\ height \in 0..Len(checkpoints)
        BY DEF CutInv
    <2> QED
        BY <2>1, ParentAndChildAssumption DEF CutInv
<1>3. /\ rewarded' \in [0..MaxCheckpoints -> SUBSET Relayer]
      /\ rewarded'[height] # {}
      /\ \A h \in 1..MaxCheckpoints : h # height => rewarded'[h] = rewarded[h]
    BY <1>1, <1>2, Rewards DEF RelayInv
<1>4. \A h \in 1..MaxCheckpoints : rewarded'[h] # {} <=> h <= lastCheckpoint
    BY <1>1, <1>2, <1>3 DEF RelayInv
<1>5. CutInv'
    BY <1>1 DEF CutInv
<1>6. RelayInv'
    BY <1>1, <1>3, <1>4 DEF RelayInv
<1> QED
    BY <1>5, <1>6

\* Every step keeps the checkpoints in order.
LEMMA CutInvNext ==
    PairLogInv /\ ChildInv /\ CutInv /\ RelayInv /\ [PairNext]_pairVars => CutInv' /\ RelayInv'
<1> SUFFICES ASSUME PairLogInv, ChildInv, CutInv, RelayInv, [PairNext]_pairVars
             PROVE  CutInv' /\ RelayInv'
    OBVIOUS
<1>1. CASE ParentStep
    <2>1. UNCHANGED <<checkpoints, lastCheckpoint, rewarded, cApplyUpTo>>
        BY <1>1 DEF ParentStep, childVars, relayVars
    <2> QED
        BY <1>1, <2>1, ParentStepLoop, CutInvSame
<1>2. CASE CutCheckpointNoChange
    <2>1. /\ CutCheckpoint(0)
          /\ cApplyUpTo < cStartConfigurationNumber
          /\ cApplyUpTo' = cApplyUpTo
          /\ confirmUpTo' = confirmUpTo
        BY <1>2 DEF CutCheckpointNoChange, CutCheckpoint, Child!ChildIdle, childVars, parentVars,
                    vars, loopVars
    <2> QED
        BY <2>1, CutInvCut
<1>3. CASE CutCheckpointWithChanges
    <2>1. /\ CutCheckpoint(cNextConfigurationNumber - 1)
          /\ cApplyUpTo < cStartConfigurationNumber
          /\ cNextConfigurationNumber # cStartConfigurationNumber
          /\ cApplyUpTo' = cNextConfigurationNumber - 1
          /\ confirmUpTo' = confirmUpTo
        BY <1>3 DEF CutCheckpointWithChanges, CutCheckpoint, Child!StartApplying, Child!ChildIdle,
                    Child!NothingToApply, Child!AppliedNumber, parentVars, vars, loopVars
    <2>2. /\ cNextConfigurationNumber - 1 \in Nat
          /\ cApplyUpTo < cNextConfigurationNumber - 1
          /\ cNextConfigurationNumber - 1 # 0
        BY <2>1 DEF PairLogInv, ChildLogTypeOK
    <2> QED
        BY <2>1, <2>2, CutInvCut
<1>4. ASSUME NEW height \in DOMAIN checkpoints, NEW relayer \in Relayer,
             SubmitNewCheckpoint(height, relayer)
      PROVE  CutInv' /\ RelayInv'
    BY <1>4, RelaySubmit
<1>5. ASSUME NEW height \in 0..Len(checkpoints), NEW relayer \in Relayer,
             RepeatCheckpoint(height, relayer)
      PROVE  CutInv' /\ RelayInv'
    BY <1>5, RelayRepeat
<1>6. CASE \/ StartChild
           \/ \E height \in 0..MaxParentHeight : CommitFinality(height)
           \/ \E i \in DOMAIN requests, k \in {0, 1} : DeliverChanges(i, i + k)
           \/ ChildApplies
           \/ UNCHANGED pairVars
    <2>1. UNCHANGED <<checkpoints, lastCheckpoint, rewarded, cApplyUpTo, confirmUpTo>>
        BY <1>6 DEF StartChild, CommitFinality, DeliverChanges, ChildApplies, Child!Construct,
                    Child!CommitParentFinality, Child!StoreValidatorChanges, Child!ApplyNext,
                    relayVars, parentVars, vars, loopVars, pairVars, childVars
    <2> QED
        BY <2>1, CutInvSame
<1> QED
    BY <1>1, <1>2, <1>3, <1>4, <1>5, <1>6 DEF PairNext

LEMMA PairInvariant == PairSpec => []PairInv
<1>1. PairInit => PairInv
    BY PairLogInit, ChildInvInit, CutInvInit DEF PairInv
<1>2. PairInv /\ [PairNext]_pairVars => PairInv'
    BY PairLogNext, ChildInvNext, CutInvNext DEF PairInv
<1> QED
    BY <1>1, <1>2, PTL DEF PairSpec

\* What each chain holds, and what travels between them, is well formed.
THEOREM PairTyped == PairSpec => []PairTypeOK
<1>1. PairInv => PairTypeOK
    <2> SUFFICES ASSUME PairInv PROVE PairTypeOK
        OBVIOUS
    <2>1. TypeOK /\ Child!ChildTypeOK
        BY ChildTyped DEF PairInv, PairLogInv
    <2>2. requests \in Seq([configurationNumber : Nat \ {0}, change : Change])
        BY DEF PairInv, PairLogInv, EventsAreNumbered, Request
    <2>3. checkpoints \in Seq([number : Nat, membership : Child!Membership])
        BY DEF PairInv, CutInv, Checkpoint
    <2> QED
        BY <2>1, <2>2, <2>3 DEF PairInv, RelayInv, PairTypeOK
<1> QED
    BY <1>1, PairInvariant, PTL

\* The checkpoint that the parent waits for was signed by the membership of the
\* configuration that the parent has confirmed, and relayers are rewarded for
\* exactly the checkpoints before it, in whatever order checkpoints are relayed
\* (submitCheckpoint).
THEOREM CheckpointsInOrder == PairSpec => []RelayedInOrder
<1>1. PairInv => RelayedInOrder
    <2> SUFFICES ASSUME PairInv PROVE RelayedInOrder
        OBVIOUS
    <2>1. ASSUME Idle, lastCheckpoint < Len(checkpoints)
          PROVE  checkpoints[lastCheckpoint + 1].membership.configurationNumber =
                    startConfigurationNumber - 1
        <3>1. Len(checkpoints) \in Nat /\ lastCheckpoint \in Nat
            BY DEF PairInv, CutInv, RelayInv
        <3>2. lastCheckpoint + 1 \in 1..Len(checkpoints) /\ (lastCheckpoint + 1) - 1 = lastCheckpoint
            BY <2>1, <3>1
        <3>3. checkpoints[lastCheckpoint + 1].membership.configurationNumber = confirmUpTo
            BY <3>2 DEF PairInv, CutInv, RelayInv, InSequence
        <3>4. confirmUpTo = startConfigurationNumber - 1
            BY <2>1 DEF PairInv, PairLogInv, TypeOK, LogTypeOK, Idle
        <3> QED
            BY <3>3, <3>4
    <2> QED
        BY <2>1 DEF RelayedInOrder, PairInv, RelayInv
<1> QED
    BY <1>1, PairInvariant, PTL

\* The parent confirms a change only after the child has applied it, and never
\* one that was not recorded (submitCheckpoint, confirmChange).
THEOREM ConfirmedAfterApplied == PairSpec => []ParentConfirmsWhatChildApplied
<1>1. PairInv => ParentConfirmsWhatChildApplied
    <2> SUFFICES ASSUME PairInv PROVE ParentConfirmsWhatChildApplied
        OBVIOUS
    <2>1. ASSUME BothIdle PROVE startConfigurationNumber <= cStartConfigurationNumber
        <3>1. confirmUpTo = startConfigurationNumber - 1 /\ startConfigurationNumber \in Nat
            BY <2>1 DEF BothIdle, PairInv, PairLogInv, TypeOK, LogTypeOK, Idle
        <3>2. cApplyUpTo = cStartConfigurationNumber - 1 /\ cStartConfigurationNumber \in Nat
            BY <2>1 DEF BothIdle, Child!ChildIdle, PairInv, PairLogInv, ChildLogTypeOK
        <3>3. confirmUpTo <= cApplyUpTo
            BY DEF PairInv, CutInv, RelayInv
        <3> QED
            BY <3>1, <3>2, <3>3
    <2> QED
        BY <2>1 DEF ParentConfirmsWhatChildApplied, PairInv, PairLogInv, CheckpointsAreNumbered
<1> QED
    BY <1>1, PairInvariant, PTL

-----------------------------------------------------------------------------
(***************************************************************************)
(* The collateral of the child: what the requests it has applied add up    *)
(* to. Both logs are pieces of the requests, and sums over them as well.   *)
(***************************************************************************)

\* The changes of events i to j, as a log.
LogOf(events, i, j) == [n \in i..j |-> events[n].change]

\* Every change the parent has not confirmed is the one that was emitted.
LogIsRequested == \A n \in DOMAIN changes : requests[n].change = changes[n]

Tracks(confirmed, events, start) ==
    \A v \in Validator :
        confirmed[v] + PendingIn(LogOf(events, 1, start - 1), v, "Withdraw") =
            PendingIn(LogOf(events, 1, start - 1), v, "Deposit")

TrackedInv ==
    /\ LogIsRequested
    /\ Tracks(cConfirmedCollateral, requests, cStartConfigurationNumber)

\* Pieces of the events are logs.
LEMMA PieceIsLog ==
    ASSUME NEW events \in Seq(Request), NEW i \in Nat \ {0}, NEW j \in 0..Len(events)
    PROVE  /\ IsLog(LogOf(events, i, j))
           /\ DOMAIN LogOf(events, i, j) = i..j
           /\ \A n \in i..j : LogOf(events, i, j)[n] = events[n].change /\ events[n].change \in Change
<1>1. j \in Int /\ i \in Int /\ IsFiniteSet(i..j)
    BY FS_Interval
<1>2. \A n \in i..j : events[n].change \in Change
    <2> SUFFICES ASSUME NEW n \in i..j PROVE events[n].change \in Change
        OBVIOUS
    <2>1. n \in 1..Len(events)
        OBVIOUS
    <2>2. events[n] \in Request
        BY <2>1
    <2> QED
        BY <2>2 DEF Request
<1> QED
    BY <1>1, <1>2 DEF LogOf, IsLog

\* The piece with one event more has its share more.
LEMMA PieceOneMore ==
    ASSUME NEW events \in Seq(Request), NEW i \in Nat \ {0}, NEW j \in 0..Len(events),
           i <= j + 1, j + 1 <= Len(events), NEW v, NEW op
    PROVE  PendingIn(LogOf(events, i, j + 1), v, op) =
              PendingIn(LogOf(events, i, j), v, op) + Share(events[j + 1].change, v, op)
<1>1. j + 1 \in 0..Len(events) /\ j + 1 \in i..(j + 1)
    OBVIOUS
<1>2. PICK small, large, c, k :
         /\ small = LogOf(events, i, j) /\ large = LogOf(events, i, j + 1)
         /\ c = events[j + 1].change /\ k = j + 1
    OBVIOUS
<1>3. IsLog(small) /\ DOMAIN small = i..j /\ \A n \in i..j : small[n] = events[n].change
    BY <1>2, PieceIsLog
<1>4. DOMAIN large = i..(j + 1) /\ \A n \in i..(j + 1) : large[n] = events[n].change
    BY <1>2 DEF LogOf
<1>5. c \in Change
    BY <1>1, <1>2, PieceIsLog
<1>6. /\ DOMAIN large = DOMAIN small \cup {k}
      /\ k \notin DOMAIN small
      /\ \A n \in DOMAIN small : large[n] = small[n]
      /\ large[k] = c
    <2>1. /\ i..(j + 1) = (i..j) \cup {j + 1}
          /\ j + 1 \notin i..j
        OBVIOUS
    <2>2. \A n \in i..j : n \in i..(j + 1)
        BY <2>1
    <2>3. DOMAIN large = DOMAIN small \cup {k} /\ k \notin DOMAIN small
        BY <1>2, <1>3, <1>4, <2>1
    <2>4. \A n \in DOMAIN small : large[n] = small[n]
        BY <1>3, <1>4, <2>2
    <2>5. large[k] = c
        BY <1>1, <1>2, <1>4
    <2> QED
        BY <2>3, <2>4, <2>5
<1>7. PendingIn(large, v, op) = PendingIn(small, v, op) + Share(c, v, op)
    BY ONLY <1>3, <1>5, <1>6, PendingOneMore
<1> QED
    BY <1>2, <1>7

\* Nothing is pending in an empty piece.
LEMMA PieceEmpty ==
    ASSUME NEW events, NEW i \in Nat \ {0}, NEW v, NEW op
    PROVE  PendingIn(LogOf(events, i, i - 1), v, op) = 0
<1>1. PICK log : log = LogOf(events, i, i - 1)
    OBVIOUS
<1>2. DOMAIN log = {}
    BY <1>1 DEF LogOf
<1>3. IsLog(log)
    BY <1>2, FS_EmptySet DEF IsLog
<1>4. Matching(log, v, op) = {}
    BY <1>2 DEF Matching
<1>5. PendingIn(log, v, op) = Sum(AmountsOf(log), {})
    BY <1>3, <1>4, PendingIsSum
<1> QED
    BY <1>1, <1>5, SumEmpty

\* A piece cut in two.
LEMMA PieceSplit ==
    ASSUME NEW events \in Seq(Request), NEW k \in 0..Len(events), NEW v, NEW op
    PROVE  PendingIn(LogOf(events, 1, Len(events)), v, op) =
              PendingIn(LogOf(events, 1, k), v, op)
              + PendingIn(LogOf(events, k + 1, Len(events)), v, op)
<1> DEFINE Whole(m) == PendingIn(LogOf(events, 1, m), v, op)
           Rest(m) == PendingIn(LogOf(events, k + 1, m), v, op)
           K == {n \in Nat : k + n <= Len(events) => Whole(k + n) = Whole(k) + Rest(k + n)}
<1>1. Len(events) \in Nat /\ k \in Nat /\ k + 1 \in Nat \ {0}
    OBVIOUS
<1>2. \A m \in 0..Len(events) : Whole(m) \in Nat /\ Rest(m) \in Nat
    <2> SUFFICES ASSUME NEW m \in 0..Len(events) PROVE Whole(m) \in Nat /\ Rest(m) \in Nat
        OBVIOUS
    <2>1. IsLog(LogOf(events, 1, m)) /\ IsLog(LogOf(events, k + 1, m))
        BY <1>1, PieceIsLog
    <2> QED
        BY <2>1, PendingIsSum
<1>3. Rest(k) = 0
    <2>1. (k + 1) - 1 = k
        BY <1>1
    <2>2. PendingIn(LogOf(events, k + 1, (k + 1) - 1), v, op) = 0
        BY <1>1, PieceEmpty
    <2> QED
        BY <2>1, <2>2
<1>4. 0 \in K
    <2>1. Whole(k) \in Nat /\ k + 0 = k
        BY <1>1, <1>2
    <2> HIDE DEF Whole, Rest
    <2> QED
        BY <1>3, <2>1
<1>5. \A n \in Nat : n \in K => n + 1 \in K
    <2> SUFFICES ASSUME NEW n \in Nat, n \in K, k + (n + 1) <= Len(events)
                 PROVE  Whole(k + (n + 1)) = Whole(k) + Rest(k + (n + 1))
        OBVIOUS
    <2>1. PICK m : m = k + n
        OBVIOUS
    <2>2. /\ m \in 0..Len(events) /\ m + 1 <= Len(events) /\ k + (n + 1) = m + 1
          /\ 1 <= m + 1 /\ k + 1 <= m + 1
        BY <1>1, <2>1
    <2>3. Whole(m) = Whole(k) + Rest(m)
        BY <2>1, <2>2
    <2>4. Whole(m + 1) = Whole(m) + Share(events[m + 1].change, v, op)
        BY <2>2, PieceOneMore
    <2>5. Rest(m + 1) = Rest(m) + Share(events[m + 1].change, v, op)
        BY <1>1, <2>2, PieceOneMore
    <2>6. PICK share : share = Share(events[m + 1].change, v, op)
        OBVIOUS
    <2>7. share \in Nat
        <3>1. m + 1 \in 1..Len(events)
            BY <2>2
        <3>2. events[m + 1] \in Request
            BY <3>1
        <3>3. events[m + 1].change \in Change
            BY <3>2 DEF Request
        <3> QED
            BY <2>6, <3>3 DEF Share, Change
    <2>8. Whole(m) \in Nat /\ Whole(k) \in Nat /\ Rest(m) \in Nat
        BY <1>1, <1>2, <2>2
    <2>9. Whole(m + 1) = Whole(k) + Rest(m + 1)
        <3> HIDE DEF Whole, Rest
        <3> QED
            BY <2>3, <2>4, <2>5, <2>6, <2>7, <2>8
    <2> QED
        BY <2>2, <2>9
<1>6. Len(events) - k \in K
    <2>1. Len(events) - k \in Nat
        BY <1>1
    <2> HIDE DEF K
    <2> QED
        BY <1>4, <1>5, <2>1, NumbersByInduction
<1>7. k + (Len(events) - k) = Len(events)
    BY <1>1
<1> QED
    BY <1>1, <1>6, <1>7

\* What a call of a validator or a confirmation does to the changes of the log
\* that were there before.
LEMMA ParentLogKeeps ==
    ASSUME TypeOK, TypeOK', ParentStep
    PROVE  \A n \in DOMAIN changes' :
               n < nextConfigurationNumber => n \in DOMAIN changes /\ changes'[n] = changes[n]
<1> DEFINE Goal == \A n \in DOMAIN changes' :
                       n < nextConfigurationNumber => n \in DOMAIN changes /\ changes'[n] = changes[n]
<1>0. /\ nextConfigurationNumber \in Nat \ {0}
      /\ startConfigurationNumber \in 1..nextConfigurationNumber
      /\ DOMAIN changes = startConfigurationNumber..(nextConfigurationNumber - 1)
    BY ParentNumbers
<1>1. ASSUME NEW cs \in Seq(Change), RecordChanges(cs) PROVE Goal
    <2>1. PICK log : log = changes'
        OBVIOUS
    <2>2. PICK next : /\ next = nextConfigurationNumber + Len(cs)
                      /\ log = [n \in startConfigurationNumber..(next - 1) |->
                                   IF n < nextConfigurationNumber
                                   THEN changes[n]
                                   ELSE cs[n - nextConfigurationNumber + 1]]
        BY <1>1, <2>1 DEF RecordChanges
    <2>3. Len(cs) \in Nat
        OBVIOUS
    <2>4. \A n \in DOMAIN log :
              n < nextConfigurationNumber => n \in DOMAIN changes /\ log[n] = changes[n]
        BY <1>0, <2>2, <2>3
    <2> QED
        BY <2>1, <2>4
<1>2. ASSUME changes' = changes PROVE Goal
    BY <1>2
<1>3. ASSUME ConfirmNext PROVE Goal
    <2>1. changes' = [n \in (startConfigurationNumber + 1)..(nextConfigurationNumber - 1) |-> changes[n]]
        BY <1>3 DEF ConfirmNext, PurgeChange
    <2>2. \A n \in (startConfigurationNumber + 1)..(nextConfigurationNumber - 1) : n \in DOMAIN changes
        BY <1>0
    <2> QED
        BY <2>1, <2>2
<1> HIDE DEF Goal
<1>4. Goal
    BY <1>1, <1>2, <1>3, ParentStepLog DEF logVars
<1> QED
    BY <1>4 DEF Goal

\* The same piece of more events.
LEMMA SamePiece ==
    ASSUME NEW old, NEW new, NEW i \in Int, NEW j \in Int, \A n \in i..j : new[n] = old[n]
    PROVE  LogOf(new, i, j) = LogOf(old, i, j)
    BY DEF LogOf

\* More events do not change what the applied ones add up to.
LEMMA TracksMore ==
    ASSUME PairLogInv, NEW events, \A n \in 1..Len(requests) : events[n] = requests[n],
           Tracks(cConfirmedCollateral, requests, cStartConfigurationNumber)
    PROVE  Tracks(cConfirmedCollateral, events, cStartConfigurationNumber)
<1>1. /\ cStartConfigurationNumber \in Nat \ {0}
      /\ cStartConfigurationNumber - 1 <= Len(requests)
      /\ Len(requests) \in Nat
    BY ParentNumbers DEF PairLogInv, ChildLogTypeOK, ChildLogIsParents, EventsAreNumbered
<1>2. PICK last \in Int : last = cStartConfigurationNumber - 1
    BY <1>1
<1>3. \A n \in 1..last : events[n] = requests[n]
    BY <1>1, <1>2
<1>4. LogOf(events, 1, last) = LogOf(requests, 1, last)
    BY <1>3, SamePiece
<1> QED
    BY <1>2, <1>4 DEF Tracks

\* A step of the parent changes no event.
LEMMA TrackedParent ==
    ASSUME PairLogInv, PairLogInv', TrackedInv, ParentStep
    PROVE  TrackedInv'
<1>1. TypeOK /\ TypeOK'
    BY DEF PairLogInv
<1>2. /\ \A n \in 1..Len(requests) : requests'[n] = requests[n]
      /\ nextConfigurationNumber <= nextConfigurationNumber'
    BY <1>1, EventsGrow
<1>3. /\ requests \in Seq(Request) /\ Len(requests) = nextConfigurationNumber - 1
      /\ nextConfigurationNumber \in Nat \ {0}
      /\ startConfigurationNumber \in 1..nextConfigurationNumber
      /\ DOMAIN changes = startConfigurationNumber..(nextConfigurationNumber - 1)
    BY ParentNumbers DEF PairLogInv, EventsAreNumbered
<1>4. PICK log, events, next :
         log = changes' /\ events = requests' /\ next = nextConfigurationNumber'
    OBVIOUS
<1>5. events = requests \o
          [i \in 1..(next - nextConfigurationNumber) |->
              [configurationNumber |-> nextConfigurationNumber + i - 1,
               change |-> log[nextConfigurationNumber + i - 1]]]
    BY <1>4 DEF ParentStep, EmitRequests
<1>6. /\ next \in Nat \ {0}
      /\ \A n \in DOMAIN log : n \in Nat /\ n <= next - 1
    <2>1. LogTypeOK'
        BY <1>1 DEF TypeOK
    <2>2. PICK first : first = startConfigurationNumber'
        OBVIOUS
    <2>3. /\ next \in Nat \ {0}
          /\ first \in 1..next
          /\ log \in [first..(next - 1) -> Change]
        BY <1>4, <2>1, <2>2 DEF LogTypeOK
    <2> QED
        BY <2>3
<1>7. ASSUME NEW n \in DOMAIN log, n < nextConfigurationNumber
      PROVE  events[n].change = log[n]
    <2>1. n \in DOMAIN changes /\ log[n] = changes[n]
        BY <1>1, <1>4, <1>7, ParentLogKeeps
    <2>2. n \in 1..Len(requests)
        BY <1>3, <2>1
    <2>3. events[n] = requests[n]
        BY <1>2, <1>4, <2>2
    <2> QED
        BY <2>1, <2>3 DEF TrackedInv, LogIsRequested
<1>8. ASSUME NEW n \in DOMAIN log, ~(n < nextConfigurationNumber)
      PROVE  events[n].change = log[n]
    <2> DEFINE more == next - nextConfigurationNumber
               event(i) == [configurationNumber |-> nextConfigurationNumber + i - 1,
                            change |-> log[nextConfigurationNumber + i - 1]]
               extra == [i \in 1..more |-> event(i)]
    <2>1. PICK k \in Int : k = n - nextConfigurationNumber + 1
        BY <1>3, <1>6
    <2>2. k \in 1..more /\ n = Len(requests) + k /\ more \in Nat /\ nextConfigurationNumber + k - 1 = n
        BY <1>3, <1>6, <1>8, <2>1
    <2>3. Len(extra) = more /\ extra \in Seq({event(i) : i \in 1..more})
        <3> HIDE DEF event, more
        <3>1. \A i \in 1..more : event(i) \in {event(m) : m \in 1..more}
            OBVIOUS
        <3> QED
            BY <2>2, <3>1, IsASeq
    <2>4. events = requests \o extra
        BY <1>5
    <2>5. extra[k] = event(k)
        BY <2>2
    <2>6. event(k).change = log[n]
        BY <2>2
    <2>7. (requests \o extra)[n] = extra[k]
        <3> HIDE DEF extra, more
        <3>1. n \in 1..(Len(requests) + Len(extra)) /\ ~(n <= Len(requests)) /\ n - Len(requests) = k
            BY <1>3, <2>2, <2>3
        <3> QED
            BY <1>3, <2>3, <3>1
    <2> HIDE DEF extra, event
    <2> QED
        BY <2>4, <2>5, <2>6, <2>7
<1>9. LogIsRequested'
    BY <1>4, <1>7, <1>8 DEF LogIsRequested
<1>10. Tracks(cConfirmedCollateral, events, cStartConfigurationNumber)
    BY <1>2, <1>4, TracksMore DEF TrackedInv
<1>11. UNCHANGED <<cConfirmedCollateral, cStartConfigurationNumber>>
    BY DEF ParentStep, childVars
<1>12. Tracks(cConfirmedCollateral, requests, cStartConfigurationNumber)'
    BY <1>4, <1>10, <1>11 DEF Tracks
<1> QED
    BY <1>9, <1>12 DEF TrackedInv

\* One change applied moves the child's collateral by its share.
LEMMA AppliedShare ==
    ASSUME ChildSetTypeOK, NEW c \in Change, Child!ApplyStored(c), NEW v \in Validator
    PROVE  /\ cConfirmedCollateral[v] \in Nat
           /\ cConfirmedCollateral'[v] + Share(c, v, "Withdraw") =
                 cConfirmedCollateral[v] + Share(c, v, "Deposit")
<1>1. /\ cConfirmedCollateral \in [Validator -> Nat]
      /\ c.validator \in Validator /\ c.amount \in Nat /\ c.op \in Operations
    BY DEF ChildSetTypeOK, Child!ValidatorSetTypeOK, Change
<1>2. CASE c.op = "SetMetadata" \/ c.op = "SetFederatedPower"
    <2>1. cConfirmedCollateral' = cConfirmedCollateral
        BY <1>2 DEF Child!ApplyStored, Child!ConfirmFederatedPower
    <2>2. Share(c, v, "Withdraw") = 0 /\ Share(c, v, "Deposit") = 0
        BY <1>2 DEF Share
    <2> QED
        BY <1>1, <2>1, <2>2
<1>3. CASE c.op = "Withdraw"
    <2>1. /\ c.amount <= cConfirmedCollateral[c.validator]
          /\ cConfirmedCollateral' =
                [cConfirmedCollateral EXCEPT
                    ![c.validator] = cConfirmedCollateral[c.validator] - c.amount]
        BY <1>3 DEF Child!ApplyStored, Child!ConfirmWithdraw
    <2>2. Share(c, v, "Deposit") = 0
        BY <1>3 DEF Share
    <2>3. Share(c, v, "Withdraw") = IF c.validator = v THEN c.amount ELSE 0
        BY <1>3 DEF Share
    <2> QED
        BY <1>1, <2>1, <2>2, <2>3
<1>4. CASE c.op = "Deposit"
    <2>1. cConfirmedCollateral' = [cConfirmedCollateral EXCEPT ![c.validator] = @ + c.amount]
        BY <1>4 DEF Child!ApplyStored, Child!ConfirmDeposit
    <2>2. Share(c, v, "Withdraw") = 0
        BY <1>4 DEF Share
    <2>3. Share(c, v, "Deposit") = IF c.validator = v THEN c.amount ELSE 0
        BY <1>4 DEF Share
    <2> QED
        BY <1>1, <2>1, <2>2, <2>3
<1> QED
    BY <1>1, <1>2, <1>3, <1>4 DEF Operations

\* Applying the head of the child's log moves the child's collateral by the change
\* that the same event carries.
LEMMA TrackedApply ==
    ASSUME PairLogInv, ChildInv, TrackedInv, ChildApplies
    PROVE  TrackedInv'
<1>1. /\ cStartConfigurationNumber <= cApplyUpTo
      /\ Child!ApplyStored(cChanges[cStartConfigurationNumber])
      /\ cStartConfigurationNumber' = cStartConfigurationNumber + 1
      /\ requests' = requests
      /\ changes' = changes
    BY DEF ChildApplies, Child!ApplyNext, parentVars, vars, logVars
<1>2. /\ cStartConfigurationNumber \in Nat \ {0}
      /\ cApplyUpTo \in Nat /\ cApplyUpTo < cNextConfigurationNumber
      /\ cNextConfigurationNumber \in Nat
      /\ cNextConfigurationNumber <= nextConfigurationNumber
      /\ cChanges \in [cStartConfigurationNumber..(cNextConfigurationNumber - 1) -> Change]
    BY DEF PairLogInv, ChildLogTypeOK, ChildLogIsParents
<1>3. /\ requests \in Seq(Request)
      /\ Len(requests) = nextConfigurationNumber - 1
      /\ nextConfigurationNumber \in Nat
    BY ParentNumbers DEF PairLogInv, EventsAreNumbered
<1>4. PICK j \in Nat : j = cStartConfigurationNumber - 1
    BY <1>2
<1>5. j \in 0..Len(requests) /\ j + 1 = cStartConfigurationNumber /\ j + 1 <= Len(requests)
    BY <1>1, <1>2, <1>3, <1>4
<1>6. PICK c : c = cChanges[cStartConfigurationNumber]
    OBVIOUS
<1>7. c \in Change /\ requests[j + 1].change = c
    <2>1. cStartConfigurationNumber \in DOMAIN cChanges
        BY <1>1, <1>2
    <2>2. requests[cStartConfigurationNumber] =
             [configurationNumber |-> cStartConfigurationNumber, change |-> c]
        BY <1>6, <2>1 DEF PairLogInv, ChildLogIsParents
    <2>3. c \in Change
        BY <1>2, <1>6, <2>1
    <2>4. requests[cStartConfigurationNumber].change = c
        BY <2>2
    <2> QED
        BY <1>5, <2>3, <2>4
<1>8. ASSUME NEW v \in Validator
      PROVE  cConfirmedCollateral'[v] + PendingIn(LogOf(requests, 1, j + 1), v, "Withdraw") =
                PendingIn(LogOf(requests, 1, j + 1), v, "Deposit")
    <2>1. /\ cConfirmedCollateral[v] \in Nat
          /\ cConfirmedCollateral'[v] + Share(c, v, "Withdraw") =
                cConfirmedCollateral[v] + Share(c, v, "Deposit")
        BY <1>1, <1>6, <1>7, AppliedShare DEF ChildInv
    <2>2. PICK w : w = PendingIn(LogOf(requests, 1, j), v, "Withdraw")
        OBVIOUS
    <2>3. PICK d : d = PendingIn(LogOf(requests, 1, j), v, "Deposit")
        OBVIOUS
    <2>4. w \in Nat /\ d \in Nat
        BY <1>3, <1>5, <2>2, <2>3, PieceIsLog, PendingIsSum
    <2>5. cConfirmedCollateral[v] + w = d
        BY <1>4, <2>2, <2>3 DEF TrackedInv, Tracks
    <2>6. PendingIn(LogOf(requests, 1, j + 1), v, "Withdraw") = w + Share(c, v, "Withdraw")
        BY <1>3, <1>5, <1>7, <2>2, PieceOneMore
    <2>7. PendingIn(LogOf(requests, 1, j + 1), v, "Deposit") = d + Share(c, v, "Deposit")
        BY <1>3, <1>5, <1>7, <2>3, PieceOneMore
    <2>8. Share(c, v, "Withdraw") \in Nat /\ Share(c, v, "Deposit") \in Nat
        BY <1>7 DEF Share, Change
    <2>9. PICK moved : moved = cConfirmedCollateral'[v]
        OBVIOUS
    <2>10. moved \in Nat
        <3>1. ChildInv'
            BY ChildInvApply
        <3> QED
            BY <2>9, <3>1 DEF ChildInv, ChildSetTypeOK, Child!ValidatorSetTypeOK
    <2>11. PICK sw, sd : sw = Share(c, v, "Withdraw") /\ sd = Share(c, v, "Deposit")
        OBVIOUS
    <2>12. moved + sw = cConfirmedCollateral[v] + sd
        BY <2>1, <2>9, <2>11
    <2>13. moved + (w + sw) = d + sd
        BY <2>1, <2>4, <2>5, <2>8, <2>10, <2>11, <2>12
    <2> QED
        BY <2>6, <2>7, <2>9, <2>11, <2>13
<1>9. PICK start : start = cStartConfigurationNumber'
    OBVIOUS
<1>10. start - 1 = j + 1
    BY <1>1, <1>5, <1>9
<1>11. Tracks(cConfirmedCollateral, requests, cStartConfigurationNumber)'
    BY <1>1, <1>8, <1>9, <1>10 DEF Tracks
<1>12. LogIsRequested'
    BY <1>1 DEF TrackedInv, LogIsRequested
<1> QED
    BY <1>11, <1>12 DEF TrackedInv

LEMMA TrackedInit == PairInit => TrackedInv
<1> SUFFICES ASSUME PairInit PROVE TrackedInv
    OBVIOUS
<1>1. /\ changes = [n \in {} |-> {}]
      /\ cStartConfigurationNumber = 1
      /\ cConfirmedCollateral = [v \in Validator |-> 0]
    BY DEF PairInit, Init, Child!ChildInit, Child!ValidatorSetInit
<1>2. LogIsRequested
    BY <1>1 DEF LogIsRequested
<1>3. \A v, op : PendingIn(LogOf(requests, 1, 1 - 1), v, op) = 0
    BY PieceEmpty
<1>4. Tracks(cConfirmedCollateral, requests, 1)
    BY <1>1, <1>3 DEF Tracks
<1> QED
    BY <1>1, <1>2, <1>4 DEF TrackedInv

\* Every step keeps the child's collateral the sum of its requests.
LEMMA TrackedNext ==
    PairLogInv /\ PairLogInv' /\ ChildInv /\ TrackedInv /\ [PairNext]_pairVars => TrackedInv'
<1> SUFFICES ASSUME PairLogInv, PairLogInv', ChildInv, TrackedInv, [PairNext]_pairVars
             PROVE  TrackedInv'
    OBVIOUS
<1>1. CASE ParentStep
    BY <1>1, TrackedParent
<1>2. CASE ChildApplies
    BY <1>2, TrackedApply
<1>3. CASE \/ StartChild
           \/ \E height \in 0..MaxParentHeight : CommitFinality(height)
           \/ \E i \in DOMAIN requests, k \in {0, 1} : DeliverChanges(i, i + k)
           \/ CutCheckpointNoChange
           \/ CutCheckpointWithChanges
           \/ \E height \in DOMAIN checkpoints, relayer \in Relayer :
                 SubmitNewCheckpoint(height, relayer)
           \/ \E height \in 0..Len(checkpoints), relayer \in Relayer :
                 RepeatCheckpoint(height, relayer)
           \/ UNCHANGED pairVars
    <2>1. UNCHANGED <<changes, requests>>
        BY <1>3 DEF StartChild, CommitFinality, DeliverChanges, CutCheckpointNoChange,
                    CutCheckpointWithChanges, CutCheckpoint, SubmitNewCheckpoint, SubmitCheckpoint,
                    RepeatCheckpoint, parentVars, vars, logVars, pairVars
    <2>2. UNCHANGED <<cConfirmedCollateral, cStartConfigurationNumber>>
        BY <1>3 DEF StartChild, CommitFinality, DeliverChanges, CutCheckpointNoChange,
                    CutCheckpointWithChanges, SubmitNewCheckpoint, RepeatCheckpoint,
                    Child!Construct, Child!CommitParentFinality, Child!StoreValidatorChanges,
                    Child!StartApplying, Child!validatorSetVars, Child!storedVars, childVars, pairVars
    <2> QED
        BY <2>1, <2>2 DEF TrackedInv, LogIsRequested, Tracks
<1> QED
    BY <1>1, <1>2, <1>3 DEF PairNext

RequestsSumUpTo(it, S) ==
    it = [s \in SUBSET S |->
             IF s = {} THEN 0 ELSE requests[Pick(s)].change.amount + it[s \ {Pick(s)}]]

\* What was requested is pending in the log of all requests.
LEMMA RequestedIsPending ==
    ASSUME requests \in Seq(Request), NEW v, NEW op
    PROVE  Requested(v, op) = PendingIn(LogOf(requests, 1, Len(requests)), v, op)
<1>1. PICK log : log = LogOf(requests, 1, Len(requests))
    OBVIOUS
<1>2. /\ IsLog(log)
      /\ DOMAIN log = 1..Len(requests)
      /\ \A n \in 1..Len(requests) : log[n] = requests[n].change
    <2>1. Len(requests) \in 0..Len(requests)
        OBVIOUS
    <2> QED
        BY <1>1, <2>1, PieceIsLog
<1>3. PICK S : S = {n \in DOMAIN requests :
                       requests[n].change.op = op /\ requests[n].change.validator = v}
    OBVIOUS
<1>4. S = Matching(log, v, op)
    <2>1. DOMAIN requests = 1..Len(requests)
        OBVIOUS
    <2> QED
        BY <1>2, <1>3, <2>1 DEF Matching
<1>5. PICK f : f = AmountsOf(log)
    OBVIOUS
<1>6. \A n \in S : f[n] = requests[n].change.amount
    BY <1>2, <1>4, <1>5 DEF AmountsOf, Matching
<1>7. Summable(f, S) /\ PendingIn(log, v, op) = Sum(f, S)
    BY <1>2, <1>4, <1>5, PendingIsSum
<1>8. PICK it : it = CHOOSE i : RequestsSumUpTo(i, S)
    OBVIOUS
<1>9. Requested(v, op) = it[S]
    BY <1>3, <1>8, Zenon DEF Requested, MapThenSumSet, MapThenFoldSet, RequestsSumUpTo, Pick
<1>10. ASSUME NEW i PROVE SumUpTo(i, f, S) <=> RequestsSumUpTo(i, S)
    <2>1. \A s \in SUBSET S : s # {} => f[Pick(s)] = requests[Pick(s)].change.amount
        BY <1>6, PickIsIn
    <2> QED
        BY <2>1 DEF SumUpTo, RequestsSumUpTo
<1>11. \E i : SumUpTo(i, f, S)
    BY <1>7, SumIsFold
<1>12. RequestsSumUpTo(it, S)
    BY <1>8, <1>10, <1>11, Zenon
<1>13. it[S] = Sum(f, S)
    BY <1>7, <1>10, <1>12, FoldIsSum
<1> QED
    BY <1>1, <1>7, <1>9, <1>13

\* What was requested is what the parent has confirmed and what it has not.
LEMMA RequestedParts ==
    ASSUME PairLogInv, LogIsRequested, NEW v, NEW op
    PROVE  /\ Requested(v, op) =
                 PendingIn(LogOf(requests, 1, startConfigurationNumber - 1), v, op) + Pending(v, op)
           /\ PendingIn(LogOf(requests, 1, startConfigurationNumber - 1), v, op) \in Nat
<1>1. /\ requests \in Seq(Request)
      /\ Len(requests) = nextConfigurationNumber - 1
      /\ nextConfigurationNumber \in Nat \ {0}
      /\ startConfigurationNumber \in 1..nextConfigurationNumber
      /\ changes \in [startConfigurationNumber..(nextConfigurationNumber - 1) -> Change]
    BY ParentNumbers DEF PairLogInv, EventsAreNumbered
<1>2. PICK k \in Nat : k = startConfigurationNumber - 1
    BY <1>1
<1>3. k \in 0..Len(requests) /\ k + 1 = startConfigurationNumber
    BY <1>1, <1>2
<1>4. LogOf(requests, k + 1, Len(requests)) = changes
    BY <1>1, <1>3 DEF LogOf, LogIsRequested
<1>5. PendingIn(LogOf(requests, 1, Len(requests)), v, op) =
         PendingIn(LogOf(requests, 1, k), v, op)
         + PendingIn(LogOf(requests, k + 1, Len(requests)), v, op)
    BY <1>1, <1>3, PieceSplit
<1>6. PendingIn(LogOf(requests, 1, k), v, op) \in Nat
    BY <1>1, <1>3, PieceIsLog, PendingIsSum
<1> QED
    BY <1>1, <1>2, <1>4, <1>5, <1>6, RequestedIsPending, PendingIsPendingIn

LEMMA TrackedInvariant == PairSpec => []TrackedInv
<1>1. PairInit => TrackedInv
    BY TrackedInit
<1>2. PairInv /\ PairInv' /\ TrackedInv /\ [PairNext]_pairVars => TrackedInv'
    BY TrackedNext DEF PairInv
<1> QED
    BY <1>1, <1>2, PairInvariant, PTL DEF PairSpec

\* Whenever both chains have confirmed the same changes, a validator's collateral
\* at the child is its collateral at the parent without what it put in before
\* bootstrap, whatever was delivered or relayed in between (confirmChange on both
\* sides).
THEOREM GenesisDifference == PairSpec => []OnlyGenesisDiffers
<1>1. PairInv /\ TrackedInv /\ CollateralAgreesWithLog => OnlyGenesisDiffers
    <2> SUFFICES ASSUME PairInv, TrackedInv, CollateralAgreesWithLog,
                        startConfigurationNumber = cStartConfigurationNumber,
                        NEW v \in Validator
                 PROVE  confirmedCollateral[v] = cConfirmedCollateral[v] + GenesisCollateral(v)
        BY DEF OnlyGenesisDiffers
    <2>1. PICK w, d : /\ w = PendingIn(LogOf(requests, 1, startConfigurationNumber - 1), v, "Withdraw")
                      /\ d = PendingIn(LogOf(requests, 1, startConfigurationNumber - 1), v, "Deposit")
        OBVIOUS
    <2>2. cConfirmedCollateral[v] + w = d
        BY <2>1 DEF TrackedInv, Tracks
    <2>3. /\ Requested(v, "Withdraw") = w + Pending(v, "Withdraw")
          /\ Requested(v, "Deposit") = d + Pending(v, "Deposit")
          /\ w \in Nat /\ d \in Nat
        BY <2>1, RequestedParts DEF PairInv, TrackedInv
    <2>4. totalCollateral[v] + Pending(v, "Withdraw") = confirmedCollateral[v] + Pending(v, "Deposit")
        BY DEF CollateralAgreesWithLog
    <2>5. /\ totalCollateral[v] \in Nat /\ confirmedCollateral[v] \in Nat
          /\ cConfirmedCollateral[v] \in Nat
          /\ Pending(v, "Withdraw") \in Nat /\ Pending(v, "Deposit") \in Nat
        BY ChangesAreLog
        DEF PairInv, PairLogInv, TypeOK, ValidatorSetTypeOK, ChildInv, ChildSetTypeOK,
            Child!ValidatorSetTypeOK
    <2>6. PICK pw, pd : pw = Pending(v, "Withdraw") /\ pd = Pending(v, "Deposit")
        OBVIOUS
    <2>7. GenesisCollateral(v) = totalCollateral[v] + (w + pw) - (d + pd)
        BY <2>3, <2>6 DEF GenesisCollateral
    <2> QED
        BY <2>2, <2>3, <2>4, <2>5, <2>6, <2>7
<1> QED
    BY <1>1, PairInvariant, TrackedInvariant, ParentIsSubnetActor, BooksAgree, PTL

-----------------------------------------------------------------------------
(***************************************************************************)
(* What a validator put in before bootstrap: taking back every change that *)
(* was ever recorded finds the same collateral for ever.                   *)
(***************************************************************************)

Settled(confirmed, events, start, v) ==
    confirmed[v] + PendingIn(LogOf(events, 1, start - 1), v, "Withdraw")
                 - PendingIn(LogOf(events, 1, start - 1), v, "Deposit")

GenesisIsSettled ==
    \A v \in Validator :
        GenesisCollateral(v) = Settled(confirmedCollateral, requests, startConfigurationNumber, v)

GenesisStays == \A v \in Validator : GenesisCollateral(v)' = GenesisCollateral(v)

\* One change confirmed moves the parent's collateral by its share.
LEMMA ConfirmedShare ==
    ASSUME TypeOK, TypeOK', NEW c \in Change, ApplyChange(c), NEW v \in Validator
    PROVE  /\ confirmedCollateral[v] \in Nat /\ confirmedCollateral'[v] \in Nat
           /\ confirmedCollateral'[v] + Share(c, v, "Withdraw") =
                 confirmedCollateral[v] + Share(c, v, "Deposit")
<1>1. /\ confirmedCollateral \in [Validator -> Nat]
      /\ c.validator \in Validator /\ c.amount \in Nat /\ c.op \in Operations
    BY DEF TypeOK, ValidatorSetTypeOK, Change
<1>2. confirmedCollateral'[v] \in Nat
    BY DEF TypeOK, ValidatorSetTypeOK
<1>3. CASE c.op = "SetMetadata" \/ c.op = "SetFederatedPower"
    <2>1. confirmedCollateral' = confirmedCollateral
        BY <1>3 DEF ApplyChange, ConfirmFederatedPower
    <2>2. Share(c, v, "Withdraw") = 0 /\ Share(c, v, "Deposit") = 0
        BY <1>3 DEF Share
    <2> QED
        BY <1>1, <1>2, <2>1, <2>2
<1>4. CASE c.op = "Withdraw"
    <2>1. /\ c.amount <= confirmedCollateral[c.validator]
          /\ confirmedCollateral' =
                [confirmedCollateral EXCEPT
                    ![c.validator] = confirmedCollateral[c.validator] - c.amount]
        BY <1>4 DEF ApplyChange, ConfirmWithdraw
    <2>2. Share(c, v, "Deposit") = 0
        BY <1>4 DEF Share
    <2>3. Share(c, v, "Withdraw") = IF c.validator = v THEN c.amount ELSE 0
        BY <1>4 DEF Share
    <2> QED
        BY <1>1, <1>2, <2>1, <2>2, <2>3
<1>5. CASE c.op = "Deposit"
    <2>1. confirmedCollateral' = [confirmedCollateral EXCEPT ![c.validator] = @ + c.amount]
        BY <1>5 DEF ApplyChange, ConfirmDeposit
    <2>2. Share(c, v, "Withdraw") = 0
        BY <1>5 DEF Share
    <2>3. Share(c, v, "Deposit") = IF c.validator = v THEN c.amount ELSE 0
        BY <1>5 DEF Share
    <2> QED
        BY <1>1, <1>2, <2>1, <2>2, <2>3
<1> QED
    BY <1>1, <1>3, <1>4, <1>5 DEF Operations

\* Recording more does not change what was settled.
LEMMA SettledUnmoved ==
    ASSUME PairLogInv, UNCHANGED <<confirmedCollateral, startConfigurationNumber>>,
           \A n \in 1..Len(requests) : requests'[n] = requests[n],
           GenesisIsSettled, GenesisIsSettled'
    PROVE  GenesisStays
<1>1. /\ startConfigurationNumber \in Nat \ {0}
      /\ startConfigurationNumber - 1 <= Len(requests)
      /\ Len(requests) \in Nat
    BY ParentNumbers DEF PairLogInv, EventsAreNumbered
<1>2. PICK last \in Int : last = startConfigurationNumber - 1
    BY <1>1
<1>3. PICK events : events = requests'
    OBVIOUS
<1>4. LogOf(events, 1, last) = LogOf(requests, 1, last)
    <2>1. \A n \in 1..last : events[n] = requests[n]
        BY <1>1, <1>2, <1>3
    <2> QED
        BY <2>1, SamePiece
<1>5. ASSUME NEW v \in Validator PROVE GenesisCollateral(v)' = GenesisCollateral(v)
    <2>1. GenesisCollateral(v)' = Settled(confirmedCollateral', events, startConfigurationNumber', v)
        BY <1>3 DEF GenesisIsSettled
    <2>2. GenesisCollateral(v) = Settled(confirmedCollateral, requests, startConfigurationNumber, v)
        BY DEF GenesisIsSettled
    <2> QED
        BY <1>2, <1>4, <2>1, <2>2 DEF Settled
<1> QED
    BY <1>5 DEF GenesisStays

\* Confirming moves one change from the log to the collateral.
LEMMA SettledConfirm ==
    ASSUME PairLogInv, PairLogInv', TrackedInv, ParentStep, ConfirmNext,
           GenesisIsSettled, GenesisIsSettled'
    PROVE  GenesisStays
<1>1. TypeOK /\ TypeOK'
    BY DEF PairLogInv
<1>2. /\ startConfigurationNumber <= confirmUpTo
      /\ ApplyChange(changes[startConfigurationNumber])
      /\ startConfigurationNumber' = startConfigurationNumber + 1
    BY DEF ConfirmNext
<1>3. /\ requests \in Seq(Request)
      /\ Len(requests) = nextConfigurationNumber - 1
      /\ nextConfigurationNumber \in Nat \ {0}
      /\ startConfigurationNumber \in 1..nextConfigurationNumber
      /\ changes \in [startConfigurationNumber..(nextConfigurationNumber - 1) -> Change]
    BY ParentNumbers DEF PairLogInv, EventsAreNumbered
<1>4. startConfigurationNumber \in DOMAIN changes
    BY <1>1, <1>2, <1>3 DEF TypeOK, LogTypeOK
<1>5. PICK j \in Nat : j = startConfigurationNumber - 1
    BY <1>3
<1>6. j \in 0..Len(requests) /\ j + 1 = startConfigurationNumber /\ j + 1 <= Len(requests)
    BY <1>3, <1>4, <1>5
<1>7. PICK c : c = changes[startConfigurationNumber]
    OBVIOUS
<1>8. c \in Change /\ requests[j + 1].change = c
    BY <1>3, <1>4, <1>6, <1>7 DEF TrackedInv, LogIsRequested
<1>9. PICK events, start : events = requests' /\ start = startConfigurationNumber'
    OBVIOUS
<1>10. start - 1 = j + 1
    BY <1>2, <1>6, <1>9
<1>11. LogOf(events, 1, j + 1) = LogOf(requests, 1, j + 1)
    <2>1. \A n \in 1..Len(requests) : events[n] = requests[n]
        BY <1>1, <1>9, EventsGrow
    <2>2. \A n \in 1..(j + 1) : events[n] = requests[n]
        BY <1>6, <2>1
    <2> QED
        BY <2>2, SamePiece
<1>12. ASSUME NEW v \in Validator PROVE GenesisCollateral(v)' = GenesisCollateral(v)
    <2>1. PICK w : w = PendingIn(LogOf(requests, 1, j), v, "Withdraw")
        OBVIOUS
    <2>2. PICK d : d = PendingIn(LogOf(requests, 1, j), v, "Deposit")
        OBVIOUS
    <2>3. w \in Nat /\ d \in Nat
        BY <1>3, <1>6, <2>1, <2>2, PieceIsLog, PendingIsSum
    <2>4. PICK sw, sd : sw = Share(c, v, "Withdraw") /\ sd = Share(c, v, "Deposit")
        OBVIOUS
    <2>5. sw \in Nat /\ sd \in Nat
        BY <1>8, <2>4 DEF Share, Change
    <2>6. PendingIn(LogOf(requests, 1, j + 1), v, "Withdraw") = w + sw
        BY <1>3, <1>6, <1>8, <2>1, <2>4, PieceOneMore
    <2>7. PendingIn(LogOf(requests, 1, j + 1), v, "Deposit") = d + sd
        BY <1>3, <1>6, <1>8, <2>2, <2>4, PieceOneMore
    <2>8. PICK moved : moved = confirmedCollateral'[v]
        OBVIOUS
    <2>9. /\ confirmedCollateral[v] \in Nat /\ moved \in Nat
          /\ moved + sw = confirmedCollateral[v] + sd
        BY <1>1, <1>2, <1>7, <1>8, <2>4, <2>8, ConfirmedShare
    <2>10. GenesisCollateral(v)' = moved + (w + sw) - (d + sd)
        <3>1. GenesisCollateral(v)' = Settled(confirmedCollateral', events, start, v)
            BY <1>9 DEF GenesisIsSettled
        <3> QED
            BY <1>10, <1>11, <2>6, <2>7, <2>8, <3>1 DEF Settled
    <2>11. GenesisCollateral(v) = confirmedCollateral[v] + w - d
        BY <1>5, <2>1, <2>2 DEF GenesisIsSettled, Settled
    <2> QED
        BY <2>3, <2>5, <2>9, <2>10, <2>11
<1> QED
    BY <1>12 DEF GenesisStays

\* After bootstrap no step changes the genesis collateral.
LEMMA SettledNext ==
    PairLogInv /\ PairLogInv' /\ TrackedInv /\ GenesisIsSettled /\ GenesisIsSettled'
    /\ [PairNext]_pairVars => (bootstrapped => GenesisStays)
<1> SUFFICES ASSUME PairLogInv, PairLogInv', TrackedInv, GenesisIsSettled, GenesisIsSettled',
                    [PairNext]_pairVars, bootstrapped
             PROVE  GenesisStays
    OBVIOUS
<1>1. CASE ParentStep /\ ConfirmNext
    BY <1>1, SettledConfirm
<1>2. CASE ParentStep /\ ~ConfirmNext
    <2>1. TypeOK /\ TypeOK'
        BY DEF PairLogInv
    <2>2. \A n \in 1..Len(requests) : requests'[n] = requests[n]
        BY <1>2, <2>1, EventsGrow
    <2>3. \A cs : RecordChanges(cs) => startConfigurationNumber' = startConfigurationNumber
        BY DEF RecordChanges
    <2>4. UNCHANGED <<confirmedCollateral, startConfigurationNumber>>
        BY <1>2, <2>3
        DEF ParentStep, PreFund, PreRelease, JoinBeforeBootstrap, StakeBeforeBootstrap,
            JoinAfterBootstrap, StakeAfterBootstrap, UnstakeBeforeBootstrap,
            UnstakeAfterBootstrap, LeaveBeforeBootstrap, LeaveAfterBootstrap, Claim, Kill,
            AddBootstrapNode, SetPaused, confirmedVars, validatorSetVars, logVars
    <2> QED
        BY <2>2, <2>4, SettledUnmoved
<1>3. CASE \/ StartChild
           \/ \E height \in 0..MaxParentHeight : CommitFinality(height)
           \/ \E i \in DOMAIN requests, k \in {0, 1} : DeliverChanges(i, i + k)
           \/ CutCheckpointNoChange
           \/ CutCheckpointWithChanges
           \/ ChildApplies
           \/ \E height \in DOMAIN checkpoints, relayer \in Relayer :
                 SubmitNewCheckpoint(height, relayer)
           \/ \E height \in 0..Len(checkpoints), relayer \in Relayer :
                 RepeatCheckpoint(height, relayer)
           \/ UNCHANGED pairVars
    <2>1. UNCHANGED <<confirmedCollateral, startConfigurationNumber, requests>>
        BY <1>3 DEF StartChild, CommitFinality, DeliverChanges, CutCheckpointNoChange,
                    CutCheckpointWithChanges, CutCheckpoint, ChildApplies, SubmitNewCheckpoint,
                    SubmitCheckpoint, RepeatCheckpoint, parentVars, vars, logVars,
                    validatorSetVars, pairVars
    <2> QED
        BY <2>1, SettledUnmoved
<1> QED
    BY <1>1, <1>2, <1>3 DEF PairNext

\* GenesisCollateral is what was put in before bootstrap: after it, no call, no
\* confirmation and no relayed checkpoint changes it, so that the two chains
\* differ by the same amounts for ever (recordDeposit to confirmChange).
THEOREM GenesisIsFixed == PairSpec => [][bootstrapped => GenesisStays]_pairVars
<1>1. PairInv /\ TrackedInv /\ CollateralAgreesWithLog => GenesisIsSettled
    <2> SUFFICES ASSUME PairInv, TrackedInv, CollateralAgreesWithLog, NEW v \in Validator
                 PROVE  GenesisCollateral(v) =
                           Settled(confirmedCollateral, requests, startConfigurationNumber, v)
        BY DEF GenesisIsSettled
    <2>1. PICK w, d : /\ w = PendingIn(LogOf(requests, 1, startConfigurationNumber - 1), v, "Withdraw")
                      /\ d = PendingIn(LogOf(requests, 1, startConfigurationNumber - 1), v, "Deposit")
        OBVIOUS
    <2>2. /\ Requested(v, "Withdraw") = w + Pending(v, "Withdraw")
          /\ Requested(v, "Deposit") = d + Pending(v, "Deposit")
          /\ w \in Nat /\ d \in Nat
        BY <2>1, RequestedParts DEF PairInv, TrackedInv
    <2>3. totalCollateral[v] + Pending(v, "Withdraw") = confirmedCollateral[v] + Pending(v, "Deposit")
        BY DEF CollateralAgreesWithLog
    <2>4. /\ totalCollateral[v] \in Nat /\ confirmedCollateral[v] \in Nat
          /\ Pending(v, "Withdraw") \in Nat /\ Pending(v, "Deposit") \in Nat
        BY ChangesAreLog DEF PairInv, PairLogInv, TypeOK, ValidatorSetTypeOK
    <2>5. PICK pw, pd : pw = Pending(v, "Withdraw") /\ pd = Pending(v, "Deposit")
        OBVIOUS
    <2>6. GenesisCollateral(v) = totalCollateral[v] + (w + pw) - (d + pd)
        BY <2>2, <2>5 DEF GenesisCollateral
    <2>7. Settled(confirmedCollateral, requests, startConfigurationNumber, v) =
             confirmedCollateral[v] + w - d
        BY <2>1 DEF Settled
    <2> QED
        BY <2>2, <2>3, <2>4, <2>5, <2>6, <2>7
<1>2. PairInv => PairLogInv
    BY DEF PairInv
<1> QED
    BY <1>1, <1>2, SettledNext, PairInvariant, TrackedInvariant, ParentIsSubnetActor, BooksAgree, PTL
    DEF PairSpec
=============================================================================
