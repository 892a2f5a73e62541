--------------------------- MODULE ParentAndChild ---------------------------
(***************************************************************************)
(* A subnet actor on the parent and the gateway of its child: staking      *)
(* changes go down through a client of the child, bottom-up checkpoints    *)
(* come up through relayers. The two chains share nothing else.            *)
(*                                                                         *)
(* The client and the relayers are not part of the repository. The client  *)
(* delivers any piece of the parent's event log, again, too early or too   *)
(* late; it cuts a checkpoint whenever it likes, with the configuration    *)
(* number that applyFinalityChanges returned, to be signed by the members  *)
(* of the configuration before. A relayer submits any checkpoint, again    *)
(* or out of order, with any list of signatures that exist: a member of    *)
(* the child signs what its child has cut, and nothing else.               *)
(***************************************************************************)
EXTENDS SubnetActor

CONSTANTS
    Relayer,             \* accounts that submit checkpoints
    MajorityPercentage,  \* majorityPercentage, between 51 and 100
    MaxCheckpoints,      \* checkpoints the child cuts
    MaxSignatories,      \* longest list of signatures a relayer submits
    MaxParentHeight      \* last height of the parent that is committed

ASSUME ParentAndChildAssumption ==
    /\ MajorityPercentage \in 51..100
    /\ {MaxCheckpoints, MaxSignatories, MaxParentHeight} \subseteq Nat

VARIABLES
    \* the child's gateway
    cTotalCollateral, cConfirmedCollateral, cFederatedPower, cHasMetadata,
    cTotalConfirmedCollateral, cActiveValidators, cWaitingValidators, cDeployed,
    cLatestParentHeight, cFinalities, cChanges, cNextConfigurationNumber,
    cStartConfigurationNumber, cApplyUpTo,
    cCurrentMembership, cLastMembership,
    \* between the chains
    requests,        \* events of recordChange: every change ever recorded, in order
    checkpoints,     \* checkpoints the child has cut: [number, membership]
    lastCheckpoint,  \* lastBottomUpCheckpointHeight, in periods
    rewarded         \* relayers to be rewarded for each checkpoint

Child ==
    INSTANCE TopDownFinality WITH
        PermissionMode <- "Collateral",
        totalCollateral <- cTotalCollateral,
        confirmedCollateral <- cConfirmedCollateral,
        federatedPower <- cFederatedPower,
        hasMetadata <- cHasMetadata,
        totalConfirmedCollateral <- cTotalConfirmedCollateral,
        activeValidators <- cActiveValidators,
        waitingValidators <- cWaitingValidators,
        deployed <- cDeployed,
        latestParentHeight <- cLatestParentHeight,
        finalities <- cFinalities,
        changes <- cChanges,
        nextConfigurationNumber <- cNextConfigurationNumber,
        startConfigurationNumber <- cStartConfigurationNumber,
        applyUpTo <- cApplyUpTo,
        currentMembership <- cCurrentMembership,
        lastMembership <- cLastMembership

parentVars == vars
childVars ==
    <<cTotalCollateral, cConfirmedCollateral, cFederatedPower, cHasMetadata,
      cTotalConfirmedCollateral, cActiveValidators, cWaitingValidators, cDeployed,
      cLatestParentHeight, cFinalities, cChanges, cNextConfigurationNumber,
      cStartConfigurationNumber, cApplyUpTo, cCurrentMembership, cLastMembership>>
relayVars == <<checkpoints, lastCheckpoint, rewarded>>
pairVars == <<parentVars, childVars, requests, relayVars>>

PairInit ==
    /\ Init
    /\ Child!ChildInit
    /\ requests = <<>>
    /\ checkpoints = <<>>
    /\ lastCheckpoint = 0
    /\ rewarded = [h \in 0..MaxCheckpoints |-> {}]

-----------------------------------------------------------------------------
\* Every recorded change is an event that the child's client can read.
EmitRequests ==
    requests' = requests \o
        [i \in 1..(nextConfigurationNumber' - nextConfigurationNumber) |->
            [configurationNumber |-> nextConfigurationNumber + i - 1,
             change |-> changes'[nextConfigurationNumber + i - 1]]]

\* Everything that happens at the parent but checkpoints, and but the calls of a
\* Federated subnet, whose child computes no members (TopDownFinality).
ParentStep ==
    /\ \/ \E a \in Funder, amount \in Amounts : PreFund(a, amount) \/ PreRelease(a, amount)
       \/ \E v \in Validator, amount \in Amounts :
              \/ JoinBeforeBootstrap(v, amount)
              \/ JoinAfterBootstrap(v, amount)
              \/ StakeBeforeBootstrap(v, amount)
              \/ StakeAfterBootstrap(v, amount)
              \/ UnstakeBeforeBootstrap(v, amount)
              \/ UnstakeAfterBootstrap(v, amount)
       \/ \E v \in Validator :
              LeaveBeforeBootstrap(v) \/ LeaveAfterBootstrap(v) \/ Claim(v)
       \/ ConfirmNext
       \/ Kill
       \/ \E v \in Announcer : AddBootstrapNode(v)
       \/ SetPaused
    /\ EmitRequests
    /\ UNCHANGED <<childVars, relayVars>>

\* The child starts from the genesis validators of the bootstrapped actor.
StartChild ==
    /\ Idle
    /\ bootstrapped
    /\ Child!Construct(genesisValidators)
    /\ UNCHANGED <<parentVars, requests, relayVars>>

\* The client of the child tells the gateway of a height of the parent, and of any
\* two neighbouring changes it has read.
CommitFinality(height) ==
    /\ Idle
    /\ Child!CommitParentFinality(height)
    /\ UNCHANGED <<parentVars, requests, relayVars>>

DeliverChanges(i, j) ==
    /\ Idle
    /\ Child!StoreValidatorChanges(SubSeq(requests, i, j))
    /\ UNCHANGED <<parentVars, requests, relayVars>>

\* createBottomUpCheckpoint: "The number of the membership (validator set) which
\* is going to sign the next checkpoint. This one expected to be signed by the
\* validators from the membership reported in the previous checkpoint. 0 could
\* mean no change" (CrossNet 38). A membership without weight is refused.
CutCheckpoint(number) ==
    /\ Len(checkpoints) < MaxCheckpoints
    /\ \E m \in cCurrentMembership.validators : m.weight > 0
    /\ checkpoints' = Append(checkpoints, [number |-> number, membership |-> cCurrentMembership])
    /\ UNCHANGED <<parentVars, requests, lastCheckpoint, rewarded>>

CutCheckpointNoChange ==
    /\ Idle
    /\ Child!ChildIdle /\ Child!NothingToApply
    /\ CutCheckpoint(0)
    /\ UNCHANGED childVars

CutCheckpointWithChanges ==
    /\ Idle
    /\ Child!StartApplying
    /\ CutCheckpoint(Child!AppliedNumber)

ChildApplies ==
    /\ Idle
    /\ Child!ApplyNext
    /\ UNCHANGED <<parentVars, requests, relayVars>>

-----------------------------------------------------------------------------
TotalPower(S) == MapThenSumSet(LAMBDA v : Power[v], S)

Threshold == (TotalPower(activeValidators) * MajorityPercentage) \div 100

\* validateActiveQuorumSignatures: each signatory is active at the parent, and the
\* powers of the list reach the threshold there. Nothing keeps a signatory from
\* being listed again, and it counts each time.
ValidQuorum(signatories) ==
    /\ signatories # <<>>
    /\ \A i \in DOMAIN signatories : signatories[i] \in activeValidators
    /\ MapThenSumSet(LAMBDA i : Power[signatories[i]], DOMAIN signatories) >= Threshold

\* Only the members that were to sign a checkpoint have signed it.
Signers(checkpoint) == {m.addr : m \in checkpoint.membership.validators}
SignatureLists(checkpoint) == UNION {[1..n -> Signers(checkpoint)] : n \in 0..MaxSignatories}

\* Variant: any later height is taken for the next one.
NextHeightSkips(height) == height > lastCheckpoint

NextHeight(height) == height = lastCheckpoint + 1

\* submitCheckpoint with the signatures of some members. A height that is
\* neither the next nor the last one reverts.
SubmitNewCheckpoint(height, relayer) ==
    /\ NextHeight(height)
    /\ \E signatories \in SignatureLists(checkpoints[height]) : ValidQuorum(signatories)
    /\ lastCheckpoint' = height
    /\ rewarded' = [rewarded EXCEPT ![height] = @ \cup {relayer}]
    /\ SubmitCheckpoint(checkpoints[height].number)
    /\ UNCHANGED <<childVars, requests, checkpoints>>

\* The last checkpoint again: only the relayer is noted, no signature is read. Before
\* the first one this is a checkpoint of zeroes at height 0, which has the hash of
\* the empty record that is stored there.
RepeatCheckpoint(height, relayer) ==
    /\ Idle /\ ~paused
    /\ height = lastCheckpoint
    /\ rewarded' = [rewarded EXCEPT ![height] = @ \cup {relayer}]
    /\ UNCHANGED <<parentVars, childVars, requests, checkpoints, lastCheckpoint>>

PairNext ==
    \/ ParentStep
    \/ StartChild
    \/ \E height \in 0..MaxParentHeight : CommitFinality(height)
    \/ \E i \in DOMAIN requests, k \in {0, 1} :
          i + k \in DOMAIN requests /\ DeliverChanges(i, i + k)
    \/ CutCheckpointNoChange
    \/ CutCheckpointWithChanges
    \/ ChildApplies
    \/ \E height \in DOMAIN checkpoints, relayer \in Relayer : SubmitNewCheckpoint(height, relayer)
    \/ \E height \in 0..Len(checkpoints), relayer \in Relayer : RepeatCheckpoint(height, relayer)

PairSpec == PairInit /\ [][PairNext]_pairVars

-----------------------------------------------------------------------------
(***************************************************************************)
(* Fairness. Loops of transactions end. The client starts the child, reads *)
(* every change in time and has it applied with a checkpoint; a relayer    *)
(* submits the next checkpoint once the members that signed it have a      *)
(* quorum, each of them counted once; who can claim does. Nobody is made   *)
(* to join, stake or leave.                                                *)
(***************************************************************************)
AtParent(step) == step /\ EmitRequests /\ UNCHANGED <<childVars, relayVars>>

LoopGoesOn == AtParent(ConfirmNext) \/ ChildApplies

ReadNextChange ==
    /\ cNextConfigurationNumber \in DOMAIN requests
    /\ DeliverChanges(cNextConfigurationNumber, cNextConfigurationNumber)

ActiveSigners(checkpoint) == Signers(checkpoint) \cap activeValidators

\* The parent would take the checkpoint now.
Acceptable(checkpoint) ==
    /\ ActiveSigners(checkpoint) # {}
    /\ TotalPower(ActiveSigners(checkpoint)) >= Threshold
    /\ ReleasesFit(checkpoint.number)

RelayNext ==
    /\ lastCheckpoint < Len(checkpoints)
    /\ Acceptable(checkpoints[lastCheckpoint + 1])
    /\ \E relayer \in Relayer : SubmitNewCheckpoint(lastCheckpoint + 1, relayer)

Fairness ==
    /\ WF_pairVars(LoopGoesOn)
    /\ WF_pairVars(StartChild)
    /\ WF_pairVars(ReadNextChange)
    /\ WF_pairVars(CutCheckpointWithChanges)
    /\ WF_pairVars(RelayNext)
    /\ \A v \in Validator : WF_pairVars(AtParent(Claim(v)))

FairPairSpec == PairSpec /\ Fairness

-----------------------------------------------------------------------------
(***************************************************************************)
(* Properties of the pair.                                                 *)
(***************************************************************************)

\* What each chain holds is well formed, and what travels between them too.
PairTypeOK ==
    /\ TypeOK
    /\ Child!ChildTypeOK
    /\ requests \in Seq([configurationNumber : Nat \ {0}, change : Change])
    /\ checkpoints \in Seq([number : Nat, membership : Child!Membership])
    /\ lastCheckpoint \in 0..Len(checkpoints)
    /\ rewarded \in [0..MaxCheckpoints -> SUBSET Relayer]

BothIdle == Idle /\ Child!ChildIdle

\* The child's log is a piece of the parent's: whatever was delivered twice, too
\* early or too late, each stored change is the parent's under its number, and
\* the numbers are the parent's own (storeChange, recordChange).
ChildLogIsParents ==
    /\ cNextConfigurationNumber <= nextConfigurationNumber
    /\ \A n \in DOMAIN cChanges :
          requests[n] = [configurationNumber |-> n, change |-> cChanges[n]]

\* A checkpoint never confirms a change that was not recorded, which would revert
\* it for ever, and with it every later one (confirmChange).
CheckpointsConfirmRecorded ==
    \A h \in DOMAIN checkpoints : checkpoints[h].number < nextConfigurationNumber

\* The parent confirms a change only after the child has applied it: collateral
\* is not released while the child still counts on it, as long as nobody signs
\* what the child has not cut. Hence no checkpoint reverts for ever over a number it
\* confirms (submitCheckpoint, confirmChange).
ParentConfirmsWhatChildApplied ==
    /\ BothIdle => startConfigurationNumber <= cStartConfigurationNumber
    /\ CheckpointsConfirmRecorded

\* The checkpoint that the parent waits for was signed by the membership of the
\* configuration that the parent has confirmed, however many memberships the
\* child has adopted since and in whatever order checkpoints are relayed; and of the
\* checkpoints that the child has cut, relayers are noted for exactly those before it
\* (submitCheckpoint). Height 0, where a repetition needs no checkpoint, is excepted.
RelayedInOrder ==
    /\ Idle /\ lastCheckpoint < Len(checkpoints) =>
          checkpoints[lastCheckpoint + 1].membership.configurationNumber =
              startConfigurationNumber - 1
    /\ \A h \in 1..MaxCheckpoints : rewarded[h] # {} <=> h <= lastCheckpoint

\* What a validator's recorded changes ask for together, confirmed or not.
Requested(v, op) ==
    MapThenSumSet(LAMBDA n : requests[n].change.amount,
                  {n \in DOMAIN requests :
                      requests[n].change.op = op /\ requests[n].change.validator = v})

\* What a validator had put in before bootstrap, of which no change was recorded:
\* it is what is left of the total when every change is taken back.
GenesisCollateral(v) ==
    totalCollateral[v] + Requested(v, "Withdraw") - Requested(v, "Deposit")

\* Once both have confirmed the same changes, the child's collateral is the
\* parent's without what the validators had put in before bootstrap, which the
\* tracker of the child is never told (confirmChange of either chain).
OnlyGenesisDiffers ==
    BothIdle /\ startConfigurationNumber = cStartConfigurationNumber =>
        \A v \in Validator :
            confirmedCollateral[v] = cConfirmedCollateral[v] + GenesisCollateral(v)

ChildMembershipIsAdopted == Child!MembershipIsAdopted

\* "Apply all changes committed through the commitment of parent finality"
\* (TopDownFinalityFacet 38): no change the parent has recorded and the child has
\* stored makes applyFinalityChanges revert.
StoredChangesApply == Child!ChildIdle => Child!ChangesApply

\* What a validator has asked for up to change n.
RequestedUpTo(v, op, n) ==
    MapThenSumSet(LAMBDA k : requests[k].change.amount,
                  {k \in DOMAIN requests :
                      k <= n /\ requests[k].change.op = op /\ requests[k].change.validator = v})

\* A withdrawal of what was put in before bootstrap, which the child cannot apply
\* (StoredChangesApply); it cuts no checkpoint with that number, nor a later one.
GenesisWithdrawn ==
    \E n \in DOMAIN requests :
        LET v == requests[n].change.validator
        IN  RequestedUpTo(v, "Withdraw", n) > RequestedUpTo(v, "Deposit", n)

\* No member of the child could sign another checkpoint.
NobodySigns == \A m \in cCurrentMembership.validators : m.weight = 0

\* The parent does not take the checkpoint it waits for: the child's members have no
\* quorum at the parent, or a release queue is too full for what it confirms.
NextRefused ==
    lastCheckpoint < Len(checkpoints) /\ ~Acceptable(checkpoints[lastCheckpoint + 1])

\* SA-04: collateral that is on its way, in either direction, arrives. Again and again
\* every account has all its wealth in its wallet and its confirmed collateral: a
\* change that was recorded passes through the child's log, a checkpoint and the
\* parent's confirmation. Excepted are the states above, from which no
\* checkpoint comes or is taken any more, a subnet that was killed with a
\* join in its log, and the end of the checkpoints (MaxCheckpoints).
InTransit(v) == Wealth - wallet[v] - confirmedCollateral[v]

CollateralArrives ==
    \A v \in Validator :
        []<>(\/ InTransit(v) = 0
             \/ GenesisWithdrawn \/ NobodySigns \/ NextRefused \/ killed
             \/ lastCheckpoint = MaxCheckpoints)
=============================================================================
