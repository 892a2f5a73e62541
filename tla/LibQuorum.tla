------------------------------ MODULE LibQuorum ------------------------------
(***************************************************************************)
(* The quorums that the child's gateway collects over its checkpoints      *)
(* (LibQuorum under CheckpointingFacet; the quorums over message batches   *)
(* are another instance of the same library).                              *)
(*                                                                         *)
(* The client of the child creates a checkpoint with the membership of     *)
(* that moment and prunes what the parent has committed; any member sends  *)
(* its signature, at any time.                                             *)
(***************************************************************************)
EXTENDS Naturals, FiniteSets, FiniteSetsExt

CONSTANTS
    Validator,
    Weights,             \* weights that a member may have
    MajorityPercentage,  \* majorityPercentage, between 51 and 100
    BottomUpCheckPeriod, \* bottomUpCheckPeriod
    MaxHeight            \* last block

ASSUME QuorumAssumption ==
    /\ IsFiniteSet(Validator)
    /\ Weights \subseteq Nat
    /\ MajorityPercentage \in 51..100
    /\ BottomUpCheckPeriod \in Nat \ {0}
    /\ MaxHeight \in Nat

VARIABLES
    retentionHeight,         \* no quorum of a smaller height is kept
    quorumInfo,              \* height -> quorum, for the heights that have one
    incompleteQuorums,       \* heights that have not reached their threshold
    quorumSignatureSenders   \* height -> who has signed

quorumVars == <<retentionHeight, quorumInfo, incompleteQuorums, quorumSignatureSenders>>

Height == 1..MaxHeight

\* A membership: its members with their weights (rootHash and membershipWeight).
Memberships == UNION {[S -> Weights] : S \in SUBSET Validator}

QuorumInfo ==
    [members : Memberships, threshold : Nat, currentWeight : Nat, reached : BOOLEAN]

Weight(members, S) == MapThenSumSet(LAMBDA v : members[v], S)

\* Every height has a well formed quorum, or none, and signers.
QuorumTypeOK ==
    /\ retentionHeight \in 1..(MaxHeight + 1)
    /\ DOMAIN quorumInfo \subseteq retentionHeight..MaxHeight
    /\ \A h \in DOMAIN quorumInfo : quorumInfo[h] \in QuorumInfo
    /\ incompleteQuorums \subseteq Height
    /\ quorumSignatureSenders \in [Height -> SUBSET Validator]

QuorumInit ==
    /\ retentionHeight = 1
    /\ quorumInfo = [h \in {} |-> {}]
    /\ incompleteQuorums = {}
    /\ quorumSignatureSenders = [h \in Height |-> {}]

-----------------------------------------------------------------------------
WeightNeeded(weight) == (weight * MajorityPercentage) \div 100

\* Variant: a checkpoint that exists may be created again.
CreatedAgain(height) == height >= retentionHeight

\* A height that was pruned, or has a checkpoint already, is refused; so is one
\* that is still listed as incomplete.
MayCreate(height) ==
    /\ height >= retentionHeight
    /\ height \notin DOMAIN quorumInfo
    /\ height \notin incompleteQuorums

\* Variant: the height is not listed.
NotListed(height) == incompleteQuorums

Listed(height) == incompleteQuorums \cup {height}

\* Entries of quorumSignatureSenders are not touched.
CreateBottomUpCheckpoint(height, members) ==
    /\ height % BottomUpCheckPeriod = 0
    /\ MayCreate(height)
    /\ Weight(members, DOMAIN members) > 0
    /\ incompleteQuorums' = Listed(height)
    /\ quorumInfo' =
          [h \in DOMAIN quorumInfo \cup {height} |->
              IF h = height
              THEN [members |-> members,
                    threshold |-> WeightNeeded(Weight(members, DOMAIN members)),
                    currentWeight |-> 0,
                    reached |-> FALSE]
              ELSE quorumInfo[h]]
    /\ UNCHANGED <<retentionHeight, quorumSignatureSenders>>

\* Variant: the sender is not looked up.
SentBefore(height, v) == TRUE

\* A signature is taken once (SignatureReplay).
NotReplayed(height, v) == v \notin quorumSignatureSenders[height]

\* Variant: the threshold has to be exceeded.
NewlyExceeded(info, newWeight) == newWeight > info.threshold /\ ~info.reached

\* The signature that brings the quorum over its threshold, and no later one.
NewlyReached(info, newWeight) == newWeight >= info.threshold /\ ~info.reached

\* Variant: the list is cleaned by another comparison.
IncompleteUntilExceeded(height, info, newWeight) ==
    IF NewlyExceeded(info, newWeight)
    THEN incompleteQuorums \ {height}
    ELSE incompleteQuorums

StillIncomplete(height, info, newWeight) ==
    IF NewlyReached(info, newWeight)
    THEN incompleteQuorums \ {height}
    ELSE incompleteQuorums

\* The signature of the member v of the checkpoint's own membership. It counts
\* after the quorum is reached, too. The first one to reach the threshold takes
\* the height off incompleteQuorums, or reverts if it is not there.
AddCheckpointSignature(height, v) ==
    /\ height >= retentionHeight
    /\ height \in DOMAIN quorumInfo
    /\ NotReplayed(height, v)
    /\ v \in DOMAIN quorumInfo[height].members
    /\ LET info == quorumInfo[height]
           newWeight == info.currentWeight + info.members[v]
       IN  /\ NewlyReached(info, newWeight) => height \in incompleteQuorums
           /\ quorumInfo' =
                 [quorumInfo EXCEPT
                     ![height].currentWeight = newWeight,
                     ![height].reached = @ \/ NewlyReached(info, newWeight)]
           /\ incompleteQuorums' = StillIncomplete(height, info, newWeight)
    /\ quorumSignatureSenders' = [quorumSignatureSenders EXCEPT ![height] = @ \cup {v}]
    /\ UNCHANGED retentionHeight

\* Variant: one height too many is kept.
KeptAndOneMore(newRetentionHeight) == {k \in DOMAIN quorumInfo : k >= newRetentionHeight - 1}

Kept(newRetentionHeight) == {k \in DOMAIN quorumInfo : k >= newRetentionHeight}

\* pruneBottomUpCheckpoints. The length of the set of senders is deleted, the
\* places of its elements are not: contains() still finds them. Neither the
\* signatures nor incompleteQuorums are cleaned.
PruneBottomUpCheckpoints(newRetentionHeight) ==
    /\ newRetentionHeight > retentionHeight
    /\ retentionHeight' = newRetentionHeight
    /\ quorumInfo' = [h \in Kept(newRetentionHeight) |-> quorumInfo[h]]
    /\ UNCHANGED <<incompleteQuorums, quorumSignatureSenders>>

Sign == \E height \in Height, v \in Validator : AddCheckpointSignature(height, v)

QuorumNext ==
    \/ \E height \in Height, members \in Memberships : CreateBottomUpCheckpoint(height, members)
    \/ Sign
    \/ \E newRetentionHeight \in 1..(MaxHeight + 1) : PruneBottomUpCheckpoints(newRetentionHeight)

QuorumSpec == QuorumInit /\ [][QuorumNext]_quorumVars

\* Every member signs every checkpoint that it can still sign.
Fairness == \A height \in Height, v \in Validator : WF_quorumVars(AddCheckpointSignature(height, v))

FairQuorumSpec == QuorumSpec /\ Fairness

-----------------------------------------------------------------------------
(***************************************************************************)
(* Properties.                                                             *)
(***************************************************************************)

\* What a quorum weighs is what its own membership says of those who signed,
\* however often memberships and weights change between checkpoints and in
\* whatever order signatures come; it is reached once somebody has signed and
\* that weight meets the threshold, and not before (addQuorumSignature).
QuorumIsSigned ==
    \A h \in DOMAIN quorumInfo :
        LET info == quorumInfo[h]
            signers == quorumSignatureSenders[h]
        IN  /\ signers \subseteq DOMAIN info.members
            /\ info.currentWeight = Weight(info.members, signers)
            /\ info.reached <=> signers # {} /\ info.currentWeight >= info.threshold

\* A checkpoint that is kept is listed as incomplete exactly until it is
\* reached: the signature that completes a quorum is never reverted because the
\* height is missing from the list (FailedRemoveIncompleteQuorum), and a height
\* that can still be created is not listed (FailedAddIncompleteQuorum).
IncompleteIsUnreached ==
    \A h \in retentionHeight..MaxHeight :
        h \in incompleteQuorums <=> h \in DOMAIN quorumInfo /\ ~quorumInfo[h].reached

\* What was decided stays decided: while a quorum is kept, its membership and
\* threshold never change and it does not become unreached; once pruned, its
\* height never gets a quorum again (createQuorumInfo, pruneQuorums).
DecisionsStand ==
    [][\A h \in Height :
          /\ h \in DOMAIN quorumInfo /\ h \in DOMAIN quorumInfo' =>
                /\ quorumInfo'[h].members = quorumInfo[h].members
                /\ quorumInfo'[h].threshold = quorumInfo[h].threshold
                /\ quorumInfo[h].reached => quorumInfo'[h].reached
          /\ h < retentionHeight => h \notin DOMAIN quorumInfo']_quorumVars

\* Every checkpoint gets its quorum, unless it is pruned before: the threshold
\* is within reach of the membership it was created with.
QuorumArrives ==
    \A h \in Height :
        h \in DOMAIN quorumInfo ~>
            h < retentionHeight \/ (h \in DOMAIN quorumInfo /\ quorumInfo[h].reached)
=============================================================================
