-------------------------- MODULE LibQuorum_proofs --------------------------
(***************************************************************************)
(* Proofs about LibQuorum, for any validators, weights, period, majority:  *)
(* the list of incomplete quorums agrees with the quorums that are kept,   *)
(* what was decided stays decided, and a quorum weighs what its signers do.*)
(*                                                                         *)
(* The first two facts do not need to know what a weight is: a quorum is a *)
(* record of four fields of which one is a Boolean.                        *)
(***************************************************************************)
EXTENDS LibQuorum, Sums_proofs

\* A quorum is a record whose decision is a Boolean; only heights that are still
\* kept have one.
IsQuorum(info) ==
    \E members, threshold, weight : \E reached \in BOOLEAN :
        info = [members |-> members, threshold |-> threshold,
                currentWeight |-> weight, reached |-> reached]

QuorumShape ==
    /\ retentionHeight \in 1..(MaxHeight + 1)
    /\ DOMAIN quorumInfo \subseteq retentionHeight..MaxHeight
    /\ quorumInfo = [h \in DOMAIN quorumInfo |-> quorumInfo[h]]
    /\ \A h \in DOMAIN quorumInfo : IsQuorum(quorumInfo[h])

ListAgrees == QuorumShape /\ IncompleteIsUnreached

-----------------------------------------------------------------------------
\* What the signature of v at height changes: the weight and the decision of
\* that height, and the list exactly when the decision is made.
LEMMA SignatureEffect ==
    ASSUME QuorumShape,
           NEW height \in Height, NEW v \in Validator, AddCheckpointSignature(height, v)
    PROVE  /\ height \in DOMAIN quorumInfo
           /\ DOMAIN quorumInfo' = DOMAIN quorumInfo
           /\ quorumInfo' = [h \in DOMAIN quorumInfo' |-> quorumInfo'[h]]
           /\ \A h \in DOMAIN quorumInfo \ {height} : quorumInfo'[h] = quorumInfo[h]
           /\ IsQuorum(quorumInfo'[height])
           /\ quorumInfo'[height].members = quorumInfo[height].members
           /\ quorumInfo'[height].threshold = quorumInfo[height].threshold
           /\ quorumInfo[height].reached => quorumInfo'[height].reached
           /\ incompleteQuorums' =
                 IF ~quorumInfo[height].reached /\ quorumInfo'[height].reached
                 THEN incompleteQuorums \ {height}
                 ELSE incompleteQuorums
           /\ retentionHeight' = retentionHeight
<1> DEFINE info == quorumInfo[height]
           newWeight == info.currentWeight + info.members[v]
           decided == NewlyReached(info, newWeight)
<1>1. /\ height \in DOMAIN quorumInfo
      /\ quorumInfo' = [quorumInfo EXCEPT ![height].currentWeight = newWeight,
                                          ![height].reached = @ \/ decided]
      /\ incompleteQuorums' = StillIncomplete(height, info, newWeight)
      /\ retentionHeight' = retentionHeight
    BY DEF AddCheckpointSignature
<1>2. PICK members, threshold, weight : \E reached \in BOOLEAN :
          info = [members |-> members, threshold |-> threshold,
                  currentWeight |-> weight, reached |-> reached]
    BY <1>1 DEF QuorumShape, IsQuorum
<1>3. PICK reached \in BOOLEAN :
          info = [members |-> members, threshold |-> threshold,
                  currentWeight |-> weight, reached |-> reached]
    BY <1>2
<1>4. decided \in BOOLEAN /\ (decided => ~reached)
    BY <1>3 DEF NewlyReached
<1>5. quorumInfo'[height] = [members |-> members, threshold |-> threshold,
                             currentWeight |-> newWeight, reached |-> reached \/ decided]
    <2>1. PICK afterwards \in BOOLEAN : afterwards = (reached \/ decided)
        OBVIOUS
    <2>2. info.reached = reached
        BY <1>3
    <2> HIDE DEF decided
    <2>3. quorumInfo'[height] = [info EXCEPT !.currentWeight = newWeight, !.reached = afterwards]
        <3> HIDE DEF newWeight
        <3>1. quorumInfo' = [quorumInfo EXCEPT ![height].currentWeight = newWeight,
                                               ![height].reached = afterwards]
            BY <1>1, <2>1, <2>2
        <3> QED BY <1>1, <3>1
    <2> HIDE DEF info, newWeight
    <2>4. quorumInfo'[height] = [members |-> members, threshold |-> threshold,
                                 currentWeight |-> newWeight, reached |-> afterwards]
        BY <1>3, <2>3
    <2> QED BY <2>1, <2>4
<1>6. DOMAIN quorumInfo' = DOMAIN quorumInfo
    BY <1>1
<1>7. quorumInfo' = [h \in DOMAIN quorumInfo' |-> quorumInfo'[h]]
    BY <1>1
<1>8. \A h \in DOMAIN quorumInfo \ {height} : quorumInfo'[h] = quorumInfo[h]
    BY <1>1
<1>9. (reached \/ decided) \in BOOLEAN
    OBVIOUS
<1>10. IsQuorum(quorumInfo'[height])
    <2> HIDE DEF newWeight, decided
    <2> QED BY <1>5, <1>9 DEF IsQuorum
<1>11. incompleteQuorums' = IF decided THEN incompleteQuorums \ {height} ELSE incompleteQuorums
    BY <1>1 DEF StillIncomplete
<1>12. decided <=> ~info.reached /\ quorumInfo'[height].reached
    <2> HIDE DEF newWeight, decided
    <2> QED BY <1>3, <1>4, <1>5
<1>13. /\ quorumInfo'[height].members = info.members
       /\ quorumInfo'[height].threshold = info.threshold
       /\ info.reached => quorumInfo'[height].reached
    <2> HIDE DEF newWeight, decided
    <2> QED BY <1>3, <1>5
<1> QED
    <2> HIDE DEF newWeight, decided
    <2> QED BY <1>1, <1>6, <1>7, <1>8, <1>10, <1>11, <1>12, <1>13

\* What creating a checkpoint changes: its height gets a quorum that is not
\* reached, and is listed.
LEMMA CreationEffect ==
    ASSUME QuorumShape,
           NEW height \in Height, NEW members, CreateBottomUpCheckpoint(height, members)
    PROVE  /\ height \in retentionHeight..MaxHeight
           /\ height \notin DOMAIN quorumInfo
           /\ DOMAIN quorumInfo' = DOMAIN quorumInfo \cup {height}
           /\ quorumInfo' = [h \in DOMAIN quorumInfo' |-> quorumInfo'[h]]
           /\ \A h \in DOMAIN quorumInfo : quorumInfo'[h] = quorumInfo[h]
           /\ IsQuorum(quorumInfo'[height])
           /\ quorumInfo'[height].reached = FALSE
           /\ incompleteQuorums' = incompleteQuorums \cup {height}
           /\ retentionHeight' = retentionHeight
<1> DEFINE threshold == WeightNeeded(Weight(members, DOMAIN members))
           info == [members |-> members, threshold |-> threshold,
                    currentWeight |-> 0, reached |-> FALSE]
<1>1. /\ height >= retentionHeight
      /\ height \notin DOMAIN quorumInfo
      /\ incompleteQuorums' = incompleteQuorums \cup {height}
      /\ quorumInfo' = [h \in DOMAIN quorumInfo \cup {height} |->
                           IF h = height THEN info ELSE quorumInfo[h]]
      /\ retentionHeight' = retentionHeight
    BY DEF CreateBottomUpCheckpoint, MayCreate, Listed
<1>2. height \in retentionHeight..MaxHeight
    BY <1>1, QuorumAssumption DEF Height, QuorumShape
<1>3. IsQuorum(info) /\ info.reached = FALSE
    <2> HIDE DEF threshold
    <2> QED BY DEF IsQuorum
<1> HIDE DEF info
<1> QED
    BY <1>1, <1>2, <1>3

\* What pruning changes: quorums below the new retention height are gone.
LEMMA PruningEffect ==
    ASSUME QuorumShape,
           NEW newRetentionHeight \in 1..(MaxHeight + 1),
           PruneBottomUpCheckpoints(newRetentionHeight)
    PROVE  /\ retentionHeight' = newRetentionHeight
           /\ newRetentionHeight > retentionHeight
           /\ DOMAIN quorumInfo' = {h \in DOMAIN quorumInfo : h >= newRetentionHeight}
           /\ quorumInfo' = [h \in DOMAIN quorumInfo' |-> quorumInfo'[h]]
           /\ \A h \in DOMAIN quorumInfo' : quorumInfo'[h] = quorumInfo[h]
           /\ incompleteQuorums' = incompleteQuorums
    BY DEF PruneBottomUpCheckpoints, Kept

-----------------------------------------------------------------------------
LEMMA ListAgreesInit == QuorumInit => ListAgrees
    BY QuorumAssumption DEF QuorumInit, ListAgrees, QuorumShape, IncompleteIsUnreached

LEMMA ListAgreesStep == ListAgrees /\ [QuorumNext]_quorumVars => ListAgrees'
<1> SUFFICES ASSUME ListAgrees, [QuorumNext]_quorumVars
             PROVE  ListAgrees'
    OBVIOUS
<1> USE QuorumAssumption
<1>1. ASSUME NEW height \in Height, NEW members \in Memberships,
             CreateBottomUpCheckpoint(height, members)
      PROVE  ListAgrees'
    <2>1. /\ height \in retentionHeight..MaxHeight
          /\ DOMAIN quorumInfo' = DOMAIN quorumInfo \cup {height}
          /\ quorumInfo' = [h \in DOMAIN quorumInfo' |-> quorumInfo'[h]]
          /\ \A h \in DOMAIN quorumInfo : quorumInfo'[h] = quorumInfo[h]
          /\ IsQuorum(quorumInfo'[height])
          /\ quorumInfo'[height].reached = FALSE
          /\ height \notin DOMAIN quorumInfo
          /\ incompleteQuorums' = incompleteQuorums \cup {height}
          /\ retentionHeight' = retentionHeight
        BY <1>1, CreationEffect DEF ListAgrees
    <2>2. \A h \in DOMAIN quorumInfo' : IsQuorum(quorumInfo'[h])
        BY <2>1 DEF ListAgrees, QuorumShape
    <2>3. QuorumShape'
        BY <2>1, <2>2 DEF ListAgrees, QuorumShape
    <2>4. IncompleteIsUnreached'
        BY <2>1 DEF ListAgrees, IncompleteIsUnreached
    <2> QED
        BY <2>3, <2>4 DEF ListAgrees
<1>2. ASSUME NEW height \in Height, NEW v \in Validator, AddCheckpointSignature(height, v)
      PROVE  ListAgrees'
    <2>1. /\ height \in DOMAIN quorumInfo
          /\ DOMAIN quorumInfo' = DOMAIN quorumInfo
          /\ quorumInfo' = [h \in DOMAIN quorumInfo' |-> quorumInfo'[h]]
          /\ \A h \in DOMAIN quorumInfo \ {height} : quorumInfo'[h] = quorumInfo[h]
          /\ IsQuorum(quorumInfo'[height])
          /\ quorumInfo[height].reached => quorumInfo'[height].reached
          /\ incompleteQuorums' =
                IF ~quorumInfo[height].reached /\ quorumInfo'[height].reached
                THEN incompleteQuorums \ {height}
                ELSE incompleteQuorums
          /\ retentionHeight' = retentionHeight
        BY <1>2, SignatureEffect DEF ListAgrees
    <2>2. QuorumShape'
        BY <2>1 DEF ListAgrees, QuorumShape, IsQuorum
    <2>3. ASSUME NEW h \in retentionHeight..MaxHeight
          PROVE  h \in incompleteQuorums' <=> h \in DOMAIN quorumInfo' /\ ~quorumInfo'[h].reached
        <3>1. h \in incompleteQuorums <=> h \in DOMAIN quorumInfo /\ ~quorumInfo[h].reached
            BY DEF ListAgrees, IncompleteIsUnreached
        <3>2. CASE h = height
            BY <2>1, <3>1, <3>2
        <3>3. CASE h # height
            BY <2>1, <3>1, <3>3
        <3> QED
            BY <3>2, <3>3
    <2>4. IncompleteIsUnreached'
        BY <2>1, <2>3 DEF IncompleteIsUnreached
    <2> QED
        BY <2>2, <2>4 DEF ListAgrees
<1>3. ASSUME NEW newRetentionHeight \in 1..(MaxHeight + 1),
             PruneBottomUpCheckpoints(newRetentionHeight)
      PROVE  ListAgrees'
    <2>1. /\ retentionHeight' = newRetentionHeight
          /\ newRetentionHeight > retentionHeight
          /\ DOMAIN quorumInfo' = {h \in DOMAIN quorumInfo : h >= newRetentionHeight}
          /\ quorumInfo' = [h \in DOMAIN quorumInfo' |-> quorumInfo'[h]]
          /\ \A h \in DOMAIN quorumInfo' : quorumInfo'[h] = quorumInfo[h]
          /\ incompleteQuorums' = incompleteQuorums
        BY <1>3, PruningEffect DEF ListAgrees
    <2>2. QuorumShape'
        BY <2>1 DEF ListAgrees, QuorumShape, IsQuorum
    <2>3. IncompleteIsUnreached'
        BY <2>1 DEF ListAgrees, QuorumShape, IncompleteIsUnreached
    <2> QED
        BY <2>2, <2>3 DEF ListAgrees
<1>4. CASE UNCHANGED quorumVars
    BY <1>4 DEF ListAgrees, QuorumShape, IsQuorum, IncompleteIsUnreached, quorumVars
<1> QED
    BY <1>1, <1>2, <1>3, <1>4 DEF QuorumNext, Sign

LEMMA ListAgreesAlways == QuorumSpec => []ListAgrees
    BY ListAgreesInit, ListAgreesStep, PTL DEF QuorumSpec

\* The list of incomplete quorums never blocks the signature that completes a
\* quorum, nor the creation of a checkpoint (addQuorumSignature,
\* createQuorumInfo): it holds exactly the kept quorums that are not reached.
THEOREM IncompleteListed == QuorumSpec => []IncompleteIsUnreached
<1>1. ListAgrees => IncompleteIsUnreached
    BY DEF ListAgrees
<1> QED
    BY <1>1, ListAgreesAlways, PTL

-----------------------------------------------------------------------------
\* What one step may do to the quorum of one height.
HeightStands(h) ==
    /\ h \in DOMAIN quorumInfo /\ h \in DOMAIN quorumInfo' =>
          /\ quorumInfo'[h].members = quorumInfo[h].members
          /\ quorumInfo'[h].threshold = quorumInfo[h].threshold
          /\ quorumInfo[h].reached => quorumInfo'[h].reached
    /\ h < retentionHeight => h \notin DOMAIN quorumInfo'

\* No step takes back what was decided for a height.
LEMMA EveryHeightStands ==
    ASSUME QuorumShape, QuorumNext
    PROVE  \A h \in Height : HeightStands(h)
<1> USE QuorumAssumption
<1> SUFFICES ASSUME NEW h \in Height PROVE HeightStands(h)
    OBVIOUS
<1>1. ASSUME NEW height \in Height, NEW members \in Memberships,
             CreateBottomUpCheckpoint(height, members)
      PROVE  HeightStands(h)
    <2>1. /\ height \in retentionHeight..MaxHeight
          /\ DOMAIN quorumInfo' = DOMAIN quorumInfo \cup {height}
          /\ \A k \in DOMAIN quorumInfo : quorumInfo'[k] = quorumInfo[k]
        BY <1>1, CreationEffect
    <2> QED
        BY <2>1 DEF HeightStands, QuorumShape, Height
<1>2. ASSUME NEW height \in Height, NEW v \in Validator, AddCheckpointSignature(height, v)
      PROVE  HeightStands(h)
    <2>1. /\ DOMAIN quorumInfo' = DOMAIN quorumInfo
          /\ \A k \in DOMAIN quorumInfo \ {height} : quorumInfo'[k] = quorumInfo[k]
          /\ quorumInfo'[height].members = quorumInfo[height].members
          /\ quorumInfo'[height].threshold = quorumInfo[height].threshold
          /\ quorumInfo[height].reached => quorumInfo'[height].reached
        BY <1>2, SignatureEffect
    <2> QED
        BY <2>1 DEF HeightStands, QuorumShape, Height
<1>3. ASSUME NEW newRetentionHeight \in 1..(MaxHeight + 1),
             PruneBottomUpCheckpoints(newRetentionHeight)
      PROVE  HeightStands(h)
    <2>1. /\ DOMAIN quorumInfo' \subseteq DOMAIN quorumInfo
          /\ \A k \in DOMAIN quorumInfo' : quorumInfo'[k] = quorumInfo[k]
        BY <1>3, PruningEffect
    <2> QED
        BY <2>1 DEF HeightStands, QuorumShape, Height
<1> QED
    BY <1>1, <1>2, <1>3 DEF QuorumNext, Sign

\* No step changes the membership or the threshold of a quorum, takes back that
\* it was reached, or gives a pruned height a quorum again (createQuorumInfo,
\* addQuorumSignature, pruneQuorums).
THEOREM Decided == QuorumSpec => DecisionsStand
<1>1. ListAgrees /\ [QuorumNext]_quorumVars => [\A h \in Height : HeightStands(h)]_quorumVars
    BY EveryHeightStands DEF ListAgrees
<1>2. [][\A h \in Height : HeightStands(h)]_quorumVars => DecisionsStand
    BY PTL DEF DecisionsStand, HeightStands
<1> QED
    BY <1>1, <1>2, ListAgreesAlways, PTL DEF QuorumSpec

-----------------------------------------------------------------------------
(***************************************************************************)
(* What a quorum weighs. Its weight is a sum over its own membership, of   *)
(* those who have signed; a signature adds one summand. A height that may  *)
(* still get a quorum has no signatures, because signing needs a quorum    *)
(* and a pruned height is refused for ever: that is why the weight of a    *)
(* new quorum may start at zero although pruning leaves signatures behind. *)
(***************************************************************************)

NothingSignedYet ==
    \A h \in Height :
        h >= retentionHeight /\ h \notin DOMAIN quorumInfo => quorumSignatureSenders[h] = {}

SignedInv == QuorumShape /\ QuorumTypeOK /\ NothingSignedYet /\ QuorumIsSigned

\* The weight of members is a sum.
LEMMA WeightIsSum ==
    ASSUME NEW members, NEW S
    PROVE  Weight(members, S) = Sum(members, S)
BY Zenon DEF Weight, MapThenSumSet, MapThenFoldSet, Sum, SumUpTo, Pick

\* Weights are natural numbers.
LEMMA MembershipType ==
    ASSUME NEW members \in Memberships
    PROVE  /\ DOMAIN members \subseteq Validator
           /\ \A v \in DOMAIN members : members[v] \in Nat
BY QuorumAssumption DEF Memberships

\* So is the weight of any of the members.
LEMMA WeightType ==
    ASSUME NEW members \in Memberships, NEW S \in SUBSET DOMAIN members
    PROVE  Weight(members, S) \in Nat /\ Summable(members, S)
<1>1. S \in SUBSET Validator /\ \A v \in S : members[v] \in Nat
    BY MembershipType
<1>2. IsFiniteSet(S)
    BY <1>1, FS_Subset, QuorumAssumption
<1> QED
    BY <1>1, <1>2, SumNat, WeightIsSum

\* One more signer adds its own weight.
LEMMA WeightOfOneMore ==
    ASSUME NEW members \in Memberships, NEW S \in SUBSET DOMAIN members,
           NEW v \in DOMAIN members, v \notin S
    PROVE  Weight(members, S \cup {v}) = Weight(members, S) + members[v]
<1>1. Summable(members, S) /\ members[v] \in Nat /\ Weight(members, S) \in Nat
    BY WeightType, MembershipType
<1>2. Sum(members, S \cup {v}) = members[v] + Sum(members, S)
    BY <1>1, SumAdd
<1> QED
    BY <1>1, <1>2, WeightIsSum

\* The threshold is a natural number, rounded down.
LEMMA ThresholdType == ASSUME NEW weight \in Nat PROVE WeightNeeded(weight) \in Nat
<1>1. MajorityPercentage \in Nat
    BY QuorumAssumption
<1>2. weight * MajorityPercentage \in Nat
    BY <1>1
<1> QED
    BY <1>2 DEF WeightNeeded

LEMMA SignedInit == QuorumInit => SignedInv
    BY QuorumAssumption
    DEF QuorumInit, SignedInv, QuorumShape, QuorumTypeOK, NothingSignedYet, QuorumIsSigned, Height

\* A new quorum weighs nothing, as nobody has signed its height.
LEMMA SignedCreation ==
    ASSUME SignedInv,
           NEW height \in Height, NEW members \in Memberships,
           CreateBottomUpCheckpoint(height, members)
    PROVE  QuorumTypeOK' /\ NothingSignedYet' /\ QuorumIsSigned'
<1> USE QuorumAssumption
<1>1. PICK threshold : threshold = WeightNeeded(Weight(members, DOMAIN members))
    OBVIOUS
<1>2. PICK info : info = [members |-> members, threshold |-> threshold,
                          currentWeight |-> 0, reached |-> FALSE]
    OBVIOUS
<1>3. /\ height >= retentionHeight
      /\ height \notin DOMAIN quorumInfo
      /\ incompleteQuorums' = incompleteQuorums \cup {height}
      /\ DOMAIN quorumInfo' = DOMAIN quorumInfo \cup {height}
      /\ \A h \in DOMAIN quorumInfo : quorumInfo'[h] = quorumInfo[h]
      /\ quorumInfo'[height] = info
      /\ UNCHANGED <<retentionHeight, quorumSignatureSenders>>
    BY <1>1, <1>2 DEF CreateBottomUpCheckpoint, MayCreate, Listed
<1>4. threshold \in Nat
    BY <1>1, WeightType, ThresholdType
<1>5. info \in QuorumInfo
    BY <1>2, <1>4 DEF QuorumInfo
<1>6. QuorumTypeOK'
    <2>1. \A h \in DOMAIN quorumInfo' : quorumInfo'[h] \in QuorumInfo
        BY <1>3, <1>5 DEF SignedInv, QuorumTypeOK
    <2>2. DOMAIN quorumInfo' \subseteq retentionHeight..MaxHeight
        BY <1>3 DEF SignedInv, QuorumTypeOK, Height
    <2>3. incompleteQuorums' \subseteq Height
        BY <1>3 DEF SignedInv, QuorumTypeOK
    <2>4. retentionHeight' = retentionHeight /\ quorumSignatureSenders' = quorumSignatureSenders
        BY <1>3
    <2>5. /\ retentionHeight \in 1..(MaxHeight + 1)
          /\ quorumSignatureSenders \in [Height -> SUBSET Validator]
        BY DEF SignedInv, QuorumTypeOK
    <2> QED
        BY <2>1, <2>2, <2>3, <2>4, <2>5 DEF QuorumTypeOK
<1>7. NothingSignedYet'
    BY <1>3 DEF SignedInv, NothingSignedYet
<1>8. quorumSignatureSenders[height] = {}
    BY <1>3 DEF SignedInv, NothingSignedYet
<1>9. Weight(members, {}) = 0
    BY WeightIsSum, SumEmpty
<1>10. QuorumIsSigned'
    <2> SUFFICES ASSUME NEW h \in DOMAIN quorumInfo'
                 PROVE  /\ quorumSignatureSenders[h] \subseteq DOMAIN quorumInfo'[h].members
                        /\ quorumInfo'[h].currentWeight =
                              Weight(quorumInfo'[h].members, quorumSignatureSenders[h])
                        /\ quorumInfo'[h].reached <=>
                              /\ quorumSignatureSenders[h] # {}
                              /\ quorumInfo'[h].currentWeight >= quorumInfo'[h].threshold
        BY <1>3 DEF QuorumIsSigned
    <2>1. CASE h = height
        BY <1>2, <1>3, <1>8, <1>9, <2>1
    <2>2. CASE h # height
        BY <1>3, <2>2 DEF SignedInv, QuorumIsSigned
    <2> QED
        BY <2>1, <2>2
<1> QED
    BY <1>6, <1>7, <1>10

\* A signature adds its weight, which can only bring the quorum closer.
LEMMA SignedSignature ==
    ASSUME SignedInv,
           NEW height \in Height, NEW v \in Validator, AddCheckpointSignature(height, v)
    PROVE  QuorumTypeOK' /\ NothingSignedYet' /\ QuorumIsSigned'
<1> DEFINE info == quorumInfo[height]
           signers == quorumSignatureSenders[height]
<1>1. /\ height \in DOMAIN quorumInfo
      /\ DOMAIN quorumInfo' = DOMAIN quorumInfo
      /\ \A h \in DOMAIN quorumInfo \ {height} : quorumInfo'[h] = quorumInfo[h]
      /\ retentionHeight' = retentionHeight
      /\ incompleteQuorums' \subseteq incompleteQuorums
    BY SignatureEffect DEF SignedInv
<1>2. /\ v \in DOMAIN info.members
      /\ v \notin signers
      /\ quorumSignatureSenders' = [quorumSignatureSenders EXCEPT ![height] = @ \cup {v}]
    BY DEF AddCheckpointSignature, NotReplayed
<1>3. PICK members \in Memberships, threshold \in Nat, weight \in Nat, reached \in BOOLEAN :
          info = [members |-> members, threshold |-> threshold,
                  currentWeight |-> weight, reached |-> reached]
    BY <1>1 DEF SignedInv, QuorumTypeOK, QuorumInfo
<1>4. /\ signers \subseteq DOMAIN members
      /\ weight = Weight(members, signers)
      /\ reached <=> signers # {} /\ weight >= threshold
    <2>1. /\ signers \subseteq DOMAIN info.members
          /\ info.currentWeight = Weight(info.members, signers)
          /\ info.reached <=> signers # {} /\ info.currentWeight >= info.threshold
        BY <1>1 DEF SignedInv, QuorumIsSigned
    <2> HIDE DEF info, signers
    <2> QED
        BY <1>3, <2>1
<1>5. PICK newWeight : newWeight = weight + members[v]
    OBVIOUS
<1>6. v \in DOMAIN members
    BY <1>2, <1>3
<1>7. members[v] \in Nat /\ newWeight \in Nat /\ newWeight >= weight
    <2>1. members[v] \in Nat
        BY <1>6, MembershipType
    <2> QED
        BY <1>5, <2>1
<1>8. newWeight = Weight(members, signers \cup {v})
    <2> HIDE DEF signers
    <2> QED
        BY <1>2, <1>4, <1>5, <1>6, WeightOfOneMore
<1>9. PICK afterwards \in BOOLEAN : afterwards = (reached \/ (newWeight >= threshold /\ ~reached))
    OBVIOUS
<1>10. afterwards <=> newWeight >= threshold
    <2>1. reached => newWeight >= threshold
        BY <1>4, <1>7
    <2> QED
        BY <1>9, <2>1, Zenon
<1>11. quorumInfo'[height] = [members |-> members, threshold |-> threshold,
                              currentWeight |-> newWeight, reached |-> afterwards]
    <2>1. quorumInfo' = [quorumInfo EXCEPT
                             ![height].currentWeight = info.currentWeight + info.members[v],
                             ![height].reached =
                                 @ \/ NewlyReached(info, info.currentWeight + info.members[v])]
        BY DEF AddCheckpointSignature
    <2>2. info.currentWeight + info.members[v] = newWeight
        BY <1>3, <1>5
    <2>3. NewlyReached(info, newWeight) <=> newWeight >= threshold /\ ~reached
        BY <1>3 DEF NewlyReached
    <2>4. (info.reached \/ NewlyReached(info, newWeight)) = afterwards
        <3> HIDE DEF info
        <3>1. info.reached = reached
            BY <1>3
        <3>2. NewlyReached(info, newWeight) \in BOOLEAN
            BY DEF NewlyReached
        <3> QED
            BY <1>9, <2>3, <3>1, <3>2
    <2>5. quorumInfo' = [quorumInfo EXCEPT ![height].currentWeight = newWeight,
                                           ![height].reached = afterwards]
        BY <2>1, <2>2, <2>4
    <2>6. quorumInfo'[height] = [info EXCEPT !.currentWeight = newWeight, !.reached = afterwards]
        BY <1>1, <2>5
    <2> HIDE DEF info
    <2> QED
        BY <1>3, <2>6
<1>12. PICK new : new = [members |-> members, threshold |-> threshold,
                         currentWeight |-> newWeight, reached |-> afterwards]
    OBVIOUS
<1>13. new \in QuorumInfo
    BY <1>7, <1>12 DEF QuorumInfo
<1>14. QuorumTypeOK'
    <2>1. \A h \in DOMAIN quorumInfo' : quorumInfo'[h] \in QuorumInfo
        BY <1>1, <1>11, <1>12, <1>13 DEF SignedInv, QuorumTypeOK
    <2>2. quorumSignatureSenders' \in [Height -> SUBSET Validator]
        BY <1>2 DEF SignedInv, QuorumTypeOK
    <2> QED
        BY <1>1, <2>1, <2>2 DEF SignedInv, QuorumTypeOK
<1>15. /\ quorumSignatureSenders'[height] = signers \cup {v}
       /\ \A h \in Height \ {height} : quorumSignatureSenders'[h] = quorumSignatureSenders[h]
    BY <1>2 DEF SignedInv, QuorumTypeOK
<1>16. NothingSignedYet'
    BY <1>1, <1>15 DEF SignedInv, NothingSignedYet
<1>17. QuorumIsSigned'
    <2> SUFFICES ASSUME NEW h \in DOMAIN quorumInfo'
                 PROVE  /\ quorumSignatureSenders'[h] \subseteq DOMAIN quorumInfo'[h].members
                        /\ quorumInfo'[h].currentWeight =
                              Weight(quorumInfo'[h].members, quorumSignatureSenders'[h])
                        /\ quorumInfo'[h].reached <=>
                              /\ quorumSignatureSenders'[h] # {}
                              /\ quorumInfo'[h].currentWeight >= quorumInfo'[h].threshold
        BY DEF QuorumIsSigned
    <2>1. CASE h = height
        <3>1. quorumSignatureSenders'[h] = signers \cup {v} /\ quorumInfo'[h] = new
            BY <1>11, <1>12, <1>15, <2>1
        <3>2. /\ new.members = members /\ new.threshold = threshold
              /\ new.currentWeight = newWeight /\ new.reached = afterwards
            BY <1>12
        <3> HIDE DEF signers
        <3> QED
            BY <1>4, <1>6, <1>8, <1>10, <3>1, <3>2
    <2>2. CASE h # height
        <3>1. h \in Height /\ h \in DOMAIN quorumInfo
            BY <1>1 DEF SignedInv, QuorumTypeOK, Height
        <3> QED
            BY <1>1, <1>15, <2>2, <3>1 DEF SignedInv, QuorumIsSigned
    <2> QED
        BY <2>1, <2>2
<1> QED
    BY <1>14, <1>16, <1>17

\* Pruning forgets whole heights.
LEMMA SignedPruning ==
    ASSUME SignedInv,
           NEW newRetentionHeight \in 1..(MaxHeight + 1),
           PruneBottomUpCheckpoints(newRetentionHeight)
    PROVE  QuorumTypeOK' /\ NothingSignedYet' /\ QuorumIsSigned'
<1> USE QuorumAssumption
<1>1. /\ retentionHeight' = newRetentionHeight
      /\ newRetentionHeight > retentionHeight
      /\ DOMAIN quorumInfo' = {h \in DOMAIN quorumInfo : h >= newRetentionHeight}
      /\ \A h \in DOMAIN quorumInfo' : quorumInfo'[h] = quorumInfo[h]
      /\ UNCHANGED <<incompleteQuorums, quorumSignatureSenders>>
    BY PruningEffect DEF SignedInv, PruneBottomUpCheckpoints
<1>2. QuorumTypeOK'
    BY <1>1 DEF SignedInv, QuorumTypeOK
<1>3. NothingSignedYet'
    BY <1>1 DEF SignedInv, QuorumTypeOK, NothingSignedYet, Height
<1>4. QuorumIsSigned'
    BY <1>1 DEF SignedInv, QuorumIsSigned
<1> QED
    BY <1>2, <1>3, <1>4

\* Every step keeps weights those of the signers.
LEMMA SignedStep ==
    ListAgrees /\ ListAgrees' /\ SignedInv /\ [QuorumNext]_quorumVars => SignedInv'
<1> SUFFICES ASSUME ListAgrees', SignedInv, [QuorumNext]_quorumVars
             PROVE  QuorumTypeOK' /\ NothingSignedYet' /\ QuorumIsSigned'
    BY DEF SignedInv, ListAgrees
<1>1. CASE UNCHANGED quorumVars
    BY <1>1 DEF quorumVars, SignedInv, QuorumTypeOK, NothingSignedYet, QuorumIsSigned
<1> QED
    BY <1>1, SignedCreation, SignedSignature, SignedPruning DEF QuorumNext, Sign

LEMMA SignedAlways == QuorumSpec => []SignedInv
    BY SignedInit, SignedStep, ListAgreesAlways, PTL DEF QuorumSpec

\* Every kept quorum is well formed: a membership over known validators, a
\* threshold and a weight that are natural numbers (createQuorumInfo).
THEOREM QuorumTyped == QuorumSpec => []QuorumTypeOK
<1>1. SignedInv => QuorumTypeOK
    BY DEF SignedInv
<1> QED
    BY <1>1, SignedAlways, PTL

\* Whoever signs, in whatever order and however often pruning leaves signatures
\* behind, a quorum weighs what its own membership gives to its signers, and is
\* reached exactly if that meets its threshold (addQuorumSignature).
THEOREM QuorumSigned == QuorumSpec => []QuorumIsSigned
<1>1. SignedInv => QuorumIsSigned
    BY DEF SignedInv
<1> QED
    BY <1>1, SignedAlways, PTL
=============================================================================
