--------------------------- MODULE TopDownFinality ---------------------------
(***************************************************************************)
(* The child's gateway, as far as it follows its parent: the height of the *)
(* parent it trusts, the parent's staking changes that it stores, the      *)
(* validator set it computes from them (ParentValidatorsTracker), and the  *)
(* membership that signs the child's checkpoints.                          *)
(*                                                                         *)
(* All of it is called by the system actor, in the child's own blocks. The *)
(* calls are transactions; the loop of applyFinalityChanges is taken one   *)
(* change per step, and is only entered if no change of it reverts.        *)
(***************************************************************************)
EXTENDS ValidatorSet, Sequences, FiniteSetsExt

VARIABLES
    deployed,                  \* whether the gateway was constructed
    latestParentHeight,        \* height of the last committed finality
    finalities,                \* heights with a committed finality (finalitiesMap)
    changes,                   \* stored changes: configuration number -> change
    nextConfigurationNumber,   \* number of the next stored change
    startConfigurationNumber,  \* number of the first change not applied
    applyUpTo,                 \* confirmChange: last number of the running loop
    currentMembership,         \* [configurationNumber, validators]
    lastMembership             \* the membership before it

finalityVars == <<latestParentHeight, finalities>>
storedVars == <<changes, nextConfigurationNumber, startConfigurationNumber>>
membershipVars == <<currentMembership, lastMembership>>
childVars == <<validatorSetVars, deployed, finalityVars, storedVars, applyUpTo, membershipVars>>

Operations == {"SetMetadata", "SetFederatedPower", "Deposit", "Withdraw"}
Change == [op : Operations, validator : Validator, amount : Nat]
Membership == [configurationNumber : Nat, validators : SUBSET [addr : Validator, weight : Nat]]

ChildTypeOK ==
    /\ ValidatorSetTypeOK
    /\ deployed \in BOOLEAN
    /\ latestParentHeight \in Nat
    /\ finalities \in SUBSET Nat
    /\ nextConfigurationNumber \in Nat \ {0}
    /\ startConfigurationNumber \in 1..nextConfigurationNumber
    /\ changes \in [startConfigurationNumber..(nextConfigurationNumber - 1) -> Change]
    /\ applyUpTo \in (startConfigurationNumber - 1)..(nextConfigurationNumber - 1)
    /\ currentMembership \in Membership
    /\ lastMembership \in Membership

EmptyMembership == [configurationNumber |-> 0, validators |-> {}]

ChildInit ==
    /\ ValidatorSetInit
    /\ deployed = FALSE
    /\ latestParentHeight = 0
    /\ finalities = {}
    /\ changes = [n \in {} |-> {}]
    /\ nextConfigurationNumber = 1
    /\ startConfigurationNumber = 1
    /\ applyUpTo = 0
    /\ currentMembership = EmptyMembership
    /\ lastMembership = EmptyMembership

\* No applyFinalityChanges is half way through its loop.
ChildIdle == deployed /\ applyUpTo < startConfigurationNumber

-----------------------------------------------------------------------------
\* A membership is not taken twice and never replaced by one from the past:
\* it is compared with the LAST membership, not with the current one. A
\* membership equal to the current one, number included, changes nothing.
UpdateMembership(membership) ==
    LET genesis == currentMembership.configurationNumber = 0
        repeated == \/ membership.configurationNumber = lastMembership.configurationNumber
                    \/ membership = currentMembership
    IN  IF ~genesis /\ repeated
        THEN UNCHANGED membershipVars
        ELSE /\ genesis \/ membership.configurationNumber > lastMembership.configurationNumber
             /\ lastMembership' = currentMembership
             /\ currentMembership' = membership

\* The constructor: the genesis validators are the first membership. They are
\* not put into the tracker's validator set.
Construct(genesisValidators) ==
    /\ ~deployed
    /\ deployed' = TRUE
    /\ UpdateMembership([configurationNumber |-> 0, validators |-> genesisValidators])
    /\ UNCHANGED <<validatorSetVars, finalityVars, storedVars, applyUpTo>>

CommitParentFinality(height) ==
    /\ ChildIdle
    /\ latestParentHeight <= height
    /\ finalities' = finalities \cup {height}
    /\ latestParentHeight' = height
    /\ UNCHANGED <<validatorSetVars, deployed, storedVars, applyUpTo, membershipVars>>

\* Variant: the configuration numbers of the requests are not looked at.
NumbersUnchecked(requests) == requests # <<>>

\* Each request must carry the number under which it is stored.
NumbersMatch(requests) ==
    /\ requests # <<>>
    /\ \A i \in DOMAIN requests :
          requests[i].configurationNumber = nextConfigurationNumber + i - 1

\* storeValidatorChanges: one request that does not fit reverts the batch.
StoreValidatorChanges(requests) ==
    /\ ChildIdle
    /\ NumbersMatch(requests)
    /\ changes' = [n \in startConfigurationNumber..(nextConfigurationNumber + Len(requests) - 1) |->
                      IF n < nextConfigurationNumber
                      THEN changes[n]
                      ELSE requests[n - nextConfigurationNumber + 1].change]
    /\ nextConfigurationNumber' = nextConfigurationNumber + Len(requests)
    /\ UNCHANGED <<validatorSetVars, deployed, finalityVars, startConfigurationNumber, applyUpTo,
                   membershipVars>>

-----------------------------------------------------------------------------
(***************************************************************************)
(* applyFinalityChanges.                                                   *)
(***************************************************************************)

\* What the stored changes of op up to number n add up to for v.
Stored(v, op, n) ==
    MapThenSumSet(LAMBDA k : changes[k].amount,
                  {k \in DOMAIN changes : k <= n /\ changes[k].op = op /\ changes[k].validator = v})

\* No withdrawal takes more than the tracker has confirmed by then.
ChangesApply ==
    \A n \in DOMAIN changes :
        LET v == changes[n].validator
        IN  confirmedCollateral[v] + Stored(v, "Deposit", n) >= Stored(v, "Withdraw", n)

NothingToApply == nextConfigurationNumber = startConfigurationNumber

\* Variant: one number too far.
NextNumber == nextConfigurationNumber

\* The configuration number that applyFinalityChanges applies and returns.
AppliedNumber == nextConfigurationNumber - 1

StartApplying ==
    /\ ChildIdle
    /\ ~NothingToApply
    /\ ChangesApply
    /\ applyUpTo' = AppliedNumber
    /\ UNCHANGED <<validatorSetVars, deployed, finalityVars, storedVars, membershipVars>>

\* What the parent does with a change, without the money (confirmChange).
ApplyStored(c) ==
    CASE c.op = "SetMetadata" ->
            /\ hasMetadata' = [hasMetadata EXCEPT ![c.validator] = TRUE]
            /\ UNCHANGED <<confirmedCollateral, federatedPower, totalConfirmedCollateral,
                           activeValidators, waitingValidators>>
      [] c.op = "SetFederatedPower" ->
            /\ hasMetadata' = [hasMetadata EXCEPT ![c.validator] = TRUE]
            /\ ConfirmFederatedPower(c.validator, c.amount)
      [] c.op = "Withdraw" -> ConfirmWithdraw(c.validator, c.amount)
      [] c.op = "Deposit" -> ConfirmDeposit(c.validator, c.amount) /\ UNCHANGED hasMetadata

\* Variant: the members are counted with the collateral before the last change.
StaleActiveMembership ==
    [configurationNumber |-> applyUpTo,
     validators |-> {[addr |-> v, weight |-> confirmedCollateral[v]] : v \in activeValidators}]

\* The active validators with their collateral, as the new membership.
ActiveMembership ==
    [configurationNumber |-> applyUpTo,
     validators |-> {[addr |-> v, weight |-> confirmedCollateral'[v]] : v \in activeValidators'}]

ApplyNext ==
    /\ startConfigurationNumber <= applyUpTo
    /\ UNCHANGED totalCollateral
    /\ ApplyStored(changes[startConfigurationNumber])
    /\ changes' = [n \in (startConfigurationNumber + 1)..(nextConfigurationNumber - 1) |-> changes[n]]
    /\ startConfigurationNumber' = startConfigurationNumber + 1
    /\ IF startConfigurationNumber = applyUpTo
       THEN UpdateMembership(ActiveMembership)
       ELSE UNCHANGED membershipVars
    /\ UNCHANGED <<deployed, finalityVars, nextConfigurationNumber, applyUpTo>>

-----------------------------------------------------------------------------
(***************************************************************************)
(* What the child promises by itself.                                      *)
(***************************************************************************)

\* The membership is the active set under the last number that was applied: no
\* update is lost to the comparisons of updateMembership, and the set is not
\* read half way through a batch (applyFinalityChanges).
MembershipIsAdopted ==
    ChildIdle /\ startConfigurationNumber > 1 =>
        /\ currentMembership.configurationNumber = startConfigurationNumber - 1
        /\ currentMembership.validators =
              {[addr |-> v, weight |-> confirmedCollateral[v]] : v \in activeValidators}
        /\ lastMembership.configurationNumber < currentMembership.configurationNumber
=============================================================================
