----------------------------- MODULE SubnetActor -----------------------------
(***************************************************************************)
(* The subnet actor on the parent chain, with its account in the gateway:  *)
(* the genesis phase, the validator set, the log of staking changes that   *)
(* checkpoints confirm, and the money that moves with them.                *)
(*                                                                         *)
(* Every external call is one transaction: its guard is the conjunction of *)
(* the checks that would revert it, and it changes everything at once. Two *)
(* transactions contain a loop over data; they are taken one iteration per *)
(* step, and no other action is enabled until the loop has ended.          *)
(***************************************************************************)
EXTENDS ValidatorSet, Sequences, FiniteSetsExt

CONSTANTS
    MinActivationCollateral,  \* collateral that activates the subnet
    MinValidators,            \* active validators that activate the subnet
    Wealth,                   \* what each account owns at first
    Amounts,                  \* amounts an account pays or withdraws
    Powers,                   \* federated powers the owner assigns
    Funder,                   \* accounts that use preFund and preRelease
    Announcer,                \* accounts that announce bootstrap nodes
    CanPause,                 \* whether the owner pauses the contract
    MaxFederation,            \* longest list given to setFederatedPower
    MaxGenesisBalance,        \* where adding to a genesis balance overflows
    MaxReleases,              \* unclaimed releases of one account (type(uint16).max)
    MaxConfigurationNumber    \* last configuration number (type(uint64).max)

ASSUME SubnetActorAssumption ==
    /\ MinActivationCollateral \in Nat
    /\ (PermissionMode = "Federated") <=> (MinActivationCollateral = 0)
    /\ MinValidators \in Nat
    /\ Wealth \in Nat
    /\ Amounts \subseteq Nat \ {0}
    /\ Powers \subseteq Nat
    /\ Funder \subseteq Validator
    /\ Announcer \subseteq Validator
    /\ CanPause \in BOOLEAN
    /\ MaxFederation \in Nat
    /\ MaxGenesisBalance \in Nat
    /\ MaxReleases \in Nat
    /\ MaxConfigurationNumber \in Nat

VARIABLES
    bootstrapped, killed, paused,
    genesisBalance,            \* pre-funded balance of each account
    genesisBalanceKeys,        \* accounts listed as having one
    genesisCircSupply,         \* their sum, kept as a counter
    genesisValidators,         \* [addr, weight] records written before bootstrap
    bootstrapOwners,           \* accounts with a bootstrap node
    changes,                   \* the log: configuration number -> change
    nextConfigurationNumber,   \* number of the next recorded change
    startConfigurationNumber,  \* number of the first unconfirmed change
    confirmUpTo,               \* confirmChange: last number of the running loop
    federating,                \* preBootstrapSetFederatedPower: rest of the list
    releases,                  \* collateral each account may claim
    releaseCount,              \* in how many pieces (AddressStakingReleases.length)
    balance,                   \* what the actor's account holds
    wallet,                    \* what the other accounts hold
    gwRegistered, gwStake, gwCircSupply  \* the subnet's record in the gateway

lifecycleVars == <<bootstrapped, killed, paused>>
genesisVars == <<genesisBalance, genesisBalanceKeys, genesisCircSupply, genesisValidators>>
logVars == <<changes, nextConfigurationNumber, startConfigurationNumber>>
loopVars == <<confirmUpTo, federating>>
confirmedVars == <<confirmedCollateral, federatedPower, hasMetadata, totalConfirmedCollateral,
                  activeValidators, waitingValidators>>
gatewayVars == <<gwRegistered, gwStake, gwCircSupply>>
moneyVars == <<releases, releaseCount, balance, wallet>>
vars == <<validatorSetVars, lifecycleVars, genesisVars, bootstrapOwners, logVars,
          loopVars, moneyVars, gatewayVars>>

Operations == {"SetMetadata", "SetFederatedPower", "Deposit", "Withdraw"}

\* amount is the collateral, the power for SetFederatedPower, 0 for SetMetadata.
Change == [op : Operations, validator : Validator, amount : Nat]

GenesisValidator == [addr : Validator, weight : Nat]

LifecycleTypeOK == bootstrapped \in BOOLEAN /\ killed \in BOOLEAN /\ paused \in BOOLEAN

GenesisTypeOK ==
    /\ genesisBalance \in [Validator -> Nat]
    /\ genesisBalanceKeys \in SUBSET Validator
    /\ genesisCircSupply \in Nat
    /\ genesisValidators \in SUBSET GenesisValidator
    /\ bootstrapOwners \in SUBSET Validator

\* Both configuration numbers and the loop in progress delimit the log.
LogTypeOK ==
    /\ nextConfigurationNumber \in Nat \ {0}
    /\ startConfigurationNumber \in 1..nextConfigurationNumber
    /\ changes \in [startConfigurationNumber..(nextConfigurationNumber - 1) -> Change]
    /\ confirmUpTo \in (startConfigurationNumber - 1)..(nextConfigurationNumber - 1)
    /\ federating \in Seq(GenesisValidator)

MoneyTypeOK ==
    /\ releases \in [Validator -> Nat]
    /\ releaseCount \in [Validator -> 0..MaxReleases]
    /\ balance \in Nat
    /\ wallet \in [Validator -> Nat]

GatewayTypeOK == gwRegistered \in BOOLEAN /\ gwStake \in Nat /\ gwCircSupply \in Nat

TypeOK ==
    /\ ValidatorSetTypeOK
    /\ LifecycleTypeOK
    /\ GenesisTypeOK
    /\ LogTypeOK
    /\ MoneyTypeOK
    /\ GatewayTypeOK

Init ==
    /\ ValidatorSetInit
    /\ bootstrapped = FALSE /\ killed = FALSE /\ paused = FALSE
    /\ genesisBalance = [v \in Validator |-> 0]
    /\ genesisBalanceKeys = {}
    /\ genesisCircSupply = 0
    /\ genesisValidators = {}
    /\ bootstrapOwners = {}
    /\ changes = [n \in {} |-> {}]
    /\ nextConfigurationNumber = 1
    /\ startConfigurationNumber = 1
    /\ confirmUpTo = 0
    /\ federating = <<>>
    /\ releases = [v \in Validator |-> 0]
    /\ releaseCount = [v \in Validator |-> 0]
    /\ balance = 0
    /\ wallet = [v \in Validator |-> Wealth]
    /\ gwRegistered = FALSE /\ gwStake = 0 /\ gwCircSupply = 0

-----------------------------------------------------------------------------
(***************************************************************************)
(* Helpers.                                                                *)
(***************************************************************************)

\* No transaction is half way through its loop.
Idle == confirmUpTo < startConfigurationNumber /\ federating = <<>>

\* The modifiers whenNotPaused and notKilled.
StakingOpen == Idle /\ ~paused /\ ~killed

IsValidator(v) == totalCollateral[v] # 0

EnforceCollateralValidation == PermissionMode = "Collateral"

Pays(a, amount) ==
    /\ amount <= wallet[a]
    /\ wallet' = [wallet EXCEPT ![a] = @ - amount]

Receives(a, amount) == wallet' = [wallet EXCEPT ![a] = @ + amount]

\* recordChange, once per element of cs.
RecordChanges(cs) ==
    LET next == nextConfigurationNumber + Len(cs)
    IN  /\ next - 1 <= MaxConfigurationNumber
        /\ changes' = [n \in startConfigurationNumber..(next - 1) |->
                          IF n < nextConfigurationNumber
                          THEN changes[n]
                          ELSE cs[n - nextConfigurationNumber + 1]]
        /\ nextConfigurationNumber' = next
        /\ UNCHANGED startConfigurationNumber

MetadataRequest(v) == [op |-> "SetMetadata", validator |-> v, amount |-> 0]
FederatedPowerRequest(v, power) ==
    [op |-> "SetFederatedPower", validator |-> v, amount |-> power]
DepositRequest(v, amount) == [op |-> "Deposit", validator |-> v, amount |-> amount]
WithdrawRequest(v, amount) == [op |-> "Withdraw", validator |-> v, amount |-> amount]

RecordDeposit(v, amount) == totalCollateral' = [totalCollateral EXCEPT ![v] = @ + amount]
RecordWithdraw(v, amount) ==
    /\ amount <= totalCollateral[v]
    /\ totalCollateral' = [totalCollateral EXCEPT ![v] = @ - amount]

-----------------------------------------------------------------------------
(***************************************************************************)
(* The genesis phase.                                                      *)
(***************************************************************************)

PreFund(a, amount) ==
    /\ Idle
    /\ ~bootstrapped
    /\ genesisBalance[a] + amount <= MaxGenesisBalance
    /\ Pays(a, amount)
    /\ balance' = balance + amount
    /\ genesisBalanceKeys' =
          IF genesisBalance[a] = 0 THEN genesisBalanceKeys \cup {a} ELSE genesisBalanceKeys
    /\ genesisBalance' = [genesisBalance EXCEPT ![a] = @ + amount]
    /\ genesisCircSupply' = genesisCircSupply + amount
    /\ UNCHANGED <<validatorSetVars, lifecycleVars, genesisValidators, bootstrapOwners,
                   logVars, loopVars, releases, releaseCount, gatewayVars>>

\* Variant: the account stays listed when its balance is gone.
KeepAddressInBalanceKeys(a) == genesisBalanceKeys

RmAddressFromBalanceKeys(a) == genesisBalanceKeys \ {a}

PreRelease(a, amount) ==
    /\ Idle
    /\ ~bootstrapped
    /\ amount <= genesisBalance[a]
    /\ amount <= genesisCircSupply
    /\ amount <= balance
    /\ genesisBalance' = [genesisBalance EXCEPT ![a] = @ - amount]
    /\ genesisCircSupply' = genesisCircSupply - amount
    /\ genesisBalanceKeys' =
          IF genesisBalance[a] = amount THEN RmAddressFromBalanceKeys(a) ELSE genesisBalanceKeys
    /\ balance' = balance - amount
    /\ Receives(a, amount)
    /\ UNCHANGED <<validatorSetVars, lifecycleVars, genesisValidators, bootstrapOwners,
                   logVars, loopVars, releases, releaseCount, gatewayVars>>

\* Variant: every deposit writes a genesis validator.
AddGenesisValidatorAlways(v) ==
    genesisValidators \cup {[addr |-> v, weight |-> confirmedCollateral'[v]]}

\* Only the first deposit writes a genesis validator.
AddGenesisValidator(v) ==
    IF \E g \in genesisValidators : g.addr = v
    THEN genesisValidators
    ELSE genesisValidators \cup {[addr |-> v, weight |-> confirmedCollateral'[v]]}

DepositWithConfirm(v, amount) ==
    /\ RecordDeposit(v, amount)
    /\ ConfirmDeposit(v, amount)
    /\ genesisValidators' = AddGenesisValidator(v)

\* The sender is paid by the caller of this operator, pays from the actor's own account.
WithdrawWithConfirm(v, amount) ==
    /\ RecordWithdraw(v, amount)
    /\ ConfirmWithdraw(v, amount)

\* Gateway's register: what exceeds the circulating supply is the stake.
Register(value) ==
    /\ ~gwRegistered
    /\ value >= genesisCircSupply
    /\ gwRegistered' = TRUE
    /\ gwStake' = value - genesisCircSupply
    /\ gwCircSupply' = genesisCircSupply

ActivationThresholdsMet ==
    /\ totalConfirmedCollateral' >= MinActivationCollateral
    /\ Cardinality(activeValidators') >= MinValidators

\* Variant: the genesis circulating supply is left behind.
RegisterValueWithoutSupply == totalConfirmedCollateral'

RegisterValue == totalConfirmedCollateral' + genesisCircSupply

\* received is the value that came with the call.
BootstrapSubnetIfNeeded(received) ==
    IF ActivationThresholdsMet
    THEN /\ RegisterValue <= balance + received
         /\ bootstrapped' = TRUE
         /\ Register(RegisterValue)
         /\ balance' = balance + received - RegisterValue
    ELSE /\ balance' = balance + received
         /\ UNCHANGED <<bootstrapped, gatewayVars>>

-----------------------------------------------------------------------------
(***************************************************************************)
(* Joining, staking, unstaking and leaving: at once before bootstrap, by   *)
(* a recorded change after it.                                             *)
(***************************************************************************)

JoinBeforeBootstrap(v, amount) ==
    /\ StakingOpen
    /\ ~bootstrapped
    /\ ~IsValidator(v)
    /\ Pays(v, amount)
    /\ hasMetadata' = [hasMetadata EXCEPT ![v] = TRUE]
    /\ DepositWithConfirm(v, amount)
    /\ BootstrapSubnetIfNeeded(amount)
    /\ UNCHANGED <<killed, paused, genesisBalance, genesisBalanceKeys, genesisCircSupply,
                   bootstrapOwners, logVars, loopVars, releases, releaseCount>>

\* Variants: the deposit ahead of the public key; the deposit not requested.
JoinRequestsDepositFirst(v, amount) == <<DepositRequest(v, amount), MetadataRequest(v)>>
JoinRequestsMetadataOnly(v, amount) == <<MetadataRequest(v)>>

JoinRequests(v, amount) == <<MetadataRequest(v), DepositRequest(v, amount)>>

JoinAfterBootstrap(v, amount) ==
    /\ StakingOpen
    /\ bootstrapped
    /\ EnforceCollateralValidation
    /\ ~IsValidator(v)
    /\ Pays(v, amount)
    /\ RecordChanges(JoinRequests(v, amount))
    /\ RecordDeposit(v, amount)
    /\ balance' = balance + amount
    /\ UNCHANGED <<confirmedVars, lifecycleVars, genesisVars, bootstrapOwners, loopVars,
                   releases, releaseCount, gatewayVars>>

StakeBeforeBootstrap(v, amount) ==
    /\ StakingOpen
    /\ ~bootstrapped
    /\ EnforceCollateralValidation
    /\ IsValidator(v)
    /\ Pays(v, amount)
    /\ DepositWithConfirm(v, amount)
    /\ BootstrapSubnetIfNeeded(amount)
    /\ UNCHANGED <<hasMetadata, killed, paused, genesisBalance, genesisBalanceKeys,
                   genesisCircSupply, bootstrapOwners, logVars, loopVars, releases,
                   releaseCount>>

StakeAfterBootstrap(v, amount) ==
    /\ StakingOpen
    /\ bootstrapped
    /\ EnforceCollateralValidation
    /\ IsValidator(v)
    /\ Pays(v, amount)
    /\ RecordChanges(<<DepositRequest(v, amount)>>)
    /\ RecordDeposit(v, amount)
    /\ balance' = balance + amount
    /\ UNCHANGED <<confirmedVars, lifecycleVars, genesisVars, bootstrapOwners, loopVars,
                   releases, releaseCount, gatewayVars>>

UnstakeBeforeBootstrap(v, amount) ==
    /\ StakingOpen
    /\ ~bootstrapped
    /\ EnforceCollateralValidation
    /\ totalCollateral[v] > amount
    /\ amount <= balance
    /\ WithdrawWithConfirm(v, amount)
    /\ balance' = balance - amount
    /\ Receives(v, amount)
    /\ UNCHANGED <<lifecycleVars, genesisVars, bootstrapOwners, logVars, loopVars,
                   releases, releaseCount, gatewayVars>>

\* Bounded by the total collateral, of which a part may not be confirmed yet.
UnstakeAfterBootstrap(v, amount) ==
    /\ StakingOpen
    /\ bootstrapped
    /\ EnforceCollateralValidation
    /\ totalCollateral[v] > amount
    /\ RecordChanges(<<WithdrawRequest(v, amount)>>)
    /\ RecordWithdraw(v, amount)
    /\ UNCHANGED <<confirmedVars, lifecycleVars, genesisVars, bootstrapOwners, loopVars,
                   moneyVars, gatewayVars>>

\* Variant: the bootstrap node outlives the membership.
KeepBootstrapOwner(v) == bootstrapOwners

RemoveBootstrapOwner(v) == bootstrapOwners \ {v}

\* The statement meant to reset genesisBalance (line 232) is a comparison: the
\* balance is paid back and stays on the books.
LeaveBeforeBootstrap(v) ==
    LET amount == totalCollateral[v]
        refund == genesisBalance[v]
    IN  /\ StakingOpen
        /\ ~bootstrapped
        /\ amount # 0
        /\ bootstrapOwners' = RemoveBootstrapOwner(v)
        /\ refund <= genesisCircSupply
        /\ refund + amount <= balance
        /\ genesisCircSupply' = genesisCircSupply - refund
        /\ genesisBalanceKeys' =
              IF refund # 0 THEN RmAddressFromBalanceKeys(v) ELSE genesisBalanceKeys
        /\ WithdrawWithConfirm(v, amount)
        /\ balance' = balance - (refund + amount)
        /\ Receives(v, refund + amount)
        /\ UNCHANGED <<lifecycleVars, genesisBalance, genesisValidators, logVars, loopVars,
                       releases, releaseCount, gatewayVars>>

LeaveAfterBootstrap(v) ==
    /\ StakingOpen
    /\ bootstrapped
    /\ EnforceCollateralValidation
    /\ totalCollateral[v] # 0
    /\ bootstrapOwners' = RemoveBootstrapOwner(v)
    /\ RecordChanges(<<WithdrawRequest(v, totalCollateral[v])>>)
    /\ RecordWithdraw(v, totalCollateral[v])
    /\ UNCHANGED <<confirmedVars, lifecycleVars, genesisVars, loopVars, moneyVars,
                   gatewayVars>>

-----------------------------------------------------------------------------
(***************************************************************************)
(* Federated power.                                                        *)
(***************************************************************************)

Federations == UNION {[1..n -> [addr : Validator, weight : Powers]] : n \in 0..MaxFederation}

\* setFederatedPower before bootstrap: the checks that fail the whole call. No
\* power is set before, so only the list itself can hold a duplicate.
StartFederation(list) ==
    /\ Idle /\ ~killed
    /\ ~bootstrapped
    /\ PermissionMode = "Federated"
    /\ \A i, j \in DOMAIN list :
          i < j /\ list[i].addr = list[j].addr => list[i].weight = 0
    /\ Len(list) > MinValidators
    /\ federating' = list
    /\ UNCHANGED <<validatorSetVars, lifecycleVars, genesisVars, bootstrapOwners, logVars,
                   confirmUpTo, moneyVars, gatewayVars>>

\* One iteration of its loop; the last one bootstraps and registers with the
\* circulating supply only.
FederateNext ==
    /\ federating # <<>>
    /\ LET g == Head(federating)
       IN  /\ hasMetadata' = [hasMetadata EXCEPT ![g.addr] = TRUE]
           /\ ConfirmFederatedPower(g.addr, g.weight)
           /\ genesisValidators' = genesisValidators \cup {g}
    /\ federating' = Tail(federating)
    /\ IF Len(federating) = 1
       THEN /\ genesisCircSupply <= balance
            /\ bootstrapped' = TRUE
            /\ Register(genesisCircSupply)
            /\ balance' = balance - genesisCircSupply
       ELSE UNCHANGED <<bootstrapped, balance, gatewayVars>>
    /\ UNCHANGED <<totalCollateral, killed, paused, genesisBalance, genesisBalanceKeys,
                   genesisCircSupply, bootstrapOwners, logVars, confirmUpTo, releases, releaseCount,
                   wallet>>

\* setFederatedPower after bootstrap. A list is as good as calls one by one.
SetFederatedPower(v, power) ==
    /\ Idle /\ ~killed
    /\ bootstrapped
    /\ PermissionMode = "Federated"
    /\ RecordChanges(<<FederatedPowerRequest(v, power)>>)
    /\ UNCHANGED <<validatorSetVars, lifecycleVars, genesisVars, bootstrapOwners,
                   loopVars, moneyVars, gatewayVars>>

-----------------------------------------------------------------------------
(***************************************************************************)
(* Checkpoints: a quorum of active validators confirms the log up to the   *)
(* configuration number the child has adopted. All active validators       *)
(* together always make a quorum, so one exists unless there are none (an  *)
(* empty list of signatures is refused). Heights and relayers are left out *)
(* here: a checkpoint is a submission at the next height.                  *)
(***************************************************************************)

\* Variant: the first unconfirmed number is taken for a confirmed one.
NumberToConfirmOffByOne(number) ==
    IF number <= startConfigurationNumber THEN confirmUpTo ELSE number

\* confirmChange ignores a number below the first unconfirmed one.
NumberToConfirm(number) ==
    IF number < startConfigurationNumber THEN confirmUpTo ELSE number

\* The withdrawals of v that confirming up to number turns into releases.
WithdrawalsUpTo(v, number) ==
    {n \in startConfigurationNumber..number :
        changes[n].op = "Withdraw" /\ changes[n].validator = v}

\* No queue overflows in the loop: push computes its length in uint16, and reverts
\* the checkpoint where the type ends.
ReleasesFit(number) ==
    \A v \in Validator :
        releaseCount[v] + Cardinality(WithdrawalsUpTo(v, number)) <= MaxReleases

SubmitCheckpoint(number) ==
    /\ Idle /\ ~paused
    /\ activeValidators # {}
    /\ gwRegistered
    /\ number < nextConfigurationNumber
    /\ ReleasesFit(number)
    /\ confirmUpTo' = NumberToConfirm(number)
    /\ UNCHANGED <<validatorSetVars, lifecycleVars, genesisVars, bootstrapOwners, logVars,
                   federating, moneyVars, gatewayVars>>

\* Variant: the length is not counted up, and the next release overwrites this one.
OverwriteRelease(v, amount) ==
    /\ releases' = [releases EXCEPT ![v] = amount]
    /\ UNCHANGED releaseCount

\* One more release in the queue, claimable at once: lockingDuration is never set
\* and stays 0.
AddNewRelease(v, amount) ==
    /\ releaseCount[v] < MaxReleases
    /\ releases' = [releases EXCEPT ![v] = @ + amount]
    /\ releaseCount' = [releaseCount EXCEPT ![v] = @ + 1]

\* Gateway's releaseStake, which pays the collateral back to the actor.
ReleaseStake(amount) ==
    /\ gwRegistered /\ amount > 0
    /\ amount <= gwStake
    /\ gwStake' = gwStake - amount
    /\ balance' = balance + amount
    /\ UNCHANGED <<gwRegistered, gwCircSupply>>

\* Variant: the actor keeps the collateral instead of forwarding it.
AddStakeNotForwarded(amount) ==
    /\ gwRegistered /\ amount > 0
    /\ amount <= balance
    /\ UNCHANGED <<balance, gatewayVars>>

\* Gateway's addStake, paid by the actor.
AddStake(amount) ==
    /\ gwRegistered /\ amount > 0
    /\ amount <= balance
    /\ gwStake' = gwStake + amount
    /\ balance' = balance - amount
    /\ UNCHANGED <<gwRegistered, gwCircSupply>>

ApplyChange(c) ==
    CASE c.op = "SetMetadata" ->
            /\ hasMetadata' = [hasMetadata EXCEPT ![c.validator] = TRUE]
            /\ UNCHANGED <<confirmedCollateral, federatedPower, totalConfirmedCollateral,
                           activeValidators, waitingValidators, moneyVars, gatewayVars>>
      [] c.op = "SetFederatedPower" ->
            /\ hasMetadata' = [hasMetadata EXCEPT ![c.validator] = TRUE]
            /\ ConfirmFederatedPower(c.validator, c.amount)
            /\ UNCHANGED <<moneyVars, gatewayVars>>
      [] c.op = "Withdraw" ->
            /\ ConfirmWithdraw(c.validator, c.amount)
            /\ AddNewRelease(c.validator, c.amount)
            /\ ReleaseStake(c.amount)
            /\ UNCHANGED wallet
      [] c.op = "Deposit" ->
            /\ UNCHANGED hasMetadata
            /\ ConfirmDeposit(c.validator, c.amount)
            /\ AddStake(c.amount)
            /\ UNCHANGED <<releases, releaseCount, wallet>>

\* Variant: the confirmed change stays in the log.
KeepChange == changes

PurgeChange ==
    [n \in (startConfigurationNumber + 1)..(nextConfigurationNumber - 1) |-> changes[n]]

\* One iteration of confirmChange. The code moves startConfigurationNumber once,
\* after the loop; nobody can see it in between.
ConfirmNext ==
    /\ startConfigurationNumber <= confirmUpTo
    /\ UNCHANGED totalCollateral
    /\ ApplyChange(changes[startConfigurationNumber])
    /\ changes' = PurgeChange
    /\ startConfigurationNumber' = startConfigurationNumber + 1
    /\ UNCHANGED <<nextConfigurationNumber, lifecycleVars, genesisVars, bootstrapOwners,
                   loopVars>>

-----------------------------------------------------------------------------
(***************************************************************************)
(* The rest of the actor.                                                  *)
(***************************************************************************)

Claim(v) ==
    /\ Idle /\ ~paused
    /\ releaseCount[v] # 0
    /\ releases[v] <= balance
    /\ releases' = [releases EXCEPT ![v] = 0]
    /\ releaseCount' = [releaseCount EXCEPT ![v] = 0]
    /\ balance' = balance - releases[v]
    /\ Receives(v, releases[v])
    /\ UNCHANGED <<validatorSetVars, lifecycleVars, genesisVars, bootstrapOwners, logVars,
                   loopVars, gatewayVars>>

\* The gateway deletes the subnet and pays its stake to the actor.
Kill ==
    /\ Idle /\ ~killed
    /\ Members = {}
    /\ gwRegistered
    /\ gwCircSupply = 0
    /\ killed' = TRUE
    /\ gwRegistered' = FALSE
    /\ gwStake' = 0
    /\ balance' = balance + gwStake
    /\ UNCHANGED <<validatorSetVars, bootstrapped, paused, genesisVars, bootstrapOwners,
                   logVars, loopVars, releases, releaseCount, wallet, gwCircSupply>>

AddBootstrapNode(v) ==
    /\ Idle /\ ~paused
    /\ v \in activeValidators
    /\ bootstrapOwners' = bootstrapOwners \cup {v}
    /\ UNCHANGED <<validatorSetVars, lifecycleVars, genesisVars, logVars, loopVars,
                   moneyVars, gatewayVars>>

\* pause when running, unpause when paused; both revert otherwise.
SetPaused ==
    /\ Idle
    /\ CanPause
    /\ paused' = ~paused
    /\ UNCHANGED <<validatorSetVars, bootstrapped, killed, genesisVars, bootstrapOwners,
                   logVars, loopVars, moneyVars, gatewayVars>>

Next ==
    \/ \E a \in Funder, amount \in Amounts : PreFund(a, amount)
    \/ \E a \in Funder, amount \in Amounts : PreRelease(a, amount)
    \/ \E v \in Validator, amount \in Amounts : JoinBeforeBootstrap(v, amount)
    \/ \E v \in Validator, amount \in Amounts : JoinAfterBootstrap(v, amount)
    \/ \E v \in Validator, amount \in Amounts : StakeBeforeBootstrap(v, amount)
    \/ \E v \in Validator, amount \in Amounts : StakeAfterBootstrap(v, amount)
    \/ \E v \in Validator, amount \in Amounts : UnstakeBeforeBootstrap(v, amount)
    \/ \E v \in Validator, amount \in Amounts : UnstakeAfterBootstrap(v, amount)
    \/ \E v \in Validator : LeaveBeforeBootstrap(v)
    \/ \E v \in Validator : LeaveAfterBootstrap(v)
    \/ \E list \in Federations : StartFederation(list)
    \/ FederateNext
    \/ \E v \in Validator, power \in Powers : SetFederatedPower(v, power)
    \/ \E number \in 0..(nextConfigurationNumber - 1) : SubmitCheckpoint(number)
    \/ ConfirmNext
    \/ \E v \in Validator : Claim(v)
    \/ Kill
    \/ \E v \in Announcer : AddBootstrapNode(v)
    \/ SetPaused

Spec == Init /\ [][Next]_vars

-----------------------------------------------------------------------------
(***************************************************************************)
(* Properties.                                                             *)
(***************************************************************************)

SumOver(f) == MapThenSumSet(LAMBDA v : f[v], Validator)

\* What the log still has to add to (take from) v's confirmed collateral.
Pending(v, op) ==
    MapThenSumSet(LAMBDA n : changes[n].amount,
                  {n \in DOMAIN changes : changes[n].op = op /\ changes[n].validator = v})

CanApply(c) ==
    CASE c.op = "SetMetadata" -> TRUE
      [] c.op = "SetFederatedPower" ->
            c.amount < federatedPower[c.validator] => c.validator \in Members
      [] c.op = "Withdraw" ->
            /\ 0 < c.amount
            /\ c.amount <= confirmedCollateral[c.validator]
            /\ c.amount <= totalConfirmedCollateral
            /\ c.amount <= gwStake
            /\ c.validator \in Members
      [] c.op = "Deposit" ->
            0 < c.amount /\ c.amount <= balance

HasRoom(c) == c.op = "Withdraw" => releaseCount[c.validator] < MaxReleases

\* What was recorded can be confirmed: whatever the order of calls, the next change
\* finds the collateral, the membership, the stake and the money it needs. The one
\* thing that can stand in its way is a full release queue, which its validator can
\* claim; a transaction that has begun to confirm finds room in it, too. A change
\* that reverted otherwise would revert every later checkpoint (LibStaking 573).
ConfirmationNeverReverts ==
    startConfigurationNumber < nextConfigurationNumber /\ ~killed =>
        /\ gwRegistered
        /\ CanApply(changes[startConfigurationNumber])
        /\ startConfigurationNumber <= confirmUpTo => HasRoom(changes[startConfigurationNumber])

\* What a change adds to its validator's confirmed collateral.
DeltaOf(c) ==
    CASE c.op = "Deposit" -> c.amount
      [] c.op = "Withdraw" -> -c.amount
      [] OTHER -> 0

\* The two books of a validator's collateral differ exactly by the log: what is
\* confirmed plus what is still to be deposited and withdrawn is the total, on
\* which unstake and leave decide (LibStaking recordDeposit, recordWithdraw).
CollateralAgreesWithLog ==
    \A v \in Validator :
        totalCollateral[v] + Pending(v, "Withdraw") =
            confirmedCollateral[v] + Pending(v, "Deposit")

\* The actor's two books and its change log, whoever joins, stakes, leaves or is
\* reshuffled in between, behave like a ledger that is confirmed in order: no
\* operation moves one book without the other or without leaving the difference
\* in the log (LibStaking recordDeposit to confirmChange).
Ledger ==
    INSTANCE CollateralLedger WITH
        supplied <- totalCollateral,
        confirmed <- confirmedCollateral,
        pending <- [n \in DOMAIN changes |->
                       [validator |-> changes[n].validator, delta |-> DeltaOf(changes[n])]],
        first <- startConfigurationNumber,
        next <- nextConfigurationNumber

ImplementsLedger == Ledger!Spec

\* SA-05 of specs/PROPERTIES.md: the running total that is kept next to the
\* records, and on which activation decides, is their sum (confirmDeposit,
\* confirmWithdraw).
TotalIsSum == totalConfirmedCollateral = SumOver(confirmedCollateral)

\* SA-02: the stake is the same for the gateway and the subnet actor, although
\* they keep it in two calls (register, addStake, releaseStake).
GatewayStakeMatches == gwRegistered => gwStake = totalConfirmedCollateral

\* What the actor's account holds is what it owes: before bootstrap all the
\* collateral and the genesis funds, after it the unconfirmed deposits and the
\* collateral that was released and not claimed yet.
ActorSolvent ==
    /\ ~bootstrapped => balance = totalConfirmedCollateral + genesisCircSupply
    /\ bootstrapped /\ PermissionMode # "Federated" =>
          balance = SumOver(releases)
                    + SumOver([v \in Validator |-> Pending(v, "Deposit")])

\* SA-03 for each account: what a validator owned at first is in its wallet, in
\* its collateral, on its way out in the log, or released to it. Nothing is
\* lost and nobody is paid another's collateral.
FundsAccounted ==
    \A v \in Validator \ Funder :
        wallet[v] + totalCollateral[v] + Pending(v, "Withdraw") + releases[v] = Wealth

\* An active validator has its public key set, however its join, its leave and
\* its next join are cut by checkpoints: a change log confirmed half way never
\* leaves a block producer without one (LibStaking confirmChange, join).
ActiveHaveMetadata == \A v \in activeValidators : hasMetadata[v]

\* A listed account has a genesis balance, so that preFund never lists it a second
\* time; and an account with one is listed, unless it has been a validator, whose
\* leave takes it off the list and the balance stays (preFund, preRelease, leave).
GenesisKeysFunded ==
    /\ \A a \in genesisBalanceKeys : genesisBalance[a] > 0
    /\ \A a \in Validator \ genesisBalanceKeys :
          genesisBalance[a] > 0 => \E g \in genesisValidators : g.addr = a

\* While nothing is bootstrapped, only members announce bootstrap nodes: leave
\* takes the node away together with the membership.
BootstrapOwnersAreMembers == ~bootstrapped => bootstrapOwners \subseteq Members

\* The child's first validators are read from genesisValidators: before bootstrap
\* it lists every member, and no validator twice.
GenesisListsMembers ==
    PermissionMode # "Federated" =>
        /\ \A g, h \in genesisValidators : g.addr = h.addr => g = h
        /\ ~bootstrapped => Members \subseteq {g.addr : g \in genesisValidators}

\* What the genesis balances add up to is the genesis circulating supply.
GenesisBalancesBacked == ~bootstrapped => SumOver(genesisBalance) = genesisCircSupply

\* "initial set of validators joining in genesis" (LibSubnetActorStorage 13): in
\* a subnet that just bootstrapped they are the validators that have collateral.
GenesisValidatorsJoined ==
    bootstrapped /\ nextConfigurationNumber = 1 =>
        {g.addr : g \in genesisValidators} = {v \in Validator : confirmedCollateral[v] > 0}

\* kill is possible only "when all validators left": nobody has collateral in a
\* subnet that was killed.
KilledMeansAllLeft == killed => \A v \in Validator : totalCollateral[v] = 0
=============================================================================
