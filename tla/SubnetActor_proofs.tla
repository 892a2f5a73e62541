------------------------- MODULE SubnetActor_proofs -------------------------
(***************************************************************************)
(* Proofs about the subnet actor. First types, the validator set, its      *)
(* members and the genesis lists. Then its accounts: the stake that the    *)
(* gateway keeps for it, the ledger of total and confirmed collateral that *)
(* it implements, the sums and balances that must agree with them and,     *)
(* from all of these and the room in the release queues, that confirming a *)
(* recorded change never reverts. At the end the public keys, which come   *)
(* and go with the collateral in the log.                                  *)
(***************************************************************************)
EXTENDS SubnetActor, ValidatorSet_proofs, SequenceTheorems, Sums_proofs

(***************************************************************************)
(* Arithmetic, stated once: the provers do it on constants, not on primed  *)
(* variables.                                                              *)
(***************************************************************************)

\* Adding keeps a natural number natural.
LEMMA NatSum == \A m, n \in Nat : m + n \in Nat
OBVIOUS

\* An interval grows with its end.
LEMMA WiderInterval ==
    ASSUME NEW a \in Nat, NEW b \in Nat, NEW c \in Nat, b <= c
    PROVE  (a - 1)..(b - 1) \subseteq (a - 1)..(c - 1)
OBVIOUS

-----------------------------------------------------------------------------
(***************************************************************************)
(* Type correctness.                                                       *)
(***************************************************************************)

LEMMA RecordChangesType ==
    ASSUME TypeOK, NEW cs \in Seq(Change), RecordChanges(cs)
    PROVE  UNCHANGED loopVars => LogTypeOK'
<1>1. Len(cs) \in Nat /\ \A i \in 1..Len(cs) : cs[i] \in Change
  OBVIOUS
<1>2. startConfigurationNumber \in Nat /\ nextConfigurationNumber \in Nat
  BY DEF TypeOK, LogTypeOK
<1>3. nextConfigurationNumber' = nextConfigurationNumber + Len(cs)
  BY DEF RecordChanges
<1>4. ASSUME NEW n \in startConfigurationNumber..(nextConfigurationNumber' - 1)
      PROVE  (IF n < nextConfigurationNumber THEN changes[n]
              ELSE cs[n - nextConfigurationNumber + 1]) \in Change
  <2>1. CASE n < nextConfigurationNumber
    BY <1>2, <2>1 DEF TypeOK, LogTypeOK
  <2>2. CASE ~(n < nextConfigurationNumber)
    <3>1. n - nextConfigurationNumber + 1 \in 1..Len(cs)
      BY <1>1, <1>2, <1>3, <2>2
    <3>2. QED
      BY <1>1, <2>2, <3>1
  <2>3. QED
    BY <2>1, <2>2
<1>5. startConfigurationNumber' = startConfigurationNumber
  BY DEF RecordChanges
<1>6. changes' \in [startConfigurationNumber'..(nextConfigurationNumber' - 1) -> Change]
  BY <1>3, <1>4, <1>5 DEF RecordChanges
<1>7. /\ nextConfigurationNumber' \in Nat \ {0}
      /\ startConfigurationNumber' \in 1..nextConfigurationNumber'
      /\ nextConfigurationNumber <= nextConfigurationNumber'
  BY <1>1, <1>2, <1>3, <1>5 DEF TypeOK, LogTypeOK
<1>8. SUFFICES ASSUME UNCHANGED loopVars
               PROVE  LogTypeOK'
  OBVIOUS
<1>9. /\ confirmUpTo' \in (startConfigurationNumber' - 1)..(nextConfigurationNumber' - 1)
      /\ federating' \in Seq(GenesisValidator)
  <2>1. /\ confirmUpTo \in (startConfigurationNumber - 1)..(nextConfigurationNumber - 1)
        /\ federating \in Seq(GenesisValidator)
    BY DEF TypeOK, LogTypeOK
  <2>2. confirmUpTo' = confirmUpTo /\ federating' = federating
    BY <1>8 DEF loopVars
  <2>3. confirmUpTo' \in (startConfigurationNumber' - 1)..(nextConfigurationNumber' - 1)
    <3>1. nextConfigurationNumber' \in Nat
      BY <1>7
    <3>2. (startConfigurationNumber - 1)..(nextConfigurationNumber - 1) \subseteq
             (startConfigurationNumber - 1)..(nextConfigurationNumber' - 1)
      BY <1>2, <1>7, <3>1, WiderInterval
    <3>3. QED
      BY <1>5, <2>1, <2>2, <3>2
  <2>4. QED
    BY <2>1, <2>2, <2>3
<1>10. QED
  BY <1>6, <1>7, <1>9 DEF LogTypeOK

LEMMA InitTypeOK == Init => TypeOK
<1> SUFFICES ASSUME Init PROVE TypeOK
  OBVIOUS
<1>1. ValidatorSetTypeOK
  BY DEF Init, ValidatorSetInit, ValidatorSetTypeOK
<1>2. LogTypeOK
  <2>1. changes \in [1..0 -> Change]
    BY DEF Init
  <2>2. QED
    BY <2>1 DEF Init, LogTypeOK
<1>3. LifecycleTypeOK /\ GatewayTypeOK
  BY DEF Init, LifecycleTypeOK, GatewayTypeOK
<1>4. GenesisTypeOK
  BY DEF Init, GenesisTypeOK
<1>5. MoneyTypeOK
  BY SubnetActorAssumption DEF Init, MoneyTypeOK
<1>6. QED
  BY <1>1, <1>2, <1>3, <1>4, <1>5 DEF TypeOK

\* A part of the state that a step leaves alone keeps its type.
LEMMA UnchangedType ==
    ASSUME TypeOK
    PROVE  /\ UNCHANGED validatorSetVars => ValidatorSetTypeOK'
           /\ UNCHANGED lifecycleVars => LifecycleTypeOK'
           /\ UNCHANGED <<genesisVars, bootstrapOwners>> => GenesisTypeOK'
           /\ UNCHANGED <<logVars, loopVars>> => LogTypeOK'
           /\ UNCHANGED moneyVars => MoneyTypeOK'
           /\ UNCHANGED gatewayVars => GatewayTypeOK'
<1> USE DEF TypeOK
<1>1. UNCHANGED validatorSetVars => ValidatorSetTypeOK'
  BY DEF validatorSetVars, ValidatorSetTypeOK
<1>2. UNCHANGED lifecycleVars => LifecycleTypeOK'
  BY DEF lifecycleVars, LifecycleTypeOK
<1>3. UNCHANGED <<genesisVars, bootstrapOwners>> => GenesisTypeOK'
  BY DEF genesisVars, GenesisTypeOK
<1>4. UNCHANGED <<logVars, loopVars>> => LogTypeOK'
  BY DEF logVars, loopVars, LogTypeOK
<1>5. UNCHANGED moneyVars => MoneyTypeOK'
  BY DEF moneyVars, MoneyTypeOK
<1>6. UNCHANGED gatewayVars => GatewayTypeOK'
  BY DEF gatewayVars, GatewayTypeOK
<1>7. QED
  BY <1>1, <1>2, <1>3, <1>4, <1>5, <1>6

LEMMA DepositWithConfirmType ==
    ASSUME TypeOK, NEW v \in Validator, NEW amount \in Nat, DepositWithConfirm(v, amount),
           hasMetadata' \in [Validator -> BOOLEAN],
           UNCHANGED <<genesisBalance, genesisBalanceKeys, genesisCircSupply, bootstrapOwners>>
    PROVE  ValidatorSetTypeOK' /\ GenesisTypeOK'
<1>1. ValidatorSetTypeOK
  BY DEF TypeOK
<1>2. ConfirmDeposit(v, amount)
  BY DEF DepositWithConfirm
<1>3. totalCollateral' \in [Validator -> Nat]
  BY <1>1 DEF DepositWithConfirm, RecordDeposit, ValidatorSetTypeOK
<1>4. ValidatorSetTypeOK'
  BY <1>1, <1>2, <1>3, ConfirmDepositType DEF ValidatorSetTypeOK
<1>5. genesisValidators' \in SUBSET GenesisValidator
  <2>1. confirmedCollateral'[v] \in Nat
    BY <1>4 DEF ValidatorSetTypeOK
  <2>2. QED
    BY <2>1 DEF DepositWithConfirm, AddGenesisValidator, GenesisValidator, TypeOK, GenesisTypeOK
<1>6. QED
  BY <1>4, <1>5 DEF TypeOK, GenesisTypeOK

LEMMA WithdrawWithConfirmType ==
    ASSUME TypeOK, NEW v \in Validator, NEW amount \in Nat, WithdrawWithConfirm(v, amount)
    PROVE  ValidatorSetTypeOK'
<1>1. ValidatorSetTypeOK
  BY DEF TypeOK
<1>2. ConfirmWithdraw(v, amount)
  BY DEF WithdrawWithConfirm
<1>3. totalCollateral' \in [Validator -> Nat]
  BY <1>1 DEF WithdrawWithConfirm, RecordWithdraw, ValidatorSetTypeOK
<1>4. QED
  BY <1>1, <1>2, <1>3, ConfirmWithdrawType DEF ValidatorSetTypeOK

LEMMA RegisterType ==
    ASSUME TypeOK, NEW value \in Nat, Register(value)
    PROVE  GatewayTypeOK'
BY DEF Register, TypeOK, GenesisTypeOK, GatewayTypeOK

LEMMA BootstrapSubnetIfNeededType ==
    ASSUME TypeOK, ValidatorSetTypeOK', NEW received \in Nat,
           BootstrapSubnetIfNeeded(received),
           UNCHANGED <<killed, paused, releases, releaseCount>>, wallet' \in [Validator -> Nat]
    PROVE  LifecycleTypeOK' /\ MoneyTypeOK' /\ GatewayTypeOK'
<1>1. balance \in Nat /\ RegisterValue \in Nat
  <2>1. totalConfirmedCollateral' \in Nat
    BY DEF ValidatorSetTypeOK
  <2>2. balance \in Nat /\ genesisCircSupply \in Nat
    BY DEF TypeOK, GenesisTypeOK, MoneyTypeOK
  <2>3. totalConfirmedCollateral' + genesisCircSupply \in Nat
    BY <2>1, <2>2, NatSum
  <2>4. QED
    BY <2>2, <2>3 DEF RegisterValue
<1>2. CASE ActivationThresholdsMet
  <2>1. /\ RegisterValue <= balance + received
        /\ bootstrapped' = TRUE
        /\ Register(RegisterValue)
        /\ balance' = balance + received - RegisterValue
    BY <1>2 DEF BootstrapSubnetIfNeeded
  <2>2. GatewayTypeOK'
    BY <1>1, <2>1, RegisterType
  <2>3. QED
    BY <1>1, <2>1, <2>2 DEF TypeOK, LifecycleTypeOK, MoneyTypeOK
<1>3. CASE ~ActivationThresholdsMet
  <2>1. balance' = balance + received /\ UNCHANGED <<bootstrapped, gatewayVars>>
    BY <1>3 DEF BootstrapSubnetIfNeeded
  <2>2. QED
    BY <1>1, <2>1, UnchangedType DEF TypeOK, LifecycleTypeOK, MoneyTypeOK
<1>4. QED
  BY <1>2, <1>3

LEMMA PaysType ==
    ASSUME TypeOK, NEW a \in Validator, NEW amount \in Nat, Pays(a, amount)
    PROVE  wallet' \in [Validator -> Nat]
BY DEF Pays, TypeOK, MoneyTypeOK

LEMMA ReceivesType ==
    ASSUME TypeOK, NEW a \in Validator, NEW amount \in Nat, Receives(a, amount)
    PROVE  wallet' \in [Validator -> Nat]
BY DEF Receives, TypeOK, MoneyTypeOK

LEMMA RequestType ==
    ASSUME NEW v \in Validator, NEW amount \in Nat
    PROVE  /\ MetadataRequest(v) \in Change
           /\ FederatedPowerRequest(v, amount) \in Change
           /\ DepositRequest(v, amount) \in Change
           /\ WithdrawRequest(v, amount) \in Change
BY DEF MetadataRequest, FederatedPowerRequest, DepositRequest, WithdrawRequest, Change,
       Operations

-----------------------------------------------------------------------------
LEMMA TypePreFund ==
    ASSUME TypeOK, NEW a \in Funder, NEW amount \in Amounts, PreFund(a, amount)
    PROVE  TypeOK'
<1>1. a \in Validator /\ amount \in Nat
  BY SubnetActorAssumption
<1>2. GenesisTypeOK'
  BY <1>1 DEF PreFund, TypeOK, GenesisTypeOK
<1>3. MoneyTypeOK'
  BY <1>1, PaysType DEF PreFund, TypeOK, MoneyTypeOK
<1>4. QED
  BY <1>2, <1>3, UnchangedType DEF PreFund, TypeOK

LEMMA TypePreRelease ==
    ASSUME TypeOK, NEW a \in Funder, NEW amount \in Amounts, PreRelease(a, amount)
    PROVE  TypeOK'
<1>1. a \in Validator /\ amount \in Nat
  BY SubnetActorAssumption
<1>2. GenesisTypeOK'
  BY <1>1 DEF PreRelease, RmAddressFromBalanceKeys, TypeOK, GenesisTypeOK
<1>3. MoneyTypeOK'
  BY <1>1, ReceivesType DEF PreRelease, TypeOK, MoneyTypeOK
<1>4. QED
  BY <1>2, <1>3, UnchangedType DEF PreRelease, TypeOK

LEMMA TypeJoinBeforeBootstrap ==
    ASSUME TypeOK, NEW v \in Validator, NEW amount \in Amounts, JoinBeforeBootstrap(v, amount)
    PROVE  TypeOK'
<1>1. amount \in Nat
  BY SubnetActorAssumption
<1>2. hasMetadata' \in [Validator -> BOOLEAN]
  BY DEF JoinBeforeBootstrap, TypeOK, ValidatorSetTypeOK
<1>3. ValidatorSetTypeOK' /\ GenesisTypeOK'
  BY <1>1, <1>2, DepositWithConfirmType DEF JoinBeforeBootstrap
<1>4. LifecycleTypeOK' /\ MoneyTypeOK' /\ GatewayTypeOK'
  BY <1>1, <1>3, PaysType, BootstrapSubnetIfNeededType DEF JoinBeforeBootstrap
<1>5. QED
  BY <1>3, <1>4, UnchangedType DEF JoinBeforeBootstrap, TypeOK

LEMMA TypeStakeBeforeBootstrap ==
    ASSUME TypeOK, NEW v \in Validator, NEW amount \in Amounts, StakeBeforeBootstrap(v, amount)
    PROVE  TypeOK'
<1>1. amount \in Nat
  BY SubnetActorAssumption
<1>2. hasMetadata' \in [Validator -> BOOLEAN]
  BY DEF StakeBeforeBootstrap, TypeOK, ValidatorSetTypeOK
<1>3. ValidatorSetTypeOK' /\ GenesisTypeOK'
  BY <1>1, <1>2, DepositWithConfirmType DEF StakeBeforeBootstrap
<1>4. LifecycleTypeOK' /\ MoneyTypeOK' /\ GatewayTypeOK'
  BY <1>1, <1>3, PaysType, BootstrapSubnetIfNeededType DEF StakeBeforeBootstrap
<1>5. QED
  BY <1>3, <1>4, UnchangedType DEF StakeBeforeBootstrap, TypeOK

\* Recording a deposit or a withdrawal and requesting its confirmation leaves
\* a well-typed validator set: only totalCollateral is written.
LEMMA RecordedTotalType ==
    ASSUME TypeOK, NEW v \in Validator, NEW amount \in Nat,
           RecordDeposit(v, amount) \/ RecordWithdraw(v, amount),
           UNCHANGED confirmedVars
    PROVE  ValidatorSetTypeOK'
<1>1. totalCollateral' \in [Validator -> Nat]
  BY DEF RecordDeposit, RecordWithdraw, TypeOK, ValidatorSetTypeOK
<1>2. QED
  BY <1>1 DEF confirmedVars, TypeOK, ValidatorSetTypeOK

LEMMA TypeJoinAfterBootstrap ==
    ASSUME TypeOK, NEW v \in Validator, NEW amount \in Amounts, JoinAfterBootstrap(v, amount)
    PROVE  TypeOK'
<1>1. amount \in Nat
  BY SubnetActorAssumption
<1>2. ValidatorSetTypeOK'
  BY <1>1, RecordedTotalType DEF JoinAfterBootstrap
<1>3. LogTypeOK'
  <2>1. JoinRequests(v, amount) \in Seq(Change)
    BY <1>1, RequestType DEF JoinRequests
  <2>2. QED
    BY <2>1, RecordChangesType DEF JoinAfterBootstrap
<1>4. MoneyTypeOK'
  BY <1>1, PaysType DEF JoinAfterBootstrap, TypeOK, MoneyTypeOK
<1>5. QED
  BY <1>2, <1>3, <1>4, UnchangedType DEF JoinAfterBootstrap, TypeOK

LEMMA TypeStakeAfterBootstrap ==
    ASSUME TypeOK, NEW v \in Validator, NEW amount \in Amounts, StakeAfterBootstrap(v, amount)
    PROVE  TypeOK'
<1>1. amount \in Nat
  BY SubnetActorAssumption
<1>2. ValidatorSetTypeOK'
  BY <1>1, RecordedTotalType DEF StakeAfterBootstrap
<1>3. LogTypeOK'
  <2>1. <<DepositRequest(v, amount)>> \in Seq(Change)
    BY <1>1, RequestType
  <2>2. QED
    BY <2>1, RecordChangesType DEF StakeAfterBootstrap
<1>4. MoneyTypeOK'
  BY <1>1, PaysType DEF StakeAfterBootstrap, TypeOK, MoneyTypeOK
<1>5. QED
  BY <1>2, <1>3, <1>4, UnchangedType DEF StakeAfterBootstrap, TypeOK

LEMMA TypeUnstakeBeforeBootstrap ==
    ASSUME TypeOK, NEW v \in Validator, NEW amount \in Amounts,
           UnstakeBeforeBootstrap(v, amount)
    PROVE  TypeOK'
<1>1. amount \in Nat
  BY SubnetActorAssumption
<1>2. ValidatorSetTypeOK'
  BY <1>1, WithdrawWithConfirmType DEF UnstakeBeforeBootstrap
<1>3. MoneyTypeOK'
  BY <1>1, ReceivesType DEF UnstakeBeforeBootstrap, TypeOK, MoneyTypeOK
<1>4. QED
  BY <1>2, <1>3, UnchangedType DEF UnstakeBeforeBootstrap, TypeOK

LEMMA TypeUnstakeAfterBootstrap ==
    ASSUME TypeOK, NEW v \in Validator, NEW amount \in Amounts,
           UnstakeAfterBootstrap(v, amount)
    PROVE  TypeOK'
<1>1. amount \in Nat
  BY SubnetActorAssumption
<1>2. ValidatorSetTypeOK'
  BY <1>1, RecordedTotalType DEF UnstakeAfterBootstrap
<1>3. LogTypeOK'
  <2>1. <<WithdrawRequest(v, amount)>> \in Seq(Change)
    BY <1>1, RequestType
  <2>2. QED
    BY <2>1, RecordChangesType DEF UnstakeAfterBootstrap
<1>4. QED
  BY <1>2, <1>3, UnchangedType DEF UnstakeAfterBootstrap, TypeOK

LEMMA TypeLeaveBeforeBootstrap ==
    ASSUME TypeOK, NEW v \in Validator, LeaveBeforeBootstrap(v)
    PROVE  TypeOK'
<1>1. totalCollateral[v] \in Nat /\ genesisBalance[v] \in Nat
  BY DEF TypeOK, ValidatorSetTypeOK, GenesisTypeOK
<1>2. ValidatorSetTypeOK'
  BY <1>1, WithdrawWithConfirmType DEF LeaveBeforeBootstrap
<1>3. GenesisTypeOK'
  BY <1>1 DEF LeaveBeforeBootstrap, RmAddressFromBalanceKeys, RemoveBootstrapOwner,
              TypeOK, GenesisTypeOK
<1>4. MoneyTypeOK'
  <2>1. genesisBalance[v] + totalCollateral[v] \in Nat
    BY <1>1
  <2>2. QED
    BY <2>1, ReceivesType DEF LeaveBeforeBootstrap, TypeOK, MoneyTypeOK
<1>5. QED
  BY <1>2, <1>3, <1>4, UnchangedType DEF LeaveBeforeBootstrap, TypeOK

LEMMA TypeLeaveAfterBootstrap ==
    ASSUME TypeOK, NEW v \in Validator, LeaveAfterBootstrap(v)
    PROVE  TypeOK'
<1>1. totalCollateral[v] \in Nat
  BY DEF TypeOK, ValidatorSetTypeOK
<1>2. ValidatorSetTypeOK'
  BY <1>1, RecordedTotalType DEF LeaveAfterBootstrap
<1>3. LogTypeOK'
  <2>1. <<WithdrawRequest(v, totalCollateral[v])>> \in Seq(Change)
    BY <1>1, RequestType
  <2>2. QED
    BY <2>1, RecordChangesType DEF LeaveAfterBootstrap
<1>4. GenesisTypeOK'
  BY DEF LeaveAfterBootstrap, RemoveBootstrapOwner, genesisVars, TypeOK, GenesisTypeOK
<1>5. QED
  BY <1>2, <1>3, <1>4, UnchangedType DEF LeaveAfterBootstrap, TypeOK

LEMMA TypeStartFederation ==
    ASSUME TypeOK, NEW list \in Federations, StartFederation(list)
    PROVE  TypeOK'
<1>1. list \in Seq(GenesisValidator)
  <2>1. PICK n \in 0..MaxFederation : list \in [1..n -> [addr : Validator, weight : Powers]]
    BY DEF Federations
  <2>2. n \in Nat
    BY SubnetActorAssumption
  <2>3. \A i \in 1..n : list[i] \in GenesisValidator
    BY <2>1, SubnetActorAssumption DEF GenesisValidator
  <2>4. list \in [1..n -> GenesisValidator]
    BY <2>1, <2>3
  <2>5. QED
    BY <2>2, <2>4
<1>2. LogTypeOK'
  BY <1>1 DEF StartFederation, logVars, TypeOK, LogTypeOK
<1>3. QED
  BY <1>2, UnchangedType DEF StartFederation, TypeOK

LEMMA TypeFederateNext ==
    ASSUME TypeOK, FederateNext
    PROVE  TypeOK'
<1> DEFINE g == Head(federating)
<1>1. /\ federating \in Seq(GenesisValidator) /\ federating # <<>>
      /\ g \in GenesisValidator
      /\ Tail(federating) \in Seq(GenesisValidator)
  BY DEF FederateNext, TypeOK, LogTypeOK
<1>2. g.addr \in Validator /\ g.weight \in Nat
  BY <1>1 DEF GenesisValidator
<1>3. ValidatorSetTypeOK'
  <2>1. ValidatorSetTypeOK
    BY DEF TypeOK
  <2>2. ConfirmFederatedPower(g.addr, g.weight)
    BY DEF FederateNext
  <2>3. hasMetadata' \in [Validator -> BOOLEAN] /\ totalCollateral' \in [Validator -> Nat]
    BY <1>2, <2>1 DEF FederateNext, ValidatorSetTypeOK
  <2>4. QED
    BY <1>2, <2>1, <2>2, <2>3, ConfirmFederatedPowerType DEF ValidatorSetTypeOK
<1>4. GenesisTypeOK'
  BY <1>1 DEF FederateNext, TypeOK, GenesisTypeOK
<1>5. LogTypeOK'
  BY <1>1 DEF FederateNext, logVars, TypeOK, LogTypeOK
<1>6. LifecycleTypeOK' /\ MoneyTypeOK' /\ GatewayTypeOK'
  <2>1. genesisCircSupply \in Nat /\ balance \in Nat
    BY DEF TypeOK, GenesisTypeOK, MoneyTypeOK
  <2>2. CASE Len(federating) = 1
    <3>1. GatewayTypeOK'
      BY <2>1, <2>2, RegisterType DEF FederateNext
    <3>2. QED
      BY <2>1, <2>2, <3>1 DEF FederateNext, TypeOK, LifecycleTypeOK, MoneyTypeOK
  <2>3. CASE Len(federating) # 1
    BY <2>3, UnchangedType DEF FederateNext, TypeOK, LifecycleTypeOK, MoneyTypeOK
  <2>4. QED
    BY <2>2, <2>3
<1>7. QED
  BY <1>3, <1>4, <1>5, <1>6 DEF TypeOK

LEMMA TypeSetFederatedPower ==
    ASSUME TypeOK, NEW v \in Validator, NEW power \in Powers, SetFederatedPower(v, power)
    PROVE  TypeOK'
<1>1. <<FederatedPowerRequest(v, power)>> \in Seq(Change)
  <2>1. power \in Nat
    BY SubnetActorAssumption
  <2>2. QED
    BY <2>1, RequestType
<1>2. LogTypeOK'
  BY <1>1, RecordChangesType DEF SetFederatedPower
<1>3. QED
  BY <1>2, UnchangedType DEF SetFederatedPower, TypeOK

LEMMA TypeSubmitCheckpoint ==
    ASSUME TypeOK, NEW number \in 0..(nextConfigurationNumber - 1), SubmitCheckpoint(number)
    PROVE  TypeOK'
<1>1. NumberToConfirm(number) \in (startConfigurationNumber - 1)..(nextConfigurationNumber - 1)
  BY DEF NumberToConfirm, TypeOK, LogTypeOK
<1>2. LogTypeOK'
  BY <1>1 DEF SubmitCheckpoint, logVars, TypeOK, LogTypeOK
<1>3. QED
  BY <1>2, UnchangedType DEF SubmitCheckpoint, TypeOK

LEMMA TypeApplyChange ==
    ASSUME TypeOK, NEW c \in Change, UNCHANGED totalCollateral, ApplyChange(c)
    PROVE  ValidatorSetTypeOK' /\ MoneyTypeOK' /\ GatewayTypeOK'
<1>1. ValidatorSetTypeOK /\ c.validator \in Validator /\ c.amount \in Nat
  BY DEF TypeOK, Change
<1>2. totalCollateral' \in [Validator -> Nat]
  BY <1>1 DEF ValidatorSetTypeOK
<1>3. CASE c.op = "SetMetadata"
  <2>1. /\ hasMetadata' = [hasMetadata EXCEPT ![c.validator] = TRUE]
        /\ UNCHANGED <<confirmedCollateral, federatedPower, totalConfirmedCollateral,
                       activeValidators, waitingValidators, moneyVars, gatewayVars>>
    BY <1>3 DEF ApplyChange
  <2>2. QED
    BY <1>1, <1>2, <2>1, UnchangedType DEF ValidatorSetTypeOK
<1>4. CASE c.op = "SetFederatedPower"
  <2>1. /\ hasMetadata' = [hasMetadata EXCEPT ![c.validator] = TRUE]
        /\ ConfirmFederatedPower(c.validator, c.amount)
        /\ UNCHANGED <<moneyVars, gatewayVars>>
    BY <1>4 DEF ApplyChange
  <2>2. QED
    BY <1>1, <1>2, <2>1, ConfirmFederatedPowerType, UnchangedType DEF ValidatorSetTypeOK
<1>5. CASE c.op = "Withdraw"
  <2>1. /\ ConfirmWithdraw(c.validator, c.amount)
        /\ AddNewRelease(c.validator, c.amount)
        /\ ReleaseStake(c.amount)
        /\ UNCHANGED wallet
    BY <1>5 DEF ApplyChange
  <2>2. ValidatorSetTypeOK'
    BY <1>1, <1>2, <2>1, ConfirmWithdrawType DEF ValidatorSetTypeOK
  <2>3. MoneyTypeOK' /\ GatewayTypeOK'
    <3>1. releases' \in [Validator -> Nat]
      BY <1>1, <2>1 DEF AddNewRelease, TypeOK, MoneyTypeOK
    <3>2. releaseCount' \in [Validator -> 0..MaxReleases]
      <4>1. /\ releaseCount[c.validator] \in 0..MaxReleases
            /\ releaseCount[c.validator] < MaxReleases
            /\ MaxReleases \in Nat
        BY <1>1, <2>1, SubnetActorAssumption DEF AddNewRelease, TypeOK, MoneyTypeOK
      <4>2. releaseCount[c.validator] + 1 \in 0..MaxReleases
        BY <4>1
      <4>3. QED
        BY <2>1, <4>2 DEF AddNewRelease, TypeOK, MoneyTypeOK
    <3>3. QED
      BY <1>1, <2>1, <3>1, <3>2 DEF ReleaseStake, TypeOK, MoneyTypeOK, GatewayTypeOK
  <2>4. QED
    BY <2>2, <2>3
<1>6. CASE c.op = "Deposit"
  <2>1. /\ UNCHANGED hasMetadata
        /\ ConfirmDeposit(c.validator, c.amount)
        /\ AddStake(c.amount)
        /\ UNCHANGED <<releases, releaseCount, wallet>>
    BY <1>6 DEF ApplyChange
  <2>2. ValidatorSetTypeOK'
    BY <1>1, <1>2, <2>1, ConfirmDepositType DEF ValidatorSetTypeOK
  <2>3. MoneyTypeOK' /\ GatewayTypeOK'
    BY <1>1, <2>1 DEF AddStake, TypeOK, MoneyTypeOK, GatewayTypeOK
  <2>4. QED
    BY <2>2, <2>3
<1>7. QED
  BY <1>3, <1>4, <1>5, <1>6 DEF Change, Operations

LEMMA TypeConfirmNext ==
    ASSUME TypeOK, ConfirmNext
    PROVE  TypeOK'
<1>1. /\ startConfigurationNumber \in Nat \ {0} /\ nextConfigurationNumber \in Nat
      /\ startConfigurationNumber \in startConfigurationNumber..(nextConfigurationNumber - 1)
  BY DEF ConfirmNext, TypeOK, LogTypeOK
<1>2. ValidatorSetTypeOK' /\ MoneyTypeOK' /\ GatewayTypeOK'
  <2>1. changes[startConfigurationNumber] \in Change
    BY <1>1 DEF TypeOK, LogTypeOK
  <2>2. QED
    BY <2>1, TypeApplyChange DEF ConfirmNext
<1>3. LogTypeOK'
  <2>1. /\ changes' \in [(startConfigurationNumber + 1)..(nextConfigurationNumber - 1) -> Change]
        /\ startConfigurationNumber' = startConfigurationNumber + 1
        /\ nextConfigurationNumber' = nextConfigurationNumber
        /\ confirmUpTo' = confirmUpTo
        /\ federating' = federating
    BY <1>1 DEF ConfirmNext, PurgeChange, loopVars, TypeOK, LogTypeOK
  <2>2. /\ startConfigurationNumber + 1 \in 1..nextConfigurationNumber
        /\ confirmUpTo \in startConfigurationNumber..(nextConfigurationNumber - 1)
    BY <1>1 DEF ConfirmNext, TypeOK, LogTypeOK
  <2>3. QED
    BY <1>1, <2>1, <2>2 DEF TypeOK, LogTypeOK
<1>4. QED
  BY <1>2, <1>3, UnchangedType DEF ConfirmNext, TypeOK

LEMMA TypeClaim ==
    ASSUME TypeOK, NEW v \in Validator, Claim(v)
    PROVE  TypeOK'
<1>1. releases[v] \in Nat /\ 0 \in 0..MaxReleases
  BY SubnetActorAssumption DEF TypeOK, MoneyTypeOK
<1>2. MoneyTypeOK'
  BY <1>1, ReceivesType DEF Claim, TypeOK, MoneyTypeOK
<1>3. QED
  BY <1>2, UnchangedType DEF Claim, TypeOK

LEMMA TypeKill ==
    ASSUME TypeOK, Kill
    PROVE  TypeOK'
<1>1. LifecycleTypeOK' /\ GatewayTypeOK'
  BY DEF Kill, TypeOK, LifecycleTypeOK, GatewayTypeOK
<1>2. MoneyTypeOK'
  BY DEF Kill, TypeOK, MoneyTypeOK, GatewayTypeOK
<1>3. QED
  BY <1>1, <1>2, UnchangedType DEF Kill, TypeOK

LEMMA TypeAddBootstrapNode ==
    ASSUME TypeOK, NEW v \in Announcer, AddBootstrapNode(v)
    PROVE  TypeOK'
<1>1. GenesisTypeOK'
  BY SubnetActorAssumption DEF AddBootstrapNode, genesisVars, TypeOK, GenesisTypeOK
<1>2. QED
  BY <1>1, UnchangedType DEF AddBootstrapNode, TypeOK

LEMMA TypeSetPaused ==
    ASSUME TypeOK, SetPaused
    PROVE  TypeOK'
<1>1. LifecycleTypeOK'
  BY DEF SetPaused, TypeOK, LifecycleTypeOK
<1>2. QED
  BY <1>1, UnchangedType DEF SetPaused, TypeOK

\* Every step keeps the types.
LEMMA TypeNext == TypeOK /\ [Next]_vars => TypeOK'
<1> SUFFICES ASSUME TypeOK, [Next]_vars PROVE TypeOK'
  OBVIOUS
<1>1. ASSUME NEW a \in Funder, NEW amount \in Amounts, PreFund(a, amount)
      PROVE  TypeOK'
  BY <1>1, TypePreFund
<1>2. ASSUME NEW a \in Funder, NEW amount \in Amounts, PreRelease(a, amount)
      PROVE  TypeOK'
  BY <1>2, TypePreRelease
<1>3. ASSUME NEW v \in Validator, NEW amount \in Amounts,
             \/ JoinBeforeBootstrap(v, amount)
             \/ JoinAfterBootstrap(v, amount)
             \/ StakeBeforeBootstrap(v, amount)
             \/ StakeAfterBootstrap(v, amount)
             \/ UnstakeBeforeBootstrap(v, amount)
             \/ UnstakeAfterBootstrap(v, amount)
      PROVE  TypeOK'
  BY <1>3, TypeJoinBeforeBootstrap, TypeJoinAfterBootstrap, TypeStakeBeforeBootstrap,
     TypeStakeAfterBootstrap, TypeUnstakeBeforeBootstrap, TypeUnstakeAfterBootstrap
<1>4. ASSUME NEW v \in Validator, LeaveBeforeBootstrap(v) \/ LeaveAfterBootstrap(v) \/ Claim(v)
      PROVE  TypeOK'
  BY <1>4, TypeLeaveBeforeBootstrap, TypeLeaveAfterBootstrap, TypeClaim
<1>5. ASSUME NEW list \in Federations, StartFederation(list)
      PROVE  TypeOK'
  BY <1>5, TypeStartFederation
<1>6. ASSUME NEW v \in Validator, NEW power \in Powers, SetFederatedPower(v, power)
      PROVE  TypeOK'
  BY <1>6, TypeSetFederatedPower
<1>7. ASSUME NEW number \in 0..(nextConfigurationNumber - 1), SubmitCheckpoint(number)
      PROVE  TypeOK'
  BY <1>7, TypeSubmitCheckpoint
<1>8. ASSUME NEW v \in Announcer, AddBootstrapNode(v)
      PROVE  TypeOK'
  BY <1>8, TypeAddBootstrapNode
<1>9. CASE FederateNext \/ ConfirmNext \/ Kill \/ SetPaused
  BY <1>9, TypeFederateNext, TypeConfirmNext, TypeKill, TypeSetPaused
<1>10. CASE UNCHANGED vars
  BY <1>10, UnchangedType DEF vars, TypeOK
<1>11. QED
  BY <1>1, <1>2, <1>3, <1>4, <1>5, <1>6, <1>7, <1>8, <1>9, <1>10 DEF Next

\* Whatever the order of the calls, the state stays well formed: no counter or
\* account goes negative, and the change log holds exactly the changes from
\* startConfigurationNumber to nextConfigurationNumber - 1 (LibStaking, kept by
\* recordChange, purgeChange and the loop of confirmChange).
THEOREM TypeCorrect == Spec => []TypeOK
BY InitTypeOK, TypeNext, PTL DEF Spec

-----------------------------------------------------------------------------
(***************************************************************************)
(* The validator set of the subnet actor stays well formed.                *)
(*                                                                         *)
(* ValidatorSetWellFormed speaks of the power of the permission mode, and  *)
(* is not inductive: a deposit moves validators by their collateral in the *)
(* Federated mode too, where power is something else. It is harmless there *)
(* because nobody has power before setFederatedPower and nobody deposits   *)
(* after it, which the other conjuncts say.                                *)
(***************************************************************************)

PowerComesWithFederation ==
    PermissionMode = "Federated" /\ ~bootstrapped /\ federating = <<>> =>
        \A v \in Validator : federatedPower[v] = 0

LogMatchesMode ==
    \A n \in DOMAIN changes :
        (changes[n].op = "SetFederatedPower") <=> (PermissionMode = "Federated")

LogStartsAtBootstrap == ~bootstrapped => nextConfigurationNumber = 1

OnlyFederatedFederates == federating # <<>> => PermissionMode = "Federated"

WellFormedInv ==
    /\ ValidatorSetWellFormed
    /\ PowerComesWithFederation
    /\ LogMatchesMode
    /\ LogStartsAtBootstrap
    /\ OnlyFederatedFederates

LEMMA WellFormedInit == Init => WellFormedInv
<1> SUFFICES ASSUME Init PROVE WellFormedInv
  OBVIOUS
<1>1. activeValidators = {} /\ waitingValidators = {}
  BY DEF Init, ValidatorSetInit
<1>2. Cardinality({}) = 0 /\ ActiveLimit \in Nat
  BY FS_EmptySet, ValidatorSetAssumption
<1>3. ValidatorSetWellFormed
  BY <1>1, <1>2 DEF ValidatorSetWellFormed, SetsAreDisjoint, WaitingOnlyWhenFull,
                    ActiveAreStrongest
<1>4. PowerComesWithFederation
  BY DEF Init, ValidatorSetInit, PowerComesWithFederation
<1>5. LogMatchesMode
  BY DEF Init, LogMatchesMode
<1>6. LogStartsAtBootstrap /\ OnlyFederatedFederates
  BY DEF Init, LogStartsAtBootstrap, OnlyFederatedFederates
<1>7. QED
  BY <1>3, <1>4, <1>5, <1>6 DEF WellFormedInv

\* Nothing that ValidatorSetWellFormed speaks of changes.
LEMMA WellFormedUnchanged ==
    ASSUME ValidatorSetWellFormed,
           UNCHANGED <<confirmedCollateral, federatedPower, activeValidators, waitingValidators>>
    PROVE  ValidatorSetWellFormed'
BY DEF ValidatorSetWellFormed, SetsAreDisjoint, WaitingOnlyWhenFull, ActiveAreStrongest, Power

\* After recording cs every change in the log was there before or is one of cs.
LEMMA RecordChangesContent ==
    ASSUME TypeOK, NEW cs \in Seq(Change), RecordChanges(cs)
    PROVE  \A n \in DOMAIN changes' :
              \/ n \in DOMAIN changes /\ changes'[n] = changes[n]
              \/ \E i \in 1..Len(cs) : changes'[n] = cs[i]
<1>1. /\ startConfigurationNumber \in Nat /\ nextConfigurationNumber \in Nat
      /\ DOMAIN changes = startConfigurationNumber..(nextConfigurationNumber - 1)
      /\ Len(cs) \in Nat
  BY DEF TypeOK, LogTypeOK
<1>2. PICK next \in Nat :
         /\ next = nextConfigurationNumber + Len(cs)
         /\ changes' = [n \in startConfigurationNumber..(next - 1) |->
                           IF n < nextConfigurationNumber
                           THEN changes[n]
                           ELSE cs[n - nextConfigurationNumber + 1]]
  BY <1>1 DEF RecordChanges
<1>3. ASSUME NEW n \in startConfigurationNumber..(next - 1)
      PROVE  \/ n \in DOMAIN changes /\ changes'[n] = changes[n]
             \/ \E i \in 1..Len(cs) : changes'[n] = cs[i]
  <2>1. CASE n < nextConfigurationNumber
    BY <1>1, <1>2, <2>1
  <2>2. CASE ~(n < nextConfigurationNumber)
    <3>1. n - nextConfigurationNumber + 1 \in 1..Len(cs)
      BY <1>1, <1>2, <2>2
    <3>2. changes'[n] = cs[n - nextConfigurationNumber + 1]
      BY <1>2, <2>2
    <3>3. QED
      BY <3>1, <3>2
  <2>3. QED
    BY <2>1, <2>2
<1>4. QED
  BY <1>2, <1>3

\* Confirming a change takes it from the log and leaves the others alone.
LEMMA ConfirmNextContent ==
    ASSUME TypeOK, ConfirmNext
    PROVE  \A n \in DOMAIN changes' : n \in DOMAIN changes /\ changes'[n] = changes[n]
BY DEF ConfirmNext, PurgeChange, TypeOK, LogTypeOK

\* What recording changes adds to the log is of the kind the mode allows.
LEMMA RecordedMatchesMode ==
    ASSUME TypeOK, LogMatchesMode, NEW cs \in Seq(Change), RecordChanges(cs),
           \A i \in 1..Len(cs) :
              (cs[i].op = "SetFederatedPower") <=> (PermissionMode = "Federated")
    PROVE  LogMatchesMode'
BY RecordChangesContent DEF LogMatchesMode

\* Before bootstrap a deposit is confirmed at once.
LEMMA WellFormedDeposit ==
    ASSUME TypeOK, TypeOK', WellFormedInv, StakingOpen, ~bootstrapped,
           NEW v \in Validator, NEW amount \in Nat, DepositWithConfirm(v, amount),
           UNCHANGED <<changes, nextConfigurationNumber, federating>>
    PROVE  WellFormedInv'
<1>1. PermissionMode # "Federated" \/ NoPowerYet
  BY DEF WellFormedInv, PowerComesWithFederation, NoPowerYet, StakingOpen, Idle
<1>2. ConfirmDeposit(v, amount) /\ UNCHANGED federatedPower
  BY DEF DepositWithConfirm, ConfirmDeposit
<1>3. ValidatorSetWellFormed'
  BY <1>1, <1>2, ConfirmDepositWellFormed DEF WellFormedInv, TypeOK
<1>4. QED
  BY <1>1, <1>2, <1>3 DEF WellFormedInv, PowerComesWithFederation, LogMatchesMode,
                          LogStartsAtBootstrap, OnlyFederatedFederates, NoPowerYet

\* Before bootstrap a withdrawal is confirmed at once.
LEMMA WellFormedWithdraw ==
    ASSUME TypeOK, TypeOK', WellFormedInv, StakingOpen, ~bootstrapped,
           NEW v \in Validator, NEW amount \in Nat, WithdrawWithConfirm(v, amount),
           UNCHANGED <<changes, nextConfigurationNumber, federating>>
    PROVE  WellFormedInv'
<1>1. PermissionMode # "Federated" \/ NoPowerYet
  BY DEF WellFormedInv, PowerComesWithFederation, NoPowerYet, StakingOpen, Idle
<1>2. ConfirmWithdraw(v, amount)
  BY DEF WithdrawWithConfirm
<1>3. ValidatorSetWellFormed'
  BY <1>1, <1>2, ConfirmWithdrawWellFormed DEF WellFormedInv, TypeOK
<1>4. PowerComesWithFederation'
  <2>1. PICK gone \in BOOLEAN :
           federatedPower' = [federatedPower EXCEPT ![v] = IF gone THEN 0 ELSE @]
    BY <1>2 DEF ConfirmWithdraw
  <2>2. QED
    BY <1>1, <2>1 DEF PowerComesWithFederation, NoPowerYet, TypeOK, ValidatorSetTypeOK
<1>5. QED
  BY <1>3, <1>4 DEF WellFormedInv, LogMatchesMode, LogStartsAtBootstrap, OnlyFederatedFederates

\* A call after bootstrap only records changes.
LEMMA WellFormedRecord ==
    ASSUME TypeOK, WellFormedInv, bootstrapped, UNCHANGED bootstrapped,
           UNCHANGED <<confirmedCollateral, federatedPower, activeValidators, waitingValidators>>,
           UNCHANGED federating,
           NEW cs \in Seq(Change), RecordChanges(cs),
           \A i \in 1..Len(cs) :
              (cs[i].op = "SetFederatedPower") <=> (PermissionMode = "Federated")
    PROVE  WellFormedInv'
<1>1. ValidatorSetWellFormed'
  BY WellFormedUnchanged DEF WellFormedInv
<1>2. LogMatchesMode'
  BY RecordedMatchesMode DEF WellFormedInv
<1>3. QED
  BY <1>1, <1>2
  DEF WellFormedInv, PowerComesWithFederation, LogStartsAtBootstrap, OnlyFederatedFederates

LEMMA WellFormedConfirmNext ==
    ASSUME TypeOK, TypeOK', WellFormedInv, ConfirmNext
    PROVE  WellFormedInv'
<1> DEFINE c == changes[startConfigurationNumber]
<1>1. c \in Change /\ startConfigurationNumber \in DOMAIN changes
  BY DEF ConfirmNext, TypeOK, LogTypeOK
<1>2. c.validator \in Validator /\ c.amount \in Nat
  BY <1>1 DEF Change
<1>3. (c.op = "SetFederatedPower") <=> (PermissionMode = "Federated")
  BY <1>1 DEF WellFormedInv, LogMatchesMode
<1>4. ValidatorSetWellFormed'
  <2>1. CASE c.op = "SetMetadata"
    BY <2>1, WellFormedUnchanged DEF ConfirmNext, ApplyChange, WellFormedInv
  <2>2. CASE c.op = "SetFederatedPower"
    BY <1>2, <1>3, <2>2, ConfirmFederatedPowerWellFormed
    DEF ConfirmNext, ApplyChange, WellFormedInv, TypeOK
  <2>3. CASE c.op = "Withdraw"
    BY <1>2, <1>3, <2>3, ConfirmWithdrawWellFormed
    DEF ConfirmNext, ApplyChange, WellFormedInv, TypeOK
  <2>4. CASE c.op = "Deposit"
    BY <1>2, <1>3, <2>4, ConfirmDepositWellFormed
    DEF ConfirmNext, ApplyChange, WellFormedInv, TypeOK
  <2>5. QED
    BY <1>1, <2>1, <2>2, <2>3, <2>4 DEF Change, Operations
<1>5. LogMatchesMode'
  BY ConfirmNextContent DEF WellFormedInv, LogMatchesMode
<1>6. bootstrapped /\ bootstrapped'
  <2>1. nextConfigurationNumber # 1
    BY DEF ConfirmNext, TypeOK, LogTypeOK
  <2>2. QED
    BY <2>1 DEF ConfirmNext, lifecycleVars, WellFormedInv, LogStartsAtBootstrap
<1>7. QED
  BY <1>4, <1>5, <1>6
  DEF WellFormedInv, PowerComesWithFederation, LogStartsAtBootstrap, OnlyFederatedFederates,
      ConfirmNext, loopVars

LEMMA WellFormedFederateNext ==
    ASSUME TypeOK, TypeOK', WellFormedInv, FederateNext
    PROVE  WellFormedInv'
<1> DEFINE g == Head(federating)
<1>1. /\ federating \in Seq(GenesisValidator) /\ federating # <<>>
      /\ g \in GenesisValidator
  BY DEF FederateNext, TypeOK, LogTypeOK
<1>2. /\ ConfirmFederatedPower(g.addr, g.weight)
      /\ g.addr \in Validator /\ g.weight \in Nat
      /\ PermissionMode = "Federated"
  BY <1>1 DEF FederateNext, GenesisValidator, WellFormedInv, OnlyFederatedFederates
<1>3. ValidatorSetWellFormed'
  BY <1>2, ConfirmFederatedPowerWellFormed DEF WellFormedInv, TypeOK
<1>4. bootstrapped' \/ (bootstrapped' = bootstrapped /\ federating' # <<>>)
  <2>1. CASE Len(federating) = 1
    BY <2>1 DEF FederateNext
  <2>2. CASE Len(federating) # 1
    <3>1. Tail(federating) # <<>>
      <4>1. Len(federating) \in Nat \ {0, 1}
        BY <1>1, <2>2, EmptySeq
      <4>2. Len(Tail(federating)) = Len(federating) - 1
        BY <1>1
      <4>3. Len(Tail(federating)) # 0
        BY <4>1, <4>2
      <4>4. QED
        BY <4>3, EmptySeq
    <3>2. QED
      BY <2>2, <3>1 DEF FederateNext
  <2>3. QED
    BY <2>1, <2>2
<1>5. UNCHANGED <<changes, nextConfigurationNumber>>
  BY DEF FederateNext, logVars
<1>6. QED
  BY <1>2, <1>3, <1>4, <1>5 DEF WellFormedInv, PowerComesWithFederation, LogMatchesMode,
                                LogStartsAtBootstrap, OnlyFederatedFederates

\* A step that changes neither the validator set nor the log.
LEMMA WellFormedStutter ==
    ASSUME WellFormedInv, UNCHANGED <<validatorSetVars, bootstrapped, logVars>>,
           UNCHANGED federating \/ (federating' # <<>> /\ PermissionMode = "Federated")
    PROVE  WellFormedInv'
<1>1. ValidatorSetWellFormed' /\ UNCHANGED federatedPower
  BY WellFormedUnchanged DEF WellFormedInv, validatorSetVars
<1>2. QED
  BY <1>1 DEF WellFormedInv, PowerComesWithFederation, LogMatchesMode,
              LogStartsAtBootstrap, OnlyFederatedFederates, logVars

\* Every step keeps the sets well formed.
LEMMA WellFormedNext == TypeOK /\ TypeOK' /\ WellFormedInv /\ [Next]_vars => WellFormedInv'
<1> SUFFICES ASSUME TypeOK, TypeOK', WellFormedInv, [Next]_vars
             PROVE  WellFormedInv'
  OBVIOUS
<1>0. \A amount \in Amounts : amount \in Nat
  BY SubnetActorAssumption
<1>1. ASSUME NEW a \in Funder, NEW amount \in Amounts,
             PreFund(a, amount) \/ PreRelease(a, amount)
      PROVE  WellFormedInv'
  BY <1>1, WellFormedStutter DEF PreFund, PreRelease, lifecycleVars, loopVars
<1>2. ASSUME NEW v \in Validator, NEW amount \in Amounts,
             JoinBeforeBootstrap(v, amount) \/ StakeBeforeBootstrap(v, amount)
      PROVE  WellFormedInv'
  BY <1>0, <1>2, WellFormedDeposit
  DEF JoinBeforeBootstrap, StakeBeforeBootstrap, logVars, loopVars
<1>3. ASSUME NEW v \in Validator, NEW amount \in Amounts, UnstakeBeforeBootstrap(v, amount)
      PROVE  WellFormedInv'
  BY <1>0, <1>3, WellFormedWithdraw DEF UnstakeBeforeBootstrap, logVars, loopVars
<1>4. ASSUME NEW v \in Validator, LeaveBeforeBootstrap(v)
      PROVE  WellFormedInv'
  <2>1. totalCollateral[v] \in Nat
    BY DEF TypeOK, ValidatorSetTypeOK
  <2>2. QED
    BY <1>4, <2>1, WellFormedWithdraw DEF LeaveBeforeBootstrap, logVars, loopVars
<1>5. ASSUME NEW v \in Validator, NEW amount \in Amounts, JoinAfterBootstrap(v, amount)
      PROVE  WellFormedInv'
  <2>1. /\ JoinRequests(v, amount) \in Seq(Change)
        /\ \A i \in 1..Len(JoinRequests(v, amount)) :
              JoinRequests(v, amount)[i].op # "SetFederatedPower"
    BY <1>0, RequestType DEF JoinRequests, MetadataRequest, DepositRequest
  <2>2. QED
    BY <1>5, <2>1, WellFormedRecord
    DEF JoinAfterBootstrap, confirmedVars, lifecycleVars, loopVars, EnforceCollateralValidation
<1>6. ASSUME NEW v \in Validator, NEW amount \in Amounts, StakeAfterBootstrap(v, amount)
      PROVE  WellFormedInv'
  <2>1. /\ <<DepositRequest(v, amount)>> \in Seq(Change)
        /\ \A i \in 1..Len(<<DepositRequest(v, amount)>>) :
              <<DepositRequest(v, amount)>>[i].op # "SetFederatedPower"
    BY <1>0, RequestType DEF DepositRequest
  <2>2. QED
    BY <1>6, <2>1, WellFormedRecord
    DEF StakeAfterBootstrap, confirmedVars, lifecycleVars, loopVars, EnforceCollateralValidation
<1>7. ASSUME NEW v \in Validator, NEW amount \in Nat,
             StakingOpen, bootstrapped, EnforceCollateralValidation,
             RecordChanges(<<WithdrawRequest(v, amount)>>),
             UNCHANGED <<confirmedVars, lifecycleVars, loopVars>>
      PROVE  WellFormedInv'
  <2>1. /\ <<WithdrawRequest(v, amount)>> \in Seq(Change)
        /\ \A i \in 1..Len(<<WithdrawRequest(v, amount)>>) :
              <<WithdrawRequest(v, amount)>>[i].op # "SetFederatedPower"
    BY RequestType DEF WithdrawRequest
  <2>2. QED
    BY <1>7, <2>1, WellFormedRecord
    DEF confirmedVars, lifecycleVars, loopVars, EnforceCollateralValidation
<1>8. ASSUME NEW v \in Validator, NEW amount \in Amounts, UnstakeAfterBootstrap(v, amount)
      PROVE  WellFormedInv'
  BY <1>0, <1>7, <1>8 DEF UnstakeAfterBootstrap
<1>9. ASSUME NEW v \in Validator, LeaveAfterBootstrap(v)
      PROVE  WellFormedInv'
  <2>1. totalCollateral[v] \in Nat
    BY DEF TypeOK, ValidatorSetTypeOK
  <2>2. QED
    BY <1>7, <1>9, <2>1 DEF LeaveAfterBootstrap
<1>10. ASSUME NEW list \in Federations, StartFederation(list)
       PROVE  WellFormedInv'
  <2>1. list # <<>>
    BY <1>10, SubnetActorAssumption DEF StartFederation
  <2>2. QED
    BY <1>10, <2>1, WellFormedStutter DEF StartFederation, lifecycleVars
<1>11. ASSUME NEW v \in Validator, NEW power \in Powers, SetFederatedPower(v, power)
       PROVE  WellFormedInv'
  <2>1. /\ <<FederatedPowerRequest(v, power)>> \in Seq(Change)
        /\ \A i \in 1..Len(<<FederatedPowerRequest(v, power)>>) :
              <<FederatedPowerRequest(v, power)>>[i].op = "SetFederatedPower"
    BY RequestType, SubnetActorAssumption DEF FederatedPowerRequest
  <2>2. QED
    BY <1>11, <2>1, WellFormedRecord
    DEF SetFederatedPower, validatorSetVars, lifecycleVars, loopVars
<1>12. ASSUME NEW number \in 0..(nextConfigurationNumber - 1), SubmitCheckpoint(number)
       PROVE  WellFormedInv'
  BY <1>12, WellFormedStutter DEF SubmitCheckpoint, lifecycleVars
<1>13. ASSUME NEW v \in Validator, Claim(v) \/ (v \in Announcer /\ AddBootstrapNode(v))
       PROVE  WellFormedInv'
  BY <1>13, WellFormedStutter DEF Claim, AddBootstrapNode, lifecycleVars, loopVars
<1>14. CASE Kill \/ SetPaused
  BY <1>14, WellFormedStutter DEF Kill, SetPaused, loopVars
<1>15. CASE UNCHANGED vars
  BY <1>15, WellFormedStutter DEF vars, lifecycleVars, loopVars
<1>16. QED
  BY <1>1, <1>2, <1>3, <1>4, <1>5, <1>6, <1>8, <1>9, <1>10, <1>11, <1>12, <1>13, <1>14, <1>15,
     WellFormedConfirmNext, WellFormedFederateNext, SubnetActorAssumption
  DEF Next

\* The inductive invariant behind the theorem below holds (LibStaking 573-616).
THEOREM WellFormedInvariant == Spec => []WellFormedInv
BY TypeCorrect, WellFormedInit, WellFormedNext, PTL DEF Spec

\* Whatever order joins, stakes, unstakes, leaves, confirmations and changes of
\* federated power come in, the active set and the waiting set are disjoint, the
\* active set is within its limit and full before anyone waits, and nobody waits
\* who is stronger than an active validator (increaseReshuffle, reduceReshuffle).
THEOREM WellFormed == Spec => []ValidatorSetWellFormed
<1>1. WellFormedInv => ValidatorSetWellFormed
  BY DEF WellFormedInv
<1>2. QED
  BY <1>1, WellFormedInvariant, PTL

-----------------------------------------------------------------------------
(***************************************************************************)
(* Who is a member of the validator set, and what the genesis lists say of *)
(* the members.                                                            *)
(***************************************************************************)

\* The steps that confirm collateral or power, as opposed to recording it.
LEMMA ConfirmingSteps ==
    ASSUME TypeOK, [Next]_vars
    PROVE  \/ UNCHANGED confirmedVars
           \/ \E v \in Validator, amount \in Amounts :
                 JoinBeforeBootstrap(v, amount) \/ StakeBeforeBootstrap(v, amount)
           \/ \E v \in Validator, amount \in Amounts : UnstakeBeforeBootstrap(v, amount)
           \/ \E v \in Validator : LeaveBeforeBootstrap(v)
           \/ FederateNext
           \/ ConfirmNext
<1>1. ASSUME NEW a \in Funder, NEW amount \in Amounts,
             PreFund(a, amount) \/ PreRelease(a, amount)
      PROVE  UNCHANGED confirmedVars
  BY <1>1 DEF PreFund, PreRelease, validatorSetVars, confirmedVars
<1>2. ASSUME NEW v \in Validator, NEW amount \in Amounts,
             \/ JoinAfterBootstrap(v, amount)
             \/ StakeAfterBootstrap(v, amount)
             \/ UnstakeAfterBootstrap(v, amount)
      PROVE  UNCHANGED confirmedVars
  BY <1>2 DEF JoinAfterBootstrap, StakeAfterBootstrap, UnstakeAfterBootstrap
<1>3. ASSUME NEW v \in Validator, LeaveAfterBootstrap(v) \/ Claim(v)
      PROVE  UNCHANGED confirmedVars
  BY <1>3 DEF LeaveAfterBootstrap, Claim, validatorSetVars, confirmedVars
<1>4. ASSUME NEW list \in Federations, StartFederation(list)
      PROVE  UNCHANGED confirmedVars
  BY <1>4 DEF StartFederation, validatorSetVars, confirmedVars
<1>5. ASSUME NEW v \in Validator, NEW power \in Powers, SetFederatedPower(v, power)
      PROVE  UNCHANGED confirmedVars
  BY <1>5 DEF SetFederatedPower, validatorSetVars, confirmedVars
<1>6. ASSUME NEW number \in 0..(nextConfigurationNumber - 1), SubmitCheckpoint(number)
      PROVE  UNCHANGED confirmedVars
  BY <1>6 DEF SubmitCheckpoint, validatorSetVars, confirmedVars
<1>7. ASSUME NEW v \in Announcer, AddBootstrapNode(v)
      PROVE  UNCHANGED confirmedVars
  BY <1>7 DEF AddBootstrapNode, validatorSetVars, confirmedVars
<1>8. CASE Kill \/ SetPaused
  BY <1>8 DEF Kill, SetPaused, validatorSetVars, confirmedVars
<1>9. CASE UNCHANGED vars
  BY <1>9 DEF vars, validatorSetVars, confirmedVars
<1>10. QED
  BY <1>1, <1>2, <1>3, <1>4, <1>5, <1>6, <1>7, <1>8, <1>9 DEF Next

-----------------------------------------------------------------------------
(***************************************************************************)
(* Members have collateral. The log must never hold an empty deposit or    *)
(* withdrawal: an empty deposit would make a member without collateral.    *)
(***************************************************************************)

LogPositive ==
    \A n \in DOMAIN changes :
        changes[n].op \in {"Deposit", "Withdraw"} => changes[n].amount # 0

MembershipInv == MembersHaveCollateral /\ LogPositive

\* A call never records an empty change.
LEMMA RecordedPositive ==
    ASSUME TypeOK, LogPositive, NEW cs \in Seq(Change), RecordChanges(cs),
           \A i \in 1..Len(cs) : cs[i].op \in {"Deposit", "Withdraw"} => cs[i].amount # 0
    PROVE  LogPositive'
BY RecordChangesContent DEF LogPositive

\* Every call that records collateral records a positive amount.
LEMMA LogPositiveNext == TypeOK /\ LogPositive /\ [Next]_vars => LogPositive'
<1> SUFFICES ASSUME TypeOK, LogPositive, [Next]_vars PROVE LogPositive'
  OBVIOUS
<1>0. ASSUME UNCHANGED changes PROVE LogPositive'
  BY <1>0 DEF LogPositive
<1>1. ASSUME NEW a \in Funder, NEW amount \in Amounts,
             PreFund(a, amount) \/ PreRelease(a, amount)
      PROVE  LogPositive'
  BY <1>0, <1>1 DEF PreFund, PreRelease, logVars
<1>2. ASSUME NEW v \in Validator, NEW amount \in Amounts,
             \/ JoinBeforeBootstrap(v, amount)
             \/ StakeBeforeBootstrap(v, amount)
             \/ UnstakeBeforeBootstrap(v, amount)
      PROVE  LogPositive'
  BY <1>0, <1>2 DEF JoinBeforeBootstrap, StakeBeforeBootstrap, UnstakeBeforeBootstrap, logVars
<1>3. ASSUME NEW v \in Validator, LeaveBeforeBootstrap(v) \/ Claim(v)
      PROVE  LogPositive'
  BY <1>0, <1>3 DEF LeaveBeforeBootstrap, Claim, logVars
<1>4. ASSUME NEW v \in Validator, NEW amount \in Amounts, JoinAfterBootstrap(v, amount)
      PROVE  LogPositive'
  <2>1. amount \in Nat \ {0}
    BY SubnetActorAssumption
  <2>2. JoinRequests(v, amount) \in Seq(Change)
    BY <2>1, RequestType DEF JoinRequests
  <2>3. \A i \in 1..Len(JoinRequests(v, amount)) :
           JoinRequests(v, amount)[i].op \in {"Deposit", "Withdraw"} =>
              JoinRequests(v, amount)[i].amount # 0
    BY <2>1 DEF JoinRequests, MetadataRequest, DepositRequest
  <2>4. QED
    BY <1>4, <2>2, <2>3, RecordedPositive DEF JoinAfterBootstrap
<1>5. ASSUME NEW v \in Validator, NEW amount \in Amounts, StakeAfterBootstrap(v, amount)
      PROVE  LogPositive'
  <2>1. amount \in Nat \ {0}
    BY SubnetActorAssumption
  <2>2. <<DepositRequest(v, amount)>> \in Seq(Change)
    BY <2>1, RequestType
  <2>3. \A i \in 1..Len(<<DepositRequest(v, amount)>>) :
           <<DepositRequest(v, amount)>>[i].amount # 0
    BY <2>1 DEF DepositRequest
  <2>4. QED
    BY <1>5, <2>2, <2>3, RecordedPositive DEF StakeAfterBootstrap
<1>6. ASSUME NEW v \in Validator, NEW amount \in Nat \ {0},
             RecordChanges(<<WithdrawRequest(v, amount)>>)
      PROVE  LogPositive'
  <2>1. <<WithdrawRequest(v, amount)>> \in Seq(Change)
    BY RequestType
  <2>2. \A i \in 1..Len(<<WithdrawRequest(v, amount)>>) :
           <<WithdrawRequest(v, amount)>>[i].amount # 0
    BY DEF WithdrawRequest
  <2>3. QED
    BY <1>6, <2>1, <2>2, RecordedPositive
<1>7. ASSUME NEW v \in Validator, NEW amount \in Amounts, UnstakeAfterBootstrap(v, amount)
      PROVE  LogPositive'
  BY <1>6, <1>7, SubnetActorAssumption DEF UnstakeAfterBootstrap
<1>8. ASSUME NEW v \in Validator, LeaveAfterBootstrap(v)
      PROVE  LogPositive'
  <2>1. totalCollateral[v] \in Nat \ {0}
    BY <1>8 DEF LeaveAfterBootstrap, TypeOK, ValidatorSetTypeOK
  <2>2. QED
    BY <1>6, <1>8, <2>1 DEF LeaveAfterBootstrap
<1>9. ASSUME NEW list \in Federations, StartFederation(list)
      PROVE  LogPositive'
  BY <1>0, <1>9 DEF StartFederation, logVars
<1>10. ASSUME NEW v \in Validator, NEW power \in Powers, SetFederatedPower(v, power)
       PROVE  LogPositive'
  <2>1. <<FederatedPowerRequest(v, power)>> \in Seq(Change)
    BY RequestType, SubnetActorAssumption
  <2>2. \A i \in 1..Len(<<FederatedPowerRequest(v, power)>>) :
           <<FederatedPowerRequest(v, power)>>[i].op = "SetFederatedPower"
    BY DEF FederatedPowerRequest
  <2>3. QED
    BY <1>10, <2>1, <2>2, RecordedPositive DEF SetFederatedPower
<1>11. ASSUME NEW number \in 0..(nextConfigurationNumber - 1), SubmitCheckpoint(number)
       PROVE  LogPositive'
  BY <1>0, <1>11 DEF SubmitCheckpoint, logVars
<1>12. ASSUME NEW v \in Announcer, AddBootstrapNode(v)
       PROVE  LogPositive'
  BY <1>0, <1>12 DEF AddBootstrapNode, logVars
<1>13. CASE ConfirmNext
  BY <1>13, ConfirmNextContent DEF LogPositive
<1>14. CASE FederateNext \/ Kill \/ SetPaused
  BY <1>0, <1>14 DEF FederateNext, Kill, SetPaused, logVars
<1>15. CASE UNCHANGED vars
  BY <1>0, <1>15 DEF vars, logVars
<1>16. QED
  BY <1>1, <1>2, <1>3, <1>4, <1>5, <1>7, <1>8, <1>9, <1>10, <1>11, <1>12, <1>13, <1>14, <1>15
  DEF Next

\* Every step keeps exactly those with collateral members.
LEMMA MembershipNext ==
    ASSUME PermissionMode # "Federated"
    PROVE  TypeOK /\ WellFormedInv /\ MembershipInv /\ [Next]_vars => MembershipInv'
<1> SUFFICES ASSUME TypeOK, WellFormedInv, MembershipInv, [Next]_vars
             PROVE  MembershipInv'
  OBVIOUS
<1>0. ValidatorSetTypeOK /\ SetsAreDisjoint
  BY DEF TypeOK, WellFormedInv, ValidatorSetWellFormed
<1>1. CASE UNCHANGED confirmedVars
  BY <1>1, LogPositiveNext DEF MembershipInv, MembersHaveCollateral, Members, confirmedVars
<1>2. ASSUME NEW v \in Validator, NEW amount \in Amounts,
             JoinBeforeBootstrap(v, amount) \/ StakeBeforeBootstrap(v, amount)
      PROVE  MembersHaveCollateral'
  <2>1. ConfirmDeposit(v, amount) /\ amount \in Nat \ {0}
    BY <1>2, SubnetActorAssumption
    DEF JoinBeforeBootstrap, StakeBeforeBootstrap, DepositWithConfirm
  <2>2. QED
    BY <1>0, <2>1, ConfirmDepositMembers DEF MembershipInv
<1>3. ASSUME NEW v \in Validator, NEW amount \in Amounts, UnstakeBeforeBootstrap(v, amount)
      PROVE  MembersHaveCollateral'
  <2>1. ConfirmWithdraw(v, amount) /\ amount \in Nat
    BY <1>3, SubnetActorAssumption DEF UnstakeBeforeBootstrap, WithdrawWithConfirm
  <2>2. QED
    BY <1>0, <2>1, ConfirmWithdrawMembers DEF MembershipInv
<1>4. ASSUME NEW v \in Validator, LeaveBeforeBootstrap(v)
      PROVE  MembersHaveCollateral'
  <2>1. ConfirmWithdraw(v, totalCollateral[v]) /\ totalCollateral[v] \in Nat
    BY <1>0, <1>4 DEF LeaveBeforeBootstrap, WithdrawWithConfirm, ValidatorSetTypeOK
  <2>2. QED
    BY <1>0, <2>1, ConfirmWithdrawMembers DEF MembershipInv
<1>5. ASSUME ConfirmNext PROVE MembersHaveCollateral'
  <2> DEFINE c == changes[startConfigurationNumber]
  <2>1. c \in Change /\ startConfigurationNumber \in DOMAIN changes
    BY <1>5 DEF ConfirmNext, TypeOK, LogTypeOK
  <2>2. c.validator \in Validator /\ c.amount \in Nat
    BY <2>1 DEF Change
  <2>3. c.op # "SetFederatedPower"
    BY <2>1 DEF WellFormedInv, LogMatchesMode
  <2>4. c.op = "Deposit" => c.amount # 0
    BY <2>1 DEF MembershipInv, LogPositive
  <2>5. CASE c.op = "SetMetadata"
    BY <1>5, <2>5 DEF ConfirmNext, ApplyChange, MembershipInv, MembersHaveCollateral, Members
  <2>6. CASE c.op = "Withdraw"
    BY <1>0, <1>5, <2>2, <2>6, ConfirmWithdrawMembers DEF ConfirmNext, ApplyChange, MembershipInv
  <2>7. CASE c.op = "Deposit"
    BY <1>0, <1>5, <2>2, <2>4, <2>7, ConfirmDepositMembers
    DEF ConfirmNext, ApplyChange, MembershipInv
  <2>8. QED
    BY <2>1, <2>3, <2>5, <2>6, <2>7, LogPositiveNext DEF Change, Operations, MembershipInv
<1>6. ~FederateNext
  BY DEF FederateNext, WellFormedInv, OnlyFederatedFederates
<1>7. QED
  BY <1>1, <1>2, <1>3, <1>4, <1>5, <1>6, ConfirmingSteps, LogPositiveNext DEF MembershipInv

LEMMA MembershipInit == Init => MembershipInv
<1> SUFFICES ASSUME Init PROVE MembershipInv
  OBVIOUS
<1>1. MembersHaveCollateral
  BY DEF Init, ValidatorSetInit, MembersHaveCollateral, Members
<1>2. DOMAIN changes = {}
  BY DEF Init
<1>3. QED
  BY <1>1, <1>2 DEF MembershipInv, LogPositive

\* Where power is collateral, exactly the validators with confirmed collateral
\* are active or waiting: no join, withdrawal or reshuffle loses a validator or
\* keeps one that has nothing at stake (confirmDeposit, confirmWithdraw).
THEOREM MembersCollateral ==
    ASSUME PermissionMode # "Federated"
    PROVE  Spec => []MembersHaveCollateral
<1>1. TypeOK /\ WellFormedInv /\ MembershipInv /\ [Next]_vars => MembershipInv'
  BY MembershipNext
<1>2. MembershipInv => MembersHaveCollateral
  BY DEF MembershipInv
<1>3. QED
  BY <1>1, <1>2, TypeCorrect, WellFormedInvariant, MembershipInit, PTL DEF Spec

-----------------------------------------------------------------------------
(***************************************************************************)
(* The accounts listed as pre-funded. Three calls write the list or the    *)
(* balances: preFund, preRelease and leave. The last takes an account off  *)
(* the list and leaves its balance, but who leaves has joined, and is in   *)
(* genesisValidators for good.                                             *)
(***************************************************************************)

\* Before bootstrap everybody with collateral is a genesis validator.
DepositorsListed ==
    ~bootstrapped =>
        \A v \in Validator : totalCollateral[v] # 0 => \E g \in genesisValidators : g.addr = v

KeysInv == GenesisKeysFunded /\ DepositorsListed

\* Growing lists of genesis validators keep the list of the pre-funded in order.
LEMMA KeysKept ==
    ASSUME GenesisKeysFunded, UNCHANGED <<genesisBalance, genesisBalanceKeys>>,
           genesisValidators \subseteq genesisValidators'
    PROVE  GenesisKeysFunded'
BY DEF GenesisKeysFunded

\* Nobody gets collateral.
LEMMA DepositorsKept ==
    ASSUME DepositorsListed, bootstrapped => bootstrapped',
           \A v \in Validator : totalCollateral'[v] # 0 => totalCollateral[v] # 0,
           genesisValidators \subseteq genesisValidators'
    PROVE  DepositorsListed'
BY DEF DepositorsListed

\* Nothing of this is changed.
LEMMA KeysUnchanged ==
    ASSUME KeysInv, bootstrapped => bootstrapped', UNCHANGED <<totalCollateral, genesisVars>>
    PROVE  KeysInv'
BY DEF KeysInv, GenesisKeysFunded, DepositorsListed, genesisVars

\* Once the subnet has bootstrapped, collateral no longer matters.
LEMMA KeysAfterBootstrap ==
    ASSUME KeysInv, bootstrapped', UNCHANGED genesisVars
    PROVE  KeysInv'
BY DEF KeysInv, GenesisKeysFunded, DepositorsListed, genesisVars

\* A deposit before bootstrap lists its validator.
LEMMA KeysDeposit ==
    ASSUME TypeOK, KeysInv, NEW v \in Validator, NEW amount, DepositWithConfirm(v, amount),
           UNCHANGED <<genesisBalance, genesisBalanceKeys>>, bootstrapped => bootstrapped'
    PROVE  KeysInv'
<1>1. /\ genesisValidators \subseteq genesisValidators'
      /\ \E g \in genesisValidators' : g.addr = v
  <2>1. genesisValidators' = AddGenesisValidator(v)
    BY DEF DepositWithConfirm
  <2>2. CASE \E g \in genesisValidators : g.addr = v
    BY <2>1, <2>2 DEF AddGenesisValidator
  <2>3. CASE ~\E g \in genesisValidators : g.addr = v
    <3>1. PICK g : g = [addr |-> v, weight |-> confirmedCollateral'[v]]
      OBVIOUS
    <3>2. genesisValidators' = genesisValidators \cup {g} /\ g.addr = v
      BY <2>1, <2>3, <3>1 DEF AddGenesisValidator
    <3>3. QED
      BY <3>2
  <2>4. QED
    BY <2>2, <2>3
<1>2. \A u \in Validator : u # v => totalCollateral'[u] = totalCollateral[u]
  BY DEF DepositWithConfirm, RecordDeposit, TypeOK, ValidatorSetTypeOK
<1>3. DepositorsListed'
  BY <1>1, <1>2 DEF KeysInv, DepositorsListed
<1>4. QED
  BY <1>1, <1>3, KeysKept DEF KeysInv

LEMMA KeysPreFund ==
    ASSUME TypeOK, KeysInv, NEW a \in Funder, NEW amount \in Amounts, PreFund(a, amount)
    PROVE  KeysInv'
<1>1. /\ genesisBalance \in [Validator -> Nat] /\ a \in Validator
      /\ amount \in Nat /\ amount > 0
  BY SubnetActorAssumption DEF TypeOK, GenesisTypeOK
<1>2. /\ genesisBalance' = [genesisBalance EXCEPT ![a] = genesisBalance[a] + amount]
      /\ genesisBalanceKeys' =
            IF genesisBalance[a] = 0 THEN genesisBalanceKeys \cup {a} ELSE genesisBalanceKeys
      /\ UNCHANGED <<bootstrapped, totalCollateral, genesisValidators>>
  BY DEF PreFund, validatorSetVars, lifecycleVars
<1>3. genesisBalance[a] + amount > 0 /\ genesisBalance[a] \in Nat
  BY <1>1
<1>4. \A b \in genesisBalanceKeys' : genesisBalance'[b] > 0
  BY <1>1, <1>2, <1>3 DEF KeysInv, GenesisKeysFunded, TypeOK, GenesisTypeOK
<1>5. ASSUME NEW b \in Validator \ genesisBalanceKeys', genesisBalance'[b] > 0
      PROVE  \E g \in genesisValidators' : g.addr = b
  <2>1. b \notin genesisBalanceKeys /\ genesisBalance[b] > 0
    <3>1. CASE b = a
      BY <1>2, <1>3, <1>5, <3>1
    <3>2. CASE b # a
      BY <1>1, <1>2, <1>5, <3>2
    <3>3. QED
      BY <3>1, <3>2
  <2>2. QED
    BY <1>2, <1>5, <2>1 DEF KeysInv, GenesisKeysFunded
<1>6. DepositorsListed'
  BY <1>2 DEF KeysInv, DepositorsListed
<1>7. QED
  BY <1>4, <1>5, <1>6 DEF KeysInv, GenesisKeysFunded

LEMMA KeysPreRelease ==
    ASSUME TypeOK, KeysInv, NEW a \in Funder, NEW amount \in Amounts, PreRelease(a, amount)
    PROVE  KeysInv'
<1>1. /\ genesisBalance \in [Validator -> Nat] /\ a \in Validator
      /\ amount \in Nat /\ amount > 0
  BY SubnetActorAssumption DEF TypeOK, GenesisTypeOK
<1>2. /\ genesisBalance' = [genesisBalance EXCEPT ![a] = genesisBalance[a] - amount]
      /\ amount <= genesisBalance[a]
      /\ genesisBalanceKeys' =
            IF genesisBalance[a] = amount THEN genesisBalanceKeys \ {a} ELSE genesisBalanceKeys
      /\ UNCHANGED <<bootstrapped, totalCollateral, genesisValidators>>
  BY DEF PreRelease, RmAddressFromBalanceKeys, validatorSetVars, lifecycleVars
<1>3. genesisBalance[a] # amount => genesisBalance[a] - amount > 0
  BY <1>1, <1>2
<1>4. genesisBalance[a] = amount => ~(genesisBalance[a] - amount > 0)
  BY <1>1
<1>5. \A b \in genesisBalanceKeys' : genesisBalance'[b] > 0
  BY <1>1, <1>2, <1>3 DEF KeysInv, GenesisKeysFunded, TypeOK, GenesisTypeOK
<1>6. ASSUME NEW b \in Validator \ genesisBalanceKeys', genesisBalance'[b] > 0
      PROVE  \E g \in genesisValidators' : g.addr = b
  <2>1. b \notin genesisBalanceKeys /\ genesisBalance[b] > 0
    <3>1. CASE b = a
      BY <1>1, <1>2, <1>4, <1>6, <3>1
    <3>2. CASE b # a
      BY <1>1, <1>2, <1>6, <3>2
    <3>3. QED
      BY <3>1, <3>2
  <2>2. QED
    BY <1>2, <1>6, <2>1 DEF KeysInv, GenesisKeysFunded
<1>7. DepositorsListed'
  BY <1>2 DEF KeysInv, DepositorsListed
<1>8. QED
  BY <1>5, <1>6, <1>7 DEF KeysInv, GenesisKeysFunded

\* Who leaves may be taken off the list with a balance, but is a genesis validator.
LEMMA KeysLeave ==
    ASSUME TypeOK, KeysInv, NEW v \in Validator, LeaveBeforeBootstrap(v)
    PROVE  KeysInv'
<1>1. /\ ~bootstrapped /\ totalCollateral[v] # 0
      /\ genesisBalanceKeys' \subseteq genesisBalanceKeys
      /\ genesisBalanceKeys \ {v} \subseteq genesisBalanceKeys'
      /\ UNCHANGED <<bootstrapped, genesisBalance, genesisValidators>>
  BY DEF LeaveBeforeBootstrap, RmAddressFromBalanceKeys, IsValidator, lifecycleVars
<1>2. \E g \in genesisValidators : g.addr = v
  BY <1>1 DEF KeysInv, DepositorsListed
<1>3. GenesisKeysFunded'
  BY <1>1, <1>2 DEF KeysInv, GenesisKeysFunded
<1>4. \A u \in Validator : totalCollateral'[u] # 0 => totalCollateral[u] # 0
  BY <1>1 DEF LeaveBeforeBootstrap, WithdrawWithConfirm, RecordWithdraw, TypeOK,
              ValidatorSetTypeOK
<1>5. QED
  BY <1>1, <1>3, <1>4, DepositorsKept DEF KeysInv

LEMMA KeysUnstake ==
    ASSUME TypeOK, KeysInv, NEW v \in Validator, NEW amount \in Amounts,
           UnstakeBeforeBootstrap(v, amount)
    PROVE  KeysInv'
<1>1. totalCollateral[v] \in Nat /\ amount \in Nat /\ amount > 0
  BY SubnetActorAssumption DEF TypeOK, ValidatorSetTypeOK
<1>2. totalCollateral[v] > amount
  BY DEF UnstakeBeforeBootstrap
<1>3. totalCollateral[v] # 0
  BY <1>1, <1>2
<1>4. \A u \in Validator : totalCollateral'[u] # 0 => totalCollateral[u] # 0
  BY <1>3 DEF UnstakeBeforeBootstrap, WithdrawWithConfirm, RecordWithdraw, TypeOK,
              ValidatorSetTypeOK
<1>5. UNCHANGED <<bootstrapped, genesisVars>>
  BY DEF UnstakeBeforeBootstrap, lifecycleVars
<1>6. DepositorsListed'
  BY <1>4, <1>5, DepositorsKept DEF KeysInv, genesisVars
<1>7. GenesisKeysFunded'
  BY <1>5, KeysKept DEF KeysInv, genesisVars
<1>8. QED
  BY <1>6, <1>7 DEF KeysInv

LEMMA KeysFederate ==
    ASSUME TypeOK, KeysInv, FederateNext
    PROVE  KeysInv'
<1>1. /\ UNCHANGED <<totalCollateral, genesisBalance, genesisBalanceKeys>>
      /\ genesisValidators \subseteq genesisValidators'
      /\ bootstrapped => bootstrapped'
  BY DEF FederateNext
<1>2. QED
  BY <1>1, KeysKept, DepositorsKept DEF KeysInv

LEMMA KeysFundedNext == TypeOK /\ KeysInv /\ [Next]_vars => KeysInv'
<1> SUFFICES ASSUME TypeOK, KeysInv, [Next]_vars
             PROVE  KeysInv'
  OBVIOUS
<1>1. ASSUME NEW v \in Validator, NEW amount \in Amounts,
             JoinBeforeBootstrap(v, amount) \/ StakeBeforeBootstrap(v, amount)
      PROVE  KeysInv'
  <2>1. /\ DepositWithConfirm(v, amount)
        /\ UNCHANGED <<genesisBalance, genesisBalanceKeys>>
        /\ bootstrapped => bootstrapped'
    BY <1>1 DEF JoinBeforeBootstrap, StakeBeforeBootstrap
  <2>2. QED
    BY <2>1, KeysDeposit
<1>2. ASSUME NEW v \in Validator, NEW amount \in Amounts,
             \/ JoinAfterBootstrap(v, amount)
             \/ StakeAfterBootstrap(v, amount)
             \/ UnstakeAfterBootstrap(v, amount)
      PROVE  KeysInv'
  BY <1>2, KeysAfterBootstrap
  DEF JoinAfterBootstrap, StakeAfterBootstrap, UnstakeAfterBootstrap, lifecycleVars
<1>3. ASSUME NEW v \in Validator, LeaveAfterBootstrap(v)
      PROVE  KeysInv'
  BY <1>3, KeysAfterBootstrap DEF LeaveAfterBootstrap, lifecycleVars
<1>4. ASSUME NEW v \in Validator, Claim(v) \/ AddBootstrapNode(v)
      PROVE  KeysInv'
  BY <1>4, KeysUnchanged DEF Claim, AddBootstrapNode, validatorSetVars, lifecycleVars
<1>5. ASSUME NEW list \in Federations, StartFederation(list)
      PROVE  KeysInv'
  BY <1>5, KeysUnchanged DEF StartFederation, validatorSetVars, lifecycleVars
<1>6. ASSUME NEW v \in Validator, NEW power \in Powers, SetFederatedPower(v, power)
      PROVE  KeysInv'
  BY <1>6, KeysUnchanged DEF SetFederatedPower, validatorSetVars, lifecycleVars
<1>7. ASSUME NEW number \in 0..(nextConfigurationNumber - 1), SubmitCheckpoint(number)
      PROVE  KeysInv'
  BY <1>7, KeysUnchanged DEF SubmitCheckpoint, validatorSetVars, lifecycleVars
<1>8. CASE ConfirmNext
  BY <1>8, KeysUnchanged DEF ConfirmNext, lifecycleVars
<1>9. CASE Kill \/ SetPaused \/ UNCHANGED vars
  BY <1>9, KeysUnchanged DEF Kill, SetPaused, vars, validatorSetVars, lifecycleVars
<1>10. QED
  BY <1>1, <1>2, <1>3, <1>4, <1>5, <1>6, <1>7, <1>8, <1>9, KeysPreFund, KeysPreRelease,
     KeysLeave, KeysUnstake, KeysFederate, SubnetActorAssumption DEF Next

\* An account is listed among the pre-funded ones only with a balance, and with a
\* balance it is listed unless it has joined, in every mode and although leave keeps a
\* balance that it paid back on the books (preFund, preRelease, leave,
\* rmAddressFromBalanceKey).
THEOREM KeysFunded == Spec => []GenesisKeysFunded
<1>1. Init => KeysInv
  BY DEF Init, ValidatorSetInit, KeysInv, GenesisKeysFunded, DepositorsListed
<1>2. KeysInv => GenesisKeysFunded
  BY DEF KeysInv
<1>3. QED
  BY <1>1, <1>2, KeysFundedNext, TypeCorrect, PTL DEF Spec

-----------------------------------------------------------------------------
(***************************************************************************)
(* Members and nodes. What makes them inductive is that before             *)
(* bootstrap nothing waits for confirmation: total and confirmed           *)
(* collateral are the same, so that unstake, which leaves some of the      *)
(* total, leaves a member a member.                                        *)
(***************************************************************************)

ConfirmedAtOnce == ~bootstrapped => totalCollateral = confirmedCollateral

GenesisInv ==
    /\ ConfirmedAtOnce
    /\ BootstrapOwnersAreMembers
    /\ GenesisListsMembers

LEMMA GenesisInit == Init => GenesisInv
<1> SUFFICES ASSUME Init PROVE GenesisInv
  OBVIOUS
<1>1. ~bootstrapped /\ genesisValidators = {} /\ bootstrapOwners = {} /\ Members = {}
  BY DEF Init, ValidatorSetInit, Members
<1>2. ConfirmedAtOnce
  BY DEF Init, ValidatorSetInit, ConfirmedAtOnce
<1>3. QED
  BY <1>1, <1>2 DEF GenesisInv, BootstrapOwnersAreMembers, GenesisListsMembers

\* A call that leaves the members alone; an active one may announce a node.
LEMMA GenesisSameMembers ==
    ASSUME GenesisInv,
           UNCHANGED <<bootstrapped, totalCollateral, confirmedCollateral, activeValidators,
                       waitingValidators, genesisValidators>>,
           bootstrapOwners' \subseteq bootstrapOwners \cup activeValidators
    PROVE  GenesisInv'
<1>1. ConfirmedAtOnce'
  BY DEF GenesisInv, ConfirmedAtOnce
<1>2. BootstrapOwnersAreMembers'
  BY DEF GenesisInv, BootstrapOwnersAreMembers, Members
<1>3. GenesisListsMembers'
  BY DEF GenesisInv, GenesisListsMembers, Members
<1>4. QED
  BY <1>1, <1>2, <1>3 DEF GenesisInv

\* After bootstrap only the list of genesis validators matters.
LEMMA GenesisOver ==
    ASSUME GenesisInv, bootstrapped, UNCHANGED <<bootstrapped, genesisValidators>>
    PROVE  GenesisInv'
BY DEF GenesisInv, ConfirmedAtOnce, BootstrapOwnersAreMembers, GenesisListsMembers

\* A deposit before bootstrap lists the new member and may bootstrap the subnet.
LEMMA GenesisDeposit ==
    ASSUME TypeOK, GenesisInv, MembersHaveCollateral, ~bootstrapped,
           PermissionMode # "Federated",
           NEW v \in Validator, NEW amount \in Nat \ {0},
           DepositWithConfirm(v, amount), BootstrapSubnetIfNeeded(amount),
           UNCHANGED <<bootstrapOwners, genesisCircSupply>>
    PROVE  GenesisInv'
<1>1. ValidatorSetTypeOK /\ ConfirmDeposit(v, amount)
  BY DEF TypeOK, DepositWithConfirm
<1>2. Members' = Members \cup {v}
  BY <1>1, ConfirmDepositMembers
<1>3. ConfirmedAtOnce'
  BY <1>1 DEF GenesisInv, ConfirmedAtOnce, ConfirmDeposit, DepositWithConfirm, RecordDeposit,
              ValidatorSetTypeOK
<1>4. BootstrapOwnersAreMembers'
  BY <1>2 DEF GenesisInv, BootstrapOwnersAreMembers
<1>5. GenesisListsMembers'
  <2>1. /\ \A g, h \in genesisValidators : g.addr = h.addr => g = h
        /\ \A u \in Members : \E g \in genesisValidators : g.addr = u
    BY DEF GenesisInv, GenesisListsMembers
  <2>2. CASE \E g \in genesisValidators : g.addr = v
    <3>1. genesisValidators' = genesisValidators
      BY <2>2 DEF DepositWithConfirm, AddGenesisValidator
    <3>2. \A u \in Members' : \E g \in genesisValidators' : g.addr = u
      BY <1>2, <2>1, <2>2, <3>1
    <3>3. \A g, h \in genesisValidators' : g.addr = h.addr => g = h
      BY <2>1, <3>1
    <3>4. QED
      BY <3>2, <3>3 DEF GenesisListsMembers
  <2>3. CASE \A g \in genesisValidators : g.addr # v
    <3>1. PICK new \in {[addr |-> v, weight |-> confirmedCollateral'[v]]} :
             genesisValidators' = genesisValidators \cup {new}
      BY <2>3 DEF DepositWithConfirm, AddGenesisValidator
    <3> new.addr = v
      OBVIOUS
    <3>2. \A g, h \in genesisValidators' : g.addr = h.addr => g = h
      BY <2>1, <2>3, <3>1
    <3>3. \A u \in Members' : \E g \in genesisValidators' : g.addr = u
      BY <1>2, <2>1, <3>1
    <3>4. QED
      BY <3>2, <3>3 DEF GenesisListsMembers
  <2>4. QED
    BY <2>2, <2>3
<1>6. QED
  BY <1>3, <1>4, <1>5 DEF GenesisInv

\* A withdrawal before bootstrap leaves the rest a member.
LEMMA GenesisWithdraw ==
    ASSUME TypeOK, GenesisInv, MembersHaveCollateral, SetsAreDisjoint, ~bootstrapped,
           NEW v \in Validator, NEW amount \in Nat, WithdrawWithConfirm(v, amount),
           UNCHANGED <<bootstrapped, genesisValidators>>,
           bootstrapOwners' \subseteq bootstrapOwners,
           v \in bootstrapOwners' => amount < totalCollateral[v]
    PROVE  GenesisInv'
<1>1. ValidatorSetTypeOK /\ ConfirmWithdraw(v, amount)
  BY DEF TypeOK, WithdrawWithConfirm
<1>2. MembersHaveCollateral' /\ Members \ {v} \subseteq Members' /\ Members' \subseteq Members
  BY <1>1, ConfirmWithdrawMembers
<1>3. totalCollateral = confirmedCollateral
  BY DEF GenesisInv, ConfirmedAtOnce
<1>4. /\ confirmedCollateral \in [Validator -> Nat]
      /\ confirmedCollateral' = [confirmedCollateral EXCEPT ![v] = confirmedCollateral[v] - amount]
      /\ totalCollateral' = [totalCollateral EXCEPT ![v] = totalCollateral[v] - amount]
  BY <1>1 DEF ConfirmWithdraw, WithdrawWithConfirm, RecordWithdraw, ValidatorSetTypeOK
<1>5. v \in bootstrapOwners' => v \in Members'
  <2>1. v \in bootstrapOwners' => confirmedCollateral'[v] > 0
    BY <1>3, <1>4
  <2>2. QED
    BY <1>2, <2>1 DEF MembersHaveCollateral
<1>6. ConfirmedAtOnce'
  BY <1>3, <1>4 DEF ConfirmedAtOnce
<1>7. BootstrapOwnersAreMembers'
  BY <1>2, <1>5 DEF GenesisInv, BootstrapOwnersAreMembers
<1>8. GenesisListsMembers'
  BY <1>2 DEF GenesisInv, GenesisListsMembers
<1>9. QED
  BY <1>6, <1>7, <1>8 DEF GenesisInv

\* Every step keeps the genesis lists in agreement.
LEMMA GenesisNext ==
    ASSUME PermissionMode # "Federated"
    PROVE  /\ TypeOK /\ WellFormedInv /\ MembershipInv /\ GenesisInv /\ [Next]_vars
           => GenesisInv'
<1> SUFFICES ASSUME TypeOK, WellFormedInv, MembershipInv, GenesisInv, [Next]_vars
             PROVE  GenesisInv'
  OBVIOUS
<1>0. MembersHaveCollateral /\ SetsAreDisjoint
  BY DEF MembershipInv, WellFormedInv, ValidatorSetWellFormed
<1>1. ASSUME NEW a \in Funder, NEW amount \in Amounts,
             PreFund(a, amount) \/ PreRelease(a, amount)
      PROVE  GenesisInv'
  BY <1>1, GenesisSameMembers DEF PreFund, PreRelease, validatorSetVars, lifecycleVars
<1>2. ASSUME NEW v \in Validator, NEW amount \in Amounts,
             JoinBeforeBootstrap(v, amount) \/ StakeBeforeBootstrap(v, amount)
      PROVE  GenesisInv'
  <2>1. amount \in Nat \ {0}
    BY SubnetActorAssumption
  <2>2. QED
    BY <1>0, <1>2, <2>1, GenesisDeposit DEF JoinBeforeBootstrap, StakeBeforeBootstrap
<1>3. ASSUME NEW v \in Validator, NEW amount \in Amounts, UnstakeBeforeBootstrap(v, amount)
      PROVE  GenesisInv'
  <2>1. amount \in Nat /\ totalCollateral[v] \in Nat /\ totalCollateral[v] > amount
    BY <1>3, SubnetActorAssumption DEF TypeOK, ValidatorSetTypeOK, UnstakeBeforeBootstrap
  <2>2. amount < totalCollateral[v]
    BY <2>1
  <2>3. QED
    BY <1>0, <1>3, <2>1, <2>2, GenesisWithdraw
    DEF UnstakeBeforeBootstrap, lifecycleVars, genesisVars
<1>4. ASSUME NEW v \in Validator, LeaveBeforeBootstrap(v)
      PROVE  GenesisInv'
  <2>1. totalCollateral[v] \in Nat
    BY DEF TypeOK, ValidatorSetTypeOK
  <2>2. bootstrapOwners' = bootstrapOwners \ {v}
    BY <1>4 DEF LeaveBeforeBootstrap, RemoveBootstrapOwner
  <2>3. QED
    BY <1>0, <1>4, <2>1, <2>2, GenesisWithdraw DEF LeaveBeforeBootstrap, lifecycleVars
<1>5. ASSUME NEW v \in Validator, NEW amount \in Amounts,
             \/ JoinAfterBootstrap(v, amount)
             \/ StakeAfterBootstrap(v, amount)
             \/ UnstakeAfterBootstrap(v, amount)
      PROVE  GenesisInv'
  BY <1>5, GenesisOver
  DEF JoinAfterBootstrap, StakeAfterBootstrap, UnstakeAfterBootstrap, lifecycleVars, genesisVars
<1>6. ASSUME NEW list \in Federations, StartFederation(list)
       PROVE  GenesisInv'
  BY <1>6 DEF StartFederation
<1>7. ASSUME NEW v \in Validator, NEW power \in Powers, SetFederatedPower(v, power)
       PROVE  GenesisInv'
  BY <1>7 DEF SetFederatedPower
<1>8. CASE FederateNext
  BY <1>8 DEF FederateNext, WellFormedInv, OnlyFederatedFederates
<1>9. ASSUME NEW number \in 0..(nextConfigurationNumber - 1), SubmitCheckpoint(number)
       PROVE  GenesisInv'
  BY <1>9, GenesisSameMembers
  DEF SubmitCheckpoint, validatorSetVars, lifecycleVars, genesisVars
<1>10. CASE ConfirmNext
  <2>1. bootstrapped
    BY <1>10 DEF ConfirmNext, TypeOK, LogTypeOK, WellFormedInv, LogStartsAtBootstrap
  <2>2. QED
    BY <1>10, <2>1, GenesisOver DEF ConfirmNext, lifecycleVars, genesisVars
<1>11. ASSUME NEW v \in Validator, LeaveAfterBootstrap(v)
       PROVE  GenesisInv'
  BY <1>11, GenesisOver DEF LeaveAfterBootstrap, lifecycleVars, genesisVars
<1>12. ASSUME NEW v \in Validator, Claim(v) \/ (v \in Announcer /\ AddBootstrapNode(v))
       PROVE  GenesisInv'
  BY <1>12, GenesisSameMembers
  DEF Claim, AddBootstrapNode, validatorSetVars, lifecycleVars, genesisVars
<1>13. CASE Kill \/ SetPaused \/ UNCHANGED vars
  BY <1>13, GenesisSameMembers
  DEF Kill, SetPaused, vars, validatorSetVars, lifecycleVars, genesisVars
<1>14. QED
  BY <1>1, <1>2, <1>3, <1>4, <1>5, <1>6, <1>7, <1>8, <1>9, <1>10, <1>11, <1>12, <1>13,
     SubnetActorAssumption
  DEF Next

\* The inductive invariant behind the two theorems below holds where power is
\* collateral (SubnetActorManagerFacet 26-268 before and after bootstrap).
THEOREM GenesisInvariant ==
    ASSUME PermissionMode # "Federated"
    PROVE  Spec => []GenesisInv
<1>1. TypeOK /\ WellFormedInv /\ MembershipInv /\ [Next]_vars => MembershipInv'
  BY MembershipNext
<1>2. TypeOK /\ WellFormedInv /\ MembershipInv /\ GenesisInv /\ [Next]_vars => GenesisInv'
  BY GenesisNext
<1>3. QED
  BY <1>1, <1>2, TypeCorrect, WellFormedInvariant, MembershipInit, GenesisInit, PTL DEF Spec

\* Before bootstrap a bootstrap node belongs to a member: what leave takes away
\* with the membership no unstake or reshuffle takes away alone
\* (addBootstrapNode, leave).
THEOREM BootstrapOwners ==
    ASSUME PermissionMode # "Federated"
    PROVE  Spec => []BootstrapOwnersAreMembers
<1>1. GenesisInv => BootstrapOwnersAreMembers
  BY DEF GenesisInv
<1>2. QED
  BY <1>1, GenesisInvariant, PTL

\* genesisValidators names nobody twice and, before bootstrap, every member
\* (depositWithConfirm).
THEOREM GenesisLists == Spec => []GenesisListsMembers
<1>1. CASE PermissionMode = "Federated"
  <2>1. GenesisListsMembers
    BY <1>1 DEF GenesisListsMembers
  <2>2. QED
    BY <2>1, PTL
<1>2. CASE PermissionMode # "Federated"
  <2>1. GenesisInv => GenesisListsMembers
    BY DEF GenesisInv
  <2>2. Spec => []GenesisInv
    BY <1>2, GenesisInvariant
  <2>3. QED
    BY <2>1, <2>2, PTL
<1>3. QED
  BY <1>1, <1>2

-----------------------------------------------------------------------------
(***************************************************************************)
(* The stake. Before bootstrap deposits move the total alone, which is     *)
(* harmless only because no subnet is registered before its bootstrap.     *)
(***************************************************************************)

StakeInv ==
    /\ ~bootstrapped => ~gwRegistered
    /\ GatewayStakeMatches

LEMMA StakeUnchanged ==
    ASSUME StakeInv,
           UNCHANGED <<bootstrapped, gwRegistered, gwStake, totalConfirmedCollateral>>
    PROVE  StakeInv'
BY DEF StakeInv, GatewayStakeMatches

\* register: the gateway takes the value without the circulating supply.
LEMMA StakeBootstrap ==
    ASSUME TypeOK, TypeOK', StakeInv, ~bootstrapped, NEW amount,
           BootstrapSubnetIfNeeded(amount)
    PROVE  StakeInv'
<1>1. CASE ActivationThresholdsMet
  <2>1. PICK total \in Nat : totalConfirmedCollateral' = total
    BY DEF TypeOK, ValidatorSetTypeOK
  <2>2. genesisCircSupply \in Nat
    BY DEF TypeOK, GenesisTypeOK
  <2>3. gwStake' = (total + genesisCircSupply) - genesisCircSupply /\ bootstrapped'
    BY <1>1, <2>1 DEF BootstrapSubnetIfNeeded, Register, RegisterValue
  <2>4. (total + genesisCircSupply) - genesisCircSupply = total
    BY <2>1, <2>2
  <2>5. QED
    BY <2>1, <2>3, <2>4 DEF StakeInv, GatewayStakeMatches
<1>2. CASE ~ActivationThresholdsMet
  BY <1>2 DEF BootstrapSubnetIfNeeded, gatewayVars, StakeInv, GatewayStakeMatches
<1>3. QED
  BY <1>1, <1>2

\* addStake and releaseStake follow the confirmed deposit or withdrawal.
LEMMA StakeConfirm ==
    ASSUME PermissionMode # "Federated", TypeOK, WellFormedInv, StakeInv, ConfirmNext
    PROVE  StakeInv'
<1> DEFINE c == changes[startConfigurationNumber]
<1>1. c \in Change /\ startConfigurationNumber \in DOMAIN changes
  BY DEF ConfirmNext, TypeOK, LogTypeOK
<1>2. c.op \in {"SetMetadata", "Withdraw", "Deposit"}
  BY <1>1 DEF Change, Operations, WellFormedInv, LogMatchesMode
<1>3. UNCHANGED bootstrapped
  BY DEF ConfirmNext, lifecycleVars
<1>4. CASE c.op = "SetMetadata"
  BY <1>3, <1>4, StakeUnchanged DEF ConfirmNext, ApplyChange, gatewayVars
<1>5. CASE c.op = "Withdraw"
  BY <1>3, <1>5 DEF ConfirmNext, ApplyChange, ConfirmWithdraw, ReleaseStake, StakeInv,
                    GatewayStakeMatches
<1>6. CASE c.op = "Deposit"
  BY <1>3, <1>6 DEF ConfirmNext, ApplyChange, ConfirmDeposit, AddStake, StakeInv,
                    GatewayStakeMatches
<1>7. QED
  BY <1>2, <1>4, <1>5, <1>6

LEMMA StakeNext ==
    ASSUME PermissionMode # "Federated"
    PROVE  TypeOK /\ TypeOK' /\ WellFormedInv /\ StakeInv /\ [Next]_vars => StakeInv'
<1> SUFFICES ASSUME TypeOK, TypeOK', WellFormedInv, StakeInv, [Next]_vars
             PROVE  StakeInv'
  OBVIOUS
<1>1. ASSUME NEW a \in Funder, NEW amount \in Amounts,
             PreFund(a, amount) \/ PreRelease(a, amount)
      PROVE  StakeInv'
  BY <1>1, StakeUnchanged DEF PreFund, PreRelease, validatorSetVars, lifecycleVars, gatewayVars
<1>2. ASSUME NEW v \in Validator, NEW amount \in Amounts,
             JoinBeforeBootstrap(v, amount) \/ StakeBeforeBootstrap(v, amount)
      PROVE  StakeInv'
  BY <1>2, StakeBootstrap DEF JoinBeforeBootstrap, StakeBeforeBootstrap
<1>3. ASSUME NEW v \in Validator, NEW amount \in Amounts, UnstakeBeforeBootstrap(v, amount)
      PROVE  StakeInv'
  BY <1>3 DEF UnstakeBeforeBootstrap, lifecycleVars, gatewayVars, StakeInv, GatewayStakeMatches
<1>4. ASSUME NEW v \in Validator, LeaveBeforeBootstrap(v)
      PROVE  StakeInv'
  BY <1>4 DEF LeaveBeforeBootstrap, lifecycleVars, gatewayVars, StakeInv, GatewayStakeMatches
<1>5. ASSUME NEW v \in Validator, NEW amount \in Amounts,
             \/ JoinAfterBootstrap(v, amount)
             \/ StakeAfterBootstrap(v, amount)
             \/ UnstakeAfterBootstrap(v, amount)
      PROVE  StakeInv'
  BY <1>5, StakeUnchanged
  DEF JoinAfterBootstrap, StakeAfterBootstrap, UnstakeAfterBootstrap, confirmedVars,
      lifecycleVars, gatewayVars
<1>6. ASSUME NEW v \in Validator, LeaveAfterBootstrap(v) \/ Claim(v)
      PROVE  StakeInv'
  BY <1>6, StakeUnchanged
  DEF LeaveAfterBootstrap, Claim, validatorSetVars, confirmedVars, lifecycleVars, gatewayVars
<1>7. ASSUME NEW list \in Federations, StartFederation(list)
      PROVE  StakeInv'
  BY <1>7 DEF StartFederation
<1>8. ASSUME NEW v \in Validator, NEW power \in Powers, SetFederatedPower(v, power)
      PROVE  StakeInv'
  BY <1>8 DEF SetFederatedPower
<1>9. CASE FederateNext
  BY <1>9 DEF FederateNext, WellFormedInv, OnlyFederatedFederates
<1>10. ASSUME NEW number \in 0..(nextConfigurationNumber - 1), SubmitCheckpoint(number)
       PROVE  StakeInv'
  BY <1>10, StakeUnchanged DEF SubmitCheckpoint, validatorSetVars, lifecycleVars, gatewayVars
<1>11. CASE ConfirmNext
  BY <1>11, StakeConfirm
<1>12. ASSUME NEW v \in Announcer, AddBootstrapNode(v)
       PROVE  StakeInv'
  BY <1>12, StakeUnchanged DEF AddBootstrapNode, validatorSetVars, lifecycleVars, gatewayVars
<1>13. CASE Kill
  BY <1>13 DEF Kill, StakeInv, GatewayStakeMatches
<1>14. CASE SetPaused \/ UNCHANGED vars
  BY <1>14, StakeUnchanged DEF SetPaused, vars, validatorSetVars, lifecycleVars, gatewayVars
<1>15. QED
  BY <1>1, <1>2, <1>3, <1>4, <1>5, <1>6, <1>7, <1>8, <1>9, <1>10, <1>11, <1>12, <1>13, <1>14
  DEF Next

\* SA-02 of specs/PROPERTIES.md holds where power is collateral: whatever is
\* deposited, withdrawn, bootstrapped or killed, the gateway's stake of a
\* registered subnet is the subnet actor's confirmed total (register, addStake,
\* releaseStake, kill). In the Federated mode it does not: see FederatedStake.
THEOREM GatewayStake ==
    ASSUME PermissionMode # "Federated"
    PROVE  Spec => []GatewayStakeMatches
<1>1. Init => StakeInv
  BY DEF Init, StakeInv, GatewayStakeMatches
<1>2. TypeOK /\ TypeOK' /\ WellFormedInv /\ StakeInv /\ [Next]_vars => StakeInv'
  BY StakeNext
<1>3. StakeInv => GatewayStakeMatches
  BY DEF StakeInv
<1>4. QED
  BY <1>1, <1>2, <1>3, TypeCorrect, WellFormedInvariant, PTL DEF Spec

-----------------------------------------------------------------------------
(***************************************************************************)
(* The refinement: the actor's books and log are a CollateralLedger.       *)
(***************************************************************************)

Pendings == [n \in DOMAIN changes |->
                [validator |-> changes[n].validator, delta |-> DeltaOf(changes[n])]]

\* What moves neither book nor log is a stutter of the ledger.
LEMMA LedgerStutter ==
    ASSUME UNCHANGED <<totalCollateral, confirmedCollateral, logVars>>
    PROVE  UNCHANGED Ledger!ledgerVars
BY DEF Ledger!ledgerVars, logVars

\* Moving the total of v by a deposit or a withdrawal.
LEMMA LedgerSupply ==
    ASSUME TypeOK, NEW v \in Validator, NEW amount \in Nat
    PROVE  /\ RecordDeposit(v, amount) => Ledger!Supply(v) /\ Ledger!Delta(v) = amount
           /\ RecordWithdraw(v, amount) => Ledger!Supply(v) /\ Ledger!Delta(v) = -amount
           /\ UNCHANGED totalCollateral => Ledger!Supply(v) /\ Ledger!Delta(v) = 0
<1>1. totalCollateral \in [Validator -> Nat] /\ totalCollateral[v] \in Nat
  BY DEF TypeOK, ValidatorSetTypeOK
<1>2. ASSUME RecordDeposit(v, amount)
      PROVE  Ledger!Supply(v) /\ Ledger!Delta(v) = amount
  <2>1. totalCollateral' = [totalCollateral EXCEPT ![v] = totalCollateral[v] + amount]
    BY <1>2 DEF RecordDeposit
  <2>2. totalCollateral'[v] = totalCollateral[v] + amount
    BY <1>1, <2>1
  <2>3. totalCollateral[v] + amount \in Nat
        /\ (totalCollateral[v] + amount) - totalCollateral[v] = amount
    BY <1>1
  <2>4. QED
    BY <2>1, <2>2, <2>3 DEF Ledger!Supply, Ledger!Delta
<1>3. ASSUME RecordWithdraw(v, amount)
      PROVE  Ledger!Supply(v) /\ Ledger!Delta(v) = -amount
  <2>1. /\ amount <= totalCollateral[v]
        /\ totalCollateral' = [totalCollateral EXCEPT ![v] = totalCollateral[v] - amount]
    BY <1>3 DEF RecordWithdraw
  <2>2. totalCollateral'[v] = totalCollateral[v] - amount
    BY <1>1, <2>1
  <2>3. totalCollateral[v] - amount \in Nat
        /\ (totalCollateral[v] - amount) - totalCollateral[v] = -amount
    BY <1>1, <2>1
  <2>4. QED
    BY <2>1, <2>2, <2>3 DEF Ledger!Supply, Ledger!Delta
<1>4. ASSUME UNCHANGED totalCollateral
      PROVE  Ledger!Supply(v) /\ Ledger!Delta(v) = 0
  BY <1>1, <1>4 DEF Ledger!Supply, Ledger!Delta
<1>5. QED
  BY <1>2, <1>3, <1>4

\* Before bootstrap the log is empty and both books move at once.
LEMMA LedgerDirect ==
    ASSUME TypeOK, WellFormedInv, ~bootstrapped, NEW v \in Validator, NEW amount \in Nat,
           UNCHANGED logVars,
           DepositWithConfirm(v, amount) \/ WithdrawWithConfirm(v, amount)
    PROVE  Ledger!Direct(v)
<1>1. startConfigurationNumber = nextConfigurationNumber
  BY DEF WellFormedInv, LogStartsAtBootstrap, TypeOK, LogTypeOK
<1>2. UNCHANGED <<Pendings, startConfigurationNumber, nextConfigurationNumber>>
  BY DEF logVars, Pendings
<1>3. confirmedCollateral[v] \in Nat /\ totalCollateral[v] \in Nat
  BY DEF TypeOK, ValidatorSetTypeOK
<1>4. CASE DepositWithConfirm(v, amount)
  <2>1. Ledger!Supply(v) /\ Ledger!Delta(v) = amount
    BY <1>4, LedgerSupply DEF DepositWithConfirm
  <2>2. confirmedCollateral' = [confirmedCollateral EXCEPT ![v] = @ + amount]
    BY <1>4 DEF DepositWithConfirm, ConfirmDeposit
  <2>3. QED
    BY <1>1, <1>2, <2>1, <2>2 DEF Ledger!Direct, Pendings
<1>5. CASE WithdrawWithConfirm(v, amount)
  <2>1. Ledger!Supply(v) /\ Ledger!Delta(v) = -amount
    BY <1>5, LedgerSupply DEF WithdrawWithConfirm
  <2>2. confirmedCollateral' = [confirmedCollateral EXCEPT ![v] = confirmedCollateral[v] - amount]
    BY <1>5 DEF WithdrawWithConfirm, ConfirmWithdraw
  <2>3. confirmedCollateral[v] - amount = confirmedCollateral[v] + (-amount)
    BY <1>3
  <2>4. QED
    BY <1>1, <1>2, <2>1, <2>2, <2>3 DEF Ledger!Direct, Pendings
<1>6. QED
  BY <1>4, <1>5

\* One change at the end of the log.
LEMMA LedgerRecordOne ==
    ASSUME TypeOK, NEW v \in Validator, NEW c \in Change, c.validator = v,
           RecordChanges(<<c>>), UNCHANGED confirmedCollateral,
           Ledger!Supply(v), DeltaOf(c) = Ledger!Delta(v)
    PROVE  Ledger!Record(v, 0)
<1>1. startConfigurationNumber \in Nat /\ nextConfigurationNumber \in Nat
      /\ DOMAIN changes = startConfigurationNumber..(nextConfigurationNumber - 1)
  BY DEF TypeOK, LogTypeOK
<1>2. Len(<<c>>) = 1 /\ <<c>>[1] = c
  OBVIOUS
<1>3. /\ nextConfigurationNumber' = nextConfigurationNumber + 1
      /\ startConfigurationNumber' = startConfigurationNumber
      /\ changes' = [n \in startConfigurationNumber..nextConfigurationNumber |->
                       IF n < nextConfigurationNumber THEN changes[n]
                       ELSE <<c>>[n - nextConfigurationNumber + 1]]
  BY <1>1, <1>2 DEF RecordChanges
<1>4. \A n \in startConfigurationNumber..nextConfigurationNumber :
          /\ n < nextConfigurationNumber => changes'[n] = changes[n] /\ n \in DOMAIN changes
          /\ ~(n < nextConfigurationNumber) => changes'[n] = c /\ n = nextConfigurationNumber
  BY <1>1, <1>2, <1>3
<1>5. [n \in DOMAIN changes' |->
         [validator |-> changes'[n].validator, delta |-> DeltaOf(changes'[n])]]
      = [n \in startConfigurationNumber..nextConfigurationNumber |->
           IF n < nextConfigurationNumber THEN Pendings[n]
           ELSE [validator |-> v,
                 delta |-> IF n = nextConfigurationNumber THEN Ledger!Delta(v) ELSE 0]]
  BY <1>3, <1>4 DEF Pendings
<1>6. nextConfigurationNumber + 0 = nextConfigurationNumber
  BY <1>1
<1>7. QED
  BY <1>3, <1>5, <1>6 DEF Ledger!Record, Pendings

\* join: the empty metadata change, then the deposit.
LEMMA LedgerRecordJoin ==
    ASSUME TypeOK, NEW v \in Validator, NEW amount \in Nat,
           RecordChanges(JoinRequests(v, amount)), UNCHANGED confirmedCollateral,
           Ledger!Supply(v), Ledger!Delta(v) = amount
    PROVE  Ledger!Record(v, 1)
<1> DEFINE cs == JoinRequests(v, amount)
<1>1. startConfigurationNumber \in Nat /\ nextConfigurationNumber \in Nat
      /\ DOMAIN changes = startConfigurationNumber..(nextConfigurationNumber - 1)
  BY DEF TypeOK, LogTypeOK
<1>2. /\ Len(cs) = 2
      /\ cs[1].validator = v /\ DeltaOf(cs[1]) = 0
      /\ cs[2].validator = v /\ DeltaOf(cs[2]) = amount
  BY DEF JoinRequests, MetadataRequest, DepositRequest, DeltaOf
<1> HIDE DEF cs
<1>3. /\ nextConfigurationNumber' = nextConfigurationNumber + 2
      /\ startConfigurationNumber' = startConfigurationNumber
      /\ changes' = [n \in startConfigurationNumber..(nextConfigurationNumber + 1) |->
                       IF n < nextConfigurationNumber THEN changes[n]
                       ELSE cs[n - nextConfigurationNumber + 1]]
  <2>1. nextConfigurationNumber + 2 - 1 = nextConfigurationNumber + 1
    BY <1>1
  <2>2. QED
    BY <1>1, <1>2, <2>1 DEF RecordChanges, cs
<1>4. \A n \in startConfigurationNumber..(nextConfigurationNumber + 1) :
          /\ n < nextConfigurationNumber => changes'[n] = changes[n] /\ n \in DOMAIN changes
          /\ n = nextConfigurationNumber => changes'[n] = cs[1]
          /\ n = nextConfigurationNumber + 1 => changes'[n] = cs[2]
          /\ \/ n < nextConfigurationNumber
             \/ n = nextConfigurationNumber
             \/ n = nextConfigurationNumber + 1
  BY <1>1, <1>3
<1>5. [n \in DOMAIN changes' |->
         [validator |-> changes'[n].validator, delta |-> DeltaOf(changes'[n])]]
      = [n \in startConfigurationNumber..(nextConfigurationNumber + 1) |->
           IF n < nextConfigurationNumber THEN Pendings[n]
           ELSE [validator |-> v,
                 delta |-> IF n = nextConfigurationNumber + 1 THEN Ledger!Delta(v) ELSE 0]]
  <2>1. DOMAIN changes' = startConfigurationNumber..(nextConfigurationNumber + 1)
    BY <1>3
  <2>2. ASSUME NEW n \in startConfigurationNumber..(nextConfigurationNumber + 1)
        PROVE  [validator |-> changes'[n].validator, delta |-> DeltaOf(changes'[n])]
               = IF n < nextConfigurationNumber THEN Pendings[n]
                 ELSE [validator |-> v,
                       delta |-> IF n = nextConfigurationNumber + 1 THEN Ledger!Delta(v) ELSE 0]
    <3>1. CASE n < nextConfigurationNumber
      BY <1>4, <3>1 DEF Pendings
    <3>2. CASE n = nextConfigurationNumber
      BY <1>1, <1>2, <1>4, <3>2
    <3>3. CASE n = nextConfigurationNumber + 1
      BY <1>1, <1>2, <1>4, <3>3
    <3>4. QED
      BY <1>4, <3>1, <3>2, <3>3
  <2>3. QED
    BY <2>1, <2>2
<1>6. (nextConfigurationNumber + 1) + 1 = nextConfigurationNumber + 2
  BY <1>1
<1>7. QED
  BY <1>3, <1>5, <1>6 DEF Ledger!Record, Pendings

\* Confirming the head of the log is the ledger's Confirm.
LEMMA LedgerConfirm ==
    ASSUME TypeOK, ConfirmNext
    PROVE  Ledger!Confirm
<1> DEFINE c == changes[startConfigurationNumber]
<1>1. /\ startConfigurationNumber \in Nat /\ nextConfigurationNumber \in Nat
      /\ DOMAIN changes = startConfigurationNumber..(nextConfigurationNumber - 1)
      /\ startConfigurationNumber < nextConfigurationNumber
      /\ startConfigurationNumber \in DOMAIN changes
  BY DEF ConfirmNext, TypeOK, LogTypeOK
<1>2. c \in Change
  BY <1>1 DEF TypeOK, LogTypeOK
<1>3. c.op \in Operations /\ c.validator \in Validator /\ c.amount \in Nat
  BY <1>2 DEF Change
<1>4. confirmedCollateral \in [Validator -> Nat] /\ confirmedCollateral[c.validator] \in Nat
  BY <1>3 DEF TypeOK, ValidatorSetTypeOK
<1> HIDE DEF c
<1>5. confirmedCollateral' = [confirmedCollateral EXCEPT ![c.validator] = @ + DeltaOf(c)]
  <2>0. ApplyChange(c)
    BY DEF ConfirmNext, c
  <2>1. CASE c.op = "SetMetadata" \/ c.op = "SetFederatedPower"
    <3>1. confirmedCollateral' = confirmedCollateral /\ DeltaOf(c) = 0
      BY <2>0, <2>1 DEF ApplyChange, ConfirmFederatedPower, DeltaOf
    <3>2. QED
      BY <1>4, <3>1
  <2>2. CASE c.op = "Withdraw"
    <3>1. /\ confirmedCollateral' =
                [confirmedCollateral EXCEPT ![c.validator] = confirmedCollateral[c.validator] - c.amount]
          /\ DeltaOf(c) = -c.amount
      BY <2>0, <2>2 DEF ApplyChange, ConfirmWithdraw, DeltaOf
    <3>2. confirmedCollateral[c.validator] - c.amount = confirmedCollateral[c.validator] + (-c.amount)
      BY <1>3, <1>4
    <3>3. QED
      BY <3>1, <3>2
  <2>3. CASE c.op = "Deposit"
    BY <2>0, <2>3 DEF ApplyChange, ConfirmDeposit, DeltaOf
  <2>4. QED
    BY <1>3, <2>1, <2>2, <2>3 DEF Operations
<1>6. /\ changes' = [n \in (startConfigurationNumber + 1)..(nextConfigurationNumber - 1) |-> changes[n]]
      /\ startConfigurationNumber' = startConfigurationNumber + 1
      /\ UNCHANGED <<nextConfigurationNumber, totalCollateral>>
  BY DEF ConfirmNext, PurgeChange
<1>7. [n \in DOMAIN changes' |->
         [validator |-> changes'[n].validator, delta |-> DeltaOf(changes'[n])]]
      = [n \in (startConfigurationNumber + 1)..(nextConfigurationNumber - 1) |-> Pendings[n]]
  <2>1. \A n \in (startConfigurationNumber + 1)..(nextConfigurationNumber - 1) :
           n \in DOMAIN changes /\ changes'[n] = changes[n]
    BY <1>1, <1>6
  <2>2. QED
    BY <1>6, <2>1 DEF Pendings
<1>8. Pendings[startConfigurationNumber] = [validator |-> c.validator, delta |-> DeltaOf(c)]
  BY <1>1 DEF Pendings, c
<1>9. QED
  BY <1>1, <1>5, <1>6, <1>7, <1>8 DEF Ledger!Confirm, Pendings

LEMMA LedgerInitially == Init => Ledger!Init
<1> SUFFICES ASSUME Init PROVE Ledger!Init
  OBVIOUS
<1>1. DOMAIN changes = {}
  BY DEF Init
<1>2. QED
  BY <1>1 DEF Init, ValidatorSetInit, Ledger!Init

\* Every step of the actor is a step of the ledger or a stutter.
LEMMA LedgerStep ==
    TypeOK /\ WellFormedInv /\ [Next]_vars => [Ledger!Next]_(Ledger!ledgerVars)
<1> SUFFICES ASSUME TypeOK, WellFormedInv, [Next]_vars
             PROVE  Ledger!Next \/ UNCHANGED Ledger!ledgerVars
  OBVIOUS
<1>0. \A amount \in Amounts : amount \in Nat
  BY SubnetActorAssumption
<1>1. ASSUME NEW v \in Validator, NEW amount \in Nat, ~bootstrapped, UNCHANGED logVars,
             DepositWithConfirm(v, amount) \/ WithdrawWithConfirm(v, amount)
      PROVE  Ledger!Next
  BY <1>1, LedgerDirect DEF Ledger!Next
<1>2. ASSUME NEW v \in Validator, NEW amount \in Amounts,
             \/ JoinBeforeBootstrap(v, amount)
             \/ StakeBeforeBootstrap(v, amount)
             \/ UnstakeBeforeBootstrap(v, amount)
      PROVE  Ledger!Next
  BY <1>0, <1>1, <1>2 DEF JoinBeforeBootstrap, StakeBeforeBootstrap, UnstakeBeforeBootstrap, logVars
<1>3. ASSUME NEW v \in Validator, LeaveBeforeBootstrap(v)
      PROVE  Ledger!Next
  <2>1. totalCollateral[v] \in Nat
    BY DEF TypeOK, ValidatorSetTypeOK
  <2>2. QED
    BY <1>1, <1>3, <2>1 DEF LeaveBeforeBootstrap, logVars
<1>4. ASSUME NEW v \in Validator, NEW amount \in Amounts, JoinAfterBootstrap(v, amount)
      PROVE  Ledger!Next
  <2>1. Ledger!Record(v, 1)
    BY <1>0, <1>4, LedgerSupply, LedgerRecordJoin DEF JoinAfterBootstrap, confirmedVars
  <2>2. QED
    BY <2>1 DEF Ledger!Next
<1>5. ASSUME NEW v \in Validator, NEW amount \in Amounts, StakeAfterBootstrap(v, amount)
      PROVE  Ledger!Next
  <2>1. /\ DepositRequest(v, amount) \in Change /\ DepositRequest(v, amount).validator = v
        /\ DeltaOf(DepositRequest(v, amount)) = amount
    BY <1>0, RequestType DEF DepositRequest, DeltaOf
  <2>2. Ledger!Supply(v) /\ Ledger!Delta(v) = amount
    BY <1>0, <1>5, LedgerSupply DEF StakeAfterBootstrap
  <2>3. Ledger!Record(v, 0)
    BY <1>5, <2>1, <2>2, LedgerRecordOne DEF StakeAfterBootstrap, confirmedVars
  <2>4. QED
    BY <2>3 DEF Ledger!Next
<1>6. ASSUME NEW v \in Validator, NEW amount \in Nat, UNCHANGED confirmedVars,
             RecordChanges(<<WithdrawRequest(v, amount)>>), RecordWithdraw(v, amount)
      PROVE  Ledger!Next
  <2>1. /\ WithdrawRequest(v, amount) \in Change /\ WithdrawRequest(v, amount).validator = v
        /\ DeltaOf(WithdrawRequest(v, amount)) = -amount
    BY RequestType DEF WithdrawRequest, DeltaOf
  <2>2. Ledger!Supply(v) /\ Ledger!Delta(v) = -amount
    BY <1>6, LedgerSupply
  <2>3. Ledger!Record(v, 0)
    BY <1>6, <2>1, <2>2, LedgerRecordOne DEF confirmedVars
  <2>4. QED
    BY <2>3 DEF Ledger!Next
<1>7. ASSUME NEW v \in Validator, NEW amount \in Amounts, UnstakeAfterBootstrap(v, amount)
      PROVE  Ledger!Next
  BY <1>0, <1>6, <1>7 DEF UnstakeAfterBootstrap
<1>8. ASSUME NEW v \in Validator, LeaveAfterBootstrap(v)
      PROVE  Ledger!Next
  <2>1. totalCollateral[v] \in Nat
    BY DEF TypeOK, ValidatorSetTypeOK
  <2>2. QED
    BY <1>6, <1>8, <2>1 DEF LeaveAfterBootstrap
<1>9. ASSUME NEW v \in Validator, NEW power \in Powers, SetFederatedPower(v, power)
      PROVE  Ledger!Next
  <2>1. /\ FederatedPowerRequest(v, power) \in Change
        /\ FederatedPowerRequest(v, power).validator = v
        /\ DeltaOf(FederatedPowerRequest(v, power)) = 0
    BY RequestType, SubnetActorAssumption DEF FederatedPowerRequest, DeltaOf
  <2>2. UNCHANGED <<totalCollateral, confirmedCollateral>>
    BY <1>9 DEF SetFederatedPower, validatorSetVars
  <2>3. Ledger!Supply(v) /\ Ledger!Delta(v) = 0
    BY <2>2, LedgerSupply
  <2>4. Ledger!Record(v, 0)
    BY <1>9, <2>1, <2>2, <2>3, LedgerRecordOne DEF SetFederatedPower
  <2>5. QED
    BY <2>4 DEF Ledger!Next
<1>10. CASE FederateNext
  <2>1. UNCHANGED <<totalCollateral, confirmedCollateral, logVars>>
    BY <1>10 DEF FederateNext, ConfirmFederatedPower
  <2>2. QED
    BY <2>1, LedgerStutter
<1>11. CASE ConfirmNext
  BY <1>11, LedgerConfirm DEF Ledger!Next
<1>12. ASSUME NEW a \in Funder, NEW amount \in Amounts,
              PreFund(a, amount) \/ PreRelease(a, amount)
       PROVE  UNCHANGED Ledger!ledgerVars
  BY <1>12, LedgerStutter DEF PreFund, PreRelease, validatorSetVars
<1>13. ASSUME NEW list \in Federations, StartFederation(list)
       PROVE  UNCHANGED Ledger!ledgerVars
  BY <1>13, LedgerStutter DEF StartFederation, validatorSetVars
<1>14. ASSUME NEW number \in 0..(nextConfigurationNumber - 1), SubmitCheckpoint(number)
       PROVE  UNCHANGED Ledger!ledgerVars
  BY <1>14, LedgerStutter DEF SubmitCheckpoint, validatorSetVars
<1>15. ASSUME NEW v \in Validator, Claim(v) \/ AddBootstrapNode(v) \/ Kill \/ SetPaused
       PROVE  UNCHANGED Ledger!ledgerVars
  BY <1>15, LedgerStutter DEF Claim, AddBootstrapNode, Kill, SetPaused, validatorSetVars
<1>16. CASE Kill \/ SetPaused \/ UNCHANGED vars
  BY <1>16, LedgerStutter DEF Kill, SetPaused, vars, validatorSetVars
<1>17. QED
  BY <1>2, <1>3, <1>4, <1>5, <1>7, <1>8, <1>9, <1>10, <1>11, <1>12, <1>13, <1>14, <1>15,
     <1>16, SubnetActorAssumption
  DEF Next

\* The subnet actor implements the ledger: join, stake, unstake, leave and the
\* loop of confirmChange are its steps, everything else stutters.
THEOREM LedgerImplemented == Spec => ImplementsLedger
BY LedgerInitially, LedgerStep, TypeCorrect, WellFormedInvariant, PTL
DEF Spec, ImplementsLedger, Ledger!Spec

LedgerFacts ==
    INSTANCE CollateralLedger_proofs WITH
        supplied <- totalCollateral,
        confirmed <- confirmedCollateral,
        pending <- Pendings,
        first <- startConfigurationNumber,
        next <- nextConfigurationNumber

\* Hence no change in the log, in whatever mode and for however many validators,
\* takes collateral that is not confirmed when its turn comes: recordWithdraw
\* looks at the total only, confirmWithdraw subtracts from the confirmed.
THEOREM WithdrawalsCovered == Spec => [](Ledger!NeverOverdrawn /\ Ledger!HeadConfirmable)
<1>1. Ledger!Init => LedgerFacts!Init
  BY DEF Ledger!Init, LedgerFacts!Init, Pendings
<1>2. [Ledger!Next]_(Ledger!ledgerVars) => [LedgerFacts!Next]_(LedgerFacts!ledgerVars)
  BY DEF Ledger!Next, Ledger!Direct, Ledger!Record, Ledger!Confirm, Ledger!Supply,
         Ledger!Delta, Ledger!ledgerVars, LedgerFacts!Next, LedgerFacts!Direct,
         LedgerFacts!Record, LedgerFacts!Confirm, LedgerFacts!Supply, LedgerFacts!Delta,
         LedgerFacts!ledgerVars, Pendings
<1>3. LedgerFacts!NeverOverdrawn /\ LedgerFacts!HeadConfirmable =>
         Ledger!NeverOverdrawn /\ Ledger!HeadConfirmable
  BY DEF Ledger!NeverOverdrawn, Ledger!HeadConfirmable, LedgerFacts!NeverOverdrawn,
         LedgerFacts!HeadConfirmable, Pendings
<1>4. QED
  BY <1>1, <1>2, <1>3, LedgerFacts!LedgerNeverOverdraws, LedgerImplemented, PTL
  DEF ImplementsLedger, Ledger!Spec, LedgerFacts!Spec

-----------------------------------------------------------------------------
(***************************************************************************)
(* Sums over the validators, and over the changes in a log.                *)
(***************************************************************************)

\* A sum over all validators, as the folds of Sums_proofs.
LEMMA SumOverIsSum == ASSUME NEW f PROVE SumOver(f) = Sum(f, Validator)
BY Zenon DEF SumOver, MapThenSumSet, MapThenFoldSet, Sum, SumUpTo, Pick

\* One validator's amount moves, and the sum with it.
LEMMA SumMoves ==
    ASSUME NEW f \in [Validator -> Nat], NEW g \in [Validator -> Nat],
           NEW v \in Validator, \A u \in Validator \ {v} : g[u] = f[u]
    PROVE  /\ SumOver(f) \in Nat /\ SumOver(g) \in Nat
           /\ SumOver(g) + f[v] = SumOver(f) + g[v]
<1>1. IsFiniteSet(Validator)
  BY ValidatorSetAssumption
<1>2. Summable(f, Validator) /\ Sum(f, Validator) \in Nat /\ Sum(g, Validator) \in Nat
  BY <1>1, SumNat
<1>3. Sum(f, Validator) = f[v] + Sum(f, Validator \ {v})
  BY <1>2, SumRemove
<1>5. Sum(g, Validator) = g[v] + Sum(g, Validator \ {v})
  <2>1. Summable(g, Validator)
    BY <1>1, SumNat
  <2> QED  BY <2>1, SumRemove
<1>6. Summable(f, Validator \ {v}) /\ Sum(g, Validator \ {v}) = Sum(f, Validator \ {v})
  <2>1. PICK S : S = Validator \ {v}
    OBVIOUS
  <2>2. IsFiniteSet(S) /\ (\A u \in S : f[u] \in Nat /\ f[u] = g[u])
    BY <1>1, <2>1, FS_Subset
  <2>3. Summable(f, S)
    BY <2>2 DEF Summable
  <2>4. Sum(g, S) = Sum(f, S)
    BY <2>2, <2>3, SumEqual
  <2> QED  BY <2>1, <2>3, <2>4
<1>7. PICK rest : rest = Sum(f, Validator \ {v})
  OBVIOUS
<1>8. rest \in Int
  BY <1>6, <1>7, SumInt
<1>4. f[v] \in Nat /\ g[v] \in Nat
  OBVIOUS
<1> QED
  BY <1>2, <1>3, <1>4, <1>5, <1>6, <1>7, <1>8, SumOverIsSum

\* No term exceeds the sum, and zeros add up to zero.
LEMMA SumBounds ==
    ASSUME NEW f \in [Validator -> Nat]
    PROVE  /\ SumOver(f) \in Nat
           /\ \A v \in Validator : f[v] <= SumOver(f)
           /\ (\A v \in Validator : f[v] = 0) => SumOver(f) = 0
<1>1. IsFiniteSet(Validator)
  BY ValidatorSetAssumption
<1>2. Sum(f, Validator) \in Nat /\ \A v \in Validator : f[v] <= Sum(f, Validator)
  BY <1>1, SumNat
<1>3. ASSUME \A v \in Validator : f[v] = 0 PROVE Sum(f, Validator) = 0
  <2> DEFINE K == {S \in SUBSET Validator : Sum(f, S) = 0}
  <2>1. ASSUME NEW S \in SUBSET Validator, \A U \in SUBSET S : U # S => U \in K
        PROVE  S \in K
    <3>1. CASE S = {}
      BY <3>1, SumEmpty
    <3>2. CASE S # {}
      <4>1. PICK v \in S : S \ {v} # S
        BY <3>2
      <4>2. Summable(f, S)
        BY <1>1, FS_Subset DEF Summable
      <4>3. Sum(f, S) = f[v] + Sum(f, S \ {v})
        BY <4>2, SumRemove
      <4>4. Sum(f, S \ {v}) = 0 /\ f[v] = 0
        BY <1>3, <2>1, <4>1
      <4>5. QED
        BY <4>3, <4>4
    <3>3. QED
      BY <3>1, <3>2
  <2>2. SUBSET Validator \subseteq K
    <3> HIDE DEF K
    <3>1. QED
      BY <1>1, <2>1, SubsetsByInduction
  <2>3. QED
    BY <2>2
<1>4. QED
  BY <1>2, <1>3, SumOverIsSum

\* Pending, for any log.
Matching(log, v, op) == {n \in DOMAIN log : log[n].op = op /\ log[n].validator = v}

PendingIn(log, v, op) == MapThenSumSet(LAMBDA n : log[n].amount, Matching(log, v, op))

\* What one change has in what is pending.
Share(c, v, op) == IF c.op = op /\ c.validator = v THEN c.amount ELSE 0

IsLog(log) == IsFiniteSet(DOMAIN log) /\ \A n \in DOMAIN log : log[n] \in Change

AmountsOf(log) == [n \in DOMAIN log |-> log[n].amount]

\* Pending is about the log of the moment.
LEMMA PendingIsPendingIn ==
    ASSUME NEW v, NEW op
    PROVE  Pending(v, op) = PendingIn(changes, v, op)
BY Zenon DEF Pending, PendingIn, Matching

PendingUpTo(it, log, S) ==
    it = [s \in SUBSET S |-> IF s = {} THEN 0 ELSE log[Pick(s)].amount + it[s \ {Pick(s)}]]

\* What is pending is a sum over part of the log, and none of its changes exceeds
\* it.
LEMMA PendingIsSum ==
    ASSUME NEW log, IsLog(log), NEW v, NEW op
    PROVE  /\ Summable(AmountsOf(log), Matching(log, v, op))
           /\ PendingIn(log, v, op) = Sum(AmountsOf(log), Matching(log, v, op))
           /\ PendingIn(log, v, op) \in Nat
           /\ \A n \in Matching(log, v, op) : log[n].amount <= PendingIn(log, v, op)
<1>1. PICK S : S = Matching(log, v, op)
  OBVIOUS
<1>2. IsFiniteSet(S) /\ S \subseteq DOMAIN log
  BY <1>1, FS_Subset DEF IsLog, Matching
<1>3. PICK f : f = AmountsOf(log)
  OBVIOUS
<1>4. \A n \in S : f[n] = log[n].amount /\ f[n] \in Nat
  BY <1>2, <1>3 DEF IsLog, AmountsOf, Change
<1>5. Summable(f, S) /\ Sum(f, S) \in Nat /\ \A n \in S : f[n] <= Sum(f, S)
  BY <1>2, <1>4, SumNat
<1>6. PICK it : it = CHOOSE i : PendingUpTo(i, log, S)
  OBVIOUS
<1>7. PendingIn(log, v, op) = it[S]
  BY <1>1, <1>6, Zenon DEF PendingIn, MapThenSumSet, MapThenFoldSet, PendingUpTo, Pick
<1>8. ASSUME NEW i PROVE SumUpTo(i, f, S) <=> PendingUpTo(i, log, S)
  <2>1. \A s \in SUBSET S : s # {} => f[Pick(s)] = log[Pick(s)].amount
    BY <1>4, PickIsIn
  <2>2. QED
    BY <2>1 DEF SumUpTo, PendingUpTo
<1>9. \E i : SumUpTo(i, f, S)
  BY <1>5, SumIsFold
<1>10. PendingUpTo(it, log, S)
  BY <1>6, <1>8, <1>9, Zenon
<1>11. it[S] = Sum(f, S)
  BY <1>5, <1>8, <1>10, FoldIsSum
<1>12. QED
  BY <1>1, <1>3, <1>4, <1>5, <1>7, <1>11

\* One change more, at either end.
LEMMA PendingOneMore ==
    ASSUME NEW small, NEW large, IsLog(small), NEW k, NEW c \in Change,
           DOMAIN large = DOMAIN small \cup {k}, k \notin DOMAIN small,
           \A n \in DOMAIN small : large[n] = small[n],
           large[k] = c,
           NEW v, NEW op
    PROVE  /\ IsLog(large)
           /\ PendingIn(large, v, op) = PendingIn(small, v, op) + Share(c, v, op)
<1>1. IsLog(large)
  <2>1. IsFiniteSet(DOMAIN large)
    BY FS_AddElement DEF IsLog
  <2>2. QED
    BY <2>1 DEF IsLog
<1>2. PICK S, f, g : /\ S = Matching(small, v, op)
                     /\ f = AmountsOf(small) /\ g = AmountsOf(large)
  OBVIOUS
<1>3. \A n \in S : f[n] = g[n] /\ n # k
  BY <1>2 DEF AmountsOf, Matching
<1>4. Summable(f, S) /\ PendingIn(small, v, op) = Sum(f, S) /\ Sum(f, S) \in Nat
  BY <1>2, PendingIsSum
<1>5. Summable(g, S) /\ Sum(g, S) = Sum(f, S)
  <2>1. Summable(g, S)
    BY <1>3, <1>4 DEF Summable
  <2>2. QED
    BY <1>3, <1>4, <2>1, SumEqual
<1>6. PendingIn(large, v, op) = Sum(g, Matching(large, v, op))
  BY <1>1, <1>2, PendingIsSum
<1>7. CASE c.op = op /\ c.validator = v
  <2>1. Matching(large, v, op) = S \cup {k} /\ k \notin S
    BY <1>2, <1>7 DEF Matching
  <2>2. g[k] = c.amount /\ c.amount \in Nat
    BY <1>2 DEF AmountsOf, Change
  <2>3. Sum(g, S \cup {k}) = g[k] + Sum(g, S)
    BY <1>5, <2>1, <2>2, SumAdd
  <2>4. Share(c, v, op) = c.amount
    BY <1>7 DEF Share
  <2>5. QED
    BY <1>1, <1>4, <1>5, <1>6, <2>1, <2>2, <2>3, <2>4
<1>8. CASE ~(c.op = op /\ c.validator = v)
  <2>1. Matching(large, v, op) = S
    BY <1>2, <1>8 DEF Matching
  <2>2. Share(c, v, op) = 0
    BY <1>8 DEF Share
  <2>3. QED
    BY <1>1, <1>4, <1>5, <1>6, <2>1, <2>2
<1>9. QED
  BY <1>7, <1>8

\* The log of the subnet actor.
LEMMA ChangesAreLog ==
    ASSUME TypeOK
    PROVE  /\ IsLog(changes)
           /\ \A v, op : Pending(v, op) \in Nat
           /\ startConfigurationNumber \in Nat /\ nextConfigurationNumber \in Nat
           /\ DOMAIN changes = startConfigurationNumber..(nextConfigurationNumber - 1)
           /\ \A n \in DOMAIN changes : changes[n] \in Change
<1>1. /\ startConfigurationNumber \in Nat /\ nextConfigurationNumber \in Nat
      /\ DOMAIN changes = startConfigurationNumber..(nextConfigurationNumber - 1)
      /\ \A n \in DOMAIN changes : changes[n] \in Change
  BY DEF TypeOK, LogTypeOK
<1>2. IsFiniteSet(startConfigurationNumber..(nextConfigurationNumber - 1))
  BY <1>1, FS_Interval
<1>3. IsLog(changes)
  BY <1>1, <1>2 DEF IsLog
<1>4. \A v, op : Pending(v, op) \in Nat
  BY <1>3, PendingIsSum, PendingIsPendingIn
<1>5. QED
  BY <1>1, <1>3, <1>4

\* Recording a change adds its share.
LEMMA PendingRecord ==
    ASSUME TypeOK, NEW c \in Change, RecordChanges(<<c>>), NEW v, NEW op
    PROVE  Pending(v, op)' = Pending(v, op) + Share(c, v, op)
<1>1. PICK new : new = changes'
  OBVIOUS
<1>2. Len(<<c>>) = 1 /\ <<c>>[1] = c
  OBVIOUS
<1>3. new = [n \in startConfigurationNumber..nextConfigurationNumber |->
                IF n < nextConfigurationNumber THEN changes[n]
                ELSE <<c>>[n - nextConfigurationNumber + 1]]
  BY <1>1, <1>2, ChangesAreLog DEF RecordChanges
<1>4. /\ DOMAIN new = DOMAIN changes \cup {nextConfigurationNumber}
      /\ nextConfigurationNumber \notin DOMAIN changes
      /\ new[nextConfigurationNumber] = c
      /\ \A n \in DOMAIN changes : new[n] = changes[n]
  <2>1. startConfigurationNumber <= nextConfigurationNumber
    BY DEF TypeOK, LogTypeOK
  <2>2. QED
    BY <1>2, <1>3, <2>1, ChangesAreLog
<1>5. PendingIn(new, v, op) = PendingIn(changes, v, op) + Share(c, v, op)
  BY <1>4, ChangesAreLog, PendingOneMore
<1>6. Pending(v, op)' = PendingIn(new, v, op)
  <2>1. Pending(v, op)' = PendingIn(changes', v, op)
    BY Zenon DEF Pending, PendingIn, Matching, MapThenSumSet, MapThenFoldSet
  <2>2. QED
    BY <1>1, <2>1
<1>7. QED
  BY <1>5, <1>6, PendingIsPendingIn

\* join records a change without an amount first.
LEMMA PendingJoin ==
    ASSUME TypeOK, NEW u \in Validator, NEW amount \in Nat,
           RecordChanges(JoinRequests(u, amount)), NEW v, NEW op
    PROVE  Pending(v, op)' = Pending(v, op) + Share(DepositRequest(u, amount), v, op)
<1>1. PICK new : new = changes'
  OBVIOUS
<1>2. PICK cs, c, d : /\ cs = JoinRequests(u, amount)
                      /\ c = MetadataRequest(u) /\ d = DepositRequest(u, amount)
  OBVIOUS
<1>3. Len(cs) = 2 /\ cs[1] = c /\ cs[2] = d /\ c \in Change /\ d \in Change
  BY <1>2, RequestType DEF JoinRequests
<1>4. PICK last \in Nat : last = nextConfigurationNumber
  BY ChangesAreLog
<1>5. new = [n \in startConfigurationNumber..(last + 1) |->
                IF n < last THEN changes[n] ELSE cs[n - last + 1]]
  <2>1. last + 2 - 1 = last + 1
    BY <1>4
  <2>2. QED
    BY <1>1, <1>2, <1>3, <1>4, <2>1 DEF RecordChanges
<1>6. PICK mid : mid = [n \in startConfigurationNumber..last |-> new[n]]
  OBVIOUS
<1>7. /\ startConfigurationNumber \in Nat /\ startConfigurationNumber <= last
      /\ DOMAIN changes = startConfigurationNumber..(last - 1)
  BY <1>4, ChangesAreLog DEF TypeOK, LogTypeOK
<1>8. /\ DOMAIN mid = DOMAIN changes \cup {last} /\ last \notin DOMAIN changes
      /\ mid[last] = c /\ \A n \in DOMAIN changes : mid[n] = changes[n]
  BY <1>3, <1>4, <1>5, <1>6, <1>7
<1>9. /\ DOMAIN new = DOMAIN mid \cup {last + 1} /\ last + 1 \notin DOMAIN mid
      /\ new[last + 1] = d /\ \A n \in DOMAIN mid : new[n] = mid[n]
  <2>1. (last + 1) - last + 1 = 2
    BY <1>4
  <2>2. QED
    BY <1>3, <1>4, <1>5, <1>6, <1>7, <2>1
<1>10. IsLog(mid) /\ PendingIn(mid, v, op) = PendingIn(changes, v, op) + Share(c, v, op)
  BY <1>3, <1>8, ChangesAreLog, PendingOneMore
<1>11. PendingIn(new, v, op) = PendingIn(mid, v, op) + Share(d, v, op)
  BY <1>3, <1>9, <1>10, PendingOneMore
<1>12. Share(c, v, op) = 0
  BY <1>2 DEF Share, MetadataRequest
<1>13. Pending(v, op)' = PendingIn(new, v, op)
  <2>1. Pending(v, op)' = PendingIn(changes', v, op)
    BY Zenon DEF Pending, PendingIn, Matching, MapThenSumSet, MapThenFoldSet
  <2>2. QED
    BY <1>1, <2>1
<1>14. Pending(v, op) \in Nat /\ Pending(v, op) = PendingIn(changes, v, op)
  BY ChangesAreLog, PendingIsPendingIn
<1>15. QED
  BY <1>2, <1>10, <1>11, <1>12, <1>13, <1>14

\* Confirming a change takes its share away.
LEMMA PendingConfirm ==
    ASSUME TypeOK, ConfirmNext, NEW v, NEW op
    PROVE  Pending(v, op) = Pending(v, op)' + Share(changes[startConfigurationNumber], v, op)
<1>1. PICK new, first : new = changes' /\ first = startConfigurationNumber
  OBVIOUS
<1>2. /\ first \in DOMAIN changes /\ changes[first] \in Change
      /\ new = [n \in (first + 1)..(nextConfigurationNumber - 1) |-> changes[n]]
  <2>1. first \in DOMAIN changes
    BY <1>1, ChangesAreLog DEF ConfirmNext, TypeOK, LogTypeOK
  <2>2. QED
    BY <1>1, <2>1, ChangesAreLog DEF ConfirmNext, PurgeChange
<1>3. /\ DOMAIN changes = DOMAIN new \cup {first} /\ first \notin DOMAIN new
      /\ \A n \in DOMAIN new : changes[n] = new[n]
  BY <1>1, <1>2, ChangesAreLog
<1>4. IsLog(new)
  <2>1. IsFiniteSet(DOMAIN new)
    BY <1>3, ChangesAreLog, FS_Subset DEF IsLog
  <2>2. QED
    BY <1>3, <2>1, ChangesAreLog DEF IsLog
<1>5. PendingIn(changes, v, op) = PendingIn(new, v, op) + Share(changes[first], v, op)
  <2>1. PICK log, c : log = changes /\ c = changes[first]
    OBVIOUS
  <2>2. /\ c \in Change /\ log[first] = c
        /\ DOMAIN log = DOMAIN new \cup {first} /\ first \notin DOMAIN new
        /\ \A n \in DOMAIN new : log[n] = new[n]
    BY <1>2, <1>3, <2>1
  <2>3. PendingIn(log, v, op) = PendingIn(new, v, op) + Share(c, v, op)
    <3>1. IsLog(new) /\ c \in Change /\ log[first] = c
      BY <1>4, <2>2
    <3>2. DOMAIN log = DOMAIN new \cup {first} /\ first \notin DOMAIN new
      BY <2>2
    <3>3. \A n \in DOMAIN new : log[n] = new[n]
      BY <2>2
    <3> QED
      BY ONLY <3>1, <3>2, <3>3, PendingOneMore
  <2>4. QED
    BY <2>1, <2>3
<1>6. Pending(v, op)' = PendingIn(new, v, op)
  <2>1. Pending(v, op)' = PendingIn(changes', v, op)
    BY Zenon DEF Pending, PendingIn, Matching, MapThenSumSet, MapThenFoldSet
  <2>2. QED
    BY <1>1, <2>1
<1>7. QED
  BY <1>1, <1>5, <1>6, PendingIsPendingIn

-----------------------------------------------------------------------------
(***************************************************************************)
(* The running total is the sum of the records.                            *)
(***************************************************************************)

\* The sum of the next records (the prime distributes over the fold).
LEMMA SumOfConfirmed == SumOver(confirmedCollateral)' = SumOver(confirmedCollateral')
BY Zenon DEF SumOver, MapThenSumSet, MapThenFoldSet

LEMMA TotalUnchanged ==
    ASSUME TotalIsSum, UNCHANGED <<confirmedCollateral, totalConfirmedCollateral>>
    PROVE  TotalIsSum'
<1>1. SumOver(confirmedCollateral') = SumOver(confirmedCollateral)
  OBVIOUS
<1>2. QED
  BY <1>1, SumOfConfirmed DEF TotalIsSum

\* One record and the total move by the same amount.
LEMMA TotalMoves ==
    ASSUME TypeOK, TypeOK', TotalIsSum, NEW v \in Validator, NEW new \in Nat,
           confirmedCollateral' = [confirmedCollateral EXCEPT ![v] = new],
           totalConfirmedCollateral' + confirmedCollateral[v] = totalConfirmedCollateral + new
    PROVE  TotalIsSum'
<1>1. PICK f, g, total, newTotal :
         /\ f = confirmedCollateral /\ g = confirmedCollateral'
         /\ total = totalConfirmedCollateral /\ newTotal = totalConfirmedCollateral'
  OBVIOUS
<1>2. /\ f \in [Validator -> Nat] /\ g \in [Validator -> Nat]
      /\ total \in Nat /\ newTotal \in Nat
  BY <1>1 DEF TypeOK, ValidatorSetTypeOK
<1>3. g = [f EXCEPT ![v] = new] /\ g[v] = new /\ f[v] \in Nat /\ newTotal + f[v] = total + new
  BY <1>1, <1>2
<1>4. \A u \in Validator \ {v} : g[u] = f[u]
  BY <1>2, <1>3
<1>5. SumOver(f) \in Nat /\ SumOver(g) \in Nat /\ SumOver(g) + f[v] = SumOver(f) + new
  BY <1>2, <1>3, <1>4, SumMoves
<1>6. total = SumOver(f)
  BY <1>1 DEF TotalIsSum
<1>7. newTotal = SumOver(g)
  BY <1>2, <1>3, <1>5, <1>6
<1>8. QED
  BY <1>1, <1>7, SumOfConfirmed DEF TotalIsSum

\* A confirmed deposit.
LEMMA TotalDeposit ==
    ASSUME TypeOK, TypeOK', TotalIsSum, NEW v \in Validator, NEW amount \in Nat,
           ConfirmDeposit(v, amount)
    PROVE  TotalIsSum'
<1>1. confirmedCollateral[v] \in Nat /\ totalConfirmedCollateral \in Nat
  BY DEF TypeOK, ValidatorSetTypeOK
<1>2. PICK new : new = confirmedCollateral[v] + amount
  OBVIOUS
<1>3. /\ confirmedCollateral' = [confirmedCollateral EXCEPT ![v] = new]
      /\ totalConfirmedCollateral' = totalConfirmedCollateral + amount
  BY <1>2 DEF ConfirmDeposit
<1>4. new \in Nat
      /\ (totalConfirmedCollateral + amount) + confirmedCollateral[v]
         = totalConfirmedCollateral + new
  BY <1>1, <1>2
<1>5. QED
  BY <1>3, <1>4, TotalMoves

\* A confirmed withdrawal.
LEMMA TotalWithdraw ==
    ASSUME TypeOK, TypeOK', TotalIsSum, NEW v \in Validator, NEW amount \in Nat,
           ConfirmWithdraw(v, amount)
    PROVE  TotalIsSum'
<1>1. confirmedCollateral[v] \in Nat /\ totalConfirmedCollateral \in Nat
  BY DEF TypeOK, ValidatorSetTypeOK
<1>2. PICK new : new = confirmedCollateral[v] - amount
  OBVIOUS
<1>3. /\ amount <= confirmedCollateral[v]
      /\ confirmedCollateral' = [confirmedCollateral EXCEPT ![v] = new]
      /\ totalConfirmedCollateral' = totalConfirmedCollateral - amount
  BY <1>2 DEF ConfirmWithdraw
<1>4. new \in Nat
      /\ (totalConfirmedCollateral - amount) + confirmedCollateral[v]
         = totalConfirmedCollateral + new
  BY <1>1, <1>2, <1>3
<1>5. QED
  BY <1>3, <1>4, TotalMoves

\* Every step moves the running total with the records.
LEMMA TotalNext == TypeOK /\ TypeOK' /\ TotalIsSum /\ [Next]_vars => TotalIsSum'
<1> SUFFICES ASSUME TypeOK, TypeOK', TotalIsSum, [Next]_vars PROVE TotalIsSum'
  OBVIOUS
<1>1. CASE UNCHANGED confirmedVars
  BY <1>1, TotalUnchanged DEF confirmedVars
<1>2. ASSUME NEW v \in Validator, NEW amount \in Amounts,
             JoinBeforeBootstrap(v, amount) \/ StakeBeforeBootstrap(v, amount)
      PROVE  TotalIsSum'
  BY <1>2, TotalDeposit, SubnetActorAssumption
  DEF JoinBeforeBootstrap, StakeBeforeBootstrap, DepositWithConfirm
<1>3. ASSUME NEW v \in Validator, NEW amount \in Amounts, UnstakeBeforeBootstrap(v, amount)
      PROVE  TotalIsSum'
  BY <1>3, TotalWithdraw, SubnetActorAssumption DEF UnstakeBeforeBootstrap, WithdrawWithConfirm
<1>4. ASSUME NEW v \in Validator, LeaveBeforeBootstrap(v)
      PROVE  TotalIsSum'
  <2>1. totalCollateral[v] \in Nat
    BY DEF TypeOK, ValidatorSetTypeOK
  <2>2. QED
    BY <1>4, <2>1, TotalWithdraw DEF LeaveBeforeBootstrap, WithdrawWithConfirm
<1>5. CASE FederateNext
  BY <1>5, TotalUnchanged DEF FederateNext, ConfirmFederatedPower
<1>6. CASE ConfirmNext
  <2>1. PICK c : c = changes[startConfigurationNumber]
    OBVIOUS
  <2>2. c.op \in Operations /\ c.validator \in Validator /\ c.amount \in Nat /\ ApplyChange(c)
    BY <1>6, <2>1 DEF ConfirmNext, TypeOK, LogTypeOK, Change
  <2>3. CASE c.op = "SetMetadata" \/ c.op = "SetFederatedPower"
    BY <2>2, <2>3, TotalUnchanged DEF ApplyChange, ConfirmFederatedPower
  <2>4. CASE c.op = "Withdraw"
    BY <2>2, <2>4, TotalWithdraw DEF ApplyChange
  <2>5. CASE c.op = "Deposit"
    BY <2>2, <2>5, TotalDeposit DEF ApplyChange
  <2>6. QED
    BY <2>2, <2>3, <2>4, <2>5 DEF Operations
<1>7. QED
  BY <1>1, <1>2, <1>3, <1>4, <1>5, <1>6, ConfirmingSteps

LEMMA TotalInit == Init => TotalIsSum
<1> SUFFICES ASSUME Init PROVE TotalIsSum
  OBVIOUS
<1>1. /\ confirmedCollateral \in [Validator -> Nat]
      /\ \A v \in Validator : confirmedCollateral[v] = 0
      /\ totalConfirmedCollateral = 0
  BY DEF Init, ValidatorSetInit
<1>2. QED
  BY <1>1, SumBounds DEF TotalIsSum

\* SA-05 of specs/PROPERTIES.md, in every permission mode: the total that
\* activation decides on is the sum of all confirmed collateral (confirmDeposit,
\* confirmWithdraw).
THEOREM TotalCollateral == Spec => []TotalIsSum
BY TotalInit, TotalNext, TypeCorrect, PTL DEF Spec

-----------------------------------------------------------------------------
(***************************************************************************)
(* The two books differ by the log.                                        *)
(***************************************************************************)

Agrees(v) ==
    totalCollateral[v] + Pending(v, "Withdraw") = confirmedCollateral[v] + Pending(v, "Deposit")

\* The log does not move, nor what is pending.
LEMMA PendingUnchanged ==
    ASSUME UNCHANGED changes, NEW v, NEW op
    PROVE  Pending(v, op)' = Pending(v, op)
<1>1. Pending(v, op)' = PendingIn(changes', v, op)
  BY Zenon DEF Pending, PendingIn, Matching, MapThenSumSet, MapThenFoldSet
<1>2. QED
  BY <1>1, PendingIsPendingIn

\* Pending is typed after a step as before it.
LEMMA PendingAfter == ASSUME TypeOK', NEW v, NEW op PROVE Pending(v, op)' \in Nat
<1>1. PICK new, first, next :
         new = changes' /\ first = startConfigurationNumber' /\ next = nextConfigurationNumber'
  OBVIOUS
<1>2. first \in Nat /\ next \in Nat /\ new \in [first..(next - 1) -> Change]
  <2>1. LogTypeOK'
    BY DEF TypeOK
  <2>2. next \in Nat \ {0} /\ first \in 1..next /\ new \in [first..(next - 1) -> Change]
    BY <1>1, <2>1, Zenon DEF LogTypeOK
  <2> QED  BY <2>2
<1>3. IsFiniteSet(first..(next - 1))
  BY <1>2, FS_Interval
<1>4. IsLog(new)
  BY <1>2, <1>3 DEF IsLog
<1>5. Pending(v, op)' = PendingIn(changes', v, op)
  BY Zenon DEF Pending, PendingIn, Matching, MapThenSumSet, MapThenFoldSet
<1>6. QED
  BY <1>1, <1>4, <1>5, PendingIsSum

\* Before bootstrap both books move together.
LEMMA AgreesDirect ==
    ASSUME TypeOK, TypeOK', CollateralAgreesWithLog, UNCHANGED changes,
           NEW v \in Validator, NEW amount \in Nat,
           \/ RecordDeposit(v, amount) /\ ConfirmDeposit(v, amount)
           \/ RecordWithdraw(v, amount) /\ ConfirmWithdraw(v, amount)
    PROVE  CollateralAgreesWithLog'
<1> SUFFICES ASSUME NEW u \in Validator PROVE Agrees(u)'
  BY DEF CollateralAgreesWithLog, Agrees
<1>1. PICK tc, newTc, cc, newCc :
         /\ tc = totalCollateral /\ newTc = totalCollateral'
         /\ cc = confirmedCollateral /\ newCc = confirmedCollateral'
  OBVIOUS
<1>2. /\ tc \in [Validator -> Nat] /\ newTc \in [Validator -> Nat]
      /\ cc \in [Validator -> Nat] /\ newCc \in [Validator -> Nat]
  BY <1>1 DEF TypeOK, ValidatorSetTypeOK
<1>3. PICK out \in Nat, in \in Nat : out = Pending(u, "Withdraw") /\ in = Pending(u, "Deposit")
  BY ChangesAreLog
<1>4. tc[u] + out = cc[u] + in
  BY <1>1, <1>3 DEF CollateralAgreesWithLog
<1>5. newTc[u] + out = newCc[u] + in
  <2>1. CASE RecordDeposit(v, amount) /\ ConfirmDeposit(v, amount)
    <3>1. newTc = [tc EXCEPT ![v] = tc[v] + amount] /\ newCc = [cc EXCEPT ![v] = cc[v] + amount]
      BY <1>1, <2>1 DEF RecordDeposit, ConfirmDeposit
    <3>2. QED
      BY <1>2, <1>3, <1>4, <3>1
  <2>2. CASE RecordWithdraw(v, amount) /\ ConfirmWithdraw(v, amount)
    <3>1. newTc = [tc EXCEPT ![v] = tc[v] - amount] /\ newCc = [cc EXCEPT ![v] = cc[v] - amount]
      BY <1>1, <2>2 DEF RecordWithdraw, ConfirmWithdraw
    <3>2. QED
      BY <1>2, <1>3, <1>4, <3>1
  <2>3. QED
    BY <2>1, <2>2
<1>6. QED
  BY <1>1, <1>3, <1>5, PendingUnchanged DEF Agrees

\* What each request has in what is pending.
LEMMA RequestShares ==
    ASSUME NEW v, NEW u, NEW amount
    PROVE  /\ Share(DepositRequest(v, amount), u, "Deposit") = IF u = v THEN amount ELSE 0
           /\ Share(DepositRequest(v, amount), u, "Withdraw") = 0
           /\ Share(WithdrawRequest(v, amount), u, "Withdraw") = IF u = v THEN amount ELSE 0
           /\ Share(WithdrawRequest(v, amount), u, "Deposit") = 0
           /\ Share(FederatedPowerRequest(v, amount), u, "Deposit") = 0
           /\ Share(FederatedPowerRequest(v, amount), u, "Withdraw") = 0
BY DEF Share, DepositRequest, WithdrawRequest, FederatedPowerRequest

\* Recording moves the total and leaves the difference in the log.
LEMMA AgreesRecord ==
    ASSUME TypeOK, TypeOK', CollateralAgreesWithLog, UNCHANGED confirmedCollateral,
           NEW v \in Validator, NEW amount \in Nat,
           \/ /\ RecordDeposit(v, amount)
              /\ \/ RecordChanges(JoinRequests(v, amount))
                 \/ RecordChanges(<<DepositRequest(v, amount)>>)
           \/ /\ RecordWithdraw(v, amount)
              /\ RecordChanges(<<WithdrawRequest(v, amount)>>)
           \/ /\ UNCHANGED totalCollateral
              /\ RecordChanges(<<FederatedPowerRequest(v, amount)>>)
    PROVE  CollateralAgreesWithLog'
<1> SUFFICES ASSUME NEW u \in Validator PROVE Agrees(u)'
  BY DEF CollateralAgreesWithLog, Agrees
<1>1. PICK tc, newTc, cc, d :
         /\ tc = totalCollateral /\ newTc = totalCollateral' /\ cc = confirmedCollateral
         /\ d = IF u = v THEN amount ELSE 0
  OBVIOUS
<1>2. /\ tc \in [Validator -> Nat] /\ newTc \in [Validator -> Nat]
      /\ cc \in [Validator -> Nat] /\ d \in Nat
  BY <1>1 DEF TypeOK, ValidatorSetTypeOK
<1>3. PICK out \in Nat, in \in Nat : out = Pending(u, "Withdraw") /\ in = Pending(u, "Deposit")
  BY ChangesAreLog
<1>4. tc[u] + out = cc[u] + in
  BY <1>1, <1>3 DEF CollateralAgreesWithLog
<1>5. PICK newOut, newIn : newOut = Pending(u, "Withdraw")' /\ newIn = Pending(u, "Deposit")'
  OBVIOUS
<1>6. newTc[u] + newOut = cc[u] + newIn
  <2>1. ASSUME RecordDeposit(v, amount),
               \/ RecordChanges(JoinRequests(v, amount))
               \/ RecordChanges(<<DepositRequest(v, amount)>>)
        PROVE  newTc[u] + newOut = cc[u] + newIn
    <3>1. newTc = [tc EXCEPT ![v] = tc[v] + amount]
      BY <1>1, <2>1 DEF RecordDeposit
    <3>2. newTc[u] = tc[u] + d
      BY <1>1, <1>2, <3>1
    <3>3. PICK c : c = DepositRequest(v, amount)
      OBVIOUS
    <3>4. c \in Change
      BY <3>3, RequestType
    <3>5. /\ Pending(u, "Withdraw")' = Pending(u, "Withdraw") + Share(c, u, "Withdraw")
          /\ Pending(u, "Deposit")' = Pending(u, "Deposit") + Share(c, u, "Deposit")
      BY <2>1, <3>3, <3>4, PendingRecord, PendingJoin
    <3>6. newOut = out + 0 /\ newIn = in + d
      BY <1>1, <1>3, <1>5, <3>3, <3>5, RequestShares
    <3>7. QED
      BY <1>2, <1>3, <1>4, <3>2, <3>6
  <2>2. ASSUME RecordWithdraw(v, amount), RecordChanges(<<WithdrawRequest(v, amount)>>)
        PROVE  newTc[u] + newOut = cc[u] + newIn
    <3>1. newTc = [tc EXCEPT ![v] = tc[v] - amount]
      BY <1>1, <2>2 DEF RecordWithdraw
    <3>2. newTc[u] + d = tc[u]
      BY <1>1, <1>2, <3>1
    <3>3. PICK c : c = WithdrawRequest(v, amount)
      OBVIOUS
    <3>4. c \in Change
      BY <3>3, RequestType
    <3>5. /\ Pending(u, "Withdraw")' = Pending(u, "Withdraw") + Share(c, u, "Withdraw")
          /\ Pending(u, "Deposit")' = Pending(u, "Deposit") + Share(c, u, "Deposit")
      BY <2>2, <3>3, <3>4, PendingRecord
    <3>6. newOut = out + d /\ newIn = in + 0
      BY <1>1, <1>3, <1>5, <3>3, <3>5, RequestShares
    <3>7. newTc[u] \in Nat
      BY <1>2
    <3>8. QED
      BY <1>2, <1>3, <1>4, <3>2, <3>6, <3>7
  <2>3. ASSUME UNCHANGED totalCollateral, RecordChanges(<<FederatedPowerRequest(v, amount)>>)
        PROVE  newTc[u] + newOut = cc[u] + newIn
    <3>1. PICK c : c = FederatedPowerRequest(v, amount)
      OBVIOUS
    <3>2. c \in Change
      BY <3>1, RequestType
    <3>3. /\ Pending(u, "Withdraw")' = Pending(u, "Withdraw") + Share(c, u, "Withdraw")
          /\ Pending(u, "Deposit")' = Pending(u, "Deposit") + Share(c, u, "Deposit")
      BY <2>3, <3>1, <3>2, PendingRecord
    <3>4. newOut = out + 0 /\ newIn = in + 0
      BY <1>3, <1>5, <3>1, <3>3, RequestShares
    <3>5. QED
      BY <1>1, <1>3, <1>4, <2>3, <3>4
  <2>4. QED
    BY <2>1, <2>2, <2>3
<1>7. confirmedCollateral'[u] = cc[u] /\ totalCollateral'[u] = newTc[u]
  BY <1>1
<1>8. QED
  BY <1>5, <1>6, <1>7 DEF Agrees

\* Confirming moves the confirmed collateral and takes the change off the log.
LEMMA AgreesConfirm ==
    ASSUME TypeOK, TypeOK', CollateralAgreesWithLog, ConfirmNext
    PROVE  CollateralAgreesWithLog'
<1> SUFFICES ASSUME NEW u \in Validator PROVE Agrees(u)'
  BY DEF CollateralAgreesWithLog, Agrees
<1>1. PICK tc, cc, newCc, c :
         /\ tc = totalCollateral /\ cc = confirmedCollateral /\ newCc = confirmedCollateral'
         /\ c = changes[startConfigurationNumber]
  OBVIOUS
<1>2. tc \in [Validator -> Nat] /\ cc \in [Validator -> Nat] /\ newCc \in [Validator -> Nat]
  BY <1>1 DEF TypeOK, ValidatorSetTypeOK
<1>3. PICK out \in Nat, in \in Nat : out = Pending(u, "Withdraw") /\ in = Pending(u, "Deposit")
  BY ChangesAreLog
<1>4. tc[u] + out = cc[u] + in
  BY <1>1, <1>3 DEF CollateralAgreesWithLog
<1>5. PICK newOut, newIn : newOut = Pending(u, "Withdraw")' /\ newIn = Pending(u, "Deposit")'
  OBVIOUS
<1>6. newOut \in Nat /\ newIn \in Nat
  BY <1>5, PendingAfter
<1>7. out = newOut + Share(c, u, "Withdraw") /\ in = newIn + Share(c, u, "Deposit")
  BY <1>1, <1>3, <1>5, PendingConfirm
<1>8. c.op \in Operations /\ c.validator \in Validator /\ c.amount \in Nat /\ ApplyChange(c)
  BY <1>1 DEF ConfirmNext, TypeOK, LogTypeOK, Change
<1>9. tc[u] + newOut = newCc[u] + newIn
  <2>1. CASE c.op = "SetMetadata" \/ c.op = "SetFederatedPower"
    <3>1. newCc = cc
      BY <1>1, <1>8, <2>1 DEF ApplyChange, ConfirmFederatedPower
    <3>2. Share(c, u, "Withdraw") = 0 /\ Share(c, u, "Deposit") = 0
      BY <2>1 DEF Share
    <3>3. QED
      BY <1>4, <1>6, <1>7, <3>1, <3>2
  <2>2. CASE c.op = "Withdraw"
    <3>1. newCc = [cc EXCEPT ![c.validator] = cc[c.validator] - c.amount]
      BY <1>1, <1>8, <2>2 DEF ApplyChange, ConfirmWithdraw
    <3>2. Share(c, u, "Deposit") = 0
          /\ Share(c, u, "Withdraw") = IF u = c.validator THEN c.amount ELSE 0
      BY <2>2 DEF Share
    <3>3. newCc[u] = cc[u] - (IF u = c.validator THEN c.amount ELSE 0)
      BY <1>2, <1>8, <3>1
    <3>4. QED
      BY <1>2, <1>3, <1>4, <1>6, <1>7, <1>8, <3>2, <3>3
  <2>3. CASE c.op = "Deposit"
    <3>1. newCc = [cc EXCEPT ![c.validator] = cc[c.validator] + c.amount]
      BY <1>1, <1>8, <2>3 DEF ApplyChange, ConfirmDeposit
    <3>2. Share(c, u, "Withdraw") = 0
          /\ Share(c, u, "Deposit") = IF u = c.validator THEN c.amount ELSE 0
      BY <2>3 DEF Share
    <3>3. newCc[u] = cc[u] + (IF u = c.validator THEN c.amount ELSE 0)
      BY <1>2, <1>8, <3>1
    <3>4. QED
      BY <1>2, <1>3, <1>4, <1>6, <1>7, <1>8, <3>2, <3>3
  <2>4. QED
    BY <1>8, <2>1, <2>2, <2>3 DEF Operations
<1>10. totalCollateral'[u] = tc[u] /\ confirmedCollateral'[u] = newCc[u]
  BY <1>1 DEF ConfirmNext
<1>11. QED
  BY <1>5, <1>9, <1>10 DEF Agrees

LEMMA AgreesUnchanged ==
    ASSUME TypeOK, TypeOK', CollateralAgreesWithLog,
           UNCHANGED <<totalCollateral, confirmedCollateral, changes>>
    PROVE  CollateralAgreesWithLog'
BY PendingUnchanged DEF CollateralAgreesWithLog

\* Every step keeps the books apart by the log.
LEMMA AgreesNext ==
    TypeOK /\ TypeOK' /\ CollateralAgreesWithLog /\ [Next]_vars => CollateralAgreesWithLog'
<1> SUFFICES ASSUME TypeOK, TypeOK', CollateralAgreesWithLog, [Next]_vars
             PROVE  CollateralAgreesWithLog'
  OBVIOUS
<1>0. \A amount \in Amounts : amount \in Nat
  BY SubnetActorAssumption
<1>1. ASSUME NEW v \in Validator, NEW amount \in Amounts,
             \/ JoinBeforeBootstrap(v, amount)
             \/ StakeBeforeBootstrap(v, amount)
             \/ UnstakeBeforeBootstrap(v, amount)
      PROVE  CollateralAgreesWithLog'
  BY <1>0, <1>1, AgreesDirect
  DEF JoinBeforeBootstrap, StakeBeforeBootstrap, UnstakeBeforeBootstrap, DepositWithConfirm,
      WithdrawWithConfirm, logVars
<1>2. ASSUME NEW v \in Validator, LeaveBeforeBootstrap(v) \/ LeaveAfterBootstrap(v)
      PROVE  CollateralAgreesWithLog'
  <2>1. totalCollateral[v] \in Nat
    BY DEF TypeOK, ValidatorSetTypeOK
  <2>2. CASE LeaveBeforeBootstrap(v)
    BY <2>1, <2>2, AgreesDirect DEF LeaveBeforeBootstrap, WithdrawWithConfirm, logVars
  <2>3. CASE LeaveAfterBootstrap(v)
    BY <2>1, <2>3, AgreesRecord DEF LeaveAfterBootstrap, confirmedVars
  <2>4. QED
    BY <1>2, <2>2, <2>3
<1>3. ASSUME NEW v \in Validator, NEW amount \in Amounts,
             \/ JoinAfterBootstrap(v, amount)
             \/ StakeAfterBootstrap(v, amount)
             \/ UnstakeAfterBootstrap(v, amount)
      PROVE  CollateralAgreesWithLog'
  BY <1>0, <1>3, AgreesRecord
  DEF JoinAfterBootstrap, StakeAfterBootstrap, UnstakeAfterBootstrap, confirmedVars
<1>4. ASSUME NEW v \in Validator, NEW power \in Powers, SetFederatedPower(v, power)
      PROVE  CollateralAgreesWithLog'
  <2>1. power \in Nat
    BY SubnetActorAssumption
  <2>2. QED
    BY <1>4, <2>1, AgreesRecord DEF SetFederatedPower, validatorSetVars
<1>5. CASE ConfirmNext
  BY <1>5, AgreesConfirm
<1>6. ASSUME UNCHANGED <<totalCollateral, confirmedCollateral, changes>>
      PROVE  CollateralAgreesWithLog'
  BY <1>6, AgreesUnchanged
<1>7. CASE FederateNext
  BY <1>6, <1>7 DEF FederateNext, ConfirmFederatedPower, logVars
<1>8. ASSUME NEW a \in Funder, NEW amount \in Amounts,
             PreFund(a, amount) \/ PreRelease(a, amount)
      PROVE  CollateralAgreesWithLog'
  BY <1>6, <1>8 DEF PreFund, PreRelease, validatorSetVars, logVars
<1>9. ASSUME NEW list \in Federations, StartFederation(list)
      PROVE  CollateralAgreesWithLog'
  BY <1>6, <1>9 DEF StartFederation, validatorSetVars, logVars
<1>10. ASSUME NEW number \in 0..(nextConfigurationNumber - 1), SubmitCheckpoint(number)
       PROVE  CollateralAgreesWithLog'
  BY <1>6, <1>10 DEF SubmitCheckpoint, validatorSetVars, logVars
<1>11. ASSUME NEW v \in Validator, Claim(v) \/ AddBootstrapNode(v)
       PROVE  CollateralAgreesWithLog'
  BY <1>6, <1>11 DEF Claim, AddBootstrapNode, validatorSetVars, logVars
<1>12. CASE Kill \/ SetPaused \/ UNCHANGED vars
  BY <1>6, <1>12 DEF Kill, SetPaused, vars, validatorSetVars, logVars
<1>13. QED
  BY <1>1, <1>2, <1>3, <1>4, <1>5, <1>7, <1>8, <1>9, <1>10, <1>11, <1>12,
     SubnetActorAssumption
  DEF Next

LEMMA AgreesInit == Init => CollateralAgreesWithLog
<1> SUFFICES ASSUME Init, NEW v \in Validator PROVE Agrees(v)
  BY DEF CollateralAgreesWithLog, Agrees
<1>1. IsLog(changes) /\ \A op : Matching(changes, v, op) = {}
  BY InitTypeOK, ChangesAreLog DEF Init, Matching
<1>2. \A op : Pending(v, op) = 0
  BY <1>1, PendingIsSum, PendingIsPendingIn, SumEmpty
<1>3. QED
  BY <1>2 DEF Init, ValidatorSetInit, Agrees

\* For every validator, in every permission mode, the total collateral and the
\* confirmed collateral differ by exactly the deposits and withdrawals the log
\* still holds (recordDeposit, recordWithdraw, confirmChange).
THEOREM BooksAgree == Spec => []CollateralAgreesWithLog
BY AgreesInit, AgreesNext, TypeCorrect, PTL DEF Spec

-----------------------------------------------------------------------------
(***************************************************************************)
(* The actor's account. Before bootstrap nothing is released and nothing   *)
(* waits in the log, which is why the register of the bootstrap can leave  *)
(* it empty; after it the account holds what is released and what is still *)
(* to be deposited. A kill is harmless only because the gateway's stake is *)
(* the total, the total is a sum, and without members every term is 0.     *)
(***************************************************************************)

DepositsIn(log) == SumOver([v \in Validator |-> PendingIn(log, v, "Deposit")])

DepositOf(c) == IF c.op = "Deposit" THEN c.amount ELSE 0

\* One change more in a log adds what it deposits.
LEMMA DepositsOneMore ==
    ASSUME NEW small, NEW large, IsLog(small), IsLog(large), NEW c \in Change,
           \A u \in Validator :
              PendingIn(large, u, "Deposit") = PendingIn(small, u, "Deposit") + Share(c, u, "Deposit")
    PROVE  /\ DepositsIn(small) \in Nat /\ DepositsIn(large) \in Nat
           /\ DepositsIn(large) = DepositsIn(small) + DepositOf(c)
<1>1. PICK f, g : /\ f = [v \in Validator |-> PendingIn(small, v, "Deposit")]
                  /\ g = [v \in Validator |-> PendingIn(large, v, "Deposit")]
  OBVIOUS
<1>2. f \in [Validator -> Nat] /\ g \in [Validator -> Nat]
  BY <1>1, PendingIsSum
<1>3. PICK v \in Validator : v = c.validator
  BY DEF Change
<1>4. \A u \in Validator : Share(c, u, "Deposit") = IF u = v THEN DepositOf(c) ELSE 0
  BY <1>3 DEF Share, DepositOf
<1>5. DepositOf(c) \in Nat
  BY DEF DepositOf, Change
<1>6. g[v] = f[v] + DepositOf(c) /\ \A u \in Validator \ {v} : g[u] = f[u]
  <2>1. \A u \in Validator : g[u] = f[u] + Share(c, u, "Deposit")
    BY <1>1
  <2>2. QED
    BY <1>2, <1>4, <2>1
<1>7. SumOver(f) \in Nat /\ SumOver(g) \in Nat /\ SumOver(g) + f[v] = SumOver(f) + g[v]
  BY <1>2, <1>6, SumMoves
<1>8. DepositsIn(small) = SumOver(f) /\ DepositsIn(large) = SumOver(g)
  BY <1>1 DEF DepositsIn
<1>9. f[v] \in Nat
  BY <1>2
<1>10. QED
  BY <1>5, <1>6, <1>7, <1>8, <1>9

\* A log is a log after a step as before it.
LEMMA LogAfter == ASSUME TypeOK' PROVE IsLog(changes')
<1>1. PICK new, first, next :
         new = changes' /\ first = startConfigurationNumber' /\ next = nextConfigurationNumber'
  OBVIOUS
<1>2. LogTypeOK'
  BY DEF TypeOK
<1>3. next \in Nat \ {0} /\ first \in 1..next /\ new \in [first..(next - 1) -> Change]
  BY <1>1, <1>2, Zenon DEF LogTypeOK
<1>4. IsFiniteSet(first..(next - 1))
  BY <1>3, FS_Interval
<1>5. QED
  BY <1>1, <1>3, <1>4 DEF IsLog

\* What is pending after a step, in the log after it.
LEMMA PendingPrimed == ASSUME NEW v, NEW op PROVE Pending(v, op)' = PendingIn(changes', v, op)
BY Zenon DEF Pending, PendingIn, Matching, MapThenSumSet, MapThenFoldSet

\* Recording a change adds what it deposits; the key of a join deposits nothing.
LEMMA DepositsRecorded ==
    ASSUME TypeOK, TypeOK', NEW c \in Change,
           \/ RecordChanges(<<c>>)
           \/ \E v \in Validator, amount \in Nat :
                 c = DepositRequest(v, amount) /\ RecordChanges(JoinRequests(v, amount))
    PROVE  /\ DepositsIn(changes) \in Nat /\ DepositsIn(changes') \in Nat
           /\ DepositsIn(changes') = DepositsIn(changes) + DepositOf(c)
<1>1. \A u : Pending(u, "Deposit")' = Pending(u, "Deposit") + Share(c, u, "Deposit")
  BY PendingRecord, PendingJoin
<1>2. PICK new : new = changes'
  OBVIOUS
<1>3. \A u : PendingIn(new, u, "Deposit") = PendingIn(changes, u, "Deposit") + Share(c, u, "Deposit")
  BY <1>1, <1>2, PendingPrimed, PendingIsPendingIn
<1>4. IsLog(changes) /\ IsLog(new)
  BY <1>2, ChangesAreLog, LogAfter
<1>5. QED
  BY <1>2, <1>3, <1>4, DepositsOneMore

\* Confirming a change takes what it deposits off the log.
LEMMA DepositsConfirmed ==
    ASSUME TypeOK, TypeOK', ConfirmNext, NEW c, c = changes[startConfigurationNumber]
    PROVE  /\ DepositsIn(changes) \in Nat /\ DepositsIn(changes') \in Nat
           /\ DepositsIn(changes) = DepositsIn(changes') + DepositOf(c)
<1>1. \A u : Pending(u, "Deposit") = Pending(u, "Deposit")' + Share(c, u, "Deposit")
  BY PendingConfirm
<1>2. PICK new, log : new = changes' /\ log = changes
  OBVIOUS
<1>3. \A u : PendingIn(log, u, "Deposit") = PendingIn(new, u, "Deposit") + Share(c, u, "Deposit")
  BY <1>1, <1>2, PendingPrimed, PendingIsPendingIn
<1>4. IsLog(log) /\ IsLog(new)
  BY <1>2, ChangesAreLog, LogAfter
<1>5. c \in Change
  BY DEF ConfirmNext, TypeOK, LogTypeOK
<1>6. QED
  BY <1>2, <1>3, <1>4, <1>5, DepositsOneMore

-----------------------------------------------------------------------------
Owed == SumOver(releases) + SumOver([v \in Validator |-> Pending(v, "Deposit")])

NothingOwedYet ==
    ~bootstrapped =>
        /\ balance = totalConfirmedCollateral + genesisCircSupply
        /\ \A v \in Validator : releases[v] = 0 /\ releaseCount[v] = 0
        /\ ~gwRegistered

HoldsWhatItOwes == bootstrapped /\ PermissionMode # "Federated" => balance = Owed

SolventInv == NothingOwedYet /\ HoldsWhatItOwes

\* What is owed: releases and deposits in the log, before and after a step.
LEMMA OwedIs ==
    /\ Owed = SumOver(releases) + DepositsIn(changes)
    /\ Owed' = SumOver(releases') + DepositsIn(changes')
<1>1. Owed = SumOver(releases) + DepositsIn(changes)
  BY Zenon DEF Owed, DepositsIn, PendingIn, Matching, Pending
<1>2. Owed' = SumOver(releases') + DepositsIn(changes')
  BY Zenon DEF Owed, DepositsIn, PendingIn, Matching, Pending, SumOver, MapThenSumSet,
     MapThenFoldSet
<1>3. QED
  BY <1>1, <1>2

\* Nothing that is owed or held moves.
LEMMA SolventSame ==
    ASSUME SolventInv,
           UNCHANGED <<bootstrapped, balance, totalConfirmedCollateral, genesisCircSupply,
                       releases, releaseCount, changes, gwRegistered>>
    PROVE  SolventInv'
<1>1. Owed' = Owed
  BY OwedIs
<1>2. QED
  BY <1>1 DEF SolventInv, NothingOwedYet, HoldsWhatItOwes

\* Nothing is owed when the log is empty and nothing was released.
LEMMA NothingOwed ==
    ASSUME TypeOK, WellFormedInv, ~bootstrapped, \A v \in Validator : releases[v] = 0
    PROVE  SumOver(releases) + DepositsIn(changes) = 0
<1>1. DOMAIN changes = {}
  BY ChangesAreLog DEF WellFormedInv, LogStartsAtBootstrap, TypeOK, LogTypeOK
<1>2. \A v : PendingIn(changes, v, "Deposit") = 0
  <2> TAKE v
  <2>1. Matching(changes, v, "Deposit") = {}
    BY <1>1 DEF Matching
  <2>2. QED
    BY <2>1, ChangesAreLog, PendingIsSum, SumEmpty
<1>3. PICK f : f = [v \in Validator |-> PendingIn(changes, v, "Deposit")]
  OBVIOUS
<1>4. f \in [Validator -> Nat] /\ \A v \in Validator : f[v] = 0
  BY <1>2, <1>3
<1>5. DepositsIn(changes) = 0
  BY <1>3, <1>4, SumBounds DEF DepositsIn
<1>6. SumOver(releases) = 0
  BY SumBounds DEF TypeOK, MoneyTypeOK
<1>7. QED
  BY <1>5, <1>6

\* The value that bootstrap does not register stays; it is all there is.
LEMMA SolventDeposit ==
    ASSUME TypeOK, TypeOK', WellFormedInv, SolventInv, ~bootstrapped,
           NEW v \in Validator, NEW amount \in Nat,
           DepositWithConfirm(v, amount), BootstrapSubnetIfNeeded(amount),
           UNCHANGED <<genesisCircSupply, changes, releases, releaseCount>>
    PROVE  SolventInv'
<1>1. PICK total \in Nat, newTotal \in Nat, circ \in Nat :
         /\ total = totalConfirmedCollateral /\ newTotal = totalConfirmedCollateral'
         /\ circ = genesisCircSupply
  BY DEF TypeOK, ValidatorSetTypeOK, GenesisTypeOK
<1>2. newTotal = total + amount
  BY <1>1 DEF DepositWithConfirm, ConfirmDeposit
<1>3. balance = total + circ
  BY <1>1 DEF SolventInv, NothingOwedYet
<1>4. CASE ActivationThresholdsMet
  <2>1. /\ bootstrapped'
        /\ balance' = balance + amount - (newTotal + circ)
    BY <1>1, <1>4 DEF BootstrapSubnetIfNeeded, RegisterValue
  <2>2. balance + amount - (newTotal + circ) = 0
    BY <1>1, <1>2, <1>3
  <2>3. SumOver(releases') + DepositsIn(changes') = 0
    BY NothingOwed DEF SolventInv, NothingOwedYet
  <2>4. QED
    BY <2>1, <2>2, <2>3, OwedIs DEF SolventInv, NothingOwedYet, HoldsWhatItOwes
<1>5. CASE ~ActivationThresholdsMet
  <2>1. ~bootstrapped' /\ balance' = balance + amount /\ UNCHANGED gwRegistered
    BY <1>5 DEF BootstrapSubnetIfNeeded, gatewayVars
  <2>2. balance + amount = newTotal + circ
    BY <1>1, <1>2, <1>3
  <2>3. QED
    BY <1>1, <2>1, <2>2 DEF SolventInv, NothingOwedYet, HoldsWhatItOwes
<1>6. QED
  BY <1>4, <1>5

\* What is withdrawn and refunded before bootstrap was on the books.
LEMMA SolventWithdraw ==
    ASSUME TypeOK, TypeOK', SolventInv, ~bootstrapped,
           NEW v \in Validator, NEW amount \in Nat, NEW refund \in Nat,
           WithdrawWithConfirm(v, amount),
           genesisCircSupply' = genesisCircSupply - refund,
           balance' = balance - (refund + amount),
           UNCHANGED <<bootstrapped, releases, releaseCount, gwRegistered>>
    PROVE  SolventInv'
<1>1. PICK total \in Nat, circ \in Nat :
         total = totalConfirmedCollateral /\ circ = genesisCircSupply
  BY DEF TypeOK, ValidatorSetTypeOK, GenesisTypeOK
<1>2. balance = total + circ
  BY <1>1 DEF SolventInv, NothingOwedYet
<1>3. totalConfirmedCollateral' = total - amount /\ genesisCircSupply' = circ - refund
  BY <1>1 DEF WithdrawWithConfirm, ConfirmWithdraw
<1>4. (total + circ) - (refund + amount) = (total - amount) + (circ - refund)
  BY <1>1
<1>5. QED
  BY <1>2, <1>3, <1>4 DEF SolventInv, NothingOwedYet, HoldsWhatItOwes

\* A recorded deposit is paid in, a recorded withdrawal moves nothing yet.
LEMMA SolventRecord ==
    ASSUME TypeOK, TypeOK', SolventInv, bootstrapped,
           UNCHANGED <<bootstrapped, releases>>,
           NEW c \in Change,
           \/ RecordChanges(<<c>>)
           \/ \E v \in Validator, amount \in Nat :
                 c = DepositRequest(v, amount) /\ RecordChanges(JoinRequests(v, amount)),
           balance' = balance + DepositOf(c)
    PROVE  SolventInv'
<1>1. SUFFICES ASSUME PermissionMode # "Federated" PROVE balance' = Owed'
  BY DEF SolventInv, NothingOwedYet, HoldsWhatItOwes
<1>2. PICK released, old, new, d : /\ released = SumOver(releases) /\ d = DepositOf(c)
                                   /\ old = DepositsIn(changes) /\ new = DepositsIn(changes')
  OBVIOUS
<1>3. released \in Nat /\ old \in Nat /\ new \in Nat /\ d \in Nat
  BY <1>2, DepositsRecorded, SumBounds DEF TypeOK, MoneyTypeOK, DepositOf, Change
<1>4. new = old + d
  BY <1>2, DepositsRecorded
<1>5. balance = released + old
  BY <1>1, <1>2, OwedIs DEF SolventInv, HoldsWhatItOwes
<1>6. Owed' = released + new
  BY <1>2, OwedIs
<1>7. (released + old) + d = released + new
  BY <1>3, <1>4
<1>8. QED
  BY <1>2, <1>5, <1>6, <1>7

\* Only a bootstrapped subnet has a change to confirm.
LEMMA ConfirmsBootstrapped ==
    ASSUME TypeOK, WellFormedInv, ConfirmNext
    PROVE  bootstrapped /\ UNCHANGED bootstrapped
<1>1. nextConfigurationNumber # 1
  BY DEF ConfirmNext, TypeOK, LogTypeOK
<1>2. QED
  BY <1>1 DEF WellFormedInv, LogStartsAtBootstrap, ConfirmNext, lifecycleVars

\* A withdrawal comes back from the gateway and is released; a deposit leaves
\* the log and goes to the gateway.
LEMMA SolventConfirm ==
    ASSUME TypeOK, TypeOK', WellFormedInv, SolventInv, ConfirmNext
    PROVE  SolventInv'
<1>0. bootstrapped /\ bootstrapped'
  BY ConfirmsBootstrapped
<1>1. SUFFICES ASSUME PermissionMode # "Federated" PROVE balance' = Owed'
  BY <1>0 DEF SolventInv, NothingOwedYet, HoldsWhatItOwes
<1>2. PICK c : c = changes[startConfigurationNumber]
  OBVIOUS
<1>3. /\ c.op \in {"SetMetadata", "Withdraw", "Deposit"}
      /\ c.validator \in Validator /\ c.amount \in Nat /\ ApplyChange(c)
  <2>1. startConfigurationNumber \in DOMAIN changes
    BY DEF ConfirmNext, TypeOK, LogTypeOK
  <2>2. c \in Change /\ ApplyChange(c)
    BY <1>2, <2>1 DEF ConfirmNext, TypeOK, LogTypeOK
  <2>3. c.op # "SetFederatedPower"
    BY <1>1, <1>2, <2>1 DEF WellFormedInv, LogMatchesMode
  <2>4. QED
    BY <2>2, <2>3 DEF Change, Operations
<1>4. PICK old, new : old = DepositsIn(changes) /\ new = DepositsIn(changes')
  OBVIOUS
<1>5. old \in Nat /\ new \in Nat /\ old = new + DepositOf(c)
  BY <1>2, <1>4, DepositsConfirmed
<1>6. PICK f, g : f = releases /\ g = releases'
  OBVIOUS
<1>7. f \in [Validator -> Nat] /\ g \in [Validator -> Nat]
  BY <1>6 DEF TypeOK, MoneyTypeOK
<1>8. SumOver(f) \in Nat /\ SumOver(g) \in Nat
  BY <1>7, SumBounds
<1>9. balance = SumOver(f) + old
  BY <1>0, <1>1, <1>4, <1>6, OwedIs DEF SolventInv, HoldsWhatItOwes
<1>10. balance' = SumOver(g) + new
  <2>1. CASE c.op = "SetMetadata"
    <3>1. balance' = balance /\ g = f
      BY <1>3, <1>6, <2>1 DEF ApplyChange, moneyVars
    <3>2. old = new
      BY <1>5, <2>1 DEF DepositOf
    <3>3. QED
      BY <1>9, <3>1, <3>2
  <2>2. CASE c.op = "Withdraw"
    <3>1. balance' = balance + c.amount
          /\ g = [f EXCEPT ![c.validator] = f[c.validator] + c.amount]
      BY <1>3, <1>6, <2>2 DEF ApplyChange, AddNewRelease, ReleaseStake
    <3>2. old = new
      BY <1>5, <2>2 DEF DepositOf
    <3>3. f[c.validator] \in Nat /\ g[c.validator] = f[c.validator] + c.amount
          /\ \A u \in Validator \ {c.validator} : g[u] = f[u]
      BY <1>3, <1>7, <3>1
    <3>4. SumOver(g) + f[c.validator] = SumOver(f) + g[c.validator]
      BY <1>3, <1>7, <3>3, SumMoves
    <3>5. SumOver(g) = SumOver(f) + c.amount
      BY <1>3, <1>8, <3>3, <3>4
    <3>6. QED
      BY <1>3, <1>5, <1>8, <1>9, <3>1, <3>2, <3>5
  <2>3. CASE c.op = "Deposit"
    <3>1. balance' = balance - c.amount /\ g = f
      BY <1>3, <1>6, <2>3 DEF ApplyChange, AddStake
    <3>2. old = new + c.amount
      BY <1>5, <2>3 DEF DepositOf
    <3>3. QED
      BY <1>3, <1>5, <1>8, <1>9, <3>1, <3>2
  <2>4. QED
    BY <1>3, <2>1, <2>2, <2>3
<1>11. QED
  BY <1>4, <1>6, <1>10, OwedIs

\* A claim pays out what was released.
LEMMA SolventClaim ==
    ASSUME TypeOK, TypeOK', SolventInv, NEW v \in Validator, Claim(v)
    PROVE  SolventInv'
<1>1. bootstrapped /\ UNCHANGED <<bootstrapped, changes>>
  BY DEF Claim, SolventInv, NothingOwedYet, lifecycleVars, logVars
<1>2. SUFFICES ASSUME PermissionMode # "Federated" PROVE balance' = Owed'
  BY <1>1 DEF SolventInv, NothingOwedYet, HoldsWhatItOwes
<1>3. PICK f, g, deposits : /\ f = releases /\ g = releases'
                            /\ deposits = DepositsIn(changes)
  OBVIOUS
<1>4. f \in [Validator -> Nat] /\ g \in [Validator -> Nat] /\ f[v] \in Nat
  BY <1>3 DEF TypeOK, MoneyTypeOK
<1>5. g = [f EXCEPT ![v] = 0] /\ balance' = balance - f[v]
  BY <1>3 DEF Claim
<1>6. g[v] = 0 /\ \A u \in Validator \ {v} : g[u] = f[u]
  BY <1>4, <1>5
<1>7. SumOver(f) \in Nat /\ SumOver(g) \in Nat /\ SumOver(g) + f[v] = SumOver(f) + g[v]
  BY <1>4, <1>6, SumMoves
<1>8. balance = SumOver(f) + deposits
  BY <1>1, <1>2, <1>3, OwedIs DEF SolventInv, HoldsWhatItOwes
<1>9. deposits \in Nat
  <2>1. PICK h : h = [u \in Validator |-> PendingIn(changes, u, "Deposit")]
    OBVIOUS
  <2>2. h \in [Validator -> Nat]
    BY <2>1, ChangesAreLog, PendingIsSum
  <2>3. QED
    BY <1>3, <2>1, <2>2, SumBounds DEF DepositsIn
<1>10. Owed' = SumOver(g) + deposits
  BY <1>1, <1>3, OwedIs
<1>11. QED
  BY <1>4, <1>5, <1>6, <1>7, <1>8, <1>9, <1>10

\* Without members there is no collateral, hence no stake to give back.
LEMMA SolventKill ==
    ASSUME TypeOK, TypeOK', SolventInv, TotalIsSum, Kill,
           PermissionMode # "Federated" => StakeInv /\ MembersHaveCollateral
    PROVE  SolventInv'
<1>1. bootstrapped /\ UNCHANGED <<bootstrapped, releases, changes>>
  BY DEF Kill, SolventInv, NothingOwedYet, logVars
<1>2. SUFFICES ASSUME PermissionMode # "Federated" PROVE balance' = Owed'
  BY <1>1 DEF SolventInv, NothingOwedYet, HoldsWhatItOwes
<1>3. confirmedCollateral \in [Validator -> Nat]
      /\ \A v \in Validator : confirmedCollateral[v] = 0
  BY <1>2 DEF Kill, MembersHaveCollateral, TypeOK, ValidatorSetTypeOK
<1>4. totalConfirmedCollateral = 0
  BY <1>3, SumBounds DEF TotalIsSum
<1>5. gwStake = 0
  BY <1>2, <1>4 DEF Kill, StakeInv, GatewayStakeMatches
<1>6. balance' = balance
  BY <1>5 DEF Kill, TypeOK, MoneyTypeOK
<1>7. Owed' = Owed
  BY <1>1, OwedIs
<1>8. QED
  BY <1>1, <1>2, <1>6, <1>7 DEF SolventInv, HoldsWhatItOwes

\* Every step keeps the account what is owed.
LEMMA SolventNext ==
    /\ TypeOK /\ TypeOK' /\ WellFormedInv /\ TotalIsSum /\ SolventInv
    /\ (PermissionMode # "Federated" => StakeInv /\ MembersHaveCollateral)
    /\ [Next]_vars
    => SolventInv'
<1> SUFFICES ASSUME TypeOK, TypeOK', WellFormedInv, TotalIsSum, SolventInv,
                    PermissionMode # "Federated" => StakeInv /\ MembersHaveCollateral,
                    [Next]_vars
             PROVE  SolventInv'
  OBVIOUS
<1>0. \A amount \in Amounts : amount \in Nat
  BY SubnetActorAssumption
<1>1. ASSUME NEW a \in Funder, NEW amount \in Amounts,
             PreFund(a, amount) \/ PreRelease(a, amount)
      PROVE  SolventInv'
  <2>1. PICK total \in Nat, circ \in Nat :
          total = totalConfirmedCollateral /\ circ = genesisCircSupply
    BY DEF TypeOK, ValidatorSetTypeOK, GenesisTypeOK
  <2>2. /\ ~bootstrapped
        /\ UNCHANGED <<bootstrapped, totalConfirmedCollateral, releases, releaseCount,
                       gwRegistered>>
    BY <1>1 DEF PreFund, PreRelease, lifecycleVars, validatorSetVars, gatewayVars
  <2>3. balance = total + circ
    BY <2>1, <2>2 DEF SolventInv, NothingOwedYet
  <2>4. \/ balance' = balance + amount /\ genesisCircSupply' = circ + amount
        \/ balance' = balance - amount /\ genesisCircSupply' = circ - amount
    BY <1>1, <2>1 DEF PreFund, PreRelease
  <2>5. /\ (total + circ) + amount = total + (circ + amount)
        /\ (total + circ) - amount = total + (circ - amount)
    BY <1>0, <2>1
  <2>6. balance' = totalConfirmedCollateral' + genesisCircSupply'
    BY <2>1, <2>2, <2>3, <2>4, <2>5
  <2>7. QED
    BY <2>2, <2>6 DEF SolventInv, NothingOwedYet, HoldsWhatItOwes
<1>2. ASSUME NEW v \in Validator, NEW amount \in Amounts,
             JoinBeforeBootstrap(v, amount) \/ StakeBeforeBootstrap(v, amount)
      PROVE  SolventInv'
  BY <1>0, <1>2, SolventDeposit DEF JoinBeforeBootstrap, StakeBeforeBootstrap, logVars
<1>3. ASSUME NEW v \in Validator, NEW amount \in Amounts, UnstakeBeforeBootstrap(v, amount)
      PROVE  SolventInv'
  <2>1. amount \in Nat /\ 0 + amount = amount
    BY <1>0
  <2>2. genesisCircSupply' = genesisCircSupply - 0
    BY <1>3 DEF UnstakeBeforeBootstrap, genesisVars, TypeOK, GenesisTypeOK
  <2>3. /\ ~bootstrapped /\ WithdrawWithConfirm(v, amount)
        /\ balance' = balance - amount
        /\ UNCHANGED <<bootstrapped, releases, releaseCount, gwRegistered>>
    BY <1>3 DEF UnstakeBeforeBootstrap, lifecycleVars, gatewayVars
  <2>4. balance' = balance - (0 + amount)
    BY <2>1, <2>3
  <2>5. QED
    BY <2>1, <2>2, <2>3, <2>4, SolventWithdraw
<1>4. ASSUME NEW v \in Validator, LeaveBeforeBootstrap(v)
      PROVE  SolventInv'
  <2>1. totalCollateral[v] \in Nat /\ genesisBalance[v] \in Nat
    BY DEF TypeOK, ValidatorSetTypeOK, GenesisTypeOK
  <2>2. QED
    BY <1>4, <2>1, SolventWithdraw DEF LeaveBeforeBootstrap, lifecycleVars, gatewayVars
<1>5. ASSUME NEW v \in Validator, NEW amount \in Nat, bootstrapped,
             UNCHANGED <<bootstrapped, releases>>,
             balance' = balance + amount,
             \/ RecordChanges(JoinRequests(v, amount))
             \/ RecordChanges(<<DepositRequest(v, amount)>>)
      PROVE  SolventInv'
  <2>1. PICK c : c = DepositRequest(v, amount)
    OBVIOUS
  <2>2. c \in Change /\ DepositOf(c) = amount
    BY <2>1, RequestType DEF DepositOf, DepositRequest
  <2>3. QED
    BY <1>5, <2>1, <2>2, SolventRecord
<1>6. ASSUME NEW v \in Validator, NEW amount \in Amounts,
             JoinAfterBootstrap(v, amount) \/ StakeAfterBootstrap(v, amount)
      PROVE  SolventInv'
  BY <1>0, <1>5, <1>6 DEF JoinAfterBootstrap, StakeAfterBootstrap, lifecycleVars
<1>7. ASSUME NEW c \in Change, DepositOf(c) = 0, RecordChanges(<<c>>), bootstrapped,
             UNCHANGED <<bootstrapped, releases, balance>>
      PROVE  SolventInv'
  <2>1. balance' = balance + DepositOf(c)
    BY <1>7 DEF TypeOK, MoneyTypeOK
  <2>2. QED
    BY <1>7, <2>1, SolventRecord
<1>8. ASSUME NEW v \in Validator, NEW amount \in Nat,
             \/ RecordChanges(<<WithdrawRequest(v, amount)>>)
             \/ RecordChanges(<<FederatedPowerRequest(v, amount)>>),
             bootstrapped, UNCHANGED <<bootstrapped, releases, balance>>
      PROVE  SolventInv'
  <2>1. /\ WithdrawRequest(v, amount) \in Change /\ DepositOf(WithdrawRequest(v, amount)) = 0
        /\ FederatedPowerRequest(v, amount) \in Change
        /\ DepositOf(FederatedPowerRequest(v, amount)) = 0
    BY RequestType DEF DepositOf, WithdrawRequest, FederatedPowerRequest
  <2>2. QED
    BY <1>7, <1>8, <2>1
<1>9. ASSUME NEW v \in Validator, NEW amount \in Amounts, UnstakeAfterBootstrap(v, amount)
      PROVE  SolventInv'
  BY <1>0, <1>8, <1>9 DEF UnstakeAfterBootstrap, lifecycleVars, moneyVars
<1>10. ASSUME NEW v \in Validator, LeaveAfterBootstrap(v)
       PROVE  SolventInv'
  <2>1. totalCollateral[v] \in Nat
    BY DEF TypeOK, ValidatorSetTypeOK
  <2>2. QED
    BY <1>8, <1>10, <2>1 DEF LeaveAfterBootstrap, lifecycleVars, moneyVars
<1>11. ASSUME NEW v \in Validator, NEW power \in Powers, SetFederatedPower(v, power)
       PROVE  SolventInv'
  <2>1. power \in Nat
    BY SubnetActorAssumption
  <2>2. QED
    BY <1>8, <1>11, <2>1 DEF SetFederatedPower, lifecycleVars, moneyVars
<1>12. ASSUME NEW list \in Federations, StartFederation(list)
       PROVE  SolventInv'
  BY <1>12, SolventSame
  DEF StartFederation, validatorSetVars, lifecycleVars, genesisVars, moneyVars, logVars,
      gatewayVars
<1>13. CASE FederateNext
  <2>1. PermissionMode = "Federated"
    BY <1>13 DEF FederateNext, WellFormedInv, OnlyFederatedFederates
  <2>2. UNCHANGED <<totalConfirmedCollateral, genesisCircSupply, releases, releaseCount>>
    BY <1>13 DEF FederateNext, ConfirmFederatedPower
  <2>3. bootstrapped' \/ UNCHANGED <<bootstrapped, balance, gwRegistered>>
    BY <1>13 DEF FederateNext, gatewayVars
  <2>4. QED
    BY <2>1, <2>2, <2>3 DEF SolventInv, NothingOwedYet, HoldsWhatItOwes
<1>14. ASSUME NEW number \in 0..(nextConfigurationNumber - 1), SubmitCheckpoint(number)
       PROVE  SolventInv'
  BY <1>14, SolventSame
  DEF SubmitCheckpoint, validatorSetVars, lifecycleVars, genesisVars, moneyVars, logVars,
      gatewayVars
<1>15. CASE ConfirmNext
  BY <1>15, SolventConfirm
<1>16. ASSUME NEW v \in Validator, Claim(v)
       PROVE  SolventInv'
  BY <1>16, SolventClaim
<1>17. CASE Kill
  BY <1>17, SolventKill
<1>18. ASSUME NEW v \in Announcer, AddBootstrapNode(v)
       PROVE  SolventInv'
  BY <1>18, SolventSame
  DEF AddBootstrapNode, validatorSetVars, lifecycleVars, genesisVars, moneyVars, logVars,
      gatewayVars
<1>19. CASE SetPaused \/ UNCHANGED vars
  BY <1>19, SolventSame
  DEF SetPaused, vars, validatorSetVars, lifecycleVars, genesisVars, moneyVars, logVars,
      gatewayVars
<1>20. QED
  BY <1>1, <1>2, <1>3, <1>4, <1>6, <1>9, <1>10, <1>11, <1>12, <1>13, <1>14, <1>15, <1>16,
     <1>17, <1>18, <1>19
  DEF Next

\* The invariants of the mode with collateral, together.
LEMMA StakeInvariant ==
    ASSUME PermissionMode # "Federated"
    PROVE  Spec => [](StakeInv /\ MembershipInv)
<1>1. Init => StakeInv
  BY DEF Init, StakeInv, GatewayStakeMatches
<1>2. TypeOK /\ TypeOK' /\ WellFormedInv /\ StakeInv /\ [Next]_vars => StakeInv'
  BY StakeNext
<1>3. TypeOK /\ WellFormedInv /\ MembershipInv /\ [Next]_vars => MembershipInv'
  BY MembershipNext
<1>4. QED
  BY <1>1, <1>2, <1>3, TypeCorrect, WellFormedInvariant, MembershipInit, PTL DEF Spec

LEMMA SolventInvariant == Spec => []SolventInv
<1>1. Init => SolventInv
  BY DEF Init, ValidatorSetInit, SolventInv, NothingOwedYet, HoldsWhatItOwes
<1>2. CASE PermissionMode = "Federated"
  <2>1. TypeOK /\ TypeOK' /\ WellFormedInv /\ TotalIsSum /\ SolventInv /\ [Next]_vars => SolventInv'
    BY <1>2, SolventNext
  <2>2. QED
    BY <1>1, <2>1, TypeCorrect, WellFormedInvariant, TotalCollateral, PTL DEF Spec
<1>3. CASE PermissionMode # "Federated"
  <2>1. /\ TypeOK /\ TypeOK' /\ WellFormedInv /\ TotalIsSum /\ SolventInv
        /\ (StakeInv /\ MembershipInv)
        /\ [Next]_vars
        => SolventInv'
    BY SolventNext DEF MembershipInv
  <2>2. Spec => [](StakeInv /\ MembershipInv)
    BY <1>3, StakeInvariant
  <2>3. QED
    BY <1>1, <2>1, <2>2, TypeCorrect, WellFormedInvariant, TotalCollateral, PTL DEF Spec
<1>4. QED
  BY <1>2, <1>3

\* Before bootstrap the actor's account holds all the collateral and the genesis
\* funds; after it, where power is collateral, exactly the unconfirmed deposits
\* and the unclaimed releases: no call and no half-confirmed log takes or leaves
\* more (bootstrapSubnetIfNeeded, addStake, releaseStake, claim, kill).
THEOREM Solvent == Spec => []ActorSolvent
<1>1. SolventInv => ActorSolvent
  BY Zenon DEF SolventInv, NothingOwedYet, HoldsWhatItOwes, Owed, ActorSolvent
<1>2. QED
  BY <1>1, SolventInvariant, PTL

-----------------------------------------------------------------------------
(***************************************************************************)
(* Every account's funds are all somewhere. leave refunds the genesis      *)
(* balance together with the collateral: an account that never pre-funded  *)
(* has none to refund.                                                     *)
(***************************************************************************)

Funds(v) == wallet[v] + totalCollateral[v] + Pending(v, "Withdraw") + releases[v]

NoGenesisBalance == \A v \in Validator \ Funder : genesisBalance[v] = 0

FundsInv == NoGenesisBalance /\ FundsAccounted

\* A step that leaves the funds of everyone who does not pre-fund alone.
LEMMA FundsKept ==
    ASSUME FundsInv, NoGenesisBalance',
           \A u \in Validator \ Funder : Funds(u)' = Funds(u)
    PROVE  FundsInv'
BY DEF FundsInv, FundsAccounted, Funds

\* The parts of an account's funds before and after a step.
FundsSplit(u, w, nw, t, nt, p, np, r, nr) ==
    /\ w = wallet[u] /\ t = totalCollateral[u]
    /\ p = Pending(u, "Withdraw") /\ r = releases[u]
    /\ nw = wallet'[u] /\ nt = totalCollateral'[u]
    /\ np = Pending(u, "Withdraw")' /\ nr = releases'[u]
    /\ Funds(u) = w + t + p + r
    /\ Funds(u)' = nw + nt + np + nr

\* The parts of an account's funds, before and after a step, as numbers.
LEMMA FundsParts ==
    ASSUME TypeOK, TypeOK', NEW u \in Validator
    PROVE  \E w, nw, t, nt, p, np, r, nr \in Nat : FundsSplit(u, w, nw, t, nt, p, np, r, nr)
<1>1. wallet[u] \in Nat /\ totalCollateral[u] \in Nat /\ releases[u] \in Nat
  BY DEF TypeOK, ValidatorSetTypeOK, MoneyTypeOK
<1>2. wallet'[u] \in Nat /\ totalCollateral'[u] \in Nat /\ releases'[u] \in Nat
  BY DEF TypeOK, ValidatorSetTypeOK, MoneyTypeOK
<1>3. Pending(u, "Withdraw") \in Nat /\ Pending(u, "Withdraw")' \in Nat
  BY ChangesAreLog, PendingAfter
<1>4. /\ Funds(u) = wallet[u] + totalCollateral[u] + Pending(u, "Withdraw") + releases[u]
      /\ Funds(u)' = wallet'[u] + totalCollateral'[u] + Pending(u, "Withdraw")' + releases'[u]
  BY DEF Funds
<1>5. PICK w, nw, t, nt, p, np, r, nr :
         /\ w = wallet[u] /\ t = totalCollateral[u]
         /\ p = Pending(u, "Withdraw") /\ r = releases[u]
         /\ nw = wallet'[u] /\ nt = totalCollateral'[u]
         /\ np = Pending(u, "Withdraw")' /\ nr = releases'[u]
  OBVIOUS
<1>6. /\ w \in Nat /\ nw \in Nat /\ t \in Nat /\ nt \in Nat
      /\ p \in Nat /\ np \in Nat /\ r \in Nat /\ nr \in Nat
  BY <1>1, <1>2, <1>3, <1>5
<1>7. Funds(u) = w + t + p + r /\ Funds(u)' = nw + nt + np + nr
  BY <1>4, <1>5
<1>8. FundsSplit(u, w, nw, t, nt, p, np, r, nr)
  BY <1>5, <1>7 DEF FundsSplit
<1>9. QED
  BY ONLY <1>6, <1>8, Zenon

\* The wallet and the total move against each other.
LEMMA FundsPaid ==
    ASSUME TypeOK, TypeOK', NEW v \in Validator, NEW amount \in Nat, NEW u \in Validator,
           UNCHANGED releases, Pending(u, "Withdraw")' = Pending(u, "Withdraw"),
           \/ Pays(v, amount) /\ RecordDeposit(v, amount)
           \/ RecordWithdraw(v, amount) /\ Receives(v, amount)
    PROVE  Funds(u)' = Funds(u)
<1>0. PICK w, nw, t, nt, p, np, r, nr \in Nat : FundsSplit(u, w, nw, t, nt, p, np, r, nr)
  BY FundsParts
<1>1. /\ w = wallet[u] /\ t = totalCollateral[u]
      /\ p = Pending(u, "Withdraw") /\ r = releases[u]
      /\ nw = wallet'[u] /\ nt = totalCollateral'[u]
      /\ np = Pending(u, "Withdraw")' /\ nr = releases'[u]
      /\ Funds(u) = w + t + p + r
      /\ Funds(u)' = nw + nt + np + nr
  BY <1>0 DEF FundsSplit
<1>2. p = np /\ r = nr
  BY <1>1
<1>3. /\ wallet \in [Validator -> Nat] /\ totalCollateral \in [Validator -> Nat]
      /\ wallet[v] \in Nat /\ totalCollateral[v] \in Nat
  BY DEF TypeOK, ValidatorSetTypeOK, MoneyTypeOK
<1>4. nw + nt = w + t
  <2>1. CASE Pays(v, amount) /\ RecordDeposit(v, amount)
    <3>1. /\ wallet' = [wallet EXCEPT ![v] = wallet[v] - amount]
          /\ totalCollateral' = [totalCollateral EXCEPT ![v] = totalCollateral[v] + amount]
      BY <2>1 DEF Pays, RecordDeposit
    <3>2. /\ nw = IF u = v THEN w - amount ELSE w
          /\ nt = IF u = v THEN t + amount ELSE t
      BY <1>1, <1>3, <3>1
    <3>3. QED
      BY <3>2
  <2>2. CASE RecordWithdraw(v, amount) /\ Receives(v, amount)
    <3>1. /\ wallet' = [wallet EXCEPT ![v] = wallet[v] + amount]
          /\ totalCollateral' = [totalCollateral EXCEPT ![v] = totalCollateral[v] - amount]
      BY <2>2 DEF Receives, RecordWithdraw
    <3>2. /\ nw = IF u = v THEN w + amount ELSE w
          /\ nt = IF u = v THEN t - amount ELSE t
      BY <1>1, <1>3, <3>1
    <3>3. QED
      BY <3>2
  <2>3. QED
    BY <2>1, <2>2
<1>5. QED
  BY <1>1, <1>2, <1>4

\* A recorded withdrawal leaves the total and waits in the log.
LEMMA FundsRequested ==
    ASSUME TypeOK, TypeOK', NEW v \in Validator, NEW amount \in Nat, NEW u \in Validator,
           UNCHANGED <<releases, wallet>>, RecordWithdraw(v, amount),
           RecordChanges(<<WithdrawRequest(v, amount)>>)
    PROVE  Funds(u)' = Funds(u)
<1>0. PICK w, nw, t, nt, p, np, r, nr \in Nat : FundsSplit(u, w, nw, t, nt, p, np, r, nr)
  BY FundsParts
<1>1. /\ w = wallet[u] /\ t = totalCollateral[u]
      /\ p = Pending(u, "Withdraw") /\ r = releases[u]
      /\ nw = wallet'[u] /\ nt = totalCollateral'[u]
      /\ np = Pending(u, "Withdraw")' /\ nr = releases'[u]
      /\ Funds(u) = w + t + p + r
      /\ Funds(u)' = nw + nt + np + nr
  BY <1>0 DEF FundsSplit
<1>2. w = nw /\ r = nr
  BY <1>1
<1>3. PICK c : c = WithdrawRequest(v, amount)
  OBVIOUS
<1>4. c \in Change /\ RecordChanges(<<c>>)
  BY <1>3, RequestType
<1>5. np = p + Share(c, u, "Withdraw")
  BY <1>1, <1>4, PendingRecord
<1>6. np = p + (IF u = v THEN amount ELSE 0)
  BY <1>3, <1>5, RequestShares
<1>7. nt = IF u = v THEN t - amount ELSE t
  <2>1. totalCollateral \in [Validator -> Nat]
    BY DEF TypeOK, ValidatorSetTypeOK
  <2>2. QED
    BY <1>1, <2>1 DEF RecordWithdraw
<1>8. nt + np = t + p
  BY <1>6, <1>7
<1>9. QED
  BY <1>1, <1>2, <1>8

\* A confirmed withdrawal goes from the log to the releases.
LEMMA FundsConfirmed ==
    ASSUME TypeOK, TypeOK', ConfirmNext, NEW u \in Validator
    PROVE  Funds(u)' = Funds(u)
<1>0. PICK w, nw, t, nt, p, np, r, nr \in Nat : FundsSplit(u, w, nw, t, nt, p, np, r, nr)
  BY FundsParts
<1>1. /\ w = wallet[u] /\ t = totalCollateral[u]
      /\ p = Pending(u, "Withdraw") /\ r = releases[u]
      /\ nw = wallet'[u] /\ nt = totalCollateral'[u]
      /\ np = Pending(u, "Withdraw")' /\ nr = releases'[u]
      /\ Funds(u) = w + t + p + r
      /\ Funds(u)' = nw + nt + np + nr
  BY <1>0 DEF FundsSplit
<1>2. PICK c : c = changes[startConfigurationNumber]
  OBVIOUS
<1>3. c.op \in Operations /\ c.validator \in Validator /\ c.amount \in Nat /\ ApplyChange(c)
  BY <1>2 DEF ConfirmNext, TypeOK, LogTypeOK, Change
<1>4. p = np + Share(c, u, "Withdraw")
  BY <1>1, <1>2, PendingConfirm
<1>5. UNCHANGED <<wallet, totalCollateral>>
  BY <1>3 DEF ConfirmNext, ApplyChange, moneyVars, Operations
<1>6. w = nw /\ t = nt
  BY <1>1, <1>5
<1>7. nr + np = r + p
  <2>1. CASE c.op # "Withdraw"
    <3>1. UNCHANGED releases
      BY <1>3, <2>1 DEF ApplyChange, moneyVars, Operations
    <3>2. Share(c, u, "Withdraw") = 0
      BY <2>1 DEF Share
    <3>3. QED
      BY <1>1, <1>4, <3>1, <3>2
  <2>2. CASE c.op = "Withdraw"
    <3>1. releases' = [releases EXCEPT ![c.validator] = releases[c.validator] + c.amount]
      BY <1>3, <2>2 DEF ApplyChange, AddNewRelease
    <3>2. releases \in [Validator -> Nat]
      BY DEF TypeOK, MoneyTypeOK
    <3>3. nr = IF u = c.validator THEN r + c.amount ELSE r
      BY <1>1, <1>3, <3>1, <3>2
    <3>4. Share(c, u, "Withdraw") = IF u = c.validator THEN c.amount ELSE 0
      BY <2>2 DEF Share
    <3>5. QED
      BY <1>3, <1>4, <3>3, <3>4
  <2>3. QED
    BY <2>1, <2>2
<1>8. QED
  BY <1>1, <1>6, <1>7

\* A claim moves releases to the wallet.
LEMMA FundsClaimed ==
    ASSUME TypeOK, TypeOK', NEW v \in Validator, Claim(v), NEW u \in Validator
    PROVE  Funds(u)' = Funds(u)
<1>0. PICK w, nw, t, nt, p, np, r, nr \in Nat : FundsSplit(u, w, nw, t, nt, p, np, r, nr)
  BY FundsParts
<1>1. /\ w = wallet[u] /\ t = totalCollateral[u]
      /\ p = Pending(u, "Withdraw") /\ r = releases[u]
      /\ nw = wallet'[u] /\ nt = totalCollateral'[u]
      /\ np = Pending(u, "Withdraw")' /\ nr = releases'[u]
      /\ Funds(u) = w + t + p + r
      /\ Funds(u)' = nw + nt + np + nr
  BY <1>0 DEF FundsSplit
<1>2. UNCHANGED <<totalCollateral, changes>>
  BY DEF Claim, validatorSetVars, logVars
<1>3. t = nt /\ p = np
  BY <1>1, <1>2, PendingUnchanged
<1>4. /\ releases \in [Validator -> Nat] /\ wallet \in [Validator -> Nat]
      /\ releases' = [releases EXCEPT ![v] = 0]
      /\ wallet' = [wallet EXCEPT ![v] = wallet[v] + releases[v]]
  BY DEF Claim, Receives, TypeOK, MoneyTypeOK
<1>5. /\ nr = IF u = v THEN 0 ELSE r
      /\ nw = IF u = v THEN w + r ELSE w
  BY <1>1, <1>4
<1>6. nw + nr = w + r
  BY <1>5
<1>7. QED
  BY <1>1, <1>3, <1>6

\* None of the parts moves.
LEMMA FundsSame ==
    ASSUME UNCHANGED <<wallet, totalCollateral, changes, releases>>, NEW u \in Validator
    PROVE  Funds(u)' = Funds(u)
BY PendingUnchanged DEF Funds

\* Every step keeps every account's funds accounted for.
LEMMA FundsNext ==
    TypeOK /\ TypeOK' /\ WellFormedInv /\ FundsInv /\ [Next]_vars => FundsInv'
<1> SUFFICES ASSUME TypeOK, TypeOK', WellFormedInv, FundsInv, [Next]_vars PROVE FundsInv'
  OBVIOUS
<1>0. \A amount \in Amounts : amount \in Nat
  BY SubnetActorAssumption
<1>1. ASSUME UNCHANGED genesisBalance, \A u \in Validator \ Funder : Funds(u)' = Funds(u)
      PROVE  FundsInv'
  BY <1>1, FundsKept DEF FundsInv, NoGenesisBalance
<1>2. ASSUME NEW a \in Funder, NEW amount \in Amounts,
             PreFund(a, amount) \/ PreRelease(a, amount)
      PROVE  FundsInv'
  <2>1. a \in Validator
    BY SubnetActorAssumption
  <2>2. ASSUME NEW u \in Validator \ Funder PROVE genesisBalance'[u] = 0 /\ Funds(u)' = Funds(u)
    <3>1. genesisBalance[u] = 0 /\ genesisBalance \in [Validator -> Nat]
          /\ wallet \in [Validator -> Nat]
      BY DEF FundsInv, NoGenesisBalance, TypeOK, GenesisTypeOK, MoneyTypeOK
    <3>2. genesisBalance'[u] = genesisBalance[u] /\ wallet'[u] = wallet[u]
      BY <1>2, <2>1, <2>2, <3>1 DEF PreFund, PreRelease, Pays, Receives
    <3>3. UNCHANGED <<totalCollateral, changes, releases>>
      BY <1>2 DEF PreFund, PreRelease, validatorSetVars, logVars
    <3>4. QED
      BY <3>1, <3>2, <3>3, PendingUnchanged DEF Funds
  <2>3. NoGenesisBalance'
    BY <2>2 DEF NoGenesisBalance
  <2>4. QED
    BY <2>2, <2>3, FundsKept
<1>3. ASSUME NEW v \in Validator, NEW amount \in Amounts,
             JoinBeforeBootstrap(v, amount) \/ StakeBeforeBootstrap(v, amount)
      PROVE  FundsInv'
  <2>1. /\ Pays(v, amount) /\ RecordDeposit(v, amount)
        /\ UNCHANGED <<genesisBalance, releases, changes>>
    BY <1>3 DEF JoinBeforeBootstrap, StakeBeforeBootstrap, DepositWithConfirm, logVars
  <2>2. \A u \in Validator : Funds(u)' = Funds(u)
    BY <1>0, <2>1, PendingUnchanged, FundsPaid
  <2>3. QED
    BY <1>1, <2>1, <2>2
<1>4. ASSUME NEW v \in Validator, NEW amount \in Amounts, UnstakeBeforeBootstrap(v, amount)
      PROVE  FundsInv'
  <2>1. /\ RecordWithdraw(v, amount) /\ Receives(v, amount)
        /\ UNCHANGED <<genesisBalance, releases, changes>>
    BY <1>4 DEF UnstakeBeforeBootstrap, WithdrawWithConfirm, logVars, genesisVars
  <2>2. \A u \in Validator : Funds(u)' = Funds(u)
    BY <1>0, <2>1, PendingUnchanged, FundsPaid
  <2>3. QED
    BY <1>1, <2>1, <2>2
<1>5. ASSUME NEW v \in Validator, LeaveBeforeBootstrap(v)
      PROVE  FundsInv'
  <2>1. PICK amount \in Nat, refund \in Nat : amount = totalCollateral[v] /\ refund = genesisBalance[v]
    BY DEF TypeOK, ValidatorSetTypeOK, GenesisTypeOK
  <2>2. /\ RecordWithdraw(v, amount) /\ Receives(v, refund + amount)
        /\ UNCHANGED <<genesisBalance, releases, changes>>
    BY <1>5, <2>1 DEF LeaveBeforeBootstrap, WithdrawWithConfirm, logVars
  <2>3. ASSUME NEW u \in Validator \ Funder PROVE Funds(u)' = Funds(u)
    <3>1. CASE u = v
      <4>1. refund + amount = amount
        BY <2>1, <2>3, <3>1 DEF FundsInv, NoGenesisBalance
      <4>2. QED
        BY <2>2, <4>1, PendingUnchanged, FundsPaid
    <3>2. CASE u # v
      <4>1. wallet'[u] = wallet[u] /\ totalCollateral'[u] = totalCollateral[u]
        BY <2>2, <3>2
        DEF Receives, RecordWithdraw, TypeOK, ValidatorSetTypeOK, MoneyTypeOK
      <4>2. QED
        BY <2>2, <4>1, PendingUnchanged DEF Funds
    <3>3. QED
      BY <3>1, <3>2
  <2>4. QED
    BY <1>1, <2>2, <2>3
<1>6. ASSUME NEW v \in Validator, NEW amount \in Amounts,
             JoinAfterBootstrap(v, amount) \/ StakeAfterBootstrap(v, amount)
      PROVE  FundsInv'
  <2>1. /\ Pays(v, amount) /\ RecordDeposit(v, amount)
        /\ UNCHANGED <<genesisBalance, releases>>
    BY <1>6 DEF JoinAfterBootstrap, StakeAfterBootstrap, genesisVars
  <2>2. PICK c : c = DepositRequest(v, amount)
    OBVIOUS
  <2>3. /\ amount \in Nat /\ c \in Change
        /\ RecordChanges(JoinRequests(v, amount)) \/ RecordChanges(<<c>>)
    BY <1>0, <1>6, <2>2, RequestType DEF JoinAfterBootstrap, StakeAfterBootstrap
  <2>4. ASSUME NEW u \in Validator PROVE Pending(u, "Withdraw")' = Pending(u, "Withdraw")
    <3>1. Pending(u, "Withdraw")' = Pending(u, "Withdraw") + Share(c, u, "Withdraw")
      BY <2>2, <2>3, PendingRecord, PendingJoin
    <3>2. Share(c, u, "Withdraw") = 0 /\ Pending(u, "Withdraw") \in Nat
      BY <2>2, RequestShares, ChangesAreLog
    <3>3. QED
      BY <3>1, <3>2
  <2>5. \A u \in Validator : Funds(u)' = Funds(u)
    BY <2>1, <2>3, <2>4, FundsPaid
  <2>6. QED
    BY <1>1, <2>1, <2>5
<1>7. ASSUME NEW v \in Validator, NEW amount \in Nat, RecordWithdraw(v, amount),
             RecordChanges(<<WithdrawRequest(v, amount)>>),
             UNCHANGED <<genesisBalance, releases, wallet>>
      PROVE  FundsInv'
  BY <1>1, <1>7, FundsRequested
<1>8. ASSUME NEW v \in Validator, NEW amount \in Amounts, UnstakeAfterBootstrap(v, amount)
      PROVE  FundsInv'
  BY <1>0, <1>7, <1>8 DEF UnstakeAfterBootstrap, genesisVars, moneyVars
<1>9. ASSUME NEW v \in Validator, LeaveAfterBootstrap(v)
      PROVE  FundsInv'
  <2>1. totalCollateral[v] \in Nat
    BY DEF TypeOK, ValidatorSetTypeOK
  <2>2. QED
    BY <1>7, <1>9, <2>1 DEF LeaveAfterBootstrap, genesisVars, moneyVars
<1>10. ASSUME NEW v \in Validator, NEW power \in Powers, SetFederatedPower(v, power)
       PROVE  FundsInv'
  <2>1. UNCHANGED <<wallet, totalCollateral, releases, genesisBalance>>
    BY <1>10 DEF SetFederatedPower, validatorSetVars, moneyVars, genesisVars
  <2>2. PICK c : c = FederatedPowerRequest(v, power)
    OBVIOUS
  <2>3. c \in Change /\ RecordChanges(<<c>>)
    BY <1>10, <2>2, RequestType, SubnetActorAssumption DEF SetFederatedPower
  <2>4. ASSUME NEW u \in Validator PROVE Funds(u)' = Funds(u)
    <3>1. Pending(u, "Withdraw")' = Pending(u, "Withdraw") + Share(c, u, "Withdraw")
      BY <2>3, PendingRecord
    <3>2. Share(c, u, "Withdraw") = 0 /\ Pending(u, "Withdraw") \in Nat
      BY <2>2, RequestShares, ChangesAreLog
    <3>3. Pending(u, "Withdraw")' = Pending(u, "Withdraw")
      BY <3>1, <3>2
    <3>4. QED
      BY <2>1, <3>3 DEF Funds
  <2>5. QED
    BY <1>1, <2>1, <2>4
<1>11. CASE ConfirmNext
  BY <1>1, <1>11, FundsConfirmed DEF ConfirmNext, genesisVars
<1>12. ASSUME NEW v \in Validator, Claim(v)
       PROVE  FundsInv'
  BY <1>1, <1>12, FundsClaimed DEF Claim, genesisVars
<1>13. ASSUME UNCHANGED <<wallet, totalCollateral, changes, releases, genesisBalance>>
       PROVE  FundsInv'
  BY <1>1, <1>13, FundsSame
<1>14. CASE FederateNext
  BY <1>13, <1>14 DEF FederateNext, logVars
<1>15. ASSUME NEW list \in Federations, StartFederation(list)
       PROVE  FundsInv'
  BY <1>13, <1>15 DEF StartFederation, validatorSetVars, logVars, genesisVars, moneyVars
<1>16. ASSUME NEW number \in 0..(nextConfigurationNumber - 1), SubmitCheckpoint(number)
       PROVE  FundsInv'
  BY <1>13, <1>16 DEF SubmitCheckpoint, validatorSetVars, logVars, genesisVars, moneyVars
<1>17. ASSUME NEW v \in Announcer, AddBootstrapNode(v)
       PROVE  FundsInv'
  BY <1>13, <1>17 DEF AddBootstrapNode, validatorSetVars, logVars, genesisVars, moneyVars
<1>18. CASE Kill \/ SetPaused \/ UNCHANGED vars
  BY <1>13, <1>18 DEF Kill, SetPaused, vars, validatorSetVars, logVars, genesisVars, moneyVars
<1>19. QED
  BY <1>2, <1>3, <1>4, <1>5, <1>6, <1>8, <1>9, <1>10, <1>11, <1>12, <1>14, <1>15, <1>16,
     <1>17, <1>18
  DEF Next

LEMMA FundsInit == Init => FundsInv
<1> SUFFICES ASSUME Init PROVE FundsInv
  OBVIOUS
<1>1. NoGenesisBalance
  BY DEF Init, NoGenesisBalance
<1>2. ASSUME NEW v \in Validator PROVE Funds(v) = Wealth
  <2>1. IsLog(changes) /\ Matching(changes, v, "Withdraw") = {}
    BY InitTypeOK, ChangesAreLog DEF Init, Matching
  <2>2. Pending(v, "Withdraw") = 0
    BY <2>1, PendingIsSum, PendingIsPendingIn, SumEmpty
  <2>3. wallet[v] = Wealth /\ totalCollateral[v] = 0 /\ releases[v] = 0 /\ Wealth \in Nat
    BY SubnetActorAssumption DEF Init, ValidatorSetInit
  <2>4. QED
    BY <2>2, <2>3 DEF Funds
<1>3. QED
  BY <1>1, <1>2 DEF FundsInv, FundsAccounted, Funds

\* SA-03 of specs/PROPERTIES.md for every account that does not pre-fund: all it
\* ever owned is in its wallet, its collateral, a withdrawal in the log, or a
\* release it can claim, however its calls and the confirmations interleave.
THEOREM FundsSafe == Spec => []FundsAccounted
<1>1. FundsInv => FundsAccounted
  BY DEF FundsInv
<1>2. QED
  BY <1>1, FundsInit, FundsNext, TypeCorrect, WellFormedInvariant, PTL DEF Spec

-----------------------------------------------------------------------------
(***************************************************************************)
(* Confirming never reverts. All the books together are needed for it: the *)
(* ledger for the collateral, the sum for the total, the stake for what    *)
(* the gateway gives back, the balance for what it is paid. In the         *)
(* Federated mode it is the membership of whoever has power.               *)
(***************************************************************************)

RegisteredWhenBootstrapped == bootstrapped /\ ~killed => gwRegistered

\* Power may remain on the record of a validator only while it is a member.
PowerfulAreMembers ==
    PermissionMode = "Federated" => \A v \in Validator : federatedPower[v] > 0 => v \in Members

\* The bootstrap registers, and only kill undoes it.
LEMMA RegisteredNext ==
    TypeOK /\ RegisteredWhenBootstrapped /\ [Next]_vars => RegisteredWhenBootstrapped'
<1> SUFFICES ASSUME TypeOK, RegisteredWhenBootstrapped, [Next]_vars
             PROVE  RegisteredWhenBootstrapped'
  OBVIOUS
<1>1. ASSUME UNCHANGED <<bootstrapped, killed, gwRegistered>> PROVE RegisteredWhenBootstrapped'
  BY <1>1 DEF RegisteredWhenBootstrapped
<1>2. ASSUME NEW v \in Validator, NEW amount \in Amounts,
             JoinBeforeBootstrap(v, amount) \/ StakeBeforeBootstrap(v, amount)
      PROVE  RegisteredWhenBootstrapped'
  BY <1>2
  DEF JoinBeforeBootstrap, StakeBeforeBootstrap, BootstrapSubnetIfNeeded, Register, gatewayVars,
      RegisteredWhenBootstrapped
<1>3. CASE FederateNext
  BY <1>3 DEF FederateNext, Register, gatewayVars, RegisteredWhenBootstrapped
<1>4. CASE ConfirmNext
  <2>1. UNCHANGED <<bootstrapped, killed>>
    BY <1>4 DEF ConfirmNext, lifecycleVars
  <2>2. ASSUME NEW c, ApplyChange(c), c.op \in Operations
        PROVE  gwRegistered' = gwRegistered
    BY <2>2 DEF ApplyChange, Operations, ReleaseStake, AddStake, gatewayVars
  <2>3. changes[startConfigurationNumber].op \in Operations
    BY <1>4 DEF ConfirmNext, TypeOK, LogTypeOK, Change
  <2>4. QED
    BY <1>1, <1>4, <2>1, <2>2, <2>3 DEF ConfirmNext
<1>5. CASE Kill
  BY <1>5 DEF Kill, RegisteredWhenBootstrapped
<1>6. ASSUME NEW a \in Funder, NEW amount \in Amounts,
             PreFund(a, amount) \/ PreRelease(a, amount)
      PROVE  RegisteredWhenBootstrapped'
  BY <1>1, <1>6 DEF PreFund, PreRelease, lifecycleVars, gatewayVars
<1>7. ASSUME NEW v \in Validator, NEW amount \in Amounts,
             \/ JoinAfterBootstrap(v, amount)
             \/ StakeAfterBootstrap(v, amount)
             \/ UnstakeBeforeBootstrap(v, amount)
             \/ UnstakeAfterBootstrap(v, amount)
      PROVE  RegisteredWhenBootstrapped'
  BY <1>1, <1>7
  DEF JoinAfterBootstrap, StakeAfterBootstrap, UnstakeBeforeBootstrap, UnstakeAfterBootstrap,
      lifecycleVars, gatewayVars
<1>8. ASSUME NEW v \in Validator,
             LeaveBeforeBootstrap(v) \/ LeaveAfterBootstrap(v) \/ Claim(v)
      PROVE  RegisteredWhenBootstrapped'
  BY <1>1, <1>8 DEF LeaveBeforeBootstrap, LeaveAfterBootstrap, Claim, lifecycleVars, gatewayVars
<1>9. ASSUME NEW list \in Federations, StartFederation(list)
      PROVE  RegisteredWhenBootstrapped'
  BY <1>1, <1>9 DEF StartFederation, lifecycleVars, gatewayVars
<1>10. ASSUME NEW v \in Validator, NEW power \in Powers, SetFederatedPower(v, power)
       PROVE  RegisteredWhenBootstrapped'
  BY <1>1, <1>10 DEF SetFederatedPower, lifecycleVars, gatewayVars
<1>11. ASSUME NEW number \in 0..(nextConfigurationNumber - 1), SubmitCheckpoint(number)
       PROVE  RegisteredWhenBootstrapped'
  BY <1>1, <1>11 DEF SubmitCheckpoint, lifecycleVars, gatewayVars
<1>12. ASSUME NEW v \in Announcer, AddBootstrapNode(v)
       PROVE  RegisteredWhenBootstrapped'
  BY <1>1, <1>12 DEF AddBootstrapNode, lifecycleVars, gatewayVars
<1>13. CASE SetPaused \/ UNCHANGED vars
  BY <1>1, <1>13 DEF SetPaused, vars, lifecycleVars, gatewayVars
<1>14. QED
  BY <1>2, <1>3, <1>4, <1>5, <1>6, <1>7, <1>8, <1>9, <1>10, <1>11, <1>12, <1>13 DEF Next

\* Assigning power keeps the members with power.
LEMMA PowerAssigned ==
    ASSUME TypeOK, SetsAreDisjoint, PowerfulAreMembers,
           NEW v \in Validator, NEW power \in Nat, ConfirmFederatedPower(v, power)
    PROVE  PowerfulAreMembers'
<1> SUFFICES ASSUME PermissionMode = "Federated", NEW u \in Validator, federatedPower'[u] > 0
             PROVE  u \in Members'
  BY DEF PowerfulAreMembers
<1>1. federatedPower \in [Validator -> Nat] /\ federatedPower[v] \in Nat /\ federatedPower[u] \in Nat
  BY DEF TypeOK, ValidatorSetTypeOK
<1>2. federatedPower'[u] = IF u = v THEN power ELSE federatedPower[u]
  BY <1>1 DEF ConfirmFederatedPower
<1>3. federatedPower[u] > 0 => u \in Members
  BY DEF PowerfulAreMembers
<1>4. CASE federatedPower[v] = power
  BY <1>2, <1>3, <1>4 DEF ConfirmFederatedPower, Members
<1>5. CASE federatedPower[v] < power
  <2>1. IncreaseReshuffle(v, power)
    BY <1>1, <1>5 DEF ConfirmFederatedPower
  <2>2. Members' = Members \cup {v}
    BY <2>1, IncreaseReshuffleMembers
  <2>3. QED
    BY <1>2, <1>3, <2>2
<1>6. CASE federatedPower[v] > power
  <2>1. ReduceReshuffle(v, power)
    BY <1>1, <1>6 DEF ConfirmFederatedPower
  <2>2. /\ v \in Members
        /\ power = 0 => Members' = Members \ {v}
        /\ power # 0 => Members' = Members
    BY <2>1, ReduceReshuffleMembers
  <2>3. CASE u = v
    BY <1>2, <2>2, <2>3
  <2>4. CASE u # v
    BY <1>2, <1>3, <2>2, <2>4
  <2>5. QED
    BY <2>3, <2>4
<1>7. QED
  BY <1>1, <1>4, <1>5, <1>6

\* Deposits and withdrawals come before anybody has power.
LEMMA NobodyPowerful ==
    ASSUME TypeOK, WellFormedInv, StakingOpen, ~bootstrapped, NEW v \in Validator, NEW amount,
           ConfirmDeposit(v, amount) \/ ConfirmWithdraw(v, amount)
    PROVE  PowerfulAreMembers'
<1> SUFFICES ASSUME PermissionMode = "Federated", NEW u \in Validator
             PROVE  federatedPower'[u] = 0
  BY DEF PowerfulAreMembers
<1>1. federatedPower[u] = 0 /\ federatedPower \in [Validator -> Nat]
  BY DEF WellFormedInv, PowerComesWithFederation, StakingOpen, Idle, TypeOK, ValidatorSetTypeOK
<1>2. CASE ConfirmDeposit(v, amount)
  BY <1>1, <1>2 DEF ConfirmDeposit
<1>3. CASE ConfirmWithdraw(v, amount)
  <2>1. PICK new \in {0, federatedPower[v]} : federatedPower' = [federatedPower EXCEPT ![v] = new]
    BY <1>3 DEF ConfirmWithdraw
  <2>2. QED
    BY <1>1, <2>1
<1>4. QED
  BY <1>2, <1>3

\* Nobody keeps power when it leaves the sets.
LEMMA PowerfulNext ==
    TypeOK /\ WellFormedInv /\ PowerfulAreMembers /\ [Next]_vars => PowerfulAreMembers'
<1> SUFFICES ASSUME TypeOK, WellFormedInv, PowerfulAreMembers, [Next]_vars,
                    PermissionMode = "Federated"
             PROVE  PowerfulAreMembers'
  BY DEF PowerfulAreMembers
<1>0. SetsAreDisjoint
  BY DEF WellFormedInv, ValidatorSetWellFormed
<1>1. CASE UNCHANGED confirmedVars
  BY <1>1 DEF confirmedVars, PowerfulAreMembers, Members
<1>2. ASSUME NEW v \in Validator, NEW amount \in Amounts,
             \/ JoinBeforeBootstrap(v, amount)
             \/ StakeBeforeBootstrap(v, amount)
             \/ UnstakeBeforeBootstrap(v, amount)
      PROVE  PowerfulAreMembers'
  BY <1>2, NobodyPowerful
  DEF JoinBeforeBootstrap, StakeBeforeBootstrap, UnstakeBeforeBootstrap, DepositWithConfirm,
      WithdrawWithConfirm
<1>3. ASSUME NEW v \in Validator, LeaveBeforeBootstrap(v)
      PROVE  PowerfulAreMembers'
  BY <1>3, NobodyPowerful DEF LeaveBeforeBootstrap, WithdrawWithConfirm
<1>4. CASE FederateNext
  <2>1. PICK g : g = Head(federating)
    OBVIOUS
  <2>2. g \in GenesisValidator
    BY <1>4, <2>1 DEF FederateNext, TypeOK, LogTypeOK
  <2>3. g.addr \in Validator /\ g.weight \in Nat /\ ConfirmFederatedPower(g.addr, g.weight)
    BY <1>4, <2>1, <2>2 DEF FederateNext, GenesisValidator
  <2>4. QED
    BY <1>0, <2>3, PowerAssigned
<1>5. CASE ConfirmNext
  <2>1. PICK c : c = changes[startConfigurationNumber]
    OBVIOUS
  <2>2. startConfigurationNumber \in DOMAIN changes
    BY <1>5 DEF ConfirmNext, TypeOK, LogTypeOK
  <2>3. /\ c.op = "SetFederatedPower" /\ ApplyChange(c)
        /\ c.validator \in Validator /\ c.amount \in Nat
    BY <1>5, <2>1, <2>2 DEF ConfirmNext, TypeOK, LogTypeOK, Change, WellFormedInv, LogMatchesMode
  <2>4. ConfirmFederatedPower(c.validator, c.amount)
    BY <2>3 DEF ApplyChange
  <2>5. QED
    BY <1>0, <2>3, <2>4, PowerAssigned
<1>6. QED
  BY <1>1, <1>2, <1>3, <1>4, <1>5, ConfirmingSteps

\* What is needed of the books, in the state itself.
BooksInv ==
    /\ RegisteredWhenBootstrapped
    /\ PowerfulAreMembers
    /\ ActorSolvent
    /\ TotalIsSum
    /\ Ledger!HeadConfirmable
    /\ PermissionMode # "Federated" =>
          GatewayStakeMatches /\ MembersHaveCollateral /\ LogPositive

\* All the books together.
LEMMA BooksInvariant == Spec => []BooksInv
<1>1. Init => RegisteredWhenBootstrapped /\ PowerfulAreMembers
  BY DEF Init, ValidatorSetInit, RegisteredWhenBootstrapped, PowerfulAreMembers
<1>2. Spec => [](RegisteredWhenBootstrapped /\ PowerfulAreMembers)
  BY <1>1, RegisteredNext, PowerfulNext, TypeCorrect, WellFormedInvariant, PTL DEF Spec
<1>3. CASE PermissionMode = "Federated"
  <2>1. /\ RegisteredWhenBootstrapped /\ PowerfulAreMembers
        /\ ActorSolvent /\ TotalIsSum /\ Ledger!HeadConfirmable
        => BooksInv
    BY <1>3, Zenon DEF BooksInv
  <2>2. QED
    BY <1>2, <2>1, Solvent, TotalCollateral, WithdrawalsCovered, PTL
<1>4. CASE PermissionMode # "Federated"
  <2>1. /\ RegisteredWhenBootstrapped /\ PowerfulAreMembers
        /\ ActorSolvent /\ TotalIsSum /\ Ledger!HeadConfirmable
        /\ (StakeInv /\ MembershipInv)
        => BooksInv
    BY Zenon DEF BooksInv, StakeInv, MembershipInv
  <2>2. Spec => [](StakeInv /\ MembershipInv)
    BY <1>4, StakeInvariant
  <2>3. QED
    BY <1>2, <2>1, <2>2, Solvent, TotalCollateral, WithdrawalsCovered, PTL
<1>5. QED
  BY <1>3, <1>4

\* The next change in the log can be confirmed.
LEMMA HeadCanApply ==
    ASSUME TypeOK, WellFormedInv, BooksInv, startConfigurationNumber < nextConfigurationNumber,
           ~killed
    PROVE  gwRegistered /\ CanApply(changes[startConfigurationNumber])
<1>1. PICK c, first : c = changes[first] /\ first = startConfigurationNumber
  OBVIOUS
<1>2. first \in DOMAIN changes /\ nextConfigurationNumber # 1
  BY <1>1 DEF TypeOK, LogTypeOK
<1>3. /\ c \in Change /\ c.op \in Operations /\ c.validator \in Validator /\ c.amount \in Nat
      /\ (c.op = "SetFederatedPower") <=> (PermissionMode = "Federated")
  BY <1>1, <1>2 DEF TypeOK, LogTypeOK, Change, WellFormedInv, LogMatchesMode
<1>4. bootstrapped
  BY <1>2 DEF WellFormedInv, LogStartsAtBootstrap
<1>5. gwRegistered
  BY <1>4 DEF BooksInv, RegisteredWhenBootstrapped
<1>6. PICK v \in Validator, amount \in Nat : v = c.validator /\ amount = c.amount
  BY <1>3
<1>7. CASE c.op = "SetMetadata"
  BY <1>1, <1>5, <1>7 DEF CanApply
<1>8. CASE c.op = "SetFederatedPower"
  <2>1. federatedPower[v] > 0 => v \in Members
    BY <1>3, <1>8 DEF BooksInv, PowerfulAreMembers
  <2>2. federatedPower[v] \in Nat
    BY DEF TypeOK, ValidatorSetTypeOK
  <2>3. amount < federatedPower[v] => v \in Members
    BY <1>6, <2>1, <2>2
  <2>4. CanApply(c)
    BY <1>6, <1>8, <2>3 DEF CanApply
  <2>5. QED
    BY <1>1, <1>5, <2>4
<1>9. ASSUME c.op \in {"Withdraw", "Deposit"} PROVE 0 < amount
  BY <1>1, <1>2, <1>3, <1>6, <1>9 DEF BooksInv, LogPositive
<1>10. CASE c.op = "Withdraw"
  <2>1. confirmedCollateral[v] \in Nat /\ totalConfirmedCollateral \in Nat
    BY DEF TypeOK, ValidatorSetTypeOK
  <2>2. amount <= confirmedCollateral[v]
    <3>1. DeltaOf(c) = -amount
      BY <1>6, <1>10 DEF DeltaOf
    <3>2. confirmedCollateral[v] + (-amount) \in Nat
      BY <1>1, <1>2, <1>6, <3>1 DEF BooksInv, Ledger!HeadConfirmable
    <3>3. QED
      BY <2>1, <3>2
  <2>3. confirmedCollateral[v] <= totalConfirmedCollateral
    BY SumBounds DEF BooksInv, TotalIsSum, TypeOK, ValidatorSetTypeOK
  <2>4. gwStake = totalConfirmedCollateral
    BY <1>3, <1>5, <1>10 DEF BooksInv, GatewayStakeMatches
  <2>5. v \in Members
    BY <1>3, <1>9, <1>10, <2>1, <2>2 DEF BooksInv, MembersHaveCollateral
  <2>6. amount <= totalConfirmedCollateral /\ amount <= gwStake
    BY <2>1, <2>2, <2>3, <2>4
  <2>7. CanApply(c)
    BY <1>6, <1>9, <1>10, <2>2, <2>5, <2>6 DEF CanApply
  <2>8. QED
    BY <1>1, <1>5, <2>7
<1>11. CASE c.op = "Deposit"
  <2>1. PICK f : f = [u \in Validator |-> Pending(u, "Deposit")]
    OBVIOUS
  <2>2. f \in [Validator -> Nat]
    BY <2>1, ChangesAreLog
  <2>3. balance = SumOver(releases) + SumOver(f)
    BY <1>3, <1>4, <1>11, <2>1 DEF BooksInv, ActorSolvent
  <2>4. SumOver(releases) \in Nat /\ SumOver(f) \in Nat /\ f[v] \in Nat /\ f[v] <= SumOver(f)
    BY <2>2, SumBounds DEF TypeOK, MoneyTypeOK
  <2>5. amount <= f[v]
    <3>1. first \in Matching(changes, v, "Deposit")
      BY <1>1, <1>2, <1>6, <1>11 DEF Matching
    <3>2. amount <= PendingIn(changes, v, "Deposit")
      BY <1>1, <1>6, <3>1, ChangesAreLog, PendingIsSum
    <3>3. QED
      BY <2>1, <3>2, PendingIsPendingIn
  <2>6. amount <= balance
    BY <2>3, <2>4, <2>5
  <2>7. CanApply(c)
    BY <1>6, <1>9, <1>11, <2>6 DEF CanApply
  <2>8. QED
    BY <1>1, <1>5, <2>7
<1>12. QED
  BY <1>3, <1>7, <1>8, <1>10, <1>11 DEF Operations

(***************************************************************************)
(* The release queues have room for the rest of a running loop.            *)
(***************************************************************************)

\* The withdrawals that the loop in progress is still to confirm fit into the queues.
RoomInv ==
    \A v \in Validator :
        releaseCount[v] + Cardinality(WithdrawalsUpTo(v, confirmUpTo)) <= MaxReleases

\* Between two loops nothing is to be confirmed.
LEMMA RoomIdle ==
    ASSUME TypeOK', confirmUpTo' < startConfigurationNumber'
    PROVE  RoomInv'
<1>1. SUFFICES ASSUME NEW v \in Validator
               PROVE  releaseCount'[v] + Cardinality(WithdrawalsUpTo(v, confirmUpTo)')
                        <= MaxReleases
  BY DEF RoomInv
<1>2. PICK upTo \in Int, start \in Int : upTo = confirmUpTo' /\ start = startConfigurationNumber'
  BY DEF TypeOK, LogTypeOK
<1>3. start..upTo = {}
  BY <1>2
<1>4. WithdrawalsUpTo(v, confirmUpTo)' = {}
  BY <1>2, <1>3 DEF WithdrawalsUpTo
<1>5. Cardinality(WithdrawalsUpTo(v, confirmUpTo)') = 0
  BY <1>4, FS_EmptySet
<1>6. PICK count \in 0..MaxReleases : count = releaseCount'[v]
  BY DEF TypeOK, MoneyTypeOK
<1>7. QED
  BY <1>5, <1>6, SubnetActorAssumption

\* What a loop confirms was counted before it began.
LEMMA RoomSubmit ==
    ASSUME TypeOK, TypeOK', NEW number \in 0..(nextConfigurationNumber - 1),
           SubmitCheckpoint(number)
    PROVE  RoomInv'
<1>1. CASE number < startConfigurationNumber
  BY <1>1, RoomIdle DEF SubmitCheckpoint, NumberToConfirm, Idle, logVars
<1>2. CASE ~(number < startConfigurationNumber)
  <2>1. confirmUpTo' = number /\ UNCHANGED <<releaseCount, changes, startConfigurationNumber>>
    BY <1>2 DEF SubmitCheckpoint, NumberToConfirm, logVars, moneyVars
  <2>2. \A v \in Validator : WithdrawalsUpTo(v, confirmUpTo)' = WithdrawalsUpTo(v, number)
    BY <2>1 DEF WithdrawalsUpTo
  <2>3. QED
    BY <2>1, <2>2 DEF RoomInv, SubmitCheckpoint, ReleasesFit
<1>3. QED
  BY <1>1, <1>2

\* The withdrawals of a validator before a step of the loop, and after it.
LEMMA WithdrawalsShrink ==
    ASSUME TypeOK, ConfirmNext, NEW v \in Validator
    PROVE  /\ WithdrawalsUpTo(v, confirmUpTo)' =
                WithdrawalsUpTo(v, confirmUpTo) \ {startConfigurationNumber}
           /\ startConfigurationNumber \in WithdrawalsUpTo(v, confirmUpTo) <=>
                /\ changes[startConfigurationNumber].op = "Withdraw"
                /\ changes[startConfigurationNumber].validator = v
           /\ IsFiniteSet(WithdrawalsUpTo(v, confirmUpTo))
<1>0. PICK old, new : old = changes /\ new = changes'
  OBVIOUS
<1>1. PICK start \in Nat, upTo \in Nat, next \in Nat :
         /\ start = startConfigurationNumber /\ upTo = confirmUpTo
         /\ next = nextConfigurationNumber
         /\ start <= upTo /\ upTo <= next - 1
  BY DEF TypeOK, LogTypeOK, ConfirmNext
<1>2. /\ startConfigurationNumber' = start + 1 /\ confirmUpTo' = upTo
      /\ new = [n \in (start + 1)..(next - 1) |-> old[n]]
  BY <1>0, <1>1 DEF ConfirmNext, PurgeChange, loopVars
<1>3. /\ (start + 1)..upTo = (start..upTo) \ {start}
      /\ start \in start..upTo
      /\ \A n \in (start + 1)..upTo : n \in (start + 1)..(next - 1)
  BY <1>1
<1>4. \A n \in (start + 1)..upTo : new[n] = old[n]
  BY <1>2, <1>3
<1>5. /\ WithdrawalsUpTo(v, confirmUpTo) =
            {n \in start..upTo : old[n].op = "Withdraw" /\ old[n].validator = v}
      /\ WithdrawalsUpTo(v, confirmUpTo)' =
            {n \in (start + 1)..upTo : new[n].op = "Withdraw" /\ new[n].validator = v}
  BY <1>0, <1>1, <1>2 DEF WithdrawalsUpTo
<1>6. IsFiniteSet(start..upTo)
  BY <1>1, FS_Interval
<1>7. IsFiniteSet(WithdrawalsUpTo(v, confirmUpTo))
  BY <1>5, <1>6, FS_Subset
<1>8. QED
  BY <1>0, <1>1, <1>3, <1>4, <1>5, <1>7

\* A confirmed withdrawal leaves the loop's work for the queue.
LEMMA RoomConfirm ==
    ASSUME TypeOK, RoomInv, ConfirmNext
    PROVE  RoomInv'
<1>1. SUFFICES ASSUME NEW v \in Validator
               PROVE  releaseCount'[v] + Cardinality(WithdrawalsUpTo(v, confirmUpTo)')
                        <= MaxReleases
  BY DEF RoomInv
<1>2. PICK first, counts, work, rest, c :
         /\ first = startConfigurationNumber /\ counts = releaseCount
         /\ work = WithdrawalsUpTo(v, confirmUpTo) /\ rest = WithdrawalsUpTo(v, confirmUpTo)'
         /\ c = changes[startConfigurationNumber]
  OBVIOUS
<1>3. /\ rest = work \ {first} /\ IsFiniteSet(work)
      /\ first \in work <=> c.op = "Withdraw" /\ c.validator = v
  BY <1>2, WithdrawalsShrink
<1>4. /\ Cardinality(work) \in Nat
      /\ Cardinality(rest) = IF first \in work THEN Cardinality(work) - 1 ELSE Cardinality(work)
  BY <1>3, FS_RemoveElement, FS_CardinalityType
<1>5. /\ counts[v] \in Nat /\ counts \in [Validator -> 0..MaxReleases]
      /\ counts[v] + Cardinality(work) <= MaxReleases
  BY <1>2, SubnetActorAssumption DEF RoomInv, TypeOK, MoneyTypeOK
<1>6. c \in Change /\ ApplyChange(c)
  <2>1. startConfigurationNumber \in DOMAIN changes /\ changes[startConfigurationNumber] \in Change
    BY DEF ConfirmNext, TypeOK, LogTypeOK
  <2>2. QED
    BY <1>2, <2>1 DEF ConfirmNext
<1>7. CASE c.op = "Withdraw"
  <2>1. releaseCount' = [counts EXCEPT ![c.validator] = counts[c.validator] + 1]
    BY <1>2, <1>6, <1>7 DEF ApplyChange, AddNewRelease
  <2>2. CASE c.validator = v
    <3>1. releaseCount'[v] = counts[v] + 1 /\ first \in work
      BY <1>3, <1>5, <1>7, <2>1, <2>2
    <3>2. QED
      BY <1>2, <1>4, <1>5, <3>1
  <2>3. CASE c.validator # v
    <3>1. releaseCount'[v] = counts[v] /\ first \notin work
      BY <1>3, <1>5, <2>1, <2>3
    <3>2. QED
      BY <1>2, <1>4, <1>5, <3>1
  <2>4. QED
    BY <2>2, <2>3
<1>8. CASE c.op # "Withdraw"
  <2>1. releaseCount' = counts
    BY <1>2, <1>6, <1>8 DEF ApplyChange, moneyVars, Change, Operations
  <2>2. first \notin work
    BY <1>3, <1>8
  <2>3. QED
    BY <1>2, <1>4, <1>5, <2>1, <2>2
<1>9. QED
  BY <1>7, <1>8

\* Every step keeps the room.
LEMMA RoomNext == TypeOK /\ TypeOK' /\ RoomInv /\ [Next]_vars => RoomInv'
<1> SUFFICES ASSUME TypeOK, TypeOK', RoomInv, [Next]_vars
             PROVE  RoomInv'
  OBVIOUS
<1>1. ASSUME confirmUpTo < startConfigurationNumber,
             UNCHANGED <<startConfigurationNumber, confirmUpTo>>
      PROVE  RoomInv'
  BY <1>1, RoomIdle
<1>2. ASSUME UNCHANGED <<changes, startConfigurationNumber, confirmUpTo, releaseCount>>
      PROVE  RoomInv'
  BY <1>2 DEF RoomInv, WithdrawalsUpTo
<1>3. ASSUME NEW a \in Funder, NEW amount \in Amounts,
             PreFund(a, amount) \/ PreRelease(a, amount)
      PROVE  RoomInv'
  BY <1>1, <1>3 DEF PreFund, PreRelease, Idle, logVars, loopVars
<1>4. ASSUME NEW v \in Validator, NEW amount \in Amounts,
             \/ JoinBeforeBootstrap(v, amount)
             \/ JoinAfterBootstrap(v, amount)
             \/ StakeBeforeBootstrap(v, amount)
             \/ StakeAfterBootstrap(v, amount)
      PROVE  RoomInv'
  BY <1>1, <1>4 DEF JoinBeforeBootstrap, JoinAfterBootstrap, StakeBeforeBootstrap,
     StakeAfterBootstrap, StakingOpen, Idle, logVars, loopVars, RecordChanges
<1>5. ASSUME NEW v \in Validator, NEW amount \in Amounts,
             UnstakeBeforeBootstrap(v, amount) \/ UnstakeAfterBootstrap(v, amount)
      PROVE  RoomInv'
  BY <1>1, <1>5 DEF UnstakeBeforeBootstrap, UnstakeAfterBootstrap, StakingOpen, Idle,
     logVars, loopVars, RecordChanges
<1>6. ASSUME NEW v \in Validator, LeaveBeforeBootstrap(v) \/ LeaveAfterBootstrap(v)
      PROVE  RoomInv'
  BY <1>1, <1>6 DEF LeaveBeforeBootstrap, LeaveAfterBootstrap, StakingOpen, Idle, logVars,
     loopVars, RecordChanges
<1>7. ASSUME NEW list \in Federations, StartFederation(list)
      PROVE  RoomInv'
  BY <1>2, <1>7 DEF StartFederation, logVars, moneyVars
<1>8. CASE FederateNext
  BY <1>2, <1>8 DEF FederateNext, logVars
<1>9. ASSUME NEW v \in Validator, NEW power \in Powers, SetFederatedPower(v, power)
      PROVE  RoomInv'
  BY <1>1, <1>9 DEF SetFederatedPower, Idle, loopVars, RecordChanges
<1>10. ASSUME NEW v \in Validator, Claim(v)
       PROVE  RoomInv'
  BY <1>1, <1>10 DEF Claim, Idle, logVars, loopVars
<1>11. ASSUME NEW v \in Announcer, AddBootstrapNode(v)
       PROVE  RoomInv'
  BY <1>2, <1>11 DEF AddBootstrapNode, logVars, loopVars, moneyVars
<1>12. CASE Kill \/ SetPaused \/ UNCHANGED vars
  BY <1>2, <1>12 DEF Kill, SetPaused, vars, logVars, loopVars, moneyVars
<1>13. QED
  BY <1>3, <1>4, <1>5, <1>6, <1>7, <1>8, <1>9, <1>10, <1>11, <1>12, RoomSubmit, RoomConfirm
  DEF Next

\* The head of a running loop finds room.
LEMMA HeadHasRoom ==
    ASSUME TypeOK, RoomInv, startConfigurationNumber <= confirmUpTo
    PROVE  HasRoom(changes[startConfigurationNumber])
<1>1. PICK c, first, upTo : /\ c = changes[first] /\ upTo = confirmUpTo
                            /\ first = startConfigurationNumber
  OBVIOUS
<1>0. first \in Nat /\ upTo \in Nat /\ first <= upTo /\ c \in Change
  BY <1>1 DEF TypeOK, LogTypeOK
<1>2. SUFFICES ASSUME c.op = "Withdraw" PROVE releaseCount[c.validator] < MaxReleases
  BY <1>1 DEF HasRoom
<1>3. PICK v \in Validator : v = c.validator
  BY <1>0 DEF Change
<1>4. PICK work : work = WithdrawalsUpTo(v, confirmUpTo)
  OBVIOUS
<1>5. first \in work /\ work \subseteq first..upTo
  BY <1>0, <1>1, <1>2, <1>3, <1>4 DEF WithdrawalsUpTo
<1>6. IsFiniteSet(work)
  <2>1. IsFiniteSet(first..upTo)
    BY <1>0, FS_Interval
  <2>2. QED
    BY <1>5, <2>1, FS_Subset
<1>7. Cardinality(work) \in Nat /\ Cardinality(work) # 0
  BY <1>5, <1>6, FS_EmptySet, FS_CardinalityType
<1>8. releaseCount[v] \in Nat /\ releaseCount[v] + Cardinality(work) <= MaxReleases
  BY <1>4, SubnetActorAssumption DEF RoomInv, TypeOK, MoneyTypeOK
<1>9. QED
  BY <1>3, <1>7, <1>8, SubnetActorAssumption

\* In every permission mode, whatever was recorded: until the subnet is killed
\* the next change of the log finds the registration, the collateral, the
\* membership, the stake and the money it takes. Only a release queue that is full
\* can keep a checkpoint from confirming it, and then before the loop begins: a
\* running loop finds room for each of its withdrawals (confirmChange, push).
THEOREM NeverReverts == Spec => []ConfirmationNeverReverts
<1>1. TypeOK /\ WellFormedInv /\ BooksInv /\ RoomInv => ConfirmationNeverReverts
  BY HeadCanApply, HeadHasRoom DEF ConfirmationNeverReverts
<1>2. Init => RoomInv
  <2>1. SUFFICES ASSUME Init, NEW v \in Validator
                 PROVE  releaseCount[v] + Cardinality(WithdrawalsUpTo(v, confirmUpTo))
                          <= MaxReleases
    BY DEF RoomInv
  <2>2. releaseCount[v] = 0 /\ WithdrawalsUpTo(v, confirmUpTo) = {}
    BY <2>1 DEF Init, WithdrawalsUpTo
  <2>3. QED
    BY <2>2, FS_EmptySet, SubnetActorAssumption
<1>3. QED
  BY <1>1, <1>2, RoomNext, BooksInvariant, TypeCorrect, WellFormedInvariant, PTL DEF Spec

-----------------------------------------------------------------------------
(***************************************************************************)
(* Active validators have a public key. Where power is collateral the key  *)
(* goes with the last collateral of a validator, total and confirmed, and  *)
(* deposits of its next join may already wait in the log. The books of the *)
(* ledger's chronicle tell which deposits will find it without collateral: *)
(* each of them comes right behind its public key.                         *)
(***************************************************************************)

CollateralHasMetadata == \A v \in Validator : confirmedCollateral[v] > 0 => hasMetadata[v]

\* The deposit n will make a member of someone who is none.
FirstDeposit(n, book) ==
    changes[n].op = "Deposit" /\ book[n][changes[n].validator] = 0

AnnouncedAt(n) ==
    \/ n = startConfigurationNumber /\ hasMetadata[changes[n].validator]
    \/ n - 1 \in DOMAIN changes /\ changes[n - 1] = MetadataRequest(changes[n].validator)

Announced(book) == \A n \in DOMAIN changes : FirstDeposit(n, book) => AnnouncedAt(n)

MetadataInv ==
    /\ CollateralHasMetadata
    /\ \E book : LedgerFacts!IsChronicle(book) /\ Announced(book)

\* The actor's ledger has the types that the facts about ledgers need.
LEMMA LedgerTyped == TypeOK => LedgerFacts!LedgerTypeOK
<1> SUFFICES ASSUME TypeOK PROVE LedgerFacts!LedgerTypeOK
  OBVIOUS
<1>1. \A c \in Change : DeltaOf(c) \in Int /\ c.validator \in Validator
  BY DEF Change, DeltaOf
<1>2. /\ startConfigurationNumber \in Nat /\ nextConfigurationNumber \in Nat
      /\ startConfigurationNumber <= nextConfigurationNumber
      /\ DOMAIN changes = startConfigurationNumber..(nextConfigurationNumber - 1)
      /\ \A n \in DOMAIN changes : changes[n] \in Change
  BY DEF TypeOK, LogTypeOK
<1>3. Pendings \in [startConfigurationNumber..(nextConfigurationNumber - 1) -> LedgerFacts!Entry]
  BY <1>1, <1>2 DEF Pendings, LedgerFacts!Entry
<1>4. QED
  BY <1>2, <1>3 DEF LedgerFacts!LedgerTypeOK, LedgerFacts!Balances, TypeOK, ValidatorSetTypeOK

\* The two instances of the ledger have the same steps.
LEMMA SameLedger ==
    /\ \A v, empty : Ledger!Record(v, empty) => LedgerFacts!Record(v, empty)
    /\ Ledger!Confirm => LedgerFacts!Confirm
BY DEF Ledger!Record, Ledger!Confirm, Ledger!Supply, Ledger!Delta, LedgerFacts!Record,
       LedgerFacts!Confirm, LedgerFacts!Supply, LedgerFacts!Delta, Pendings

\* The books at the two ends of the log.
LEMMA ChronicleEnds ==
    ASSUME TypeOK, NEW book, LedgerFacts!IsChronicle(book)
    PROVE  book[startConfigurationNumber] = confirmedCollateral
           /\ book[nextConfigurationNumber] = totalCollateral
BY DEF LedgerFacts!IsChronicle

\* An empty log announces everything.
LEMMA MetadataEmptyLog ==
    ASSUME TypeOK', CollateralHasMetadata', LedgerFacts!LedgerInv', DOMAIN changes' = {}
    PROVE  MetadataInv'
<1>1. PICK book : LedgerFacts!IsChronicle(book)'
  BY DEF LedgerFacts!LedgerInv
<1>2. Announced(book)'
  BY DEF Announced
<1>3. QED
  BY <1>1, <1>2 DEF MetadataInv

\* A recorded change is no first deposit, or its key is recorded with it.
LEMMA AnnouncedRecord ==
    ASSUME TypeOK, NEW book, LedgerFacts!IsChronicle(book), Announced(book),
           NEW new, \A n \in startConfigurationNumber..nextConfigurationNumber : new[n] = book[n],
           UNCHANGED hasMetadata, NEW v \in Validator, NEW amount \in Nat,
           \/ RecordChanges(JoinRequests(v, amount))
           \/ RecordChanges(<<DepositRequest(v, amount)>>) /\ totalCollateral[v] # 0
           \/ RecordChanges(<<WithdrawRequest(v, amount)>>)
    PROVE  Announced(new)'
<1>1. PICK log, first, next : /\ log = changes' /\ first = startConfigurationNumber
                              /\ next = nextConfigurationNumber
  OBVIOUS
<1>2. /\ first \in Nat /\ next \in Nat /\ first <= next
      /\ DOMAIN changes = first..(next - 1)
      /\ startConfigurationNumber' = first
  BY <1>1 DEF RecordChanges, TypeOK, LogTypeOK
<1>3. /\ DOMAIN changes \subseteq DOMAIN log
      /\ \A n \in DOMAIN changes : log[n] = changes[n]
      /\ \A n \in DOMAIN log \ DOMAIN changes :
            log[n].op = "Deposit" =>
               \/ n - 1 \in DOMAIN log /\ log[n - 1] = MetadataRequest(log[n].validator)
               \/ n = next /\ log[n].validator = v /\ totalCollateral[v] # 0
  <2>1. CASE RecordChanges(JoinRequests(v, amount))
    <3>1. PICK cs : cs = JoinRequests(v, amount)
      OBVIOUS
    <3>2. Len(cs) = 2 /\ cs[1] = MetadataRequest(v) /\ cs[2] = DepositRequest(v, amount)
      BY <3>1 DEF JoinRequests
    <3>3. log = [n \in first..(next + 1) |-> IF n < next THEN changes[n] ELSE cs[n - next + 1]]
      <4>1. next + 2 - 1 = next + 1
        BY <1>2
      <4>2. QED
        BY <1>1, <1>2, <2>1, <3>1, <3>2, <4>1 DEF RecordChanges
    <3>4. /\ log[next] = MetadataRequest(v) /\ log[next + 1] = DepositRequest(v, amount)
          /\ DOMAIN log = first..(next + 1)
      <4>1. next - next + 1 = 1 /\ (next + 1) - next + 1 = 2
        BY <1>2
      <4>2. QED
        BY <1>2, <3>2, <3>3, <4>1
    <3>5. DOMAIN log \ DOMAIN changes = {next, next + 1}
      BY <1>2, <3>4
    <3>6. (next + 1) - 1 = next /\ next \in DOMAIN log
      BY <1>2, <3>4
    <3>7. log[next].op # "Deposit" /\ log[next + 1].validator = v
      BY <3>4 DEF MetadataRequest, DepositRequest
    <3>8. ASSUME NEW n \in {next, next + 1}, log[n].op = "Deposit"
          PROVE  n - 1 \in DOMAIN log /\ log[n - 1] = MetadataRequest(log[n].validator)
      <4>1. n = next + 1
        BY <3>7, <3>8
      <4>2. n - 1 = next /\ log[n].validator = v
        BY <3>6, <3>7, <4>1
      <4>3. QED
        BY <3>4, <3>6, <4>2
    <3>9. DOMAIN changes \subseteq DOMAIN log /\ \A n \in DOMAIN changes : log[n] = changes[n]
      BY <1>2, <3>3, <3>4
    <3>10. QED
      BY <3>5, <3>8, <3>9, Zenon
  <2>2. ASSUME NEW c, RecordChanges(<<c>>),
               c.op = "Deposit" => c.validator = v /\ totalCollateral[v] # 0
        PROVE  /\ DOMAIN changes \subseteq DOMAIN log
               /\ \A n \in DOMAIN changes : log[n] = changes[n]
               /\ \A n \in DOMAIN log \ DOMAIN changes :
                     log[n].op = "Deposit" =>
                        n = next /\ log[n].validator = v /\ totalCollateral[v] # 0
    <3>1. Len(<<c>>) = 1 /\ <<c>>[1] = c
      OBVIOUS
    <3>2. log = [n \in first..next |-> IF n < next THEN changes[n] ELSE <<c>>[n - next + 1]]
      BY <1>1, <1>2, <2>2, <3>1 DEF RecordChanges
    <3>3. log[next] = c /\ DOMAIN log \ DOMAIN changes = {next}
      BY <1>2, <3>1, <3>2
    <3>4. QED
      BY <1>2, <2>2, <3>2, <3>3
  <2>3. CASE RecordChanges(<<DepositRequest(v, amount)>>) /\ totalCollateral[v] # 0
    BY <2>2, <2>3 DEF DepositRequest
  <2>4. CASE RecordChanges(<<WithdrawRequest(v, amount)>>)
    BY <2>2, <2>4 DEF WithdrawRequest
  <2>5. QED
    BY <2>1, <2>3, <2>4
<1>4. new[next] = totalCollateral
  BY <1>1, <1>2, ChronicleEnds
<1>5. ASSUME NEW n \in DOMAIN log, log[n].op = "Deposit", new[n][log[n].validator] = 0
      PROVE  \/ n = first /\ hasMetadata[log[n].validator]
             \/ n - 1 \in DOMAIN log /\ log[n - 1] = MetadataRequest(log[n].validator)
  <2>1. CASE n \in DOMAIN changes
    <3>1. log[n] = changes[n] /\ new[n] = book[n]
      BY <1>1, <1>2, <1>3, <2>1
    <3>2. AnnouncedAt(n)
      BY <1>5, <2>1, <3>1 DEF Announced, FirstDeposit
    <3>3. QED
      BY <1>1, <1>3, <3>1, <3>2 DEF AnnouncedAt
  <2>2. CASE n \notin DOMAIN changes
    BY <1>3, <1>4, <1>5, <2>2
  <2>3. QED
    BY <2>1, <2>2
<1>6. QED
  BY <1>1, <1>2, <1>5 DEF Announced, FirstDeposit, AnnouncedAt

\* Confirming a key turns the deposit behind it into the first of the log.
LEMMA AnnouncedConfirm ==
    ASSUME TypeOK, NEW book, Announced(book), ConfirmNext, NEW new,
           \A n \in (startConfigurationNumber + 1)..nextConfigurationNumber : new[n] = book[n]
    PROVE  Announced(new)'
<1>1. PICK log, first, next : /\ log = changes' /\ first = startConfigurationNumber
                              /\ next = nextConfigurationNumber
  OBVIOUS
<1>2. /\ first \in Nat /\ next \in Nat /\ first <= next
      /\ DOMAIN changes = first..(next - 1)
      /\ startConfigurationNumber' = first + 1
      /\ log = [n \in (first + 1)..(next - 1) |-> changes[n]]
  BY <1>1 DEF ConfirmNext, PurgeChange, TypeOK, LogTypeOK
<1>3. ASSUME NEW n \in DOMAIN log, log[n].op = "Deposit", new[n][log[n].validator] = 0
      PROVE  \/ n = first + 1 /\ hasMetadata'[log[n].validator]
             \/ n - 1 \in DOMAIN log /\ log[n - 1] = MetadataRequest(log[n].validator)
  <2>1. n \in Nat /\ n \in DOMAIN changes /\ n # first /\ log[n] = changes[n] /\ new[n] = book[n]
    BY <1>1, <1>2, <1>3
  <2>2. AnnouncedAt(n)
    BY <1>3, <2>1 DEF Announced, FirstDeposit
  <2>3. n - 1 \in DOMAIN changes /\ changes[n - 1] = MetadataRequest(log[n].validator)
    BY <1>1, <2>1, <2>2 DEF AnnouncedAt
  <2>4. CASE n - 1 = first
    <3>1. n = first + 1
      BY <1>2, <2>1, <2>4
    <3>2. PICK w : w = log[n].validator
      OBVIOUS
    <3>3. w \in Validator
      BY <2>1, <3>2 DEF TypeOK, LogTypeOK, Change
    <3>4. changes[first].op = "SetMetadata" /\ changes[first].validator = w
      BY <2>3, <2>4, <3>2 DEF MetadataRequest
    <3>5. hasMetadata' = [hasMetadata EXCEPT ![w] = TRUE]
      BY <1>1, <3>4 DEF ConfirmNext, ApplyChange
    <3>6. hasMetadata'[w]
      BY <3>3, <3>5 DEF TypeOK, ValidatorSetTypeOK
    <3>7. QED
      BY <3>1, <3>2, <3>6
  <2>5. CASE n - 1 # first
    <3>1. n - 1 \in DOMAIN log /\ log[n - 1] = changes[n - 1]
      BY <1>2, <2>1, <2>3, <2>5
    <3>2. QED
      BY <2>3, <3>1
  <2>6. QED
    BY <2>4, <2>5
<1>4. QED
  BY <1>1, <1>2, <1>3 DEF Announced, FirstDeposit, AnnouncedAt

\* What a withdrawal leaves confirmed keeps its key.
LEMMA MetadataWithdraw ==
    ASSUME TypeOK, CollateralHasMetadata, NEW v \in Validator, NEW amount \in Nat,
           ConfirmWithdraw(v, amount)
    PROVE  CollateralHasMetadata'
<1>1. /\ confirmedCollateral \in [Validator -> Nat] /\ hasMetadata \in [Validator -> BOOLEAN]
      /\ confirmedCollateral[v] \in Nat
  BY DEF TypeOK, ValidatorSetTypeOK
<1>2. PICK gone : gone = (confirmedCollateral[v] - amount = 0 /\ totalCollateral'[v] = 0)
  OBVIOUS
<1>3. PICK rest : rest = confirmedCollateral[v] - amount
  OBVIOUS
<1>4. gone \in BOOLEAN /\ (gone => rest = 0)
  BY <1>2, <1>3
<1>5. hasMetadata' = [hasMetadata EXCEPT ![v] = IF gone THEN FALSE ELSE @]
  BY <1>2 DEF ConfirmWithdraw
<1>6. /\ confirmedCollateral' = [confirmedCollateral EXCEPT ![v] = rest]
      /\ amount <= confirmedCollateral[v]
  BY <1>3 DEF ConfirmWithdraw
<1>7. ASSUME NEW u \in Validator, confirmedCollateral'[u] > 0
      PROVE  hasMetadata'[u]
  <2>1. CASE u # v
    <3>1. confirmedCollateral'[u] = confirmedCollateral[u]
      BY <1>1, <1>6, <2>1
    <3>2. hasMetadata'[u] = hasMetadata[u]
      BY <1>1, <1>5, <2>1, Zenon
    <3>3. QED
      BY <1>7, <3>1, <3>2 DEF CollateralHasMetadata
  <2>2. CASE u = v
    <3>1. confirmedCollateral'[v] = rest
      BY <1>1, <1>6
    <3>2. ~gone /\ confirmedCollateral[v] > 0
      BY <1>1, <1>3, <1>4, <1>6, <1>7, <2>2, <3>1
    <3>3. hasMetadata'[v] = hasMetadata[v]
      BY <1>1, <1>5, <3>2, Zenon
    <3>4. QED
      BY <2>2, <3>2, <3>3 DEF CollateralHasMetadata
  <2>3. QED
    BY <2>1, <2>2
<1>8. QED
  BY <1>7 DEF CollateralHasMetadata

\* A deposit needs a key, unless it comes with one.
LEMMA MetadataDeposit ==
    ASSUME TypeOK, CollateralHasMetadata, NEW v \in Validator, NEW amount \in Nat,
           ConfirmDeposit(v, amount),
           \/ hasMetadata' = [hasMetadata EXCEPT ![v] = TRUE]
           \/ UNCHANGED hasMetadata /\ hasMetadata[v]
    PROVE  CollateralHasMetadata'
<1>1. /\ confirmedCollateral \in [Validator -> Nat] /\ hasMetadata \in [Validator -> BOOLEAN]
      /\ confirmedCollateral' = [confirmedCollateral EXCEPT ![v] = @ + amount]
  BY DEF TypeOK, ValidatorSetTypeOK, ConfirmDeposit
<1>2. hasMetadata'[v]
  BY <1>1
<1>3. \A u \in Validator \ {v} :
         hasMetadata'[u] = hasMetadata[u] /\ confirmedCollateral'[u] = confirmedCollateral[u]
  BY <1>1
<1>4. QED
  BY <1>2, <1>3 DEF CollateralHasMetadata

\* Neither book, nor log, nor key moves.
LEMMA MetadataSame ==
    ASSUME MetadataInv, UNCHANGED <<totalCollateral, confirmedCollateral, hasMetadata, logVars>>
    PROVE  MetadataInv'
<1>1. PICK book : LedgerFacts!IsChronicle(book) /\ Announced(book)
  BY DEF MetadataInv
<1>2. LedgerFacts!IsChronicle(book)'
  <2>1. UNCHANGED <<Pendings, startConfigurationNumber, nextConfigurationNumber>>
    BY DEF Pendings, logVars
  <2>2. QED
    BY <1>1, <2>1 DEF LedgerFacts!IsChronicle
<1>3. Announced(book)'
  BY <1>1 DEF Announced, FirstDeposit, AnnouncedAt, logVars
<1>4. CollateralHasMetadata'
  BY DEF MetadataInv, CollateralHasMetadata
<1>5. QED
  BY <1>2, <1>3, <1>4 DEF MetadataInv

\* Before bootstrap a key comes with the first deposit.
LEMMA MetadataDirect ==
    ASSUME TypeOK, TypeOK', WellFormedInv, MetadataInv, ~bootstrapped, UNCHANGED logVars,
           NEW v \in Validator, NEW amount \in Nat,
           \/ /\ DepositWithConfirm(v, amount)
              /\ \/ hasMetadata' = [hasMetadata EXCEPT ![v] = TRUE]
                 \/ UNCHANGED hasMetadata /\ IsValidator(v)
           \/ WithdrawWithConfirm(v, amount)
    PROVE  MetadataInv'
<1>1. PICK book : LedgerFacts!IsChronicle(book)
  BY DEF MetadataInv
<1>2. startConfigurationNumber = nextConfigurationNumber
  BY DEF WellFormedInv, LogStartsAtBootstrap, TypeOK, LogTypeOK
<1>3. totalCollateral = confirmedCollateral
  BY <1>1, <1>2, ChronicleEnds
<1>4. CollateralHasMetadata
  BY DEF MetadataInv
<1>5. CollateralHasMetadata'
  <2>1. CASE DepositWithConfirm(v, amount) /\ hasMetadata' = [hasMetadata EXCEPT ![v] = TRUE]
    BY <1>4, <2>1, MetadataDeposit DEF DepositWithConfirm
  <2>2. CASE DepositWithConfirm(v, amount) /\ UNCHANGED hasMetadata /\ IsValidator(v)
    <3>1. confirmedCollateral[v] > 0
      BY <1>3, <2>2 DEF IsValidator, TypeOK, ValidatorSetTypeOK
    <3>2. hasMetadata[v]
      BY <1>4, <3>1 DEF CollateralHasMetadata
    <3>3. QED
      BY <1>4, <2>2, <3>2, MetadataDeposit DEF DepositWithConfirm
  <2>3. CASE WithdrawWithConfirm(v, amount)
    BY <1>4, <2>3, MetadataWithdraw DEF WithdrawWithConfirm
  <2>4. QED
    BY <2>1, <2>2, <2>3
<1>6. LedgerFacts!LedgerInv'
  <2>1. LedgerFacts!LedgerInv
    BY <1>1, LedgerTyped DEF LedgerFacts!LedgerInv
  <2>2. Ledger!Direct(v)
    BY LedgerDirect
  <2>3. LedgerFacts!Direct(v)
    BY <2>2 DEF Ledger!Direct, Ledger!Supply, Ledger!Delta, LedgerFacts!Direct,
                LedgerFacts!Supply, LedgerFacts!Delta, Pendings
  <2>4. QED
    BY <2>1, <2>3, LedgerFacts!DirectStep
<1>7. DOMAIN changes' = {}
  BY <1>2 DEF TypeOK, LogTypeOK, logVars
<1>8. QED
  BY <1>5, <1>6, <1>7, MetadataEmptyLog

\* After it the key of a first deposit is recorded ahead of it.
LEMMA MetadataRecord ==
    ASSUME TypeOK, TypeOK', MetadataInv, UNCHANGED confirmedVars,
           NEW v \in Validator, NEW amount \in Nat,
           \/ RecordChanges(JoinRequests(v, amount)) /\ RecordDeposit(v, amount)
           \/ RecordChanges(<<DepositRequest(v, amount)>>) /\ RecordDeposit(v, amount)
              /\ IsValidator(v)
           \/ RecordChanges(<<WithdrawRequest(v, amount)>>) /\ RecordWithdraw(v, amount)
    PROVE  MetadataInv'
<1>1. PICK book : LedgerFacts!IsChronicle(book) /\ Announced(book)
  BY DEF MetadataInv
<1>2. CollateralHasMetadata'
  BY DEF MetadataInv, CollateralHasMetadata, confirmedVars
<1>3. UNCHANGED <<confirmedCollateral, hasMetadata>>
  BY DEF confirmedVars
<1>4. \/ Ledger!Record(v, 0)
      \/ Ledger!Record(v, 1)
  <2>1. CASE RecordChanges(JoinRequests(v, amount)) /\ RecordDeposit(v, amount)
    BY <1>3, <2>1, LedgerSupply, LedgerRecordJoin
  <2>2. CASE RecordChanges(<<DepositRequest(v, amount)>>) /\ RecordDeposit(v, amount)
    <3>1. /\ DepositRequest(v, amount) \in Change /\ DepositRequest(v, amount).validator = v
          /\ DeltaOf(DepositRequest(v, amount)) = amount
      BY RequestType DEF DepositRequest, DeltaOf
    <3>2. QED
      BY <1>3, <2>2, <3>1, LedgerSupply, LedgerRecordOne
  <2>3. CASE RecordChanges(<<WithdrawRequest(v, amount)>>) /\ RecordWithdraw(v, amount)
    <3>1. /\ WithdrawRequest(v, amount) \in Change /\ WithdrawRequest(v, amount).validator = v
          /\ DeltaOf(WithdrawRequest(v, amount)) = -amount
      BY RequestType DEF WithdrawRequest, DeltaOf
    <3>2. QED
      BY <1>3, <2>3, <3>1, LedgerSupply, LedgerRecordOne
  <2>4. QED
    BY <2>1, <2>2, <2>3
<1>5. PICK empty \in {0, 1} : LedgerFacts!Record(v, empty)
  BY <1>4, SameLedger
<1>6. PICK new : /\ LedgerFacts!IsChronicle(new)'
                 /\ \A n \in startConfigurationNumber..nextConfigurationNumber : new[n] = book[n]
  BY <1>1, <1>5, LedgerTyped, LedgerFacts!RecordBook
<1>7. Announced(new)'
  <2>1. \/ RecordChanges(JoinRequests(v, amount))
        \/ RecordChanges(<<DepositRequest(v, amount)>>) /\ totalCollateral[v] # 0
        \/ RecordChanges(<<WithdrawRequest(v, amount)>>)
    BY DEF IsValidator
  <2>2. QED
    BY <1>1, <1>3, <1>6, <2>1, AnnouncedRecord
<1>8. QED
  BY <1>2, <1>6, <1>7 DEF MetadataInv

\* A deposit that makes a member finds its key: had it not been set, the change
\* just ahead would still have to be confirmed.
LEMMA MetadataConfirm ==
    ASSUME PermissionMode # "Federated", TypeOK, WellFormedInv, MetadataInv, ConfirmNext
    PROVE  MetadataInv'
<1>1. PICK book : LedgerFacts!IsChronicle(book) /\ Announced(book)
  BY DEF MetadataInv
<1>2. PICK c, first : first = startConfigurationNumber /\ c = changes[first]
  OBVIOUS
<1>3. first \in DOMAIN changes /\ first - 1 \notin DOMAIN changes
  BY <1>2 DEF ConfirmNext, TypeOK, LogTypeOK
<1>4. /\ c.op \in {"SetMetadata", "Withdraw", "Deposit"}
      /\ c.validator \in Validator /\ c.amount \in Nat
  BY <1>2, <1>3 DEF TypeOK, LogTypeOK, Change, Operations, WellFormedInv, LogMatchesMode
<1>5. PICK v \in Validator, amount \in Nat : v = c.validator /\ amount = c.amount
  BY <1>4
<1>6. CollateralHasMetadata
  BY DEF MetadataInv
<1>7. ApplyChange(c)
  BY <1>2 DEF ConfirmNext
<1>8. CollateralHasMetadata'
  <2>1. CASE c.op = "SetMetadata"
    <3>1. hasMetadata' = [hasMetadata EXCEPT ![v] = TRUE] /\ UNCHANGED confirmedCollateral
      BY <1>5, <1>7, <2>1 DEF ApplyChange
    <3>2. QED
      BY <1>6, <3>1 DEF CollateralHasMetadata, TypeOK, ValidatorSetTypeOK
  <2>2. CASE c.op = "Withdraw"
    <3>1. ConfirmWithdraw(v, amount)
      BY <1>5, <1>7, <2>2 DEF ApplyChange
    <3>2. QED
      BY <1>6, <3>1, MetadataWithdraw
  <2>3. CASE c.op = "Deposit"
    <3>1. UNCHANGED hasMetadata /\ ConfirmDeposit(v, amount)
      BY <1>5, <1>7, <2>3 DEF ApplyChange
    <3>2. CASE confirmedCollateral[v] > 0
      <4>1. hasMetadata[v]
        BY <1>6, <3>2 DEF CollateralHasMetadata
      <4>2. QED
        BY <1>6, <3>1, <4>1, MetadataDeposit
    <3>3. CASE ~(confirmedCollateral[v] > 0)
      <4>1. confirmedCollateral[v] = 0
        BY <3>3 DEF TypeOK, ValidatorSetTypeOK
      <4>2. book[first][v] = 0
        BY <1>1, <1>2, <4>1, ChronicleEnds
      <4>3. AnnouncedAt(first)
        BY <1>1, <1>2, <1>3, <1>5, <2>3, <4>2 DEF Announced, FirstDeposit
      <4>4. hasMetadata[v]
        BY <1>2, <1>3, <1>5, <4>3 DEF AnnouncedAt
      <4>5. QED
        BY <1>6, <3>1, <4>4, MetadataDeposit
    <3>4. QED
      BY <3>2, <3>3
  <2>4. QED
    BY <1>4, <2>1, <2>2, <2>3
<1>9. LedgerFacts!Confirm
  BY LedgerConfirm, SameLedger
<1>10. PICK new : /\ LedgerFacts!IsChronicle(new)'
                  /\ \A n \in (startConfigurationNumber + 1)..nextConfigurationNumber :
                        new[n] = book[n]
  BY <1>1, <1>9, LedgerTyped, LedgerFacts!ConfirmBook
<1>11. Announced(new)'
  BY <1>1, <1>10, AnnouncedConfirm
<1>12. QED
  BY <1>8, <1>10, <1>11 DEF MetadataInv

\* Every step keeps each first deposit right behind its key, where power is
\* collateral.
LEMMA MetadataNext ==
    ASSUME PermissionMode # "Federated"
    PROVE  TypeOK /\ TypeOK' /\ WellFormedInv /\ MetadataInv /\ [Next]_vars => MetadataInv'
<1> SUFFICES ASSUME TypeOK, TypeOK', WellFormedInv, MetadataInv, [Next]_vars
             PROVE  MetadataInv'
  OBVIOUS
<1>0. \A amount \in Amounts : amount \in Nat
  BY SubnetActorAssumption
<1>1. ASSUME UNCHANGED validatorSetVars, UNCHANGED logVars PROVE MetadataInv'
  BY <1>1, MetadataSame DEF validatorSetVars
<1>2. ASSUME NEW v \in Validator, NEW amount \in Amounts, JoinBeforeBootstrap(v, amount)
      PROVE  MetadataInv'
  BY <1>0, <1>2, MetadataDirect DEF JoinBeforeBootstrap
<1>3. ASSUME NEW v \in Validator, NEW amount \in Amounts, StakeBeforeBootstrap(v, amount)
      PROVE  MetadataInv'
  BY <1>0, <1>3, MetadataDirect DEF StakeBeforeBootstrap
<1>4. ASSUME NEW v \in Validator, NEW amount \in Amounts, UnstakeBeforeBootstrap(v, amount)
      PROVE  MetadataInv'
  BY <1>0, <1>4, MetadataDirect DEF UnstakeBeforeBootstrap
<1>5. ASSUME NEW v \in Validator, LeaveBeforeBootstrap(v)
      PROVE  MetadataInv'
  <2>1. totalCollateral[v] \in Nat
    BY DEF TypeOK, ValidatorSetTypeOK
  <2>2. QED
    BY <1>5, <2>1, MetadataDirect DEF LeaveBeforeBootstrap
<1>6. ASSUME NEW v \in Validator, NEW amount \in Amounts, JoinAfterBootstrap(v, amount)
      PROVE  MetadataInv'
  BY <1>0, <1>6, MetadataRecord DEF JoinAfterBootstrap
<1>7. ASSUME NEW v \in Validator, NEW amount \in Amounts, StakeAfterBootstrap(v, amount)
      PROVE  MetadataInv'
  BY <1>0, <1>7, MetadataRecord DEF StakeAfterBootstrap
<1>8. ASSUME NEW v \in Validator, NEW amount \in Amounts, UnstakeAfterBootstrap(v, amount)
      PROVE  MetadataInv'
  BY <1>0, <1>8, MetadataRecord DEF UnstakeAfterBootstrap
<1>9. ASSUME NEW v \in Validator, LeaveAfterBootstrap(v)
      PROVE  MetadataInv'
  <2>1. totalCollateral[v] \in Nat
    BY DEF TypeOK, ValidatorSetTypeOK
  <2>2. QED
    BY <1>9, <2>1, MetadataRecord DEF LeaveAfterBootstrap
<1>10. CASE ConfirmNext
  BY <1>10, MetadataConfirm
<1>11. CASE FederateNext
  BY <1>11 DEF FederateNext, WellFormedInv, OnlyFederatedFederates
<1>12. ASSUME NEW a \in Funder, NEW amount \in Amounts,
              PreFund(a, amount) \/ PreRelease(a, amount)
       PROVE  MetadataInv'
  BY <1>1, <1>12 DEF PreFund, PreRelease
<1>13. ASSUME NEW list \in Federations, StartFederation(list)
       PROVE  MetadataInv'
  BY <1>1, <1>13 DEF StartFederation
<1>14. ASSUME NEW v \in Validator, NEW power \in Powers, SetFederatedPower(v, power)
       PROVE  MetadataInv'
  BY <1>14 DEF SetFederatedPower
<1>15. ASSUME NEW number \in 0..(nextConfigurationNumber - 1), SubmitCheckpoint(number)
       PROVE  MetadataInv'
  BY <1>1, <1>15 DEF SubmitCheckpoint
<1>16. ASSUME NEW v, Claim(v) \/ AddBootstrapNode(v)
       PROVE  MetadataInv'
  BY <1>1, <1>16 DEF Claim, AddBootstrapNode
<1>17. CASE Kill \/ SetPaused \/ UNCHANGED vars
  BY <1>1, <1>17 DEF Kill, SetPaused, vars
<1>18. QED
  BY <1>2, <1>3, <1>4, <1>5, <1>6, <1>7, <1>8, <1>9, <1>10, <1>11, <1>12, <1>13, <1>14, <1>15,
     <1>16, <1>17
  DEF Next

LEMMA MetadataInit == Init => MetadataInv
<1> SUFFICES ASSUME Init PROVE MetadataInv
  OBVIOUS
<1>1. Ledger!Init => LedgerFacts!Init
  BY DEF Ledger!Init, LedgerFacts!Init, Pendings
<1>2. LedgerFacts!LedgerInv
  BY <1>1, LedgerInitially, LedgerFacts!LedgerInit
<1>3. PICK book : LedgerFacts!IsChronicle(book)
  BY <1>2 DEF LedgerFacts!LedgerInv
<1>4. DOMAIN changes = {}
  BY DEF Init
<1>5. Announced(book)
  BY <1>4 DEF Announced
<1>6. CollateralHasMetadata
  BY DEF Init, ValidatorSetInit, CollateralHasMetadata
<1>7. QED
  BY <1>3, <1>5, <1>6 DEF MetadataInv

\* In the Federated mode collateral says nothing, but the owner who assigns
\* power sets the key in the same change.
MembersHaveMetadata == \A v \in Members : hasMetadata[v]

\* Every step keeps the keys of members, where power is assigned.
LEMMA FederatedMetadataNext ==
    ASSUME PermissionMode = "Federated"
    PROVE  TypeOK /\ WellFormedInv /\ MembersHaveMetadata /\ [Next]_vars => MembersHaveMetadata'
<1> SUFFICES ASSUME TypeOK, WellFormedInv, MembersHaveMetadata, [Next]_vars
             PROVE  MembersHaveMetadata'
  OBVIOUS
<1>0. /\ SetsAreDisjoint /\ hasMetadata \in [Validator -> BOOLEAN]
      /\ Members \subseteq Validator
  BY DEF WellFormedInv, ValidatorSetWellFormed, TypeOK, ValidatorSetTypeOK, Members
<1>1. CASE UNCHANGED confirmedVars
  BY <1>1 DEF confirmedVars, MembersHaveMetadata, Members
<1>2. ASSUME NEW v \in Validator, Members' \subseteq Members \cup {v},
             hasMetadata' = [hasMetadata EXCEPT ![v] = TRUE]
      PROVE  MembersHaveMetadata'
  <2>1. ASSUME NEW u \in Members' PROVE hasMetadata'[u]
    BY <1>0, <1>2, <2>1, Zenon DEF MembersHaveMetadata
  <2>2. QED
    BY <2>1 DEF MembersHaveMetadata
<1>3. ASSUME NEW v \in Validator, NEW amount \in Amounts,
             JoinBeforeBootstrap(v, amount) \/ StakeBeforeBootstrap(v, amount)
      PROVE  MembersHaveMetadata'
  <2>1. JoinBeforeBootstrap(v, amount)
    BY <1>3 DEF StakeBeforeBootstrap, EnforceCollateralValidation
  <2>2. Members' = Members \cup {v}
    BY <2>1, IncreaseReshuffleMembers DEF JoinBeforeBootstrap, DepositWithConfirm, ConfirmDeposit
  <2>3. QED
    BY <1>2, <2>1, <2>2 DEF JoinBeforeBootstrap
<1>4. ASSUME NEW v \in Validator, NEW amount \in Amounts, UnstakeBeforeBootstrap(v, amount)
      PROVE  MembersHaveMetadata'
  BY <1>4 DEF UnstakeBeforeBootstrap, EnforceCollateralValidation
<1>5. ASSUME NEW v \in Validator, LeaveBeforeBootstrap(v)
      PROVE  MembersHaveMetadata'
  <2>1. ConfirmWithdraw(v, totalCollateral[v])
    BY <1>5 DEF LeaveBeforeBootstrap, WithdrawWithConfirm
  <2>2. PICK rest, gone : /\ rest = confirmedCollateral[v] - totalCollateral[v]
                          /\ gone = (rest = 0 /\ totalCollateral'[v] = 0)
    OBVIOUS
  <2>3. /\ ReduceReshuffle(v, rest)
        /\ hasMetadata' = [hasMetadata EXCEPT ![v] = IF gone THEN FALSE ELSE @]
    BY <2>1, <2>2 DEF ConfirmWithdraw
  <2>4. /\ rest = 0 => Members' = Members \ {v}
        /\ rest # 0 => Members' = Members
    BY <1>0, <2>3, ReduceReshuffleMembers
  <2>5. ASSUME NEW u \in Members' PROVE hasMetadata'[u]
    <3>1. u \in Members /\ (u = v => ~gone)
      BY <2>2, <2>4, <2>5
    <3>2. hasMetadata'[u] = hasMetadata[u]
      BY <1>0, <2>3, <3>1, Zenon
    <3>3. QED
      BY <3>1, <3>2 DEF MembersHaveMetadata
  <2>6. QED
    BY <2>5 DEF MembersHaveMetadata
<1>6. ASSUME NEW v \in Validator, NEW power, ConfirmFederatedPower(v, power)
      PROVE  Members' \subseteq Members \cup {v}
  <2>1. ASSUME UNCHANGED <<activeValidators, waitingValidators>> PROVE Members' = Members
    BY <2>1 DEF Members
  <2>2. QED
    BY <1>0, <1>6, <2>1, IncreaseReshuffleMembers, ReduceReshuffleMembers
    DEF ConfirmFederatedPower
<1>7. CASE FederateNext
  <2>1. PICK g : g = Head(federating)
    OBVIOUS
  <2>2. g \in GenesisValidator
    BY <1>7, <2>1 DEF FederateNext, TypeOK, LogTypeOK
  <2>3. /\ g.addr \in Validator /\ ConfirmFederatedPower(g.addr, g.weight)
        /\ hasMetadata' = [hasMetadata EXCEPT ![g.addr] = TRUE]
    BY <1>7, <2>1, <2>2 DEF FederateNext, GenesisValidator
  <2>4. QED
    BY <1>2, <1>6, <2>3
<1>8. CASE ConfirmNext
  <2>1. PICK c : c = changes[startConfigurationNumber]
    OBVIOUS
  <2>2. startConfigurationNumber \in DOMAIN changes
    BY <1>8 DEF ConfirmNext, TypeOK, LogTypeOK
  <2>3. c.op = "SetFederatedPower" /\ ApplyChange(c) /\ c.validator \in Validator
    BY <1>8, <2>1, <2>2 DEF ConfirmNext, TypeOK, LogTypeOK, Change, WellFormedInv, LogMatchesMode
  <2>4. /\ ConfirmFederatedPower(c.validator, c.amount)
        /\ hasMetadata' = [hasMetadata EXCEPT ![c.validator] = TRUE]
    BY <2>3 DEF ApplyChange
  <2>5. QED
    BY <1>2, <1>6, <2>3, <2>4
<1>9. QED
  BY <1>1, <1>3, <1>4, <1>5, <1>7, <1>8, ConfirmingSteps

\* No block producer without a public key, in any mode and wherever a checkpoint
\* cuts the log: join records the key just ahead of the deposit, stake deposits
\* only for who will have collateral when its turn comes, and confirmWithdraw
\* deletes the key with the last collateral only.
THEOREM ActiveMetadata == Spec => []ActiveHaveMetadata
<1>1. CASE PermissionMode = "Federated"
  <2>1. Init => MembersHaveMetadata
    BY DEF Init, ValidatorSetInit, MembersHaveMetadata, Members
  <2>2. TypeOK /\ WellFormedInv /\ MembersHaveMetadata /\ [Next]_vars => MembersHaveMetadata'
    BY <1>1, FederatedMetadataNext
  <2>3. MembersHaveMetadata => ActiveHaveMetadata
    BY DEF MembersHaveMetadata, Members, ActiveHaveMetadata
  <2>4. QED
    BY <2>1, <2>2, <2>3, TypeCorrect, WellFormedInvariant, PTL DEF Spec
<1>2. CASE PermissionMode # "Federated"
  <2>1. TypeOK /\ TypeOK' /\ WellFormedInv /\ MetadataInv /\ [Next]_vars => MetadataInv'
    BY <1>2, MetadataNext
  <2>2. TypeOK /\ MembersHaveCollateral /\ MetadataInv => ActiveHaveMetadata
    BY DEF TypeOK, ValidatorSetTypeOK, MembersHaveCollateral, Members, MetadataInv,
           CollateralHasMetadata, ActiveHaveMetadata
  <2>3. Spec => []MembersHaveCollateral
    BY <1>2, MembersCollateral
  <2>4. QED
    BY <2>1, <2>2, <2>3, MetadataInit, TypeCorrect, WellFormedInvariant, PTL DEF Spec
<1>3. QED
  BY <1>1, <1>2
=============================================================================
