\* Staking after bootstrap. The subnet may end: the last validator leaves and it
\* is killed, or the log is full (MaxConfigurationNumber).
SPECIFICATION Spec
CONSTANTS
    Validator = {v1, v2, v3}
    v1 = v1
    v2 = v2
    v3 = v3
    PermissionMode = "Collateral"
    ActiveLimit = 2
    MinActivationCollateral = 1
    MinValidators = 1
    Wealth = 3
    Amounts = {1, 2}
    Powers = {}
    Funder = {}
    Announcer = {}
    CanPause = FALSE
    MaxFederation = 0
    MaxGenesisBalance = 2
    MaxReleases = 2
    MaxConfigurationNumber = 6
INVARIANTS
    TypeOK
    ValidatorSetWellFormed
    MembersHaveCollateral
    ConfirmationNeverReverts
    CollateralAgreesWithLog
    TotalIsSum
    GatewayStakeMatches
    ActorSolvent
    FundsAccounted
    ActiveHaveMetadata
PROPERTIES
    ImplementsLedger
CHECK_DEADLOCK FALSE
