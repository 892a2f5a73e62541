\* A join whose deposit is not confirmed does not stop a kill.
SPECIFICATION Spec
CONSTANTS
    Validator = {v1, v2}
    v1 = v1
    v2 = v2
    PermissionMode = "Collateral"
    ActiveLimit = 2
    MinActivationCollateral = 1
    MinValidators = 1
    Wealth = 2
    Amounts = {1, 2}
    Powers = {}
    Funder = {}
    Announcer = {}
    CanPause = FALSE
    MaxFederation = 0
    MaxGenesisBalance = 2
    MaxReleases = 1
    MaxConfigurationNumber = 6
INVARIANTS
    KilledMeansAllLeft
CHECK_DEADLOCK FALSE
