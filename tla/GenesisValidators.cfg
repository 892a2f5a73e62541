\* A validator that leaves before bootstrap stays in genesisValidators.
SPECIFICATION Spec
CONSTANTS
    Validator = {v1, v2, v3}
    v1 = v1
    v2 = v2
    v3 = v3
    PermissionMode = "Collateral"
    ActiveLimit = 2
    MinActivationCollateral = 3
    MinValidators = 2
    Wealth = 3
    Amounts = {1, 2}
    Powers = {}
    Funder = {}
    Announcer = {}
    CanPause = FALSE
    MaxFederation = 0
    MaxGenesisBalance = 1
    MaxReleases = 1
    MaxConfigurationNumber = 2
INVARIANTS
    GenesisValidatorsJoined
CHECK_DEADLOCK FALSE
