\* The genesis phase, up to the bootstrap and a first change.
SPECIFICATION Spec
CONSTANTS
    Validator = {v1, v2, v3}
    v1 = v1
    v2 = v2
    v3 = v3
    PermissionMode = "Collateral"
    ActiveLimit = 2
    MinActivationCollateral = 3
    MinValidators = 2
    Wealth = 3
    Amounts = {1, 2}
    Powers = {}
    Funder = {v1, v2}
    Announcer = {v1}
    CanPause = TRUE
    MaxFederation = 0
    MaxGenesisBalance = 1
    MaxReleases = 2
    MaxConfigurationNumber = 2
INVARIANTS
    ActorSolvent
    GenesisKeysFunded
    GenesisListsMembers
    BootstrapOwnersAreMembers
CHECK_DEADLOCK FALSE
