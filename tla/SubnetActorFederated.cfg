\* Federated power: validators join, the owner assigns powers.
SPECIFICATION Spec
CONSTANTS
    Validator = {v1, v2, v3}
    v1 = v1
    v2 = v2
    v3 = v3
    PermissionMode = "Federated"
    ActiveLimit = 2
    MinActivationCollateral = 0
    MinValidators = 2
    Wealth = 1
    Amounts = {1}
    Powers = {0, 1, 2}
    Funder = {}
    Announcer = {}
    CanPause = FALSE
    MaxFederation = 3
    MaxGenesisBalance = 2
    MaxReleases = 1
    MaxConfigurationNumber = 2
INVARIANTS
    ValidatorSetWellFormed
    ConfirmationNeverReverts
CHECK_DEADLOCK FALSE
SYMMETRY Symmetry
