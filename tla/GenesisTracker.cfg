\* A genesis validator withdraws collateral that the child never heard of.
SPECIFICATION PairSpec
CONSTANTS
    Validator = {v1, v2}
    v1 = v1
    v2 = v2
    PermissionMode = "Collateral"
    ActiveLimit = 2
    MinActivationCollateral = 1
    MinValidators = 1
    Wealth = 2
    Amounts = {1, 2}
    Powers = {}
    Funder = {}
    Announcer = {}
    CanPause = FALSE
    MaxFederation = 0
    MaxGenesisBalance = 0
    MaxReleases = 2
    MaxConfigurationNumber = 4
    Relayer = {r1}
    r1 = r1
    MajorityPercentage = 67
    MaxCheckpoints = 3
    MaxSignatories = 1
    MaxParentHeight = 0
INVARIANTS
    StoredChangesApply
CHECK_DEADLOCK FALSE
