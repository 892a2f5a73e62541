\* A subnet actor and its child; both may come to rest when the log is full.
SPECIFICATION FairPairSpec
CONSTANTS
    Validator = {v1, v2}
    v1 = v1
    v2 = v2
    PermissionMode = "Collateral"
    ActiveLimit = 2
    MinActivationCollateral = 2
    MinValidators = 1
    Wealth = 2
    Amounts = {1, 2}
    Powers = {}
    Funder = {}
    Announcer = {}
    CanPause = FALSE
    MaxFederation = 0
    MaxGenesisBalance = 0
    MaxReleases = 1
    MaxConfigurationNumber = 4
    Relayer = {r1}
    r1 = r1
    MajorityPercentage = 67
    MaxCheckpoints = 3
    MaxSignatories = 2
    MaxParentHeight = 0
INVARIANTS
    PairTypeOK
    ChildLogIsParents
    ParentConfirmsWhatChildApplied
    RelayedInOrder
    OnlyGenesisDiffers
    ChildMembershipIsAdopted
PROPERTIES
    CollateralArrives
CHECK_DEADLOCK FALSE
