\* Two checkpoints of any two memberships; it ends when all have signed and all is pruned.
SPECIFICATION FairQuorumSpec
CONSTANTS
    Validator = {v1, v2, v3}
    v1 = v1
    v2 = v2
    v3 = v3
    Weights = {0, 1, 2}
    MajorityPercentage = 67
    BottomUpCheckPeriod = 2
    MaxHeight = 4
INVARIANTS
    QuorumTypeOK
    QuorumIsSigned
    IncompleteIsUnreached
PROPERTIES
    DecisionsStand
    QuorumArrives
CHECK_DEADLOCK FALSE
