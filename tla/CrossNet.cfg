\* Three messages down and five up through batches of at most two; it ends with the last block.
SPECIFICATION FairCrossNetSpec
CONSTANTS
    Values = {0, 1, 2}
    GenesisSupply = {0, 3}
    Wealth = 5
    Relayer = {r1}
    r1 = r1
    BatchPeriod = 2
    MaxMsgsPerBatch = 2
    MaxBlock = 6
    MaxTopDown = 3
    MaxBottomUp = 5
    MaxRefused = 1
INVARIANTS
    CrossNetTypeOK
    SupplyConserved
    BatchesHoldAll
    RewardedBatchIsPaid
    KilledIsEmpty
PROPERTIES
    ImplementsChannels
    FundsArrive
CHECK_DEADLOCK FALSE
