CONSTANTS
    n1 = n1
    n2 = n2
    Nodes <- Pair
    Miners <- Pair
    Links <- PairLinks
    RestoredChain <- ForkChain
    SYNC_BATCH_SIZE = 2
    MAX_ROUNDS = 2
    MaxHeight = 4
    MaxQueue = 1
    MaxFaults = 1
SPECIFICATION LiveSpec
INVARIANTS
    TypeOK
    SyncingFlag
    BasisHolds
PROPERTIES
    SyncEnds
    HeightsConverge
