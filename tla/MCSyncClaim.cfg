CONSTANTS
    n1 = n1
    n2 = n2
    Nodes <- Pair
    Miners = {n1}
    Links <- PairLinks
    RestoredChain <- ForkChain
    SYNC_BATCH_SIZE = 2
    MAX_ROUNDS = 2
    MaxHeight = 5
    MaxQueue = 1
    MaxFaults = 0
SPECIFICATION ClaimSpec
PROPERTIES
    IgnoredIsRechecked
