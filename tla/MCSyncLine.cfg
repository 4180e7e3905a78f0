CONSTANTS
    n1 = n1
    n2 = n2
    n3 = n3
    Nodes <- Line
    Miners <- MiddleOnly
    Links <- LineLinks
    RestoredChain <- LineChain
    SYNC_BATCH_SIZE = 1
    MAX_ROUNDS = 2
    MaxHeight = 3
    MaxQueue = 1
    MaxFaults = 0
SPECIFICATION HistorySpec
INVARIANTS
    AnswersComplete
PROPERTIES
    FollowsPeer
