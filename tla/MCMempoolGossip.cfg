CONSTANTS
    n1 = n1
    n2 = n2
    u1 = u1
    u2 = u2
    r1 = r1
    r2 = r2
    Nodes <- MCNodes
    Users <- MCUsers
    Miners = {n2}
    Served = {n1}
    MinerOf <- MCMiners
    RestoredChain <- MCChain
    Requests <- MCRequests
    ForeignBlocks <- MCForeignBlocks
    ForeignTxs <- MCForeignTxs
    ForeignAnswers <- MCForeignAnswers
    Slots <- MCSlots
    MEMPOOL_LIMIT = 2
    BlockTime = 5
    MaxChain = 3
    MaxFaults = 1
    BC_NAME = BC_NAME
    VANITY_ADDR = VANITY_ADDR
    BLOCK_REWARD = 800
    MIN_DIFFICULTY = 4
    MAX_DIFFICULTY = 6
    HASH_DIGITS = 5
    BLOCK_TIME_DIFF = 20
    BLOCK_WINDOW_DIFF = 3
    BLOCK_WINDOW_FEE = 2
    GENESIS_TIMESTAMP = 0
SYMMETRY MCSymmetry
SPECIFICATION Spec
INVARIANTS
    TypeOK
    FlagHasRequest
    GossipedBlockFits
PROPERTIES
    MempoolHealsGaps
