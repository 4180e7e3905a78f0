CONSTANTS
    u1 = u1
    u2 = u2
    Users <- MCUsers
    BC_NAME = BC_NAME
    VANITY_ADDR = VANITY_ADDR
    BLOCK_REWARD = 560
    MIN_DIFFICULTY = 4
    MAX_DIFFICULTY = 6
    HASH_DIGITS = 5
    BLOCK_TIME_DIFF = 20
    BLOCK_WINDOW_DIFF = 3
    BLOCK_WINDOW_FEE = 2
    GENESIS_TIMESTAMP = 0
    MINER = u1
    Requests <- MCRequests
    PeerBlocks <- MCPeerBlocks
    PeerBranches <- MCPeerBranches
    OtherBodies <- MCOtherBodies
    TimeSteps = {5, 15}
    MaxChain = 5
SPECIFICATION Spec
PROPERTIES
    BalanceReducedOnSubmit
