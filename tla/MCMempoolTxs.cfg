SPECIFICATION FairSpec
CONSTANTS
    a = a
    b = b
    c = c
    Txs = {a, b, c}
    Priority <- MCPriority
    Clients = {"local"}
    Size = 2
    MaxTxsBytes = 2
    CacheSizes = {3}
    Recheck = TRUE
    Blocks <- MCBlocks
    MaxChecks = 2
    MaxHeight = 2
PROPERTY TxsAreProposed
CHECK_DEADLOCK FALSE
