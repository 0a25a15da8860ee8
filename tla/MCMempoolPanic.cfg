SPECIFICATION Spec
CONSTANTS
    a = a
    b = b
    c = c
    Txs = {a, b, c}
    Priority <- MCPriority
    Clients = {"socket"}
    Size = 3
    MaxTxsBytes = 3
    CacheSizes = {3}
    Recheck = TRUE
    Blocks <- MCBlocks
    MaxChecks = 3
    MaxHeight = 2
INVARIANT NeverPanics
CHECK_DEADLOCK FALSE
