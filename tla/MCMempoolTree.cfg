SPECIFICATION MCSpec
CONSTANTS
    a = a
    b = b
    c = c
    Txs = {a, b, c}
    Priority <- MCPriority
    Clients = {"local", "socket"}
    Size = 2
    MaxTxsBytes = 2
    CacheSizes = {1, 3}
    Recheck = TRUE
    Blocks <- MCBlocks
    MaxChecks = 3
    MaxHeight = 2
    Keys = {1, 2, 3, 4, 5, 6, 7, 8, 9, 10, 11, 12}
INVARIANTS NoPanic PoolIsConsistent CommittedStaysOut PoolIsCurrent NotifiedWhenTxs
           StaysBalanced HoldsItsKeysInOrder
CHECK_DEADLOCK FALSE
