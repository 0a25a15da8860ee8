SPECIFICATION MCSpec
CONSTANTS
    Validators = {v1, v2, v3, f}
    Faulty = {f}
    Power <- MCPower
    PowerOf <- MCPowerOf
    Blocks = {A, B, X}
    ValidBlocks = {A, B}
    NilID = NilID
    Rounds = {0, 1}
SYMMETRY MCSymmetry
INVARIANTS TypeOK Agreement Validity
PROPERTY DecisionIsFinal
CHECK_DEADLOCK FALSE
