SPECIFICATION Spec
CONSTANTS
    MaxHeight = 3
    MaxCrashes = 2
    UpdateHeights = {1}
    Retained = {1, 2}
INVARIANT ChangesApplied
CHECK_DEADLOCK FALSE
