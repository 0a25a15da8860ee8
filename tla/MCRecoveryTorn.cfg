SPECIFICATION Spec
CONSTANTS
    MaxHeight = 3
    MaxCrashes = 2
    UpdateHeights = {1}
    Retained = {1, 2}
INVARIANT WALIsRepaired
CHECK_DEADLOCK FALSE
