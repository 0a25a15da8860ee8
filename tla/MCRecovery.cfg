SPECIFICATION FairSpec
CONSTANTS
    MaxHeight = 3
    MaxCrashes = 2
    UpdateHeights = {1}
    Retained = {1, 2}
INVARIANTS HandshakeSucceeds InSyncInConsensus RetainedIsComplete
PROPERTIES CommitsOnceInOrder Recovers
CHECK_DEADLOCK FALSE
