SPECIFICATION MCSpec
CONSTANTS
    HeightRounds <- MCHeightRounds
    Contents <- MCContents
    NoBytes = NoBytes
    MaxReleased = 3
    Light = {v1, v2}
    Heavy = v3
    Blocks = {A, B}
    NilID = NilID
    BadSig = BadSig
    GoodSig = GoodSig
    Peers = {p1, p2}
    Step = Step
    OtherStep = OtherStep
    Stranger = Stranger
    w1 = w1
    w2 = w2
    C = C
    MaxRound = 2
SYMMETRY MCSymmetry
CONSTRAINT MCConstraint
INVARIANTS
    NoDoubleSign SignatureIsForSentBlock ReleasedIsDurable
    SumsArePower Maj23IsBacked MajorityNotMissed CommitVerifies MemoryBounded
    RoundsTracked AcceptedVotesKept CatchupIsBounded
PROPERTIES SigningMovesForward Maj23IsFinal
