SPECIFICATION Spec
CONSTANTS
    me = me
    o1 = o1
    o2 = o2
    A = A
    B = B
    Self = me
    Validators = {me, o1, o2}
    Power <- PowerRounds
    PowerOf <- MCPowerOf
    Blocks = {A, B}
    NilID = NilID
    BadSig = BadSig
    Sig = Sig
    Peer = Peer
    ValidBlocks = {A}
    CheckedBlocks = {A, B}
    OwnBlock = A
    Total = 1
    Proposer <- MCProposer
    LastVoters = {o1, o2}
    PeerVotes <- VotesConflict
    PeerProposals <- ProposalsConflict
    PeerBlocks = {A, B}
    LostVotes = {}
    PeerClaims <- ClaimsConflict
    Equivocators = {o1}
    MaxRound = 0
    msgQueueSize = 1
    WaitForTxs = TRUE
    CreateEmptyBlocksInterval = TRUE
    SkipTimeoutCommit = TRUE
    Unreliable = {"sign", "apply"}
INVARIANTS NeverWaitsWithoutTimer WaitsForCommittedBlock FinalizesWhenItCan EquivocationIsReported
CHECK_DEADLOCK FALSE
