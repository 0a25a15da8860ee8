SPECIFICATION Spec
CONSTANTS
    me = me
    o1 = o1
    o2 = o2
    A = A
    B = B
    Self = me
    Validators = {me, o1, o2}
    Power <- PowerRounds
    PowerOf <- MCPowerOf
    Blocks = {A, B}
    NilID = NilID
    BadSig = BadSig
    Sig = Sig
    Peer = Peer
    ValidBlocks = {A, B}
    CheckedBlocks = {A, B}
    OwnBlock = B
    Total = 1
    Proposer <- ProposerLater
    LastVoters = {me, o1, o2}
    PeerVotes <- VotesLater
    PeerProposals <- ProposalsLater
    PeerBlocks = {A}
    LostVotes = {}
    PeerClaims = {}
    Equivocators = {}
    MaxRound = 1
    msgQueueSize = 2
    WaitForTxs = FALSE
    CreateEmptyBlocksInterval = FALSE
    SkipTimeoutCommit = FALSE
    Unreliable = {}
INVARIANT FinalizesWhenItCan
CHECK_DEADLOCK FALSE
