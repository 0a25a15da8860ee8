SPECIFICATION FairSpec
CONSTANTS
    me = me
    o1 = o1
    o2 = o2
    A = A
    B = B
    Self = me
    Validators = {me, o1, o2}
    Power <- PowerRounds
    PowerOf <- MCPowerOf
    Blocks = {A, B}
    NilID = NilID
    BadSig = BadSig
    Sig = Sig
    Peer = Peer
    ValidBlocks = {A, B}
    CheckedBlocks = {A, B}
    OwnBlock = B
    Total = 1
    Proposer <- MCProposer
    LastVoters = {me, o1, o2}
    PeerVotes <- VotesLive
    PeerProposals <- ProposalsRounds
    PeerBlocks = {A}
    LostVotes <- LostLive
    PeerClaims = {}
    Equivocators = {}
    MaxRound = 1
    msgQueueSize = 2
    WaitForTxs = FALSE
    CreateEmptyBlocksInterval = FALSE
    SkipTimeoutCommit = FALSE
    Unreliable = {}
PROPERTIES RoundsEnd CommitIsFinalized
CHECK_DEADLOCK FALSE
