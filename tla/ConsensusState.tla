--------------------------- MODULE ConsensusState ---------------------------
(***************************************************************************)
(* consensus.State of one node during one height: the receive routine, the *)
(* handlers of its messages and timeouts, and the functions they call.     *)
(* Everything the other validators and peers send is environment.          *)
(*                                                                         *)
(* A handler runs to its end before the routine takes the next message,    *)
(* calling one enter function after another.  todo holds the calls that    *)
(* remain; while there are any, nothing else changes the round state.      *)
(***************************************************************************)
EXTENDS HeightVoteSetOps, Functions

CONSTANTS
    Self,               \* this node's validator; not in Validators if it observes
    ValidBlocks,        \* blocks ValidateBlock accepts
    CheckedBlocks,      \* blocks the application's CheckBlock accepts
    OwnBlock,           \* the block createProposalBlock makes
    Total,              \* the number of parts of a block
    Proposer,           \* the proposer of each round
    LastVoters,         \* whose precommits the commit of the previous height has
    PeerVotes,          \* votes, ...
    PeerProposals,      \* ... proposals ...
    PeerBlocks,         \* ... and blocks that peers may send
    LostVotes,          \* the votes among them that may be lost
    PeerClaims,         \* votes whose block a peer may claim to have +2/3
    Equivocators,       \* validators that may sign two votes for a step
    Peer,               \* the peer they come from
    Sig,                \* a good signature
    MaxRound,           \* bound: the last round
    msgQueueSize,       \* capacity of internalMsgQueue
    WaitForTxs, CreateEmptyBlocksInterval, SkipTimeoutCommit,   \* the configuration
    Unreliable          \* the local services, of {"sign", "apply"}, that may fail

VARIABLES
    rs,                 \* cs.RoundState
    todo,               \* calls the current handler has still to make
    internalMsgQueue,   \* our own messages
    senders,            \* goroutines of sendInternalMessage waiting for room
    ticker,             \* the last timeout scheduled, and whether its timer runs
    tocks,              \* timeouts fired and not yet received
    evpool,             \* what was given to the evidence pool
    unreported,         \* history: conflicting votes not given to it as GetPubKey failed
    panicked,           \* the receive routine has stopped: CONSENSUS FAILURE
    signed,             \* history: the votes signed, in order
    delivered,          \* history: the votes received from peers
    decision,           \* history: the block saved by finalizeCommit
    last                \* history: the round state when the height ended

queues == <<internalMsgQueue, senders>>
timers == <<ticker, tocks>>
evidence == <<evpool, unreported>>
vars == <<rs, todo, queues, timers, evidence, panicked, signed, delivered, decision, last>>

RoundStepNewHeight == 1
RoundStepNewRound == 2
RoundStepPropose == 3
RoundStepPrevote == 4
RoundStepPrevoteWait == 5
RoundStepPrecommit == 6
RoundStepPrecommitWait == 7
RoundStepCommit == 8

Rounds == 0..MaxRound
PartIndices == 1..Total
NoProposal == [round |-> -1, POLRound |-> -1, block |-> NilID, signer |-> NilID]
NewPartSetFromHeader(block) == [header |-> block, parts |-> {}]
NoParts == NewPartSetFromHeader(NilID)
Complete(block) == [header |-> block, parts |-> PartIndices]

(* The messages that sendInternalMessage takes, and calls to make. *)
proposalMsg(p) == [kind |-> "proposal", proposal |-> p]
partMsg(block, i) == [kind |-> "part", block |-> block, index |-> i]
voteMsg(vote) == [kind |-> "vote", vote |-> vote]
call(fn, r) == [fn |-> fn, round |-> r]

(* updateToState: the round state at the start of a height. *)
FreshRoundState(height, lastCommit) ==
    [Height |-> height, Round |-> 0, Step |-> RoundStepNewHeight,
     Proposal |-> NoProposal, ProposalBlock |-> NilID, ProposalBlockParts |-> NoParts,
     LockedRound |-> -1, LockedBlock |-> NilID, ValidRound |-> -1, ValidBlock |-> NilID,
     Votes |-> NewHeightVoteSet, CommitRound |-> -1, LastCommit |-> lastCommit,
     TriggeredTimeoutPrecommit |-> FALSE]

Round0 == [round |-> 0, step |-> RoundStepNewHeight, armed |-> TRUE]

(* OnStart has scheduled round 0.  LastCommit is kept as the set of its       *)
(* validators.                                                                *)
ASSUME LastVotersAssumption == LastVoters \subseteq Validators /\ HasQuorum(LastVoters)

Init ==
    /\ rs = FreshRoundState(1, LastVoters)
    /\ todo = <<>>
    /\ internalMsgQueue = <<>> /\ senders = {}
    /\ ticker = Round0 /\ tocks = {}
    /\ evpool = {} /\ unreported = {}
    /\ panicked = FALSE
    /\ signed = <<>> /\ delivered = {} /\ decision = NilID
    /\ last = rs

Idle == todo = <<>> /\ ~panicked /\ rs.Height = 1
Outcomes(service) == IF service \in Unreliable THEN BOOLEAN ELSE {TRUE}

-----------------------------------------------------------------------------
(* Helpers of the handlers *)

(* sendInternalMessage, for each of ms in turn: without room in the queue a  *)
(* goroutine waits with the message.                                         *)
sendInternalMessages(ms) ==
    LET n == Min({Len(ms), msgQueueSize - Len(internalMsgQueue)})
    IN  /\ internalMsgQueue' = internalMsgQueue \o SubSeq(ms, 1, n)
        /\ senders' = senders \cup Range(SubSeq(ms, n + 1, Len(ms)))

(* signAddVote; signVote takes the round from the round state. *)
signAddVote(type, block) ==
    LET vote == [step |-> stepOf(rs.Round, type), index |-> Self, block |-> block, sig |-> Sig]
    IN  \E ok \in Outcomes("sign") :
          IF ok /\ Self \in Validators
            THEN signed' = Append(signed, vote) /\ sendInternalMessages(<<voteMsg(vote)>>)
            ELSE UNCHANGED <<signed, queues>>

isProposalComplete(s) ==
    /\ s.Proposal # NoProposal
    /\ s.ProposalBlock # NilID
    /\ s.Proposal.POLRound >= 0 =>
         HasTwoThirdsMajority(Prevotes(s.Votes, s.Proposal.POLRound))

(* Faulty variants, each the definition after it with one mistake. *)
scheduleKeepingFirst(t, r, step) ==
    IF r <= t.round /\ t.step > RoundStepNewHeight THEN t
    ELSE [round |-> r, step |-> step, armed |-> TRUE]

(* timeoutRoutine, on a tick: timeouts for an earlier step are ignored, and   *)
(* a later one replaces the timer that runs.                                  *)
schedule(t, r, step) ==
    IF r < t.round \/ (r = t.round /\ step <= t.step)
      THEN t
      ELSE [round |-> r, step |-> step, armed |-> TRUE]

unlocked(s) == [s EXCEPT !.LockedRound = -1, !.LockedBlock = NilID]

(* The header of a part set is replaced when it is for another block. *)
expectParts(s, block) ==
    IF s.ProposalBlockParts.header = block THEN s
    ELSE [s EXCEPT !.ProposalBlockParts = NewPartSetFromHeader(block)]

isStalePrevotingTwice(fn, r) ==
    LET past(done) == r < rs.Round \/ (r = rs.Round /\ done)
    IN  CASE fn = "enterNewRound"      -> past(rs.Step # RoundStepNewHeight)
          [] fn = "enterPropose"       -> past(RoundStepPropose <= rs.Step)
          [] fn = "enterPrevote"       -> past(RoundStepPrevote < rs.Step)
          [] fn = "enterPrevoteWait"   -> past(RoundStepPrevoteWait <= rs.Step)
          [] fn = "enterPrecommit"     -> past(RoundStepPrecommitWait <= rs.Step)
          [] fn = "enterPrecommitWait" -> past(rs.TriggeredTimeoutPrecommit)
          [] fn = "enterCommit"        -> RoundStepCommit <= rs.Step
          [] fn = "tryFinalizeCommit"  -> FALSE

(* The early return at the start of each function. *)
isStale(fn, r) ==
    LET past(done) == r < rs.Round \/ (r = rs.Round /\ done)
    IN  CASE fn = "enterNewRound"      -> past(rs.Step # RoundStepNewHeight)
          [] fn = "enterPropose"       -> past(RoundStepPropose <= rs.Step)
          [] fn = "enterPrevote"       -> past(RoundStepPrevote <= rs.Step)
          [] fn = "enterPrevoteWait"   -> past(RoundStepPrevoteWait <= rs.Step)
          [] fn = "enterPrecommit"     -> past(RoundStepPrecommit <= rs.Step)
          [] fn = "enterPrecommitWait" -> past(rs.TriggeredTimeoutPrecommit)
          [] fn = "enterCommit"        -> RoundStepCommit <= rs.Step
          [] fn = "tryFinalizeCommit"  -> FALSE

Calling(fn) == todo # <<>> /\ ~panicked /\ Head(todo).fn = fn /\ ~isStale(fn, Head(todo).round)
Return(calls) == todo' = calls \o Tail(todo)

-----------------------------------------------------------------------------
(* The enter functions *)

IgnoreCall ==
    /\ todo # <<>> /\ ~panicked
    /\ Head(todo).fn \notin {"addedPrevote", "addedPrecommit"}
    /\ isStale(Head(todo).fn, Head(todo).round)
    /\ Return(<<>>)
    /\ UNCHANGED <<rs, queues, timers, evidence, panicked, signed, delivered, decision, last>>

enterNewRound ==
    LET r == Head(todo).round
        waits == WaitForTxs /\ r = 0
    IN  /\ Calling("enterNewRound")
        /\ panicked' = SetRoundPanics(rs.Votes, r + 1)
        /\ rs' = [rs EXCEPT
             !.Round = r, !.Step = RoundStepNewRound,
             !.Proposal = IF r = 0 THEN @ ELSE NoProposal,
             !.ProposalBlock = IF r = 0 THEN @ ELSE NilID,
             !.ProposalBlockParts = IF r = 0 THEN @ ELSE NoParts,
             !.Votes = SetRound(@, r + 1), !.TriggeredTimeoutPrecommit = FALSE]
        /\ ticker' = IF waits /\ CreateEmptyBlocksInterval
                       THEN schedule(ticker, r, RoundStepNewRound) ELSE ticker
        /\ Return(IF waits THEN <<>> ELSE <<call("enterPropose", r)>>)
        /\ UNCHANGED <<queues, tocks, evidence, signed, delivered, decision, last>>

(* defaultDecideProposal: the valid block with its round, or a new block. *)
decideProposal(r) ==
    LET block == IF rs.ValidBlock # NilID THEN rs.ValidBlock ELSE OwnBlock
        p == [round |-> r, POLRound |-> rs.ValidRound, block |-> block, signer |-> Self]
    IN  \E ok \in Outcomes("sign") :
          IF ok THEN sendInternalMessages(<<proposalMsg(p)>> \o
                       [i \in PartIndices |-> partMsg(block, i)])
                ELSE UNCHANGED queues

enterPropose ==
    LET r == Head(todo).round
        s == [rs EXCEPT !.Round = r, !.Step = RoundStepPropose]
    IN  /\ Calling("enterPropose")
        /\ ticker' = schedule(ticker, r, RoundStepPropose)
        /\ IF Self \in Validators /\ Proposer[rs.Round] = Self
             THEN decideProposal(r) ELSE UNCHANGED queues
        /\ rs' = s
        /\ Return(IF isProposalComplete(s) THEN <<call("enterPrevote", r)>> ELSE <<>>)
        /\ UNCHANGED <<tocks, evidence, panicked, signed, delivered, decision, last>>

(* defaultDoPrevote *)
prevoteBlock ==
    IF rs.LockedBlock # NilID THEN rs.LockedBlock
    ELSE IF rs.ProposalBlock \in ValidBlocks THEN rs.ProposalBlock ELSE NilID

enterPrevote ==
    /\ Calling("enterPrevote")
    /\ signAddVote(Prevote, prevoteBlock)
    /\ rs' = [rs EXCEPT !.Round = Head(todo).round, !.Step = RoundStepPrevote]
    /\ Return(<<>>)
    /\ UNCHANGED <<timers, evidence, panicked, delivered, decision, last>>

enterPrevoteWait ==
    LET r == Head(todo).round
    IN  /\ Calling("enterPrevoteWait")
        /\ panicked' = ~HasTwoThirdsAny(Prevotes(rs.Votes, r))
        /\ ticker' = schedule(ticker, r, RoundStepPrevoteWait)
        /\ rs' = [rs EXCEPT !.Round = r, !.Step = RoundStepPrevoteWait]
        /\ Return(<<>>)
        /\ UNCHANGED <<queues, tocks, evidence, signed, delivered, decision, last>>

precommitPanics(s, r) ==
    LET maj == Prevotes(s.Votes, r).maj23
    IN  /\ maj # NoMaj23
        /\ \/ POLInfo(s.Votes) < r
           \/ maj \in Blocks /\ maj # s.LockedBlock /\ maj = s.ProposalBlock /\ maj \notin ValidBlocks

precommitLockingProposal(s, r) ==
    LET maj == Prevotes(s.Votes, r).maj23
        vote(s1, block) == [state |-> s1, block |-> block]
    IN  IF maj = NoMaj23 THEN vote(s, NilID)
        ELSE IF maj = NilID THEN vote(unlocked(s), NilID)
        ELSE IF s.ProposalBlock # NilID
               THEN vote([s EXCEPT !.LockedRound = r, !.LockedBlock = s.ProposalBlock], maj)
        ELSE vote(expectParts(unlocked(s), maj), NilID)

(* What enterPrecommit makes of the polka of its round, if there is one: the *)
(* lock it takes, keeps or releases, and the block it precommits.            *)
precommitFor(s, r) ==
    LET maj == Prevotes(s.Votes, r).maj23
        vote(s1, block) == [state |-> s1, block |-> block]
    IN  IF maj = NoMaj23 THEN vote(s, NilID)
        ELSE IF maj = NilID THEN vote(unlocked(s), NilID)
        ELSE IF maj = s.LockedBlock THEN vote([s EXCEPT !.LockedRound = r], maj)
        ELSE IF maj = s.ProposalBlock
               THEN vote([s EXCEPT !.LockedRound = r, !.LockedBlock = maj], maj)
        ELSE IF s.ProposalBlockParts.header = maj THEN vote(unlocked(s), NilID)
        ELSE vote(expectParts([unlocked(s) EXCEPT !.ProposalBlock = NilID], maj), NilID)

enterPrecommit ==
    LET r == Head(todo).round
        result == precommitFor(rs, r)
    IN  /\ Calling("enterPrecommit")
        /\ IF precommitPanics(rs, r)
             THEN panicked' = TRUE /\ UNCHANGED <<rs, queues, signed>>
             ELSE /\ signAddVote(Precommit, result.block)
                  /\ rs' = [result.state EXCEPT !.Round = r, !.Step = RoundStepPrecommit]
                  /\ UNCHANGED panicked
        /\ Return(<<>>)
        /\ UNCHANGED <<timers, evidence, delivered, decision, last>>

enterPrecommitWait ==
    LET r == Head(todo).round
    IN  /\ Calling("enterPrecommitWait")
        /\ panicked' = ~HasTwoThirdsAny(Precommits(rs.Votes, r))
        /\ ticker' = schedule(ticker, r, RoundStepPrecommitWait)
        /\ rs' = [rs EXCEPT !.TriggeredTimeoutPrecommit = TRUE]
        /\ Return(<<>>)
        /\ UNCHANGED <<queues, tocks, evidence, signed, delivered, decision, last>>

commitSetupKeepingParts(s, block) ==
    IF s.LockedBlock = block
      THEN [s EXCEPT !.ProposalBlock = block, !.ProposalBlockParts = Complete(block)]
    ELSE IF s.ProposalBlockParts # NoParts THEN s
    ELSE expectParts([s EXCEPT !.ProposalBlock = NilID], block)

(* enterCommit takes the locked block if it is the one committed, otherwise   *)
(* gets ready to receive it.                                                  *)
commitSetup(s, block) ==
    IF s.LockedBlock = block
      THEN [s EXCEPT !.ProposalBlock = block, !.ProposalBlockParts = Complete(block)]
    ELSE IF s.ProposalBlock = block \/ s.ProposalBlockParts.header = block THEN s
    ELSE expectParts([s EXCEPT !.ProposalBlock = NilID], block)

enterCommit ==
    LET r == Head(todo).round
        maj == Precommits(rs.Votes, r).maj23
    IN  /\ Calling("enterCommit")
        /\ panicked' = (maj = NoMaj23)
        /\ rs' = [commitSetup(rs, maj) EXCEPT !.Step = RoundStepCommit, !.CommitRound = r]
        /\ Return(<<call("tryFinalizeCommit", r)>>)
        /\ UNCHANGED <<queues, timers, evidence, signed, delivered, decision, last>>

(* tryFinalizeCommit has nothing to do without the block. *)
cannotFinalize ==
    /\ Calling("tryFinalizeCommit")
    /\ LET maj == Precommits(rs.Votes, rs.CommitRound).maj23
       IN  maj \in {NoMaj23, NilID} \/ rs.ProposalBlock # maj \/ rs.Step # RoundStepCommit
    /\ Return(<<>>)
    /\ UNCHANGED <<rs, queues, timers, evidence, panicked, signed, delivered, decision, last>>

(* finalizeCommit: the block is saved unless one is stored, then applied; if  *)
(* that fails the function returns and the node stays where it is.  On        *)
(* success updateToState and scheduleRound0 end the height; what the handler  *)
(* may still call belongs to the next one.                                    *)
finalizeCommit ==
    LET precommits == Precommits(rs.Votes, rs.CommitRound)
        maj == precommits.maj23
    IN  /\ Calling("tryFinalizeCommit")
        /\ maj \in Blocks /\ rs.ProposalBlock = maj /\ rs.Step = RoundStepCommit
        /\ IF rs.ProposalBlockParts.header # maj \/ maj \notin ValidBlocks
             THEN panicked' = TRUE /\ Return(<<>>) /\ UNCHANGED <<rs, ticker, decision, last>>
             ELSE \E applied \in Outcomes("apply") :
                    /\ decision' = IF decision = NilID THEN maj ELSE decision
                    /\ IF applied
                         THEN /\ rs' = FreshRoundState(2, DOMAIN precommits.votes)
                              /\ ticker' = Round0 /\ todo' = <<>> /\ last' = rs
                         ELSE Return(<<>>) /\ UNCHANGED <<rs, ticker, last>>
                    /\ UNCHANGED panicked
        /\ UNCHANGED <<queues, tocks, evidence, signed, delivered>>

-----------------------------------------------------------------------------
(* The handlers of handleMsg *)

(* defaultSetProposal *)
setProposal(s, p) ==
    IF \/ s.Proposal # NoProposal
       \/ p.round # s.Round
       \/ p.POLRound < -1 \/ (p.POLRound >= 0 /\ p.POLRound >= p.round)
       \/ p.signer # Proposer[s.Round]
      THEN s
      ELSE [s EXCEPT !.Proposal = p,
                     !.ProposalBlockParts = IF @ = NoParts THEN NewPartSetFromHeader(p.block) ELSE @]

(* "Update Valid* if we can", when the proposal block has the polka of the    *)
(* current round.                                                             *)
updateValid(s, maj) ==
    IF maj \in Blocks /\ s.ValidRound < s.Round /\ s.ProposalBlock = maj
      THEN [s EXCEPT !.ValidRound = s.Round, !.ValidBlock = maj]
      ELSE s

addPartWithoutFinalizing(block, i) ==
    LET old == rs.ProposalBlockParts
        added == old.header = block /\ i \notin old.parts
        s == [rs EXCEPT !.ProposalBlockParts.parts = @ \cup {i}]
        maj == Prevotes(rs.Votes, rs.Round).maj23
        s1 == updateValid([s EXCEPT !.ProposalBlock = block], maj)
    IN  IF ~added THEN UNCHANGED <<rs, todo>>
        ELSE IF s.ProposalBlockParts # Complete(block) THEN rs' = s /\ UNCHANGED todo
        ELSE /\ rs' = s1
             /\ todo' = IF rs.Step <= RoundStepPropose /\ isProposalComplete(s1)
                          THEN <<call("enterPrevote", rs.Round)>> ELSE <<>>

(* addProposalBlockPart.  A complete block that CheckBlock rejects is not      *)
(* taken, and its parts stay.                                                  *)
addProposalBlockPart(block, i) ==
    LET old == rs.ProposalBlockParts
        added == old.header = block /\ i \notin old.parts
        s == [rs EXCEPT !.ProposalBlockParts.parts = @ \cup {i}]
        maj == Prevotes(rs.Votes, rs.Round).maj23
        s1 == updateValid([s EXCEPT !.ProposalBlock = block], maj)
        complete == s.ProposalBlockParts = Complete(block) /\ block \in CheckedBlocks
    IN  IF ~added THEN UNCHANGED <<rs, todo>>
        ELSE IF ~complete THEN rs' = s /\ UNCHANGED todo
        ELSE /\ rs' = s1
             /\ todo' = IF rs.Step <= RoundStepPropose /\ isProposalComplete(s1)
                          THEN <<call("enterPrevote", rs.Round)>> \o
                               IF maj = NoMaj23 THEN <<>> ELSE <<call("enterPrecommit", rs.Round)>>
                        ELSE IF rs.Step = RoundStepCommit
                          THEN <<call("tryFinalizeCommit", rs.CommitRound)>>
                        ELSE <<>>

(* GetPubKey comes before the conflict is reported; if it fails the conflict  *)
(* is not.  Our own conflicting votes are logged only.                        *)
report(vote) ==
    \E ok \in Outcomes("sign") :
        /\ evpool' = IF ok /\ vote.index # Self
                       THEN evpool \cup {[kind |-> "duplicate", vote |-> vote]} ELSE evpool
        /\ unreported' = IF ok THEN unreported ELSE unreported \cup {vote}

tryAddVoteSilently(vote, peer) ==
    LET res == hvsAddVote(rs.Votes, vote, peer)
    IN  /\ rs' = [rs EXCEPT !.Votes = res.hvs]
        /\ todo' = IF ~res.added THEN <<>>
                   ELSE IF vote.step.type = Prevote THEN <<call("addedPrevote", vote.step.round)>>
                   ELSE <<call("addedPrecommit", vote.step.round)>>
        /\ IF res.err = "conflicting" /\ ~res.added THEN report(vote) ELSE UNCHANGED evidence

(* tryAddVote, and addVote up to the point where the vote has been added.     *)
tryAddVote(vote, peer) ==
    LET res == hvsAddVote(rs.Votes, vote, peer)
    IN  /\ rs' = [rs EXCEPT !.Votes = res.hvs]
        /\ todo' = IF ~res.added THEN <<>>
                   ELSE IF vote.step.type = Prevote THEN <<call("addedPrevote", vote.step.round)>>
                   ELSE <<call("addedPrecommit", vote.step.round)>>
        /\ IF res.err = "conflicting" THEN report(vote) ELSE UNCHANGED evidence

(* "Unlock if cs.LockedRound < vote.Round <= cs.Round" *)
unlocksOnAnyPolka(s, r, maj) ==
    s.LockedBlock # NilID /\ maj # NoMaj23 /\ r <= s.Round /\ s.LockedBlock # maj

unlocks(s, r, maj) ==
    /\ s.LockedBlock # NilID /\ maj # NoMaj23
    /\ s.LockedRound < r /\ r <= s.Round
    /\ s.LockedBlock # maj

(* "Update Valid* if we can.  NOTE: our proposal block may be nil or not what *)
(* received a polka"; then it is dropped and its parts are expected.          *)
valid(s, r, maj) ==
    IF maj \notin Blocks \/ s.ValidRound >= r \/ r # s.Round THEN s
    ELSE IF s.ProposalBlock = maj
      THEN expectParts([s EXCEPT !.ValidRound = r, !.ValidBlock = maj], maj)
      ELSE expectParts([s EXCEPT !.ProposalBlock = NilID], maj)

(* savePOLC: from round 1 on, if GetPubKey answers; a proof with our own vote  *)
(* does not pass ValidateBasic.                                                *)
savesPOLC(r, maj) ==
    LET votes == Prevotes(rs.Votes, r).votes
    IN  r # 0 /\ ~(Self \in DOMAIN votes /\ votes[Self].block = maj)

(* The rest of addVote, for a prevote. *)
addedPrevote ==
    LET r == Head(todo).round
        prevotes == Prevotes(rs.Votes, r)
        maj == prevotes.maj23
        unlock == unlocks(rs, r, maj)
        s == valid(IF unlock THEN unlocked(rs) ELSE rs, r, maj)
    IN  /\ todo # <<>> /\ ~panicked /\ Head(todo).fn = "addedPrevote"
        /\ rs' = s
        /\ \E ok \in Outcomes("sign") :
             evpool' = IF unlock /\ savesPOLC(r, maj) /\ ok
                         THEN evpool \cup {[kind |-> "polc", round |-> r, block |-> maj]} ELSE evpool
        /\ Return(IF s.Round < r /\ HasTwoThirdsAny(prevotes)
                    THEN <<call("enterNewRound", r)>>
                  ELSE IF s.Round = r /\ RoundStepPrevote <= s.Step
                    THEN IF maj # NoMaj23 /\ (isProposalComplete(s) \/ maj = NilID)
                           THEN <<call("enterPrecommit", r)>>
                         ELSE IF HasTwoThirdsAny(prevotes) THEN <<call("enterPrevoteWait", r)>>
                         ELSE <<>>
                  ELSE IF s.Proposal # NoProposal /\ s.Proposal.POLRound = r /\ isProposalComplete(s)
                    THEN <<call("enterPrevote", s.Round)>>
                  ELSE <<>>)
        /\ UNCHANGED <<queues, timers, unreported, panicked, signed, delivered, decision, last>>

precommitCallsOnAny(s, r, precommits) ==
    LET maj == precommits.maj23
    IN  IF HasTwoThirdsAny(precommits)
          THEN <<call("enterNewRound", r), call("enterPrecommit", r)>> \o
               IF maj # NilID THEN <<call("enterCommit", r)>> ELSE <<call("enterPrecommitWait", r)>>
        ELSE <<>>

(* The rest of addVote, for a precommit; with SkipTimeoutCommit the handler   *)
(* goes on to round 0, of the next height if the block was finalized.         *)
precommitCalls(s, r, precommits) ==
    LET maj == precommits.maj23
    IN  IF maj = NilID
          THEN <<call("enterNewRound", r), call("enterPrecommit", r), call("enterPrecommitWait", r)>>
        ELSE IF maj # NoMaj23
          THEN <<call("enterNewRound", r), call("enterPrecommit", r), call("enterCommit", r)>> \o
               IF SkipTimeoutCommit /\ HasAll(precommits) THEN <<call("enterNewRound", 0)>> ELSE <<>>
        ELSE IF s.Round <= r /\ HasTwoThirdsAny(precommits)
          THEN <<call("enterNewRound", r), call("enterPrecommitWait", r)>>
        ELSE <<>>

addedPrecommit ==
    LET r == Head(todo).round
    IN  /\ todo # <<>> /\ ~panicked /\ Head(todo).fn = "addedPrecommit"
        /\ Return(precommitCalls(rs, r, Precommits(rs.Votes, r)))
        /\ UNCHANGED <<rs, queues, timers, evidence, panicked, signed, delivered, decision, last>>

-----------------------------------------------------------------------------
(* The receive routine *)

receiveInternal ==
    /\ Idle /\ internalMsgQueue # <<>>
    /\ LET m == Head(internalMsgQueue)
       IN  CASE m.kind = "proposal" ->
                  rs' = setProposal(rs, m.proposal) /\ UNCHANGED <<todo, evidence>>
             [] m.kind = "part" -> addProposalBlockPart(m.block, m.index) /\ UNCHANGED evidence
             [] m.kind = "vote" -> tryAddVote(m.vote, Self)
    /\ internalMsgQueue' = Tail(internalMsgQueue)
    /\ UNCHANGED <<senders, timers, panicked, signed, delivered, decision, last>>

(* A goroutine of sendInternalMessage finds room. *)
sendBlocked(m) ==
    /\ Len(internalMsgQueue) < msgQueueSize
    /\ internalMsgQueue' = Append(internalMsgQueue, m)
    /\ senders' = senders \ {m}
    /\ UNCHANGED <<rs, todo, timers, evidence, panicked, signed, delivered, decision, last>>

receiveProposal(p) ==
    /\ Idle
    /\ rs' = setProposal(rs, p)
    /\ UNCHANGED <<todo, queues, timers, evidence, panicked, signed, delivered, decision, last>>

receivePart(block, i) ==
    /\ Idle
    /\ addProposalBlockPart(block, i)
    /\ UNCHANGED <<queues, timers, evidence, panicked, signed, delivered, decision, last>>

receiveVote(vote) ==
    /\ Idle
    /\ vote.index \in Equivocators \/
         ~\E v \in delivered : v.step = vote.step /\ v.index = vote.index /\ v # vote
    /\ delivered' = delivered \cup {vote}
    /\ tryAddVote(vote, Peer)
    /\ UNCHANGED <<queues, timers, panicked, signed, decision, last>>

(* Reactor.Receive, on a VoteSetMaj23Message: it calls SetPeerMaj23 itself,   *)
(* between any two steps of a handler.                                         *)
receiveMaj23(claim) ==
    /\ ~panicked /\ rs.Height = 1
    /\ rs' = [rs EXCEPT !.Votes =
                hvsSetPeerMaj23(@, claim.step.round, claim.step.type, Peer, claim.block)]
    /\ UNCHANGED <<todo, queues, timers, evidence, panicked, signed, delivered, decision, last>>

(* addVote, for a precommit of the previous height. *)
receiveLastPrecommit(v) ==
    /\ Idle
    /\ rs.Step = RoundStepNewHeight /\ v \notin rs.LastCommit
    /\ rs' = [rs EXCEPT !.LastCommit = @ \cup {v}]
    /\ todo' = IF SkipTimeoutCommit /\ rs'.LastCommit = Validators
                 THEN <<call("enterNewRound", 0)>> ELSE <<>>
    /\ UNCHANGED <<queues, timers, evidence, panicked, signed, delivered, decision, last>>

(* timeoutRoutine: the timer fires, a goroutine sends the timeout. *)
fire ==
    /\ ticker.armed
    /\ ticker' = [ticker EXCEPT !.armed = FALSE]
    /\ tocks' = tocks \cup {[round |-> ticker.round, step |-> ticker.step]}
    /\ UNCHANGED <<rs, todo, queues, evidence, panicked, signed, delivered, decision, last>>

(* Bound: the wait that ends the last round is not answered. *)
handleTimeout(ti) ==
    /\ Idle
    /\ ~(ti.step = RoundStepPrecommitWait /\ ti.round = MaxRound)
    /\ tocks' = tocks \ {ti}
    /\ todo' =
         IF ti.round < rs.Round \/ (ti.round = rs.Round /\ ti.step < rs.Step) THEN <<>>
         ELSE CASE ti.step = RoundStepNewHeight -> <<call("enterNewRound", 0)>>
                [] ti.step = RoundStepNewRound -> <<call("enterPropose", 0)>>
                [] ti.step = RoundStepPropose -> <<call("enterPrevote", ti.round)>>
                [] ti.step = RoundStepPrevoteWait -> <<call("enterPrecommit", ti.round)>>
                [] ti.step = RoundStepPrecommitWait ->
                     <<call("enterPrecommit", ti.round), call("enterNewRound", ti.round + 1)>>
    /\ UNCHANGED <<rs, queues, ticker, evidence, panicked, signed, delivered, decision, last>>

handleTxsAvailable ==
    /\ Idle /\ WaitForTxs
    /\ rs.Round = 0 /\ rs.Step = RoundStepNewRound
    /\ todo' = <<call("enterPropose", 0)>>
    /\ UNCHANGED <<rs, queues, timers, evidence, panicked, signed, delivered, decision, last>>

Call ==
    \/ IgnoreCall \/ enterNewRound \/ enterPropose \/ enterPrevote \/ enterPrevoteWait
    \/ enterPrecommit \/ enterPrecommitWait \/ enterCommit \/ cannotFinalize \/ finalizeCommit
    \/ addedPrevote \/ addedPrecommit

Receive ==
    \/ receiveInternal
    \/ \E p \in PeerProposals : receiveProposal(p)
    \/ \E block \in PeerBlocks, i \in PartIndices : receivePart(block, i)
    \/ \E vote \in PeerVotes : receiveVote(vote)
    \/ \E v \in Validators : receiveLastPrecommit(v)
    \/ \E ti \in tocks : handleTimeout(ti)
    \/ handleTxsAvailable

Next ==
    \/ Call \/ Receive \/ fire
    \/ \E m \in senders : sendBlocked(m)
    \/ \E claim \in PeerClaims : receiveMaj23(claim)

Spec == Init /\ [][Next]_vars

(* The routine goes on with its handler; its select takes every message that  *)
(* waits, and timers fire.  The gossip of peers brings each part, and each    *)
(* vote that is not lost.                                                     *)
Fairness ==
    /\ WF_vars(Call) /\ WF_vars(fire) /\ WF_vars(receiveInternal)
    /\ WF_vars(\E m \in senders : sendBlocked(m))
    /\ WF_vars(\E ti \in tocks : handleTimeout(ti))
    /\ \A vote \in PeerVotes \ LostVotes : WF_vars(receiveVote(vote))
    /\ \A block \in PeerBlocks, i \in PartIndices : WF_vars(receivePart(block, i))

FairSpec == Spec /\ Fairness

-----------------------------------------------------------------------------
(* Properties *)

(* No sequence of messages, timeouts and round skips makes one of the panics  *)
(* of the receive routine ("CONSENSUS FAILURE!!!") happen.                    *)
NoPanic == ~panicked

(* The votes handed to the private validator are for ever later steps, so     *)
(* that FilePV's check of the height, round and step never has to refuse one. *)
Earlier(s, t) == s.round < t.round \/ (s.round = t.round /\ s.type = Prevote /\ t.type = Precommit)
SigningMovesForward ==
    \A i, j \in DOMAIN signed : i < j => Earlier(signed[i].step, signed[j].step)

(* The block that is locked, and the valid block the node would propose with  *)
(* ValidRound as its POLRound, have a polka in that very round among the      *)
(* votes held, so that isProposalComplete can come true at the other nodes;   *)
(* a node without a lock has no locked round.                                 *)
LockAndValidHavePOL ==
    /\ rs.LockedBlock # NilID => Prevotes(rs.Votes, rs.LockedRound).maj23 = rs.LockedBlock
    /\ rs.ValidBlock # NilID => Prevotes(rs.Votes, rs.ValidRound).maj23 = rs.ValidBlock
    /\ (rs.LockedBlock = NilID <=> rs.LockedRound = -1) /\ rs.LockedRound <= rs.Round

(* A node in the commit step collects the parts of the committed block,       *)
(* unless a later polka of the same round names another block.                *)
WaitsForCommittedBlock ==
    LET maj == Precommits(rs.Votes, rs.CommitRound).maj23
    IN  rs.Step = RoundStepCommit =>
          \/ rs.ProposalBlockParts.header = maj
          \/ Prevotes(rs.Votes, rs.Round).maj23 \notin {maj, NoMaj23}

(* Whenever the node has nothing left to do in a step that only a timeout is  *)
(* sure to end, a timeout for that step or a later one is running or on its   *)
(* way: no tick that the ticker drops, or replaces, leaves the node waiting.  *)
Pending(r, step) ==
    \E t \in tocks \cup (IF ticker.armed THEN {ticker} ELSE {}) :
        t.round > r \/ (t.round = r /\ t.step >= step)
NeverWaitsWithoutTimer ==
    Idle /\ rs.Step # RoundStepCommit =>
        /\ rs.Step \in {RoundStepNewHeight, RoundStepPropose, RoundStepPrevoteWait} =>
             Pending(rs.Round, rs.Step)
        /\ rs.TriggeredTimeoutPrecommit => Pending(rs.Round, RoundStepPrecommitWait)

(* Of two different votes of a validator for one step that peers have brought *)
(* one has been given to the evidence pool, in whatever order they came with  *)
(* respect to each other and to a peer's claim, unless GetPubKey failed when  *)
(* one of the two was found to conflict; and no vote of an honest validator   *)
(* has.                                                                       *)
EquivocationIsReported ==
    /\ \A v, w \in delivered :
         v.step = w.step /\ v.index = w.index /\ v # w =>
           \/ \E e \in evpool : e.kind = "duplicate" /\ e.vote \in {v, w}
           \/ {v, w} \cap unreported # {}
    /\ \A e \in evpool : e.kind = "duplicate" => e.vote.index \in Equivocators

(* "If we have the block AND +2/3 commits for it, finalize": once a handler   *)
(* has returned, a node that has both has saved the block.                    *)
FinalizesWhenItCan ==
    LET maj == Precommits(rs.Votes, rs.CommitRound).maj23
    IN  Idle /\ maj \in Blocks /\ rs.ProposalBlock = maj => decision # NilID

(* A round in which the others vote comes to an end: the node goes to a later *)
(* round or commits, whichever timeouts and messages come first.              *)
RoundsEnd ==
    \A r \in 0..(MaxRound - 1) :
        rs.Round = r ~> rs.Round > r \/ rs.Step = RoundStepCommit \/ decision # NilID

(* A node that has entered commit, and gets the parts of the block, decides.  *)
CommitIsFinalized == rs.Step = RoundStepCommit ~> decision # NilID

(* The node follows the rules of Locking: whatever the other validators sign, *)
(* the votes signed here, the lock and the decision change as it prescribes.  *)
votesOf(type) ==
    {<<v.index, v.step.round, v.block>> :
        v \in {w \in Range(signed) \cup delivered : w.step.type = type}}
ofSelf(x) == [v \in {Self} |-> x]
current == IF rs.Height = 1 THEN rs ELSE last
L == INSTANCE Locking WITH
       Faulty <- Validators \ {Self}, round <- ofSelf(current.Round),
       lockedRound <- ofSelf(current.LockedRound), lockedBlock <- ofSelf(current.LockedBlock),
       prevotes <- votesOf(Prevote), precommits <- votesOf(Precommit),
       decision <- ofSelf(decision)
ImplementsLocking == L!Spec
=============================================================================
