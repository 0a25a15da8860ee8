------------------------------- MODULE VoteSet -------------------------------
(***************************************************************************)
(* One types.VoteSet, given any votes (validators that vote twice, votes   *)
(* repeated, out of order, badly signed or for another step) and any       *)
(* claims of peers to have seen +2/3 for a block.                          *)
(***************************************************************************)
EXTENDS VoteSetOps, FiniteSets

CONSTANTS
    Peers,          \* peers that may claim +2/3
    GoodSig,        \* a validator's signature of a vote
    Step,           \* the height/round/type of this set ...
    OtherStep,      \* ... and another one
    Stranger        \* an index or an address outside the validator set

(* Votes that belong in this set, and votes with one thing wrong. *)
Ballots(steps, indices, sigs) == [step : steps, index : indices, block : BlockIDs, sig : sigs]
AuthenticVotes == Ballots({Step}, Validators, {GoodSig})
Votes == AuthenticVotes \cup Ballots({OtherStep}, Validators, {GoodSig})
           \cup Ballots({Step}, {Stranger}, {GoodSig}) \cup Ballots({Step}, Validators, {BadSig})

VARIABLES
    voteSet,    \* the set
    delivered,  \* history: authentic votes given to AddVote, as <<index, block>>
    claimed     \* history: those given while a peer's claim for the block stood

vars == <<voteSet, delivered, claimed>>

Init ==
    /\ voteSet = NewVoteSet(Step)
    /\ delivered = {}
    /\ claimed = {}

doAddVote(vote) ==
    /\ voteSet' = AddVote(voteSet, vote).vs
    /\ delivered' = IF vote \in AuthenticVotes
                      THEN delivered \cup {<<vote.index, vote.block>>} ELSE delivered
    /\ claimed' = IF vote \in AuthenticVotes /\ \E p \in DOMAIN voteSet.peerMaj23s :
                                           voteSet.peerMaj23s[p] = vote.block
                    THEN claimed \cup {<<vote.index, vote.block>>} ELSE claimed

doSetPeerMaj23(peer, block) ==
    /\ voteSet' = SetPeerMaj23(voteSet, peer, block)
    /\ UNCHANGED <<delivered, claimed>>

Next ==
    \/ \E vote \in Votes : doAddVote(vote)
    \/ \E peer \in Peers, block \in BlockIDs : doSetPeerMaj23(peer, block)

Spec == Init /\ [][Next]_vars

-----------------------------------------------------------------------------
canonicalFor(block) == {i \in DOMAIN voteSet.votes : voteSet.votes[i].block = block}
countedFor(block) ==
    IF block \in DOMAIN voteSet.votesByBlock
      THEN DOMAIN voteSet.votesByBlock[block].votes ELSE {}

(* sum and the sum of every block are the power of the validators counted,   *)
(* each once however often and for whatever it votes: the doc comment of the *)
(* field says "discounting conflicts".  HasTwoThirdsAny rests on it.         *)
SumsArePower ==
    /\ voteSet.sum = PowerOf[DOMAIN voteSet.votes]
    /\ voteSet.votesBitArray = DOMAIN voteSet.votes
    /\ \A b \in DOMAIN voteSet.votesByBlock :
         voteSet.votesByBlock[b].sum = PowerOf[countedFor(b)]

(* A majority is real: the validators counted for maj23 hold more than two   *)
(* thirds, and each of them has its vote for maj23 as its canonical vote.    *)
Maj23IsBacked ==
    HasTwoThirdsMajority(voteSet) =>
        /\ HasQuorum(countedFor(voteSet.maj23))
        /\ countedFor(voteSet.maj23) \subseteq canonicalFor(voteSet.maj23)

(* A majority is not missed: when validators that voted for nothing else, or *)
(* whose vote came while a peer's claim for the block stood, hold a quorum   *)
(* for a block, some block has become maj23.                                 *)
MajorityNotMissed ==
    \A b \in BlockIDs :
        HasQuorum({i \in Validators : \/ <<i, b>> \in claimed
                                      \/ {c \in BlockIDs : <<i, c>> \in delivered} = {b}})
            => HasTwoThirdsMajority(voteSet)

(* The commit made from a precommit majority for a block passes VerifyCommit *)
(* and rebuilds a vote set with the same majority, as reconstructLastCommit  *)
(* requires at the next start.                                               *)
CommitVerifies ==
    voteSet.maj23 \in Blocks =>
        /\ VerifyCommit(voteSet.maj23, MakeCommit(voteSet))
        /\ CommitToVoteSet(Step, MakeCommit(voteSet)).maj23 = voteSet.maj23

(* The set stays as small as its doc comment promises: a block is tracked    *)
(* for the first vote of a validator or for the one claim of a peer.         *)
MemoryBounded ==
    Cardinality(DOMAIN voteSet.votesByBlock)
        <= Cardinality(DOMAIN voteSet.votes) + Cardinality(DOMAIN voteSet.peerMaj23s)

(* The first majority is final, and no vote counted in it is ever displaced  *)
(* from the canonical votes.                                                 *)
Maj23IsFinal ==
    [][HasTwoThirdsMajority(voteSet) =>
         /\ voteSet'.maj23 = voteSet.maj23
         /\ \A i \in canonicalFor(voteSet.maj23) : voteSet'.votes[i] = voteSet.votes[i]]_vars

=============================================================================
