---------------------------- MODULE HeightVoteSet ----------------------------
(***************************************************************************)
(* One consensus/types.HeightVoteSet: votes of any round brought by peers, *)
(* in any order with respect to the rounds the node itself enters.         *)
(***************************************************************************)
EXTENDS HeightVoteSetOps, FiniteSets

CONSTANTS
    Peers,          \* peers that bring votes
    Votes,          \* the votes they may bring
    Claims,         \* the votes for whose block they may claim +2/3
    MaxRound        \* bound: the last round the node enters

VARIABLES
    hvs,        \* the height vote set
    csRound,    \* the round of the consensus state (-1 before the first)
    accepted,   \* history: votes not refused for their round
    offered,    \* history: rounds from which each peer brought votes before hvs tracked them
    opened      \* history: those that hvs tracked from then on

vars == <<hvs, csRound, accepted, offered, opened>>

Init ==
    /\ hvs = NewHeightVoteSet
    /\ csRound = -1
    /\ accepted = {}
    /\ offered = [p \in Peers |-> {}]
    /\ opened = [p \in Peers |-> {}]

(* enterNewRound: round 0 once, then only later rounds; the round after the  *)
(* current one is tracked too.                                               *)
doSetRound(r) ==
    /\ csRound < r
    /\ ~SetRoundPanics(hvs, r + 1)
    /\ csRound' = r
    /\ hvs' = SetRound(hvs, r + 1)
    /\ UNCHANGED <<accepted, offered, opened>>

doAddVote(vote, peer) ==
    LET res == hvsAddVote(hvs, vote, peer)
        new == {vote.step.round} \ DOMAIN hvs.roundVoteSets
    IN  /\ hvs' = res.hvs
        /\ accepted' = IF res.err = "unwanted round" THEN accepted ELSE accepted \cup {vote}
        /\ offered' = [offered EXCEPT ![peer] = @ \cup new]
        /\ opened' = [opened EXCEPT ![peer] = @ \cup (new \cap DOMAIN res.hvs.roundVoteSets)]
        /\ UNCHANGED csRound

doSetPeerMaj23(r, type, peer, block) ==
    /\ hvs' = hvsSetPeerMaj23(hvs, r, type, peer, block)
    /\ UNCHANGED <<csRound, accepted, offered, opened>>

Next ==
    \/ \E r \in 0..MaxRound : doSetRound(r)
    \/ \E vote \in Votes, peer \in Peers : doAddVote(vote, peer)
    \/ \E vote \in Claims, peer \in Peers :
         doSetPeerMaj23(vote.step.round, vote.step.type, peer, vote.block)

Spec == Init /\ [][Next]_vars

-----------------------------------------------------------------------------
tracked == DOMAIN hvs.roundVoteSets

(* Every round up to the next one of the node is tracked, so Prevotes(r) and  *)
(* Precommits(r) never answer for a round the node has been in as if no vote *)
(* had come.                                                                 *)
RoundsTracked == 0..(csRound + 1) \subseteq tracked

(* No vote is lost: one that was not refused for its round is in its set and  *)
(* stays there, also when SetRound later reaches a round a peer had opened.  *)
AcceptedVotesKept ==
    \A vote \in accepted :
        getVote(hvs.roundVoteSets[vote.step.round][vote.step.type], vote.index, vote.block)
            = {vote}

(* Whatever peers send, and whenever the node enters rounds in between, the  *)
(* set has no round beyond the node's but those that peers opened, of which  *)
(* each peer opens at most two; and a vote is refused only to a peer that    *)
(* has used its two rounds, whatever other peers have done.                  *)
CatchupIsBounded ==
    /\ {r \in tracked : r > hvs.round} \subseteq UNION {opened[p] : p \in Peers}
    /\ \A p \in Peers : /\ Cardinality(opened[p]) <= 2
                        /\ Cardinality(offered[p]) <= 2 => offered[p] \subseteq tracked
=============================================================================
