-------------------------- MODULE HeightVoteSetOps --------------------------
(***************************************************************************)
(* The operations of consensus/types.HeightVoteSet as functions of its     *)
(* state.  The step of a vote is [round, type].                            *)
(***************************************************************************)
EXTENDS VoteSetOps, Sequences

Prevote == "prevote"
Precommit == "precommit"
stepOf(r, type) == [round |-> r, type |-> type]

newRoundVoteSet(r) == [type \in {Prevote, Precommit} |-> NewVoteSet(stepOf(r, type))]

(* Reset: round 0 is tracked from the start. *)
NewHeightVoteSet ==
    [round |-> 0, roundVoteSets |-> Put(NoEntries, 0, newRoundVoteSet(0)),
     peerCatchupRounds |-> NoEntries]

catchupRounds(hvs, peer) ==
    IF peer \in DOMAIN hvs.peerCatchupRounds THEN hvs.peerCatchupRounds[peer] ELSE <<>>

SetRoundPanics(hvs, r) == hvs.round # 0 /\ r < hvs.round - 1

(* Faulty variants, each the definition after it with one mistake. *)
SetRoundAnew(hvs, r) ==
    LET new == (hvs.round + 1)..r
    IN  [hvs EXCEPT !.round = r,
                    !.roundVoteSets = [k \in DOMAIN @ \cup new |->
                                         IF k \in new THEN newRoundVoteSet(k) ELSE @[k]]]

SetRoundOnly(hvs, r) ==
    [hvs EXCEPT !.round = r,
                !.roundVoteSets = [k \in DOMAIN @ \cup {r} |->
                                     IF k \in DOMAIN @ THEN @[k] ELSE newRoundVoteSet(k)]]

(* SetRound: creates the sets from round hvs.round - 1 on that do not exist,  *)
(* and leaves the catchup rounds of peers as they are.                        *)
SetRound(hvs, r) ==
    [hvs EXCEPT !.round = r,
                !.roundVoteSets = [k \in DOMAIN @ \cup ((hvs.round - 1)..r) |->
                                     IF k \in DOMAIN @ THEN @[k] ELSE newRoundVoteSet(k)]]

(* The result of VoteSet.AddVote on the set of the vote's step. *)
addToRound(hvs, vote) ==
    LET r == vote.step.round
        res == AddVote(hvs.roundVoteSets[r][vote.step.type], vote)
    IN  [hvs |-> [hvs EXCEPT !.roundVoteSets[r][vote.step.type] = res.vs],
         added |-> res.added, err |-> res.err]

addCatchupRound(hvs, r, peer) ==
    [hvs EXCEPT !.roundVoteSets = Put(@, r, newRoundVoteSet(r)),
                !.peerCatchupRounds = Put(@, peer, Append(catchupRounds(hvs, peer), r))]

(* Faulty variant of hvsAddVote *)
hvsAddVoteOfAnyRound(hvs, vote, peer) ==
    LET r == vote.step.round
    IN  IF r \in DOMAIN hvs.roundVoteSets
          THEN addToRound(hvs, vote)
          ELSE addToRound(addCatchupRound(hvs, r, peer), vote)

(* AddVote: each peer may open two rounds that are not tracked. *)
hvsAddVote(hvs, vote, peer) ==
    LET r == vote.step.round
    IN  IF r \in DOMAIN hvs.roundVoteSets
          THEN addToRound(hvs, vote)
        ELSE IF Len(catchupRounds(hvs, peer)) < 2
          THEN addToRound(addCatchupRound(hvs, r, peer), vote)
        ELSE [hvs |-> hvs, added |-> FALSE, err |-> "unwanted round"]

(* Prevotes(r) and Precommits(r); a nil *VoteSet answers like an empty one.  *)
voteSetOf(hvs, r, type) ==
    IF r \in DOMAIN hvs.roundVoteSets THEN hvs.roundVoteSets[r][type]
                                      ELSE NewVoteSet(stepOf(r, type))
Prevotes(hvs, r) == voteSetOf(hvs, r, Prevote)
Precommits(hvs, r) == voteSetOf(hvs, r, Precommit)

polkaRounds(hvs) == {r \in 0..hvs.round : HasTwoThirdsMajority(Prevotes(hvs, r))}

(* POLInfo: the last tracked round with +2/3 prevotes for one block or nil.  *)
POLInfo(hvs) == IF polkaRounds(hvs) = {} THEN -1 ELSE Max(polkaRounds(hvs))

hvsSetPeerMaj23(hvs, r, type, peer, block) ==
    IF r \in DOMAIN hvs.roundVoteSets
      THEN [hvs EXCEPT !.roundVoteSets[r][type] = SetPeerMaj23(@, peer, block)]
      ELSE hvs
=============================================================================
