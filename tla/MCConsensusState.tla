-------------------------- MODULE MCConsensusState --------------------------
(* Four instances.  "Rounds": two other validators, the heavy one of which  *)
(* makes a quorum with either of the others, vote for A in round 0 and B in   *)
(* round 1.  "Conflict": the same validators in one round, with a validator   *)
(* that votes twice, a block that is not valid, a signer and an application   *)
(* that fail, and a full queue.  "Later": all vote for A in two rounds.       *)
(* "Live": few enough votes that no round is skipped while the node waits for *)
(* timeouts or for the committed block.                                       *)
EXTENDS ConsensusState, TLC

CONSTANTS me, o1, o2, A, B

PowerRounds == me :> 1 @@ o1 :> 1 @@ o2 :> 2
MCPowerOf == [S \in SUBSET Validators |-> MapThenSumSet(LAMBDA v : Power[v], S)]

vote(i, r, type, b) == [step |-> stepOf(r, type), index |-> i, block |-> b, sig |-> Sig]
propose(i, r, pol, b) == [round |-> r, POLRound |-> pol, block |-> b, signer |-> i]

MCProposer == 0 :> o2 @@ 1 :> me @@ 2 :> o2

VotesRounds ==
    {vote(o1, 0, Prevote, A), vote(o2, 0, Prevote, A), vote(o2, 0, Precommit, A)}
      \cup {vote(o1, 1, Prevote, B), vote(o2, 1, Prevote, B), vote(o2, 1, Precommit, B)}
ProposalsRounds == {propose(o2, 0, -1, A)}

VotesConflict ==
    {vote(o1, 0, Prevote, b) : b \in {A, NilID}}
      \cup {vote(o2, 0, Prevote, A), vote(o2, 0, Precommit, A), vote(o1, 0, Precommit, A)}
ProposalsConflict == {propose(o2, 0, -1, A), propose(o2, 0, -1, B), propose(o1, 0, -1, B)}
ClaimsConflict == {vote(o1, 0, Prevote, A)}

VotesLater ==
    {vote(i, r, Prevote, A) : i \in {o1, o2}, r \in {0, 1}} \cup {vote(i, 0, Precommit, A) : i \in {o1, o2}}
ProposerLater == 0 :> o2 @@ 1 :> o2
ProposalsLater == {propose(o2, 0, -1, A), propose(o2, 1, -1, A)}

LostLive == {vote(o1, 0, Precommit, A)}
VotesLive ==
    {vote(o2, 0, Prevote, A), vote(o2, 0, Precommit, A), vote(o1, 1, Prevote, A)} \cup LostLive
=============================================================================
