------------------------------- MODULE MCVotes -------------------------------
(* Where votes are signed and counted: a signer, a vote set and a height vote *)
(* set, each under every sequence of its operations.  They share no state;    *)
(* which names the one that runs, and the variables of the others are 0.      *)
EXTENDS FilePV, FiniteSetsExt, TLC

(* The signer: three height/round pairs, so that both a round and a height   *)
(* can regress, with three steps each; three contents, two of which differ   *)
(* by timestamp only and two by payload only.  What is said of the messages  *)
(* sent compares two of them; a history of three is kept.                    *)
MCHeightRounds == {<<1, 0>>, <<1, 1>>, <<2, 0>>}
MCContents == {<<"a", 1>>, <<"a", 2>>, <<"b", 1>>}

CONSTANT MaxReleased
MCConstraint == Cardinality(released) < MaxReleased

CONSTANTS NilID, BadSig, GoodSig, Stranger, Peers

(* The vote set: three validators, one of them with half of the power of the *)
(* set; of the total of 4, a quorum is 3.                                    *)
CONSTANTS Light, Heavy, Step, OtherStep, Blocks

VValidators == Light \cup {Heavy}
VPower == [v \in VValidators |-> IF v = Heavy THEN 2 ELSE 1]
VPowerOf == [S \in SUBSET VValidators |-> MapThenSumSet(LAMBDA v : VPower[v], S)]

(* The height vote set: two validators of equal power, both needed for a     *)
(* quorum; both prevote in some of rounds 0 to 4, one precommits.  Two peers *)
(* bring the votes; from round 0 each can offer three rounds beyond the      *)
(* tracked ones.                                                             *)
CONSTANTS w1, w2, C, MaxRound

HValidators == {w1, w2}
HPower == [v \in HValidators |-> 1]
HPowerOf == [S \in SUBSET HValidators |-> Cardinality(S)]

ballot(i, r, type) ==
    [step |-> [round |-> r, type |-> type], index |-> i, block |-> C, sig |-> GoodSig]
HVotes ==
    {ballot(w1, r, "prevote") : r \in {0, 2, 3, 4}}
      \cup {ballot(w2, r, "prevote") : r \in {0, 2}} \cup {ballot(w2, 3, "precommit")}
HClaims == {ballot(w1, 2, "prevote")}

VARIABLES voteSet, delivered, claimed, hvs, csRound, accepted, offered, opened, which

V == INSTANCE VoteSet
       WITH Validators <- VValidators, Power <- VPower, PowerOf <- VPowerOf

H == INSTANCE HeightVoteSet
       WITH Validators <- HValidators, Power <- HPower, PowerOf <- HPowerOf,
            Blocks <- {C}, Votes <- HVotes, Claims <- HClaims

vvars == <<voteSet, delivered, claimed>>
hvars == <<hvs, csRound, accepted, offered, opened>>
allvars == <<vars, vvars, hvars, which>>

offV == voteSet = 0 /\ delivered = 0 /\ claimed = 0
offH == hvs = 0 /\ csRound = 0 /\ accepted = 0 /\ offered = 0 /\ opened = 0

MCInit ==
    /\ Init
    /\ \/ which = "FilePV" /\ offV /\ offH
       \/ which = "VoteSet" /\ V!Init /\ offH
       \/ which = "HeightVoteSet" /\ H!Init /\ offV
MCNext ==
    \/ which = "FilePV" /\ Next /\ UNCHANGED <<vvars, hvars, which>>
    \/ which = "VoteSet" /\ V!Next /\ UNCHANGED <<vars, hvars, which>>
    \/ which = "HeightVoteSet" /\ H!Next /\ UNCHANGED <<vars, vvars, which>>
MCSpec == MCInit /\ [][MCNext]_allvars

(* The light validators, the peers and the blocks are interchangeable. *)
MCSymmetry == Permutations(Light) \cup Permutations(Peers) \cup Permutations(Blocks)

-----------------------------------------------------------------------------
(* The sums VoteSet keeps are the power of the validators counted, each once. *)
SumsArePower == which = "VoteSet" => V!SumsArePower

(* A majority of a VoteSet is backed by canonical votes with +2/3 of the power. *)
Maj23IsBacked == which = "VoteSet" => V!Maj23IsBacked

(* VoteSet.AddVote does not miss a majority of validators that each voted for *)
(* one block, or whose vote a peer had announced.                             *)
MajorityNotMissed == which = "VoteSet" => V!MajorityNotMissed

(* The commit VoteSet.MakeCommit makes passes VerifyCommit and rebuilds the   *)
(* same majority.                                                             *)
CommitVerifies == which = "VoteSet" => V!CommitVerifies

(* VoteSet tracks no more blocks than validators voted and peers claimed.     *)
MemoryBounded == which = "VoteSet" => V!MemoryBounded

(* The first majority of a VoteSet is final, and so are the votes in it.      *)
Maj23IsFinal ==
    [][which = "VoteSet" /\ V!HasTwoThirdsMajority(voteSet) =>
         /\ voteSet'.maj23 = voteSet.maj23
         /\ \A i \in V!canonicalFor(voteSet.maj23) : voteSet'.votes[i] = voteSet.votes[i]]_allvars

(* HeightVoteSet.SetRound leaves no round of the node without vote sets. *)
RoundsTracked == which = "HeightVoteSet" => H!RoundsTracked

(* HeightVoteSet.AddVote and SetRound lose no vote that was accepted. *)
AcceptedVotesKept == which = "HeightVoteSet" => H!AcceptedVotesKept

(* HeightVoteSet.AddVote lets a peer open two rounds, and no more. *)
CatchupIsBounded == which = "HeightVoteSet" => H!CatchupIsBounded
=============================================================================
