----------------------------- MODULE VoteSetOps -----------------------------
(***************************************************************************)
(* The operations of types.VoteSet as functions of its state, used by the  *)
(* VoteSet specification and by the components that hold vote sets.        *)
(*                                                                         *)
(* A vote is [step, index, block, sig]: step is the height/round/type it   *)
(* is for, index its validator, block the BlockID (NilID when it is for    *)
(* nil).  A map or a slice with nil entries is a function on the keys that *)
(* are present.                                                            *)
(***************************************************************************)
EXTENDS ValidatorPower, FiniteSetsExt

CONSTANTS
    Blocks,         \* complete block IDs
    NilID,          \* the zero BlockID
    BadSig          \* a signature that does not verify

BlockIDs == Blocks \cup {NilID}
NoMaj23 == "no maj23"
NoEntries == [x \in {} |-> x]

Put(f, key, value) == [k \in DOMAIN f \cup {key} |-> IF k = key THEN value ELSE f[k]]

NewVoteSet(step) ==
    [step |-> step, votes |-> NoEntries, votesBitArray |-> {}, sum |-> 0,
     maj23 |-> NoMaj23, votesByBlock |-> NoEntries, peerMaj23s |-> NoEntries]

newBlockVotes(peerMaj23) == [peerMaj23 |-> peerMaj23, votes |-> NoEntries, sum |-> 0]

(* getVote: the vote of validator i for block b, in a set of at most one.    *)
getVote(vs, i, b) ==
    IF i \in DOMAIN vs.votes /\ vs.votes[i].block = b
      THEN {vs.votes[i]}
      ELSE IF b \in DOMAIN vs.votesByBlock /\ i \in DOMAIN vs.votesByBlock[b].votes
             THEN {vs.votesByBlock[b].votes[i]}
             ELSE {}

(* blockVotes.addVerifiedVote *)
addToBlockVotes(bv, vote) ==
    IF vote.index \in DOMAIN bv.votes
      THEN bv
      ELSE [bv EXCEPT !.votes = Put(@, vote.index, vote), !.sum = @ + Power[vote.index]]

(* Faulty variants, each the definition after it with one mistake. *)
setCanonicalCountingConflicts(vs, vote) ==
    LET conflicts == vote.index \in DOMAIN vs.votes
    IN  IF conflicts /\ vs.maj23 # vote.block
          THEN vs
          ELSE [vs EXCEPT !.votes = Put(@, vote.index, vote),
                          !.votesBitArray = @ \cup {vote.index},
                          !.sum = @ + Power[vote.index]]

(* A vote that is new to the validator becomes its canonical vote; one that  *)
(* conflicts does so only for the block that already has +2/3.               *)
setCanonical(vs, vote) ==
    LET conflicts == vote.index \in DOMAIN vs.votes
    IN  IF conflicts /\ vs.maj23 # vote.block
          THEN vs
          ELSE [vs EXCEPT !.votes = Put(@, vote.index, vote),
                          !.votesBitArray = @ \cup {vote.index},
                          !.sum = IF conflicts THEN @ ELSE @ + Power[vote.index]]

trackWithoutCopying(vs, vote, bv) ==
    LET new == addToBlockVotes(bv, vote)
        first == vs.maj23 = NoMaj23 /\ bv.sum < quorum /\ quorum <= new.sum
    IN  [vs EXCEPT !.votesByBlock = Put(@, vote.block, new),
                   !.maj23 = IF first THEN vote.block ELSE @]

trackEveryMajority(vs, vote, bv) ==
    LET new == addToBlockVotes(bv, vote)
        crossed == bv.sum < quorum /\ quorum <= new.sum
    IN  [vs EXCEPT
           !.votesByBlock = Put(@, vote.block, new),
           !.maj23 = IF crossed THEN vote.block ELSE @,
           !.votes = IF crossed
                       THEN [i \in DOMAIN @ \cup DOMAIN new.votes |->
                               IF i \in DOMAIN new.votes THEN new.votes[i] ELSE @[i]]
                       ELSE @]

(* The vote is counted for its block; the first block to cross the quorum    *)
(* becomes maj23 and its votes become the canonical ones.                    *)
trackForBlock(vs, vote, bv) ==
    LET new == addToBlockVotes(bv, vote)
        first == vs.maj23 = NoMaj23 /\ bv.sum < quorum /\ quorum <= new.sum
    IN  [vs EXCEPT
           !.votesByBlock = Put(@, vote.block, new),
           !.maj23 = IF first THEN vote.block ELSE @,
           !.votes = IF first
                       THEN [i \in DOMAIN @ \cup DOMAIN new.votes |->
                               IF i \in DOMAIN new.votes THEN new.votes[i] ELSE @[i]]
                       ELSE @]

addVerifiedVoteIgnoringClaims(vs, vote) ==
    LET conflicts == vote.index \in DOMAIN vs.votes
        bv == IF vote.block \in DOMAIN vs.votesByBlock
                THEN vs.votesByBlock[vote.block] ELSE newBlockVotes(FALSE)
    IN  IF conflicts
          THEN [vs |-> setCanonical(vs, vote), added |-> FALSE, err |-> "conflicting"]
          ELSE [vs |-> trackForBlock(setCanonical(vs, vote), vote, bv), added |-> TRUE,
                err |-> "none"]

(* addVerifiedVote: a conflicting vote is counted only for a block that some *)
(* peer claims to have +2/3.                                                 *)
addVerifiedVote(vs, vote) ==
    LET conflicts == vote.index \in DOMAIN vs.votes
        tracked == vote.block \in DOMAIN vs.votesByBlock
        bv == IF tracked THEN vs.votesByBlock[vote.block] ELSE newBlockVotes(FALSE)
        vs1 == setCanonical(vs, vote)
        err == IF conflicts THEN "conflicting" ELSE "none"
    IN  IF conflicts /\ ~bv.peerMaj23
          THEN [vs |-> vs1, added |-> FALSE, err |-> err]
          ELSE [vs |-> trackForBlock(vs1, vote, bv), added |-> TRUE, err |-> err]

(* AddVote: the checks in order, then the vote is added. *)
AddVote(vs, vote) ==
    LET known == getVote(vs, vote.index, vote.block)
        refused(err) == [vs |-> vs, added |-> FALSE, err |-> err]
    IN  IF vote.step # vs.step THEN refused("unexpected step")
        ELSE IF vote.index \notin Validators THEN refused("not a validator")
        ELSE IF \E v \in known : v.sig = vote.sig THEN refused("none")
        ELSE IF known # {} THEN refused("nondeterministic signature")
        ELSE IF vote.sig = BadSig THEN refused("invalid signature")
        ELSE addVerifiedVote(vs, vote)

SetPeerMaj23EveryTime(vs, peer, block) ==
    LET bv == IF block \in DOMAIN vs.votesByBlock
                THEN vs.votesByBlock[block] ELSE newBlockVotes(TRUE)
    IN  [vs EXCEPT !.peerMaj23s = Put(@, peer, block),
                   !.votesByBlock = Put(@, block, [bv EXCEPT !.peerMaj23 = TRUE])]

(* SetPeerMaj23: only the first claim of a peer is recorded. *)
SetPeerMaj23(vs, peer, block) ==
    LET bv == IF block \in DOMAIN vs.votesByBlock
                THEN vs.votesByBlock[block] ELSE newBlockVotes(TRUE)
    IN  IF peer \in DOMAIN vs.peerMaj23s
          THEN vs
          ELSE [vs EXCEPT !.peerMaj23s = Put(@, peer, block),
                          !.votesByBlock = Put(@, block, [bv EXCEPT !.peerMaj23 = TRUE])]

HasTwoThirdsMajority(vs) == vs.maj23 # NoMaj23
HasTwoThirdsAny(vs) == vs.sum > (TotalVotingPower * 2) \div 3
HasAll(vs) == vs.sum = TotalVotingPower

MakeCommitOfAll(vs) ==
    [block |-> vs.maj23,
     sigs |-> [i \in DOMAIN vs.votes |->
                 [forBlock |-> vs.votes[i].block # NilID, signed |-> vs.votes[i]]]]

(* MakeCommit: the canonical votes for maj23 and for nil.  A CommitSig keeps *)
(* the flag and the signature; the block it is for is implied.               *)
MakeCommit(vs) ==
    [block |-> vs.maj23,
     sigs |-> [i \in {j \in DOMAIN vs.votes : vs.votes[j].block \in {vs.maj23, NilID}} |->
                 [forBlock |-> vs.votes[i].block # NilID, signed |-> vs.votes[i]]]]

(* Commit.GetVote: the vote rebuilt from a CommitSig; its signature verifies *)
(* only if that is the vote that was signed.                                 *)
GetVote(commit, i) ==
    LET signed == commit.sigs[i].signed
        block == IF commit.sigs[i].forBlock THEN commit.block ELSE NilID
    IN  [signed EXCEPT !.block = block,
                       !.sig = IF block = signed.block THEN @ ELSE BadSig]

(* ValidatorSet.VerifyCommit: every signature present must verify, and those *)
(* for the block must exceed two thirds.                                     *)
VerifyCommit(block, commit) ==
    /\ commit.block = block
    /\ \A i \in DOMAIN commit.sigs : GetVote(commit, i).sig # BadSig
    /\ PowerOf[{i \in DOMAIN commit.sigs : commit.sigs[i].forBlock}]
         > (TotalVotingPower * 2) \div 3

(* CommitToVoteSet: the vote set a restarted node rebuilds from a commit. *)
CommitToVoteSet(step, commit) ==
    FoldSet(LAMBDA i, vs : AddVote(vs, GetVote(commit, i)).vs,
            NewVoteSet(step), DOMAIN commit.sigs)
=============================================================================
