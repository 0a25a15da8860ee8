------------------------------- MODULE Locking -------------------------------
(***************************************************************************)
(* What consensus.State promises about the votes of one height: the rules  *)
(* by which a validator prevotes, locks, precommits, unlocks and decides,  *)
(* without messages, timers or proposals.  prevotes and precommits hold    *)
(* every vote ever signed; what a node has received is a subset of them.   *)
(*                                                                         *)
(* The validators in Faulty sign whatever they like.                       *)
(***************************************************************************)
EXTENDS ValidatorPower

CONSTANTS
    Faulty,         \* validators that do not follow the rules
    Blocks,         \* complete block IDs
    ValidBlocks,    \* the blocks ValidateBlock accepts
    NilID,          \* the zero BlockID: a vote for nil
    Rounds          \* round numbers

Honest == Validators \ Faulty
BlockIDs == Blocks \cup {NilID}

ASSUME LockingAssumption ==
    /\ Faulty \subseteq Validators
    /\ ValidBlocks \subseteq Blocks
    /\ NilID \notin Blocks
    /\ Rounds \subseteq Nat
    /\ 0 \in Rounds

VARIABLES
    round,          \* cs.Round of each honest validator
    lockedRound,    \* cs.LockedRound (-1 when not locked)
    lockedBlock,    \* cs.LockedBlock (NilID when not locked)
    prevotes,       \* signed prevotes, as <<validator, round, block>>
    precommits,     \* signed precommits
    decision        \* the block finalized (NilID before that)

vars == <<round, lockedRound, lockedBlock, prevotes, precommits, decision>>

Prevoters(r, b) == {v \in Validators : <<v, r, b>> \in prevotes}
Precommitters(r, b) == {v \in Validators : <<v, r, b>> \in precommits}

(* a proof-of-lock: +2/3 prevotes in one round *)
Polka(r, b) == HasQuorum(Prevoters(r, b))

HasPrevoted(v, r) == \E b \in BlockIDs : <<v, r, b>> \in prevotes
HasPrecommitted(v, r) == \E b \in BlockIDs : <<v, r, b>> \in precommits

Init ==
    /\ round = [v \in Honest |-> 0]
    /\ lockedRound = [v \in Honest |-> -1]
    /\ lockedBlock = [v \in Honest |-> NilID]
    /\ prevotes = {}
    /\ precommits = {}
    /\ decision = [v \in Honest |-> NilID]

(* Faulty variants, each the definition after it with one mistake. *)
LockForNextRound(v, r, b) ==
    /\ lockedRound' = [lockedRound EXCEPT ![v] = r + 1]
    /\ lockedBlock' = [lockedBlock EXCEPT ![v] = b]

Lock(v, r, b) ==
    /\ lockedRound' = [lockedRound EXCEPT ![v] = r]
    /\ lockedBlock' = [lockedBlock EXCEPT ![v] = b]

(* Faulty variant of Prevote *)
PrevoteIgnoringLock(v, b) ==
    /\ ~HasPrevoted(v, round[v])
    /\ ~HasPrecommitted(v, round[v])
    /\ b \in ValidBlocks \cup {NilID}
    /\ prevotes' = prevotes \cup {<<v, round[v], b>>}
    /\ UNCHANGED <<round, lockedRound, lockedBlock, precommits, decision>>

(* enterNewRound, for a later round *)
NewRound(v, r) ==
    /\ round[v] < r
    /\ round' = [round EXCEPT ![v] = r]
    /\ UNCHANGED <<lockedRound, lockedBlock, prevotes, precommits, decision>>

(* defaultDoPrevote: the locked block if there is one, otherwise a valid     *)
(* proposal or nil; once per round and before the precommit.                 *)
Prevote(v, b) ==
    /\ ~HasPrevoted(v, round[v])
    /\ ~HasPrecommitted(v, round[v])
    /\ IF lockedBlock[v] # NilID THEN b = lockedBlock[v] ELSE b \in ValidBlocks \cup {NilID}
    /\ prevotes' = prevotes \cup {<<v, round[v], b>>}
    /\ UNCHANGED <<round, lockedRound, lockedBlock, precommits, decision>>

(* enterPrecommit runs once in a round. *)
MayPrecommit(v) == ~HasPrecommitted(v, round[v]) /\ lockedRound[v] < round[v]

(* enterPrecommit with a polka for a block: (re)lock it and precommit it; if  *)
(* the signer refuses, the lock is taken all the same.                        *)
PrecommitBlock(v, b) ==
    /\ MayPrecommit(v)
    /\ Polka(round[v], b)
    /\ b = lockedBlock[v] \/ b \in ValidBlocks
    /\ Lock(v, round[v], b)
    /\ precommits' \in {precommits, precommits \cup {<<v, round[v], b>>}}
    /\ UNCHANGED <<round, prevotes, decision>>

(* enterPrecommit without a polka keeps the lock; with a polka for nil, or   *)
(* for another block it does not have, the validator unlocks (below).        *)
PrecommitNil(v) ==
    /\ MayPrecommit(v)
    /\ precommits' = precommits \cup {<<v, round[v], NilID>>}
    /\ UNCHANGED <<round, lockedRound, lockedBlock, prevotes, decision>>

(* A polka for anything else in a later round, up to the current one.        *)
Unlock(v, r, b) ==
    /\ lockedBlock[v] \notin {NilID, b}
    /\ lockedRound[v] < r
    /\ r <= round[v]
    /\ Polka(r, b)
    /\ Lock(v, -1, NilID)
    /\ UNCHANGED <<round, prevotes, precommits, decision>>

(* enterPrecommit with a polka of this round that it cannot follow: unlock   *)
(* and precommit nil in one step.                                            *)
UnlockAndPrecommitNil(v, b) ==
    /\ MayPrecommit(v)
    /\ lockedBlock[v] \notin {NilID, b}
    /\ Polka(round[v], b)
    /\ Lock(v, -1, NilID)
    /\ precommits' = precommits \cup {<<v, round[v], NilID>>}
    /\ UNCHANGED <<round, prevotes, decision>>

(* Faulty variants of Decide: on +2/3 prevotes, or +2/3 precommits for anything *)
DecideOnPolka(v, r, b) ==
    /\ Polka(r, b)
    /\ decision[v] = NilID
    /\ decision' = [decision EXCEPT ![v] = b]
    /\ UNCHANGED <<round, lockedRound, lockedBlock, prevotes, precommits>>

DecideOnAny(v, r, b) ==
    /\ HasQuorum({w \in Validators : HasPrecommitted(w, r)})
    /\ Precommitters(r, b) # {}
    /\ decision' = [decision EXCEPT ![v] = b]
    /\ UNCHANGED <<round, lockedRound, lockedBlock, prevotes, precommits>>

(* finalizeCommit: +2/3 precommits for a block in any round.  Nothing forbids *)
(* a second time: replay after a crash finalizes a stored block again.        *)
Decide(v, r, b) ==
    /\ HasQuorum(Precommitters(r, b))
    /\ decision' = [decision EXCEPT ![v] = b]
    /\ UNCHANGED <<round, lockedRound, lockedBlock, prevotes, precommits>>

FaultyVote(v, r, b) ==
    /\ \/ prevotes' = prevotes \cup {<<v, r, b>>} /\ UNCHANGED precommits
       \/ precommits' = precommits \cup {<<v, r, b>>} /\ UNCHANGED prevotes
    /\ UNCHANGED <<round, lockedRound, lockedBlock, decision>>

HonestStep(v) ==
    \/ \E r \in Rounds : NewRound(v, r)
    \/ \E b \in BlockIDs : Prevote(v, b)
    \/ \E b \in Blocks : PrecommitBlock(v, b)
    \/ PrecommitNil(v)
    \/ \E r \in Rounds, b \in BlockIDs : Unlock(v, r, b)
    \/ \E b \in BlockIDs : UnlockAndPrecommitNil(v, b)
    \/ \E r \in Rounds, b \in Blocks : Decide(v, r, b)

Next ==
    \/ \E v \in Honest : HonestStep(v)
    \/ \E v \in Faulty, r \in Rounds, b \in BlockIDs : FaultyVote(v, r, b)

Spec == Init /\ [][Next]_vars

-----------------------------------------------------------------------------
(* Less than a third of the power is faulty. *)
FaultyMinority == 3 * PowerOf[Faulty] < TotalVotingPower

(* Every variable has its type; -1 and NilID stand for "not locked". *)
TypeOK ==
    /\ round \in [Honest -> Rounds]
    /\ lockedRound \in [Honest -> Rounds \cup {-1}]
    /\ lockedBlock \in [Honest -> BlockIDs]
    /\ prevotes \subseteq Validators \X Rounds \X BlockIDs
    /\ precommits \subseteq Validators \X Rounds \X BlockIDs
    /\ decision \in [Honest -> BlockIDs]

(* No two validators that follow the rules finalize different blocks at a    *)
(* height, in whatever rounds they do: finalizeCommit cannot fork the chain. *)
Agreement ==
    \A v, w \in Honest :
        decision[v] # NilID /\ decision[w] # NilID => decision[v] = decision[w]

(* A finalized block passed ValidateBlock at some validator that follows the *)
(* rules, even at a node that enters commit without having prevoted.         *)
Validity == \A v \in Honest : decision[v] \in ValidBlocks \cup {NilID}

(* A decision is never taken back or changed, whatever further commits the   *)
(* node sees or replays after it has finalized a block.                      *)
DecisionIsFinal ==
    [][\A v \in Honest : decision[v] # NilID => decision'[v] = decision[v]]_vars

-----------------------------------------------------------------------------
(* The inductive invariant behind Agreement. *)

(* v has not precommitted b in round r and never will. *)
Never(v, r, b) ==
    /\ <<v, r, b>> \notin precommits
    /\ round[v] > r \/ HasPrecommitted(v, r)

(* Every quorum contains an honest validator that will never precommit b in  *)
(* round r, so b can no longer be committed there.                           *)
NoCommit(r, b) ==
    \A Q \in SUBSET Validators :
        HasQuorum(Q) => \E v \in Q \cap Honest : Never(v, r, b)

(* An honest validator votes once per round and type, up to its round. *)
OneVotePerRound ==
    \A v \in Honest, r \in Rounds, b, c \in BlockIDs :
        /\ <<v, r, b>> \in prevotes => r <= round[v]
        /\ <<v, r, b>> \in precommits => r <= round[v]
        /\ <<v, r, b>> \in precommits /\ <<v, r, c>> \in precommits => b = c

(* A precommit for a block has a polka. *)
PrecommitsHavePolka ==
    \A v \in Honest, r \in Rounds, b \in Blocks :
        <<v, r, b>> \in precommits => Polka(r, b)

(* A validator that precommitted a block stays locked on it while the block  *)
(* can still be committed in that round ...                                  *)
LockedWhileCommittable ==
    \A v \in Honest, r \in Rounds, b \in Blocks :
        <<v, r, b>> \in precommits =>
            NoCommit(r, b) \/ (lockedBlock[v] = b /\ lockedRound[v] >= r)

(* ... and so prevotes for something else only when it cannot be.            *)
PrevotesRespectPrecommits ==
    \A v \in Honest, r, s \in Rounds, b \in Blocks, c \in BlockIDs :
        /\ <<v, r, b>> \in precommits
        /\ <<v, s, c>> \in prevotes
        /\ r < s
        /\ c # b
        => NoCommit(r, b)

HonestPrevotesValid ==
    \A v \in Honest, r \in Rounds, b \in BlockIDs :
        /\ <<v, r, b>> \in prevotes => b \in ValidBlocks \cup {NilID}
        /\ lockedBlock[v] \in ValidBlocks \cup {NilID}

DecisionsHaveCommits ==
    \A v \in Honest :
        decision[v] # NilID =>
            decision[v] \in Blocks /\ \E r \in Rounds : HasQuorum(Precommitters(r, decision[v]))

Inv ==
    /\ TypeOK
    /\ OneVotePerRound
    /\ PrecommitsHavePolka
    /\ LockedWhileCommittable
    /\ PrevotesRespectPrecommits
    /\ HonestPrevotesValid
    /\ DecisionsHaveCommits
=============================================================================
