--------------------------- MODULE LockingProofs ---------------------------
(***************************************************************************)
(* Agreement and validity of the locking rules, for any number of          *)
(* validators of any power, any number of rounds and any blocks, as long   *)
(* as less than a third of the power is faulty.                            *)
(***************************************************************************)
EXTENDS Locking, ValidatorPowerProofs

LEMMA RoundsAreNaturals == \A r \in Rounds : r \in Nat
  BY LockingAssumption

(* The type invariant is inductive by itself. *)
LEMMA InitTypeOK == Init => TypeOK
  BY LockingAssumption DEF Init, TypeOK, BlockIDs, Honest

LEMMA NextTypeOK == TypeOK /\ [Next]_vars => TypeOK'
  <1> SUFFICES ASSUME TypeOK, [Next]_vars PROVE TypeOK'
    OBVIOUS
  <1> USE LockingAssumption DEF TypeOK, BlockIDs, Honest, Lock
  <1>1. ASSUME NEW v \in Honest, NEW r \in Rounds, NewRound(v, r) PROVE TypeOK'
    BY <1>1 DEF NewRound
  <1>2. ASSUME NEW v \in Honest, NEW b \in BlockIDs, Prevote(v, b) PROVE TypeOK'
    BY <1>2 DEF Prevote
  <1>3. ASSUME NEW v \in Honest, NEW b \in Blocks, PrecommitBlock(v, b) PROVE TypeOK'
    BY <1>3 DEF PrecommitBlock
  <1>4. ASSUME NEW v \in Honest, PrecommitNil(v) PROVE TypeOK'
    BY <1>4 DEF PrecommitNil
  <1>5. ASSUME NEW v \in Honest, NEW r \in Rounds, NEW b \in BlockIDs, Unlock(v, r, b)
        PROVE  TypeOK'
    BY <1>5 DEF Unlock
  <1>6. ASSUME NEW v \in Honest, NEW b \in BlockIDs, UnlockAndPrecommitNil(v, b)
        PROVE  TypeOK'
    BY <1>6 DEF UnlockAndPrecommitNil
  <1>7. ASSUME NEW v \in Honest, NEW r \in Rounds, NEW b \in Blocks, Decide(v, r, b)
        PROVE  TypeOK'
    BY <1>7 DEF Decide
  <1>8. ASSUME NEW v \in Faulty, NEW r \in Rounds, NEW b \in BlockIDs, FaultyVote(v, r, b)
        PROVE  TypeOK'
    BY <1>8 DEF FaultyVote
  <1>9. CASE UNCHANGED vars
    BY <1>9 DEF vars
  <1> QED
    BY <1>1, <1>2, <1>3, <1>4, <1>5, <1>6, <1>7, <1>8, <1>9 DEF Next, HonestStep

(* What every step leaves in place: votes are never withdrawn, rounds never  *)
(* go back, and an honest validator only precommits in its current round and *)
(* only if it has not done so before.                                        *)
StepIsForward ==
    /\ prevotes \subseteq prevotes'
    /\ precommits \subseteq precommits'
    /\ \A v \in Honest : round[v] <= round'[v]
    /\ \A v \in Honest, r \in Rounds, b \in BlockIDs :
         <<v, r, b>> \in precommits' \ precommits => r = round[v] /\ ~HasPrecommitted(v, r)
    /\ \A v \in Honest, r \in Rounds, b, c \in BlockIDs :
         <<v, r, b>> \in precommits' \ precommits /\ <<v, r, c>> \in precommits' \ precommits
           => b = c

LEMMA StepsAreForward == TypeOK /\ [Next]_vars => StepIsForward
  <1> SUFFICES ASSUME TypeOK, [Next]_vars PROVE StepIsForward
    OBVIOUS
  <1>0. \A v \in Honest : round[v] \in Nat /\ round[v] <= round[v]
    <2>1. \A v \in Honest : round[v] \in Rounds
      BY DEF TypeOK
    <2> QED
      BY <2>1, RoundsAreNaturals
  <1> USE DEF StepIsForward
  <1>1. ASSUME NEW v \in Honest, NEW r \in Rounds, NewRound(v, r) PROVE StepIsForward
    BY <1>0, <1>1, LockingAssumption DEF NewRound, TypeOK
  <1>2. ASSUME NEW v \in Honest, NEW b \in BlockIDs, Prevote(v, b) PROVE StepIsForward
    BY <1>0, <1>2 DEF Prevote
  <1>3. ASSUME NEW v \in Honest, NEW b \in Blocks, PrecommitBlock(v, b) PROVE StepIsForward
    BY <1>0, <1>3 DEF PrecommitBlock, MayPrecommit
  <1>4. ASSUME NEW v \in Honest, PrecommitNil(v) PROVE StepIsForward
    BY <1>0, <1>4 DEF PrecommitNil, MayPrecommit
  <1>5. ASSUME NEW v \in Honest, NEW r \in Rounds, NEW b \in BlockIDs, Unlock(v, r, b)
        PROVE  StepIsForward
    BY <1>0, <1>5 DEF Unlock
  <1>6. ASSUME NEW v \in Honest, NEW b \in BlockIDs, UnlockAndPrecommitNil(v, b)
        PROVE  StepIsForward
    BY <1>0, <1>6 DEF UnlockAndPrecommitNil, MayPrecommit
  <1>7. ASSUME NEW v \in Honest, NEW r \in Rounds, NEW b \in Blocks, Decide(v, r, b)
        PROVE  StepIsForward
    BY <1>0, <1>7 DEF Decide
  <1>8. ASSUME NEW v \in Faulty, NEW r \in Rounds, NEW b \in BlockIDs, FaultyVote(v, r, b)
        PROVE  StepIsForward
    BY <1>0, <1>8 DEF FaultyVote, Honest
  <1>9. CASE UNCHANGED vars
    BY <1>0, <1>9 DEF vars
  <1> QED
    BY <1>1, <1>2, <1>3, <1>4, <1>5, <1>6, <1>7, <1>8, <1>9 DEF Next, HonestStep

(* Once a block cannot be committed in a round, it never can. *)
LEMMA NoCommitIsStable ==
    ASSUME TypeOK, TypeOK', StepIsForward, NEW r \in Rounds, NEW b \in BlockIDs, NoCommit(r, b)
    PROVE  NoCommit(r, b)'
  <1>1. ASSUME NEW v \in Honest, Never(v, r, b) PROVE Never(v, r, b)'
    <2>1. <<v, r, b>> \notin precommits'
      <3> SUFFICES ASSUME <<v, r, b>> \in precommits' PROVE FALSE
        OBVIOUS
      <3>1. r = round[v] /\ ~HasPrecommitted(v, r)
        BY <1>1 DEF Never, StepIsForward
      <3>2. round[v] \in Nat /\ ~(round[v] > r)
        BY <3>1, RoundsAreNaturals
      <3> QED
        BY <1>1, <3>1, <3>2 DEF Never
    <2>2. round[v] > r => round'[v] > r
      <3>1. round[v] \in Rounds /\ round'[v] \in Rounds /\ round[v] <= round'[v]
        BY DEF StepIsForward, TypeOK
      <3> QED
        BY <3>1, RoundsAreNaturals
    <2>3. HasPrecommitted(v, r) => HasPrecommitted(v, r)'
      BY DEF StepIsForward, HasPrecommitted
    <2> QED
      BY <1>1, <2>1, <2>2, <2>3 DEF Never
  <1> QED
    BY <1>1 DEF NoCommit

(* A polka stays a polka. *)
LEMMA PolkaIsStable ==
    ASSUME StepIsForward, NEW r \in Rounds, NEW b \in BlockIDs, Polka(r, b)
    PROVE  Polka(r, b)'
  <1>1. Prevoters(r, b) \subseteq Prevoters(r, b)' /\ Prevoters(r, b)' \subseteq Validators
    BY DEF Prevoters, StepIsForward
  <1> QED
    BY <1>1, QuorumIsMonotone DEF Polka

(* The heart of the argument: a polka for something else in a later round    *)
(* shows that a block can no longer be committed, because every quorum       *)
(* shares an honest validator with the polka, and that validator has either  *)
(* left the round without precommitting the block or is covered by           *)
(* PrevotesRespectPrecommits.                                                *)
LEMMA LaterPolkaForbidsCommit ==
    ASSUME FaultyMinority, Inv, NEW r \in Rounds, NEW s \in Rounds, r < s,
           NEW b \in Blocks, NEW c \in BlockIDs, b # c, Polka(s, c)
    PROVE  NoCommit(r, b)
  <1> SUFFICES ASSUME ~NoCommit(r, b), NEW Q \in SUBSET Validators, HasQuorum(Q)
               PROVE  \E v \in Q \cap Honest : Never(v, r, b)
    BY DEF NoCommit
  <1>1. Prevoters(s, c) \in SUBSET Validators /\ HasQuorum(Prevoters(s, c))
    BY DEF Prevoters, Polka
  <1>2. PICK v \in Q \cap Prevoters(s, c) : v \notin Faulty
    BY <1>1, QuorumsIntersect, LockingAssumption DEF FaultyMinority
  <1>3. v \in Honest /\ <<v, s, c>> \in prevotes
    BY <1>2 DEF Honest, Prevoters
  <1>4. s <= round[v]
    BY <1>3 DEF Inv, OneVotePerRound
  <1>5. round[v] > r
    <2>1. round[v] \in Rounds
      BY <1>3 DEF Inv, TypeOK
    <2> QED
      BY <1>4, <2>1, RoundsAreNaturals
  <1>6. <<v, r, b>> \notin precommits
    BY <1>3 DEF Inv, PrevotesRespectPrecommits
  <1> QED
    BY <1>2, <1>3, <1>5, <1>6 DEF Never

(* How a step may change the lock of v: not at all, by locking a block with *)
(* a polka, or    by unlocking on a later polka for something else.          *)
LockKept(v) == lockedBlock'[v] = lockedBlock[v] /\ lockedRound'[v] = lockedRound[v]

LockTaken(v) ==
    /\ lockedBlock'[v] \in Blocks
    /\ lockedBlock'[v] \in ValidBlocks \/ lockedBlock'[v] = lockedBlock[v]
    /\ lockedRound'[v] = round[v]
    /\ lockedRound[v] < round[v]
    /\ Polka(round[v], lockedBlock'[v])

LockReleased(v) ==
    /\ lockedBlock'[v] = NilID
    /\ lockedBlock[v] # NilID
    /\ \E s \in Rounds, c \in BlockIDs :
         c # lockedBlock[v] /\ lockedRound[v] < s /\ Polka(s, c)

(* What an honest validator may do in one step. *)
HonestRules ==
    \A v \in Honest :
        /\ LockKept(v) \/ LockTaken(v) \/ LockReleased(v)
        /\ \A r \in Rounds, b \in BlockIDs :
             <<v, r, b>> \in prevotes' \ prevotes =>
               /\ r = round[v] /\ LockKept(v)
               /\ lockedBlock[v] # NilID => b = lockedBlock[v]
               /\ lockedBlock[v] = NilID => b \in ValidBlocks \cup {NilID}
        /\ \A r \in Rounds, b \in Blocks :
             <<v, r, b>> \in precommits' \ precommits =>
               r = round[v] /\ LockTaken(v) /\ lockedBlock'[v] = b

LEMMA StepsFollowRules == Inv /\ [Next]_vars => HonestRules
  <1> SUFFICES ASSUME Inv, [Next]_vars PROVE HonestRules
    OBVIOUS
  <1>0. TypeOK /\ NilID \notin Blocks /\ NilID \in BlockIDs /\ Blocks \subseteq BlockIDs
    BY LockingAssumption DEF Inv, BlockIDs
  <1>1. ASSUME NEW v \in Honest, NEW r \in Rounds, NewRound(v, r) PROVE HonestRules
    BY <1>1 DEF NewRound, HonestRules, LockKept
  <1>2. ASSUME NEW v \in Honest, NEW b \in BlockIDs, Prevote(v, b) PROVE HonestRules
    BY <1>2 DEF Prevote, HonestRules, LockKept
  <1>3. ASSUME NEW v \in Honest, NEW b \in Blocks, PrecommitBlock(v, b) PROVE HonestRules
    <2>1. \A w \in Honest \ {v} : LockKept(w)
      BY <1>0, <1>3 DEF PrecommitBlock, Lock, LockKept, TypeOK
    <2>2. LockTaken(v) /\ lockedBlock'[v] = b
      BY <1>0, <1>3 DEF PrecommitBlock, MayPrecommit, Lock, LockTaken, TypeOK
    <2> QED
      BY <1>3, <2>1, <2>2 DEF PrecommitBlock, HonestRules
  <1>4. ASSUME NEW v \in Honest, PrecommitNil(v) PROVE HonestRules
    BY <1>0, <1>4 DEF PrecommitNil, HonestRules, LockKept
  <1>5. ASSUME NEW v \in Honest, NEW r \in Rounds, NEW b \in BlockIDs, Unlock(v, r, b)
        PROVE  HonestRules
    <2>1. \A w \in Honest \ {v} : LockKept(w)
      BY <1>0, <1>5 DEF Unlock, Lock, LockKept, TypeOK
    <2>2. LockReleased(v)
      BY <1>0, <1>5 DEF Unlock, Lock, LockReleased, TypeOK
    <2> QED
      BY <1>5, <2>1, <2>2 DEF Unlock, HonestRules
  <1>6. ASSUME NEW v \in Honest, NEW b \in BlockIDs, UnlockAndPrecommitNil(v, b)
        PROVE  HonestRules
    <2>1. \A w \in Honest \ {v} : LockKept(w)
      BY <1>0, <1>6 DEF UnlockAndPrecommitNil, Lock, LockKept, TypeOK
    <2>2. lockedRound[v] < round[v] /\ round[v] \in Rounds
      BY <1>0, <1>6 DEF UnlockAndPrecommitNil, MayPrecommit, TypeOK
    <2>3. LockReleased(v)
      BY <1>0, <1>6, <2>2 DEF UnlockAndPrecommitNil, Lock, LockReleased, TypeOK
    <2> QED
      BY <1>0, <1>6, <2>1, <2>3 DEF UnlockAndPrecommitNil, HonestRules
  <1>7. ASSUME NEW v \in Honest, NEW r \in Rounds, NEW b \in Blocks, Decide(v, r, b)
        PROVE  HonestRules
    BY <1>7 DEF Decide, HonestRules, LockKept
  <1>8. ASSUME NEW v \in Faulty, NEW r \in Rounds, NEW b \in BlockIDs, FaultyVote(v, r, b)
        PROVE  HonestRules
    BY <1>8 DEF FaultyVote, HonestRules, LockKept, Honest
  <1>9. CASE UNCHANGED vars
    BY <1>9 DEF vars, HonestRules, LockKept
  <1> QED
    BY <1>1, <1>2, <1>3, <1>4, <1>5, <1>6, <1>7, <1>8, <1>9 DEF Next, HonestStep

(* A decision is kept, or taken on +2/3 precommits. *)
DecisionRule ==
    \A v \in Honest :
        \/ decision'[v] = decision[v]
        \/ /\ decision'[v] \in Blocks
           /\ \E r \in Rounds : HasQuorum(Precommitters(r, decision'[v]))

LEMMA StepsDecideByRule == TypeOK /\ [Next]_vars => DecisionRule
  <1> SUFFICES ASSUME TypeOK, [Next]_vars PROVE DecisionRule
    OBVIOUS
  <1>1. ASSUME NEW v \in Honest, NEW r \in Rounds, NEW b \in Blocks, Decide(v, r, b)
        PROVE  DecisionRule
    <2>1. decision' = [decision EXCEPT ![v] = b] /\ decision \in [Honest -> BlockIDs]
      BY <1>1 DEF Decide, TypeOK
    <2>2. decision'[v] = b /\ \A w \in Honest \ {v} : decision'[w] = decision[w]
      BY <2>1
    <2> QED
      BY <1>1, <2>2 DEF Decide, DecisionRule
  <1>2. ASSUME decision' = decision PROVE DecisionRule
    BY <1>2 DEF DecisionRule
  <1> QED
    BY <1>1, <1>2
    DEF Next, HonestStep, NewRound, Prevote, PrecommitBlock, PrecommitNil, Unlock,
        UnlockAndPrecommitNil, FaultyVote, vars

(* The inductive invariant holds initially. *)
LEMMA InitInv == Init => Inv
  <1> SUFFICES ASSUME Init PROVE Inv
    OBVIOUS
  <1>1. TypeOK
    BY InitTypeOK
  <1>2. prevotes = {} /\ precommits = {} /\ \A v \in Honest : lockedBlock[v] = NilID
    BY DEF Init
  <1>3. \A v \in Honest : decision[v] = NilID
    BY DEF Init
  <1> QED
    BY <1>1, <1>2, <1>3
    DEF Inv, OneVotePerRound, PrecommitsHavePolka,
        LockedWhileCommittable, PrevotesRespectPrecommits, HonestPrevotesValid,
        DecisionsHaveCommits

(* Every step preserves the inductive invariant. *)
LEMMA NextInv == FaultyMinority /\ Inv /\ [Next]_vars => Inv'
  <1> SUFFICES ASSUME FaultyMinority, Inv, [Next]_vars PROVE Inv'
    OBVIOUS
  <1>1. TypeOK /\ TypeOK' /\ StepIsForward /\ HonestRules
    BY NextTypeOK, StepsAreForward, StepsFollowRules DEF Inv
  <1>2. Blocks \subseteq BlockIDs /\ NilID \in BlockIDs /\ NilID \notin Blocks
    BY LockingAssumption DEF BlockIDs
  <1>3. \A v \in Honest : round[v] \in Rounds /\ round'[v] \in Rounds /\ round[v] <= round'[v]
    BY <1>1 DEF TypeOK, StepIsForward
  <1>4. \A r \in Rounds, b \in BlockIDs : NoCommit(r, b) => NoCommit(r, b)'
    BY <1>1, NoCommitIsStable
  <1>5. \A r \in Rounds, b \in BlockIDs : Polka(r, b) => Polka(r, b)'
    BY <1>1, PolkaIsStable
  <1>6. \A v \in Honest : lockedRound[v] \in Int /\ round[v] \in Nat
    BY <1>1, <1>3, RoundsAreNaturals DEF TypeOK
  <1>7. OneVotePerRound'
    <2> SUFFICES ASSUME NEW v \in Honest, NEW r \in Rounds, NEW b \in BlockIDs, NEW c \in BlockIDs
                 PROVE  /\ <<v, r, b>> \in prevotes' => r <= round'[v]
                        /\ <<v, r, b>> \in precommits' => r <= round'[v]
                        /\ <<v, r, b>> \in precommits' /\ <<v, r, c>> \in precommits' => b = c
      BY DEF OneVotePerRound
    <2>1. <<v, r, b>> \in prevotes' => r <= round[v]
      <3>1. <<v, r, b>> \in prevotes => r <= round[v]
        BY DEF Inv, OneVotePerRound
      <3>2. <<v, r, b>> \in prevotes' \ prevotes => r = round[v]
        BY <1>1 DEF HonestRules
      <3> QED
        BY <1>3, <3>1, <3>2, RoundsAreNaturals
    <2>2. <<v, r, b>> \in precommits' => r <= round[v]
      <3>1. <<v, r, b>> \in precommits => r <= round[v]
        BY DEF Inv, OneVotePerRound
      <3>2. <<v, r, b>> \in precommits' \ precommits => r = round[v]
        BY <1>1 DEF StepIsForward
      <3> QED
        BY <1>3, <3>1, <3>2, RoundsAreNaturals
    <2>3. <<v, r, b>> \in precommits' /\ <<v, r, c>> \in precommits' => b = c
      <3> SUFFICES ASSUME <<v, r, b>> \in precommits', <<v, r, c>> \in precommits' PROVE b = c
        OBVIOUS
      <3>1. CASE <<v, r, b>> \in precommits /\ <<v, r, c>> \in precommits
        BY <3>1 DEF Inv, OneVotePerRound
      <3>2. CASE <<v, r, b>> \notin precommits \/ <<v, r, c>> \notin precommits
        <4>1. ~HasPrecommitted(v, r)
          BY <1>1, <3>2 DEF StepIsForward
        <4>2. <<v, r, b>> \notin precommits /\ <<v, r, c>> \notin precommits
          BY <4>1 DEF HasPrecommitted
        <4> QED
          BY <1>1, <4>2 DEF StepIsForward
      <3> QED
        BY <3>1, <3>2
    <2> QED
      BY <1>3, <2>1, <2>2, <2>3, RoundsAreNaturals
  <1>8. PrecommitsHavePolka'
    <2> SUFFICES ASSUME NEW v \in Honest, NEW r \in Rounds, NEW b \in Blocks,
                        <<v, r, b>> \in precommits'
                 PROVE  Polka(r, b)'
      BY DEF PrecommitsHavePolka
    <2>1. Polka(r, b)
      <3>1. CASE <<v, r, b>> \in precommits
        BY <3>1 DEF Inv, PrecommitsHavePolka
      <3>2. CASE <<v, r, b>> \notin precommits
        BY <1>1, <3>2 DEF HonestRules, LockTaken
      <3> QED
        BY <3>1, <3>2
    <2> QED
      BY <1>2, <1>5, <2>1
  <1>9. LockedWhileCommittable'
    <2> SUFFICES ASSUME NEW v \in Honest, NEW r \in Rounds, NEW b \in Blocks,
                        <<v, r, b>> \in precommits'
                 PROVE  NoCommit(r, b)' \/ (lockedBlock'[v] = b /\ lockedRound'[v] >= r)
      BY DEF LockedWhileCommittable
    <2>1. CASE <<v, r, b>> \notin precommits
      <3>1. lockedBlock'[v] = b /\ lockedRound'[v] = r
        BY <1>1, <2>1 DEF HonestRules, LockTaken
      <3> QED
        BY <3>1, RoundsAreNaturals
    <2>2. CASE <<v, r, b>> \in precommits /\ NoCommit(r, b)
      BY <1>2, <1>4, <2>2
    <2>3. CASE <<v, r, b>> \in precommits /\ lockedBlock[v] = b /\ lockedRound[v] >= r
      <3>1. CASE LockKept(v)
        BY <2>3, <3>1 DEF LockKept
      <3>2. CASE LockTaken(v)
        <4>1. lockedRound[v] < round[v] /\ round[v] \in Rounds
          BY <1>3, <3>2 DEF LockTaken
        <4>2. r < round[v] /\ round[v] >= r
          BY <1>6, <2>3, <4>1, RoundsAreNaturals
        <4>3. CASE lockedBlock'[v] = b
          BY <3>2, <4>2, <4>3 DEF LockTaken
        <4>4. CASE lockedBlock'[v] # b
          <5>1. NoCommit(r, b)
            BY <1>2, <3>2, <4>1, <4>2, <4>4, LaterPolkaForbidsCommit DEF LockTaken
          <5> QED
            BY <1>2, <1>4, <5>1
        <4> QED
          BY <4>3, <4>4
      <3>3. CASE LockReleased(v)
        <4>1. PICK s \in Rounds, c \in BlockIDs :
                 c # lockedBlock[v] /\ lockedRound[v] < s /\ Polka(s, c)
          BY <3>3 DEF LockReleased
        <4>3. r < s
          BY <1>6, <2>3, <4>1, RoundsAreNaturals
        <4>4. NoCommit(r, b)
          BY <2>3, <4>1, <4>3, LaterPolkaForbidsCommit
        <4> QED
          BY <1>2, <1>4, <4>4
      <3> QED
        BY <1>1, <3>1, <3>2, <3>3 DEF HonestRules
    <2> QED
      BY <2>1, <2>2, <2>3 DEF Inv, LockedWhileCommittable
  <1>10. PrevotesRespectPrecommits'
    <2> SUFFICES ASSUME NEW v \in Honest, NEW r \in Rounds, NEW s \in Rounds,
                        NEW b \in Blocks, NEW c \in BlockIDs,
                        <<v, r, b>> \in precommits', <<v, s, c>> \in prevotes', r < s, c # b
                 PROVE  NoCommit(r, b)'
      BY DEF PrevotesRespectPrecommits
    <2>1. <<v, r, b>> \in precommits
      <3> SUFFICES ASSUME <<v, r, b>> \notin precommits PROVE FALSE
        OBVIOUS
      <3>1. r = round[v]
        BY <1>1, <1>2 DEF StepIsForward
      <3>2. <<v, s, c>> \in prevotes => s <= round[v]
        BY DEF Inv, OneVotePerRound
      <3>3. <<v, s, c>> \notin prevotes => s = round[v]
        BY <1>1 DEF HonestRules
      <3> QED
        BY <3>1, <3>2, <3>3, RoundsAreNaturals
    <2>2. CASE <<v, s, c>> \in prevotes
      BY <1>2, <1>4, <2>1, <2>2 DEF Inv, PrevotesRespectPrecommits
    <2>3. CASE <<v, s, c>> \notin prevotes
      <3>1. lockedBlock[v] # NilID => c = lockedBlock[v]
        BY <1>1, <2>3 DEF HonestRules
      <3>2. lockedBlock[v] # b
        BY <1>2, <3>1
      <3>3. NoCommit(r, b)
        BY <2>1, <3>2 DEF Inv, LockedWhileCommittable
      <3> QED
        BY <1>2, <1>4, <3>3
    <2> QED
      BY <2>2, <2>3
  <1>11. HonestPrevotesValid'
    <2> SUFFICES ASSUME NEW v \in Honest, NEW r \in Rounds, NEW b \in BlockIDs
                 PROVE  /\ <<v, r, b>> \in prevotes' => b \in ValidBlocks \cup {NilID}
                        /\ lockedBlock'[v] \in ValidBlocks \cup {NilID}
      BY DEF HonestPrevotesValid
    <2>1. /\ <<v, r, b>> \in prevotes => b \in ValidBlocks \cup {NilID}
          /\ lockedBlock[v] \in ValidBlocks \cup {NilID}
      BY DEF Inv, HonestPrevotesValid
    <2>2. <<v, r, b>> \in prevotes' \ prevotes => b \in ValidBlocks \cup {NilID}
      BY <1>1, <2>1 DEF HonestRules
    <2>3. lockedBlock'[v] \in ValidBlocks \cup {NilID}
      BY <1>1, <2>1 DEF HonestRules, LockKept, LockTaken, LockReleased
    <2> QED
      BY <2>1, <2>2, <2>3
  <1>12. DecisionsHaveCommits'
    <2>1. \A r \in Rounds, b \in Blocks :
             HasQuorum(Precommitters(r, b)) => HasQuorum(Precommitters(r, b))'
      <3> SUFFICES ASSUME NEW r \in Rounds, NEW b \in Blocks, HasQuorum(Precommitters(r, b))
                   PROVE  HasQuorum(Precommitters(r, b)')
        BY DEF HasQuorum, quorum, TotalVotingPower
      <3>1. Precommitters(r, b) \subseteq Precommitters(r, b)'
        BY <1>1 DEF Precommitters, StepIsForward
      <3>2. Precommitters(r, b)' \subseteq Validators
        BY DEF Precommitters
      <3> QED
        BY <3>1, <3>2, QuorumIsMonotone
    <2>2. DecisionRule
      BY <1>1, StepsDecideByRule
    <2>3. \A v \in Honest : decision'[v] # NilID =>
             /\ decision'[v] \in Blocks
             /\ \E r \in Rounds : HasQuorum(Precommitters(r, decision'[v]))
      BY <2>2 DEF DecisionRule, Inv, DecisionsHaveCommits
    <2> SUFFICES ASSUME NEW v \in Honest, decision'[v] # NilID
                 PROVE  /\ decision'[v] \in Blocks
                        /\ \E r \in Rounds : HasQuorum(Precommitters(r, decision[v]))'
      BY DEF DecisionsHaveCommits
    <2>4. PICK r \in Rounds : HasQuorum(Precommitters(r, decision'[v]))
      BY <2>3
    <2>5. HasQuorum(Precommitters(r, decision[v]))'
      BY <2>1, <2>3, <2>4 DEF Precommitters, HasQuorum
    <2> QED
      BY <2>3, <2>5
  <1> QED
    BY <1>1, <1>7, <1>8, <1>9, <1>10, <1>11, <1>12 DEF Inv

(* Two commits of a height are for one block: the later one has a polka,    *)
(* which shares an honest validator with the earlier commit.                 *)
LEMMA CommitIsUnique ==
    ASSUME FaultyMinority, Inv, NEW r0 \in Rounds, NEW s0 \in Rounds, NEW b0 \in Blocks, NEW c0 \in Blocks,
           HasQuorum(Precommitters(r0, b0)), HasQuorum(Precommitters(s0, c0))
    PROVE  b0 = c0
  <1>1. ASSUME NEW r \in Rounds, NEW s \in Rounds, NEW b \in Blocks, NEW c \in Blocks,
               HasQuorum(Precommitters(r, b)), HasQuorum(Precommitters(s, c)), b # c
        PROVE  /\ r # s
               /\ ~(r < s)
    <2>0. /\ Precommitters(r, b) \in SUBSET Validators
          /\ Precommitters(s, c) \in SUBSET Validators
          /\ b \in BlockIDs /\ c \in BlockIDs
      BY DEF Precommitters, BlockIDs
    <2>1. r # s
      <3> SUFFICES ASSUME r = s PROVE FALSE
        OBVIOUS
      <3>1. PICK v \in Precommitters(r, b) \cap Precommitters(s, c) : v \notin Faulty
        BY <1>1, <2>0, QuorumsIntersect, LockingAssumption DEF FaultyMinority
      <3>2. v \in Honest /\ <<v, r, b>> \in precommits /\ <<v, r, c>> \in precommits
        BY <3>1 DEF Honest, Precommitters
      <3> QED
        BY <1>1, <2>0, <3>2 DEF Inv, OneVotePerRound
    <2>2. ~(r < s)
      <3> SUFFICES ASSUME r < s PROVE FALSE
        OBVIOUS
      <3>1. PICK v \in Precommitters(s, c) \cap Precommitters(s, c) : v \notin Faulty
        BY <1>1, <2>0, QuorumsIntersect, LockingAssumption DEF FaultyMinority
      <3>2. Polka(s, c)
        BY <3>1 DEF Honest, Precommitters, Inv, PrecommitsHavePolka
      <3>3. NoCommit(r, b)
        BY <1>1, <2>0, <3>2, LaterPolkaForbidsCommit
      <3>4. PICK w \in Precommitters(r, b) \cap Honest : Never(w, r, b)
        BY <1>1, <2>0, <3>3 DEF NoCommit
      <3> QED
        BY <3>4 DEF Never, Precommitters
    <2> QED
      BY <2>1, <2>2
  <1>2. ASSUME NEW r \in Rounds, NEW s \in Rounds, NEW b \in Blocks, NEW c \in Blocks,
               HasQuorum(Precommitters(r, b)), HasQuorum(Precommitters(s, c)), b # c
        PROVE  FALSE
    <2>1. r # s /\ ~(r < s) /\ ~(s < r)
      BY <1>1, <1>2
    <2> QED
      BY <2>1, RoundsAreNaturals
  <1> QED
    BY <1>2

LEMMA InvGivesAgreement == FaultyMinority /\ Inv => Agreement
  <1> SUFFICES ASSUME FaultyMinority, Inv, NEW v \in Honest, NEW w \in Honest,
                      decision[v] # NilID, decision[w] # NilID
               PROVE  decision[v] = decision[w]
    BY DEF Agreement
  <1>1. /\ decision[v] \in Blocks /\ decision[w] \in Blocks
        /\ \E r \in Rounds : HasQuorum(Precommitters(r, decision[v]))
        /\ \E r \in Rounds : HasQuorum(Precommitters(r, decision[w]))
    BY DEF Inv, DecisionsHaveCommits
  <1> QED
    BY <1>1, CommitIsUnique

(* A committed block was precommitted, hence prevoted, by an honest          *)
(* validator, and those prevote valid blocks only.                           *)
LEMMA InvGivesValidity == FaultyMinority /\ Inv => Validity
  <1> SUFFICES ASSUME FaultyMinority, Inv, NEW v \in Honest, decision[v] # NilID
               PROVE  decision[v] \in ValidBlocks
    BY DEF Validity
  <1>1. decision[v] \in Blocks /\ NilID \notin Blocks /\ decision[v] \in BlockIDs
    BY LockingAssumption DEF Inv, DecisionsHaveCommits, BlockIDs
  <1>2. PICK r \in Rounds : HasQuorum(Precommitters(r, decision[v]))
    BY DEF Inv, DecisionsHaveCommits
  <1>3. Precommitters(r, decision[v]) \in SUBSET Validators
    BY DEF Precommitters
  <1>4. PICK w \in Precommitters(r, decision[v]) : w \notin Faulty
    BY <1>2, <1>3, QuorumsIntersect, LockingAssumption DEF FaultyMinority
  <1>5. Polka(r, decision[v])
    BY <1>1, <1>4 DEF Honest, Precommitters, Inv, PrecommitsHavePolka
  <1>6. Prevoters(r, decision[v]) \in SUBSET Validators
    BY DEF Prevoters
  <1>7. PICK u \in Prevoters(r, decision[v]) : u \notin Faulty
    BY <1>5, <1>6, QuorumsIntersect, LockingAssumption DEF FaultyMinority, Polka
  <1> QED
    BY <1>1, <1>7 DEF Honest, Prevoters, Inv, HonestPrevotesValid

(* Type correctness of the locking rules, whoever is faulty. *)
THEOREM TypeCorrect == Spec => []TypeOK
  BY InitTypeOK, NextTypeOK, PTL DEF Spec

(* The inductive invariant holds in every reachable state. *)
THEOREM InvHolds == ASSUME FaultyMinority PROVE Spec => []Inv
  <1>1. Inv /\ [Next]_vars => Inv'
    BY NextInv
  <1> QED
    BY InitInv, <1>1, PTL DEF Spec

(* Agreement: while less than a third of the voting power is faulty, no two  *)
(* validators that follow the rules of consensus.State finalize different    *)
(* blocks at a height, whatever the rounds, the powers and the timing.       *)
THEOREM AgreementHolds == ASSUME FaultyMinority PROVE Spec => []Agreement
  <1>1. Inv => Agreement
    BY InvGivesAgreement
  <1> QED
    BY InvHolds, <1>1, PTL

(* Validity: under the same assumption, only blocks that ValidateBlock       *)
(* accepts are finalized.                                                    *)
THEOREM ValidityHolds == ASSUME FaultyMinority PROVE Spec => []Validity
  <1>1. Inv => Validity
    BY InvGivesValidity
  <1> QED
    BY InvHolds, <1>1, PTL

(* A decision is final: while less than a third of the power is faulty, no   *)
(* further commit that a node sees or replays can change what it finalized.  *)
THEOREM DecisionsAreFinal == ASSUME FaultyMinority PROVE Spec => DecisionIsFinal
  <1>1. Inv /\ [Next]_vars =>
          [\A v \in Honest : decision[v] # NilID => decision'[v] = decision[v]]_vars
    <2> SUFFICES ASSUME Inv, [Next]_vars, NEW v \in Honest, decision[v] # NilID
                 PROVE  decision'[v] = decision[v]
      OBVIOUS
    <2>1. DecisionRule
      BY StepsDecideByRule DEF Inv
    <2>2. /\ decision[v] \in Blocks
          /\ \E r \in Rounds : HasQuorum(Precommitters(r, decision[v]))
      BY DEF Inv, DecisionsHaveCommits
    <2> QED
      BY <2>1, <2>2, CommitIsUnique DEF DecisionRule
  <1> QED
    BY <1>1, InvHolds, PTL DEF Spec, DecisionIsFinal
=============================================================================
