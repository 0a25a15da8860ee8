---------------------------- MODULE FilePVProofs ----------------------------
(* Proofs about the file-backed private validator, for every set of heights, *)
(* rounds and message contents.                                              *)
EXTENDS FilePV, TLAPS

(* The fields of a request that CheckHRS compares are natural numbers. *)
LEMMA RequestFields ==
    ASSUME NEW req \in Requests
    PROVE  /\ req.height \in Nat /\ req.height # 0
           /\ req.round \in Nat
           /\ req.step \in {stepPropose, stepPrevote, stepPrecommit}
           /\ req.height \in Heights /\ req.round \in Rounds /\ req.step \in Steps
           /\ req # NoBytes
  <1>1. /\ req.height \in Heights /\ req.round \in Rounds
        /\ req.step \in Steps \ {stepNone}
        /\ <<req.height, req.round>> \in HeightRounds
    BY DEF Requests
  <1>2. <<req.height, req.round>> \in (Nat \ {0}) \X Nat
    BY <1>1, ConstantsAssumption
  <1> QED
    BY <1>1, <1>2, ConstantsAssumption DEF Steps, stepNone, stepPropose, stepPrevote, stepPrecommit

(* Requests that only differ by the timestamp are for the same step and      *)
(* payload: the signature that is reused was made for them.                  *)
LEMMA ReusedIsForSame ==
    ASSUME NEW req \in Requests, NEW last \in Requests,
           OnlyDifferByTimestamp(last, req)
    PROVE  SameStep(last, req) /\ last.payload = req.payload
  BY DEF OnlyDifferByTimestamp, SameStep, Requests

(* The inductive invariant holds initially. *)
LEMMA InitInv == Init => Inv
  BY ConstantsAssumption
  DEF Init, Inv, TypeOK, StateOfBytes, MemoryAheadOfFile, FileHoldsReleased,
      SignatureIsForSentBlock, ReleasedIsDurable, NoDoubleSign, emptyState,
      SignStates, Steps, stepNone

(* Every field of a sign state that occurs is a natural number. *)
LEMMA StateFields ==
    ASSUME NEW s \in SignStates
    PROVE  s.height \in Nat /\ s.round \in Nat /\ s.step \in 0 .. 3
  <1>1. \A h \in Heights : h \in Nat
    BY ConstantsAssumption DEF Heights
  <1>2. \A r \in Rounds : r \in Nat
    BY ConstantsAssumption DEF Rounds
  <1> QED
    BY <1>1, <1>2 DEF SignStates, Steps, stepNone, stepPropose, stepPrevote, stepPrecommit

(* Position order is transitive and strict positions compose with it. *)
LEMMA NotAfterTrans ==
    ASSUME NEW a, NEW b, NEW c,
           a.height \in Nat, a.round \in Nat, a.step \in 0 .. 3,
           b.height \in Nat, b.round \in Nat, b.step \in 0 .. 3,
           c.height \in Nat, c.round \in Nat, c.step \in 0 .. 3,
           NotAfter(a, b), NotAfter(b, c)
    PROVE  /\ NotAfter(a, c)
           /\ SameStep(a, c) => SameStep(a, b) /\ SameStep(b, c)
  BY DEF NotAfter, SameStep

(* What saveSigned writes, for a request that neither regresses nor repeats *)
(* the last one, lies strictly after the state it replaces.                 *)
LEMMA SignedIsAfter ==
    ASSUME TypeOK, NEW req \in Requests, ~Regression(req), ~SameHRS(req)
    PROVE  NotAfter(lss, req) /\ ~SameStep(lss, req)
  <1>1. lss.height \in Nat /\ lss.round \in Nat /\ lss.step \in 0 .. 3
    BY StateFields DEF TypeOK
  <1>2. req.height \in Nat /\ req.round \in Nat /\ req.step \in 1 .. 3
    BY RequestFields DEF stepPropose, stepPrevote, stepPrecommit
  <1> QED
    BY <1>1, <1>2 DEF Regression, SameHRS, NotAfter, SameStep

(* saveSigned, reached past CheckHRS, preserves the invariant. *)
LEMMA SaveSignedInv ==
    ASSUME Inv, NEW req \in Requests, pending = NoBytes,
           ~Regression(req), ~SameHRS(req), saveSigned(req)
    PROVE  Inv'
  <1>1. NotAfter(lss, req) /\ ~SameStep(lss, req)
    BY SignedIsAfter DEF Inv
  <1>2. /\ lss'.height = req.height /\ lss'.round = req.round
        /\ lss'.step = req.step /\ lss'.signBytes = req
        /\ pending' = req /\ file' = file /\ released' = released /\ file = lss
    BY DEF saveSigned, Inv, MemoryAheadOfFile
  <1>3. TypeOK'
    BY RequestFields DEF Inv, TypeOK, saveSigned, SignStates
  <1>4. StateOfBytes(lss)' /\ StateOfBytes(file)'
    BY <1>2 DEF Inv, StateOfBytes, SameStep
  <1>5. MemoryAheadOfFile'
    BY <1>1, <1>2, RequestFields DEF MemoryAheadOfFile, NotAfter, SameStep
  <1>6. /\ FileHoldsReleased' /\ SignatureIsForSentBlock'
        /\ ReleasedIsDurable' /\ NoDoubleSign'
    BY <1>2 DEF Inv, FileHoldsReleased, SignatureIsForSentBlock, ReleasedIsDurable, NoDoubleSign
  <1> QED
    BY <1>3, <1>4, <1>5, <1>6 DEF Inv

(* Handing the last signature out again preserves the invariant. *)
LEMMA ReuseInv ==
    ASSUME Inv, NEW req \in Requests, pending = NoBytes, reuseSignature(req)
    PROVE  Inv'
  <1> DEFINE last == lss.signBytes
             new == [sent |-> req, signature |-> last]
  <1>1. last \in Requests /\ SameStep(lss, last) /\ file = lss
    BY DEF Inv, TypeOK, SignStates, reuseSignature, StateOfBytes, MemoryAheadOfFile, emptyState
  <1>2. SameStep(last, req) /\ last.payload = req.payload
    BY <1>1, ReusedIsForSame DEF reuseSignature
  <1>3. /\ released' = released \cup {new}
        /\ lss' = lss /\ file' = file /\ pending' = pending
    BY DEF reuseSignature, send
  <1>4. new \in [sent : Requests, signature : Requests]
    BY <1>1
  <1>5. TypeOK'
    BY <1>3, <1>4 DEF Inv, TypeOK
  <1>6. StateOfBytes(lss)' /\ StateOfBytes(file)' /\ MemoryAheadOfFile'
    BY <1>3 DEF Inv, StateOfBytes, MemoryAheadOfFile
  <1>7. FileHoldsReleased' /\ SignatureIsForSentBlock'
    BY <1>1, <1>2, <1>3 DEF Inv, FileHoldsReleased, SignatureIsForSentBlock
  <1>8. NotAfter(last, file)
    BY <1>1, RequestFields DEF NotAfter, SameStep, stepPropose, stepPrevote, stepPrecommit
  <1>9. ReleasedIsDurable'
    BY <1>3, <1>8 DEF Inv, ReleasedIsDurable
  <1>10. NoDoubleSign'
    BY <1>1, <1>3 DEF Inv, NoDoubleSign, FileHoldsReleased, SameStep
  <1> QED
    BY <1>5, <1>6, <1>7, <1>9, <1>10 DEF Inv

(* Replacing the file by the memory state preserves the invariant. *)
LEMMA SaveInv == ASSUME Inv, Save PROVE Inv'
  <1>1. /\ file' = lss /\ lss' = lss /\ pending' = pending /\ released' = released
        /\ pending # NoBytes
        /\ NotAfter(file, lss) /\ ~SameStep(file, lss)
    BY DEF Save, Inv, MemoryAheadOfFile
  <1>2. /\ \A a \in released : a.signature \in Requests
        /\ lss \in SignStates /\ file \in SignStates
    BY DEF Inv, TypeOK
  <1>3. \A a \in released : NotAfter(a.signature, lss) /\ ~SameStep(a.signature, lss)
    <2> SUFFICES ASSUME NEW a \in released
                 PROVE  NotAfter(a.signature, lss) /\ ~SameStep(a.signature, lss)
      OBVIOUS
    <2>1. NotAfter(a.signature, file)
      BY DEF Inv, ReleasedIsDurable
    <2>2. /\ a.signature.height \in Nat /\ a.signature.round \in Nat
          /\ a.signature.step \in 0 .. 3
      BY <1>2, RequestFields DEF stepPropose, stepPrevote, stepPrecommit
    <2> QED
      BY <1>1, <1>2, <2>1, <2>2, StateFields, NotAfterTrans
  <1>4. TypeOK' /\ StateOfBytes(lss)' /\ StateOfBytes(file)' /\ MemoryAheadOfFile'
    BY <1>1 DEF Inv, TypeOK, StateOfBytes, MemoryAheadOfFile
  <1>5. FileHoldsReleased' /\ ReleasedIsDurable'
    BY <1>1, <1>3 DEF FileHoldsReleased, ReleasedIsDurable
  <1>6. SignatureIsForSentBlock' /\ NoDoubleSign'
    BY <1>1 DEF Inv, SignatureIsForSentBlock, NoDoubleSign
  <1> QED
    BY <1>4, <1>5, <1>6 DEF Inv

(* Handing out a saved signature preserves the invariant. *)
LEMMA ReturnInv == ASSUME Inv, Return PROVE Inv'
  <1> DEFINE new == [sent |-> pending, signature |-> pending]
  <1>1. /\ pending \in Requests /\ lss.signBytes = pending /\ file = lss
        /\ released' = released \cup {new}
        /\ lss' = lss /\ file' = file /\ pending' = NoBytes
    BY DEF Return, send, Inv, TypeOK, MemoryAheadOfFile
  <1>2. SameStep(lss, pending)
    BY <1>1, ConstantsAssumption DEF Inv, StateOfBytes, emptyState
  <1>3. TypeOK'
    BY <1>1 DEF Inv, TypeOK
  <1>4. StateOfBytes(lss)' /\ StateOfBytes(file)' /\ MemoryAheadOfFile'
    BY <1>1 DEF Inv, StateOfBytes, MemoryAheadOfFile
  <1>5. FileHoldsReleased' /\ SignatureIsForSentBlock'
    BY <1>1 DEF Inv, FileHoldsReleased, SignatureIsForSentBlock, SameStep
  <1>6. NotAfter(pending, file)
    BY <1>1, <1>2, RequestFields DEF NotAfter, SameStep, stepPropose, stepPrevote, stepPrecommit
  <1>7. ReleasedIsDurable'
    BY <1>1, <1>6 DEF Inv, ReleasedIsDurable
  <1>8. NoDoubleSign'
    BY <1>1, <1>2 DEF Inv, NoDoubleSign, FileHoldsReleased, SameStep
  <1> QED
    BY <1>3, <1>4, <1>5, <1>7, <1>8 DEF Inv

(* Every step of the validator, a crash included, preserves the invariant. *)
LEMMA NextInv == Inv /\ [Next]_vars => Inv'
  <1> SUFFICES ASSUME Inv, [Next]_vars PROVE Inv'
    OBVIOUS
  <1>1. ASSUME NEW req \in Requests, signVote(req) PROVE Inv'
    BY <1>1, SaveSignedInv, ReuseInv DEF signVote
  <1>2. ASSUME NEW req \in Requests, signProposal(req) PROVE Inv'
    BY <1>2, SaveSignedInv, ReuseInv DEF signProposal
  <1>3. CASE Save
    BY <1>3, SaveInv
  <1>4. CASE Return
    BY <1>4, ReturnInv
  <1>5. CASE CrashAndLoadFilePV
    BY <1>5 DEF CrashAndLoadFilePV, Inv, TypeOK, StateOfBytes, MemoryAheadOfFile,
                FileHoldsReleased, SignatureIsForSentBlock, ReleasedIsDurable, NoDoubleSign
  <1>6. CASE UNCHANGED vars
    BY <1>6 DEF vars, Inv, TypeOK, StateOfBytes, MemoryAheadOfFile,
                FileHoldsReleased, SignatureIsForSentBlock, ReleasedIsDurable, NoDoubleSign
  <1> QED
    BY <1>1, <1>2, <1>3, <1>4, <1>5, <1>6 DEF Next

(* The inductive invariant holds in every reachable state. *)
THEOREM InvHolds == Spec => []Inv
  BY InitInv, NextInv, PTL DEF Spec

(* Type correctness: LastSignState and the state file always hold a sign     *)
(* state, and what was handed out is a signed request.                       *)
THEOREM TypeCorrect == Spec => []TypeOK
  <1>1. Inv => TypeOK
    BY DEF Inv
  <1> QED
    BY <1>1, InvHolds, PTL

(* At most one message is ever signed per height, round and step, over any   *)
(* number of crashes between the in-memory update, the save and the return.  *)
THEOREM NeverDoubleSigns == Spec => []NoDoubleSign
  <1>1. Inv => NoDoubleSign
    BY DEF Inv
  <1> QED
    BY <1>1, InvHolds, PTL

(* Every message sent carries a signature made for its step and its block,   *)
(* and the state file remembers a step at least as high.                     *)
THEOREM ReleasedIsSafe == Spec => [](SignatureIsForSentBlock /\ ReleasedIsDurable)
  <1>1. Inv => SignatureIsForSentBlock /\ ReleasedIsDurable
    BY DEF Inv
  <1> QED
    BY <1>1, InvHolds, PTL

(* A signature that is new in a step is for a height/round/step at least as  *)
(* high as every signature handed out before: signing never goes back.       *)
THEOREM SigningIsMonotone == Spec => SigningMovesForward
  <1> DEFINE Forward == \A new \in released' \ released :
                           \A old \in released : NotAfter(old.signature, new.signature)
  <1>1. ASSUME Inv, NEW req \in Requests, reuseSignature(req), pending = NoBytes
        PROVE  Forward
    <2>1. /\ lss.signBytes \in Requests /\ SameStep(lss, lss.signBytes) /\ file = lss
          /\ released' = released \cup {[sent |-> req, signature |-> lss.signBytes]}
      BY <1>1 DEF Inv, TypeOK, SignStates, reuseSignature, send, StateOfBytes,
                  MemoryAheadOfFile, emptyState
    <2>2. \A old \in released : NotAfter(old.signature, lss.signBytes)
      BY <1>1, <2>1 DEF Inv, ReleasedIsDurable, NotAfter, SameStep
    <2> QED
      BY <2>1, <2>2
  <1>2. ASSUME Inv, Return PROVE Forward
    <2>1. /\ pending \in Requests /\ lss.signBytes = pending /\ file = lss
          /\ released' = released \cup {[sent |-> pending, signature |-> pending]}
      BY <1>2 DEF Return, send, Inv, TypeOK, MemoryAheadOfFile
    <2>2. SameStep(lss, pending)
      BY <1>2, <2>1, ConstantsAssumption DEF Inv, StateOfBytes, emptyState
    <2>3. \A old \in released : NotAfter(old.signature, pending)
      BY <1>2, <2>1, <2>2 DEF Inv, ReleasedIsDurable, NotAfter, SameStep
    <2> QED
      BY <2>1, <2>3
  <1>3. ASSUME released' = released PROVE Forward
    BY <1>3
  <1>4. ASSUME Inv, Next PROVE Forward
    BY <1>1, <1>2, <1>3, <1>4
    DEF Next, signVote, signProposal, saveSigned, Save, CrashAndLoadFilePV
  <1>5. Inv /\ [Next]_vars => [Forward]_vars
    BY <1>4
  <1> QED
    BY <1>5, InvHolds, PTL DEF Spec, SigningMovesForward
=============================================================================
