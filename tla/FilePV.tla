------------------------------- MODULE FilePV -------------------------------
(***************************************************************************)
(* The file-backed private validator (privval/file.go): it signs votes and *)
(* proposals, keeps the last signed height/round/step with its sign bytes  *)
(* in memory and in a state file, and may lose the process at any moment.  *)
(*                                                                         *)
(* A request is what the caller asks to have signed; its sign bytes are    *)
(* the canonical encoding, an injective function of the request, so the    *)
(* request itself stands for them.  A signature is identified with the     *)
(* sign bytes it was made from.                                            *)
(***************************************************************************)
EXTENDS Integers

CONSTANTS
    HeightRounds,       \* the <<height, round>> pairs requests are made for
    Contents,           \* the <<payload, timestamp>> pairs: the block and POL round,
                        \* and the time, of the vote or the proposal
    NoBytes             \* nil SignBytes / Signature

stepNone == 0
stepPropose == 1
stepPrevote == 2
stepPrecommit == 3
Steps == {stepNone, stepPropose, stepPrevote, stepPrecommit}

Heights == {hr[1] : hr \in HeightRounds}
Rounds == {hr[2] : hr \in HeightRounds}
Payloads == {c[1] : c \in Contents}
Timestamps == {c[2] : c \in Contents}

Requests ==
    {req \in [height : Heights, round : Rounds, step : Steps \ {stepNone},
              payload : Payloads, timestamp : Timestamps] :
        /\ <<req.height, req.round>> \in HeightRounds
        /\ <<req.payload, req.timestamp>> \in Contents}

ASSUME ConstantsAssumption ==
    /\ HeightRounds \subseteq (Nat \ {0}) \X Nat
    /\ NoBytes \notin Requests

VARIABLES
    lss,       \* pv.LastSignState of the running process
    file,      \* contents of the state file
    pending,   \* the request whose state is in memory but not yet in the file
    released   \* history: what callers send, each message with its signature

vars == <<lss, file, pending, released>>

SignStates == [height : Heights \cup {0}, round : Rounds \cup {0}, step : Steps,
               signBytes : Requests \cup {NoBytes}]

(* GenFilePV: a fresh validator, saved before it is used. *)
emptyState == [height |-> 0, round |-> 0, step |-> stepNone, signBytes |-> NoBytes]

Init ==
    /\ lss = emptyState
    /\ file = emptyState
    /\ pending = NoBytes
    /\ released = {}

(* Faulty variants, each the definition after it with one mistake. *)
RegressionIgnoringStep(req) ==
    \/ lss.height > req.height
    \/ lss.height = req.height /\ lss.round > req.round

RegressionIgnoringRound(req) ==
    \/ lss.height > req.height
    \/ lss.height = req.height /\ lss.round = req.round /\ lss.step > req.step

(* CheckHRS: the request regresses behind the last signed one ...           *)
Regression(req) ==
    \/ lss.height > req.height
    \/ /\ lss.height = req.height
       /\ \/ lss.round > req.round
          \/ lss.round = req.round /\ lss.step > req.step

(* ... or is for exactly the same height, round and step.                    *)
SameHRS(req) ==
    /\ lss.height = req.height
    /\ lss.round = req.round
    /\ lss.step = req.step

(* checkVotesOnlyDifferByTimestamp, checkProposalsOnlyDifferByTimestamp *)
OnlyDifferByTimestamp(last, req) == last = [req EXCEPT !.timestamp = last.timestamp]

(* saveSigned: the fields are set in memory first, the file follows in Save. *)
saveSigned(req) ==
    /\ lss' = [height |-> req.height, round |-> req.round, step |-> req.step,
               signBytes |-> req]
    /\ pending' = req
    /\ UNCHANGED <<file, released>>

(* The caller (defaultDecideProposal, signVote of consensus.State) gave the   *)
(* signer a copy of its message, filled in with a signature and, on reuse, an *)
(* older timestamp; it copies the signature back, and only that, and sends.   *)
send(req, filled) == released' = released \cup {[sent |-> req, signature |-> filled.signature]}

(* Faulty variant of reuseSignature: any data for the step *)
reuseForAnyData(req) ==
    /\ lss.signBytes # NoBytes
    /\ send(req, [signature |-> lss.signBytes, timestamp |-> lss.signBytes.timestamp])
    /\ UNCHANGED <<lss, file, pending>>

(* The last signature is handed out again when the sign bytes are equal or   *)
(* differ by the timestamp only, together with the last timestamp.  Any other *)
(* data for the same height/round/step is an error.                           *)
reuseSignature(req) ==
    /\ lss.signBytes # NoBytes
    /\ OnlyDifferByTimestamp(lss.signBytes, req)
    /\ send(req, [signature |-> lss.signBytes, timestamp |-> lss.signBytes.timestamp])
    /\ UNCHANGED <<lss, file, pending>>

signVote(req) ==
    /\ pending = NoBytes
    /\ req.step \in {stepPrevote, stepPrecommit}
    /\ ~Regression(req)
    /\ IF SameHRS(req) THEN reuseSignature(req) ELSE saveSigned(req)

signProposal(req) ==
    /\ pending = NoBytes
    /\ req.step = stepPropose
    /\ ~Regression(req)
    /\ IF SameHRS(req) THEN reuseSignature(req) ELSE saveSigned(req)

(* LastSignState.Save replaces the state file atomically. *)
Save ==
    /\ pending # NoBytes
    /\ file # lss
    /\ file' = lss
    /\ UNCHANGED <<lss, pending, released>>

ReturnBeforeSave ==
    /\ pending # NoBytes
    /\ send(pending, [signature |-> lss.signBytes, timestamp |-> pending.timestamp])
    /\ pending' = NoBytes
    /\ UNCHANGED <<lss, file>>

(* Only after Save does the new signature reach the caller. *)
Return ==
    /\ pending # NoBytes
    /\ file = lss
    /\ send(pending, [signature |-> lss.signBytes, timestamp |-> pending.timestamp])
    /\ pending' = NoBytes
    /\ UNCHANGED <<lss, file>>

(* The process dies at any point, a panic in Save included, and is restarted *)
(* by LoadFilePV.                                                            *)
CrashAndLoadFilePV ==
    /\ lss' = file
    /\ pending' = NoBytes
    /\ UNCHANGED <<file, released>>

Next ==
    \/ \E req \in Requests : signVote(req) \/ signProposal(req)
    \/ Save
    \/ Return
    \/ CrashAndLoadFilePV

Spec == Init /\ [][Next]_vars

-----------------------------------------------------------------------------
(* Every variable has the type of the Go field it stands for. *)
TypeOK ==
    /\ lss \in SignStates
    /\ file \in SignStates
    /\ pending \in Requests \cup {NoBytes}
    /\ released \subseteq [sent : Requests, signature : Requests]

(* a was signed at an earlier height/round/step than b, or at the same one. *)
NotAfter(a, b) ==
    \/ a.height < b.height
    \/ /\ a.height = b.height
       /\ \/ a.round < b.round
          \/ a.round = b.round /\ a.step <= b.step

SameStep(a, b) == a.height = b.height /\ a.round = b.round /\ a.step = b.step

(* The promise of the type's doc comment, "to prevent double signing": over  *)
(* any number of crashes, retries and reloads, at most one message is signed *)
(* per height, round and step.                                               *)
NoDoubleSign ==
    \A a, b \in released :
        SameStep(a.signature, b.signature) => a.signature = b.signature

(* However often a step is retried, before and after restarts, no message is *)
(* sent with a signature made for another block or another step.  More cannot *)
(* be said: the signer returns the timestamp that goes with a reused          *)
(* signature, but the callers at consensus/state.go:1016 and :1997 keep their *)
(* own, and what they then send does not verify.                              *)
SignatureIsForSentBlock ==
    \A a \in released : SameStep(a.signature, a.sent) /\ a.signature.payload = a.sent.payload

(* A signature is never known outside before the file remembers a height/    *)
(* round/step at least as high, so a restart cannot forget it.               *)
ReleasedIsDurable == \A a \in released : NotAfter(a.signature, file)

(* A new signature never goes back: it is for a height/round/step at least   *)
(* as high as every signature released before it.                            *)
SigningMovesForward ==
    [][\A new \in released' \ released :
          \A old \in released : NotAfter(old.signature, new.signature)]_vars

-----------------------------------------------------------------------------
(* The inductive invariant behind NoDoubleSign. *)

(* The fields of a sign state agree with the sign bytes it keeps. *)
StateOfBytes(s) ==
    \/ s = emptyState
    \/ s.signBytes \in Requests /\ SameStep(s, s.signBytes)

(* Between two requests memory and file agree; while one is being saved the  *)
(* file is either already equal to memory or strictly behind it.             *)
MemoryAheadOfFile ==
    /\ pending = NoBytes => file = lss
    /\ pending # NoBytes =>
         /\ lss.signBytes = pending
         /\ file = lss \/ (NotAfter(file, lss) /\ ~SameStep(file, lss))

(* Whatever was released for the step the file remembers is what it holds. *)
FileHoldsReleased ==
    \A a \in released : SameStep(a.signature, file) => a.signature = file.signBytes

Inv ==
    /\ TypeOK
    /\ StateOfBytes(lss)
    /\ StateOfBytes(file)
    /\ MemoryAheadOfFile
    /\ FileHoldsReleased
    /\ SignatureIsForSentBlock
    /\ ReleasedIsDurable
    /\ NoDoubleSign
=============================================================================
