------------------------------ MODULE Recovery ------------------------------
(***************************************************************************)
(* What survives a crash of a node and how it starts again: the block      *)
(* store, the state database, the consensus write-ahead log (WAL) and the  *)
(* application, the order in which finalizeCommit, ApplyBlock and the      *)
(* pruning write to them, and the handshake, fast sync and WAL replay of a *)
(* restart.                                                                *)
(*                                                                         *)
(* Every write to disk is a step of its own, and Crash may come before     *)
(* any of them.  A block is its height: the blocks of the chain are        *)
(* decided by all, so replay meets the same ones.                          *)
(***************************************************************************)
EXTENDS Integers, Sequences, FiniteSets

CONSTANTS
    MaxHeight,      \* bound: blocks of the chain
    MaxCrashes,     \* bound: crashes
    UpdateHeights,  \* blocks whose DeliverBlock response changes the validators
    Retained        \* the number of blocks the application asks to retain, each time

VARIABLES
    \* on disk
    store,      \* block store: base, height, and the heights whose block is there
    stateDB,    \* state store: height and changes of the last state saved, ...
    wal,        \* consensus WAL: records, and how many of them are fsynced
    app,        \* application: last committed height, and the last height to retain
    \* in memory
    pc,         \* the next step
    phase,      \* who applies blocks: "handshake", "fastsync", "replay", "consensus"
    mockApp,    \* the block is replayed with the stored responses
    csHeight,   \* cs.Height
    locked,     \* consensus has processed its own precommit of csHeight
    pos,        \* position of catchupReplay in the WAL
    retain,     \* the retain height of the block being applied, 0 for none
    pruneFrom,  \* base of the block store before it was pruned
    crashes

disk == <<store, stateDB, wal, app>>
vars == <<disk, pc, phase, mockApp, csHeight, locked, pos, retain, pruneFrom, crashes>>

Heights == 1..MaxHeight
EndHeight(h) == [type |-> "end", height |-> h]
OwnVote(h) == [type |-> "own", height |-> h]        \* own precommit (fsynced)
Decision(h) == [type |-> "peer", height |-> h]      \* the peers' messages that decide h
Torn == [type |-> "torn", height |-> 0]             \* a record written in part

(* Where the node stops for good. *)
HeightFailures ==
    {"app too low", "app too high", "state ahead", "store ahead", "no responses",
     "no block", "not contiguous", "invalid block"}
Failures == HeightFailures \cup {"no validators", "repair failed"}

Steps ==
    {"down", "handshake", "replayBlocks", "exec", "saveResponses", "commit", "saveValidators",
     "saveState", "boot", "fastsync", "catchup", "consensus", "saveBlock", "saveStoreState",
     "endHeight", "pruneStore", "deleteBlocks", "pruneStates", "newHeight"}

(* MakeGenesisState and SaveState: the validators of height 1 are stored,    *)
(* those of height 2 point to them.  The first record of a WAL is            *)
(* #ENDHEIGHT 0.                                                             *)
Init ==
    /\ store = [base |-> 0, height |-> 0, blocks |-> {}]
    /\ stateDB = [height |-> 0, changes |-> {}, responses |-> {},
                  vals |-> [h \in 1..(MaxHeight + 2) |-> IF h <= 2 THEN 1 ELSE 0]]
    /\ wal = [log |-> <<EndHeight(0)>>, synced |-> 1]
    /\ app = [height |-> 0, retain |-> 0]
    /\ pc = "handshake" /\ phase = "handshake" /\ mockApp = FALSE
    /\ csHeight = 1 /\ locked = FALSE /\ pos = 0
    /\ retain = 0 /\ pruneFrom = 0 /\ crashes = 0

(* LastHeightValidatorsChanged after the blocks that changed the validators *)
lastChanged(changes) ==
    LET heights == {h + 2 : h \in changes} \cup {1}
    IN  CHOOSE h \in heights : \A k \in heights : k <= h

(* LoadValidators: vals[h] is h where the set itself is stored, the height it *)
(* was last changed otherwise, and 0 where there is no entry.  (The           *)
(* checkpoints every 100000 blocks are beyond the heights of the model.)      *)
LoadValidators(vals, h) == vals[h] # 0 /\ vals[vals[h]] = vals[h]

-----------------------------------------------------------------------------
(* Writing. *)

AppendWAL(rec) == [wal EXCEPT !.log = Append(@, rec)]
WriteSync(rec) == [log |-> Append(wal.log, rec), synced |-> Len(wal.log) + 1]

goto(step) ==
    /\ pc' = step
    /\ UNCHANGED <<phase, mockApp, csHeight, locked, pos, retain, pruneFrom, crashes>>

(* processFlushTicks *)
FlushTick ==
    /\ pc \notin Failures \cup {"down"}
    /\ wal.synced < Len(wal.log)
    /\ wal' = [wal EXCEPT !.synced = Len(wal.log)]
    /\ UNCHANGED <<store, stateDB, app, pc, phase, mockApp, csHeight, locked, pos, retain,
                   pruneFrom, crashes>>

(* The node handles its own precommit: WriteSync first. *)
signPrecommit ==
    /\ pc = "consensus" /\ ~locked /\ csHeight <= MaxHeight
    /\ wal' = WriteSync(OwnVote(csHeight))
    /\ locked' = TRUE
    /\ UNCHANGED <<store, stateDB, app, pc, phase, mockApp, csHeight, pos, retain, pruneFrom,
                   crashes>>

(* The last of the peers' messages that decide the height (Write, no fsync). *)
decide ==
    /\ pc = "consensus" /\ csHeight <= MaxHeight
    /\ wal' = AppendWAL(Decision(csHeight))
    /\ UNCHANGED <<store, stateDB, app>>
    /\ goto("saveBlock")

(* finalizeCommit saves the block unless the store has it (in replay); fast   *)
(* sync always saves.                                                         *)
blockHeight == IF phase = "handshake" THEN store.height ELSE stateDB.height + 1

saveBlock ==
    /\ pc = "saveBlock"
    /\ IF phase # "fastsync" /\ store.height >= blockHeight
         THEN goto("endHeight") /\ UNCHANGED store
       ELSE IF store.base > 0 /\ blockHeight # store.height + 1
         THEN goto("not contiguous") /\ UNCHANGED store
       ELSE goto("saveStoreState") /\ store' = [store EXCEPT !.blocks = @ \cup {blockHeight}]
    /\ UNCHANGED <<stateDB, wal, app>>

saveStoreState ==
    /\ pc = "saveStoreState"
    /\ store' = [store EXCEPT !.height = blockHeight, !.base = IF @ = 0 THEN blockHeight ELSE @]
    /\ UNCHANGED <<stateDB, wal, app>>
    /\ goto(IF phase = "fastsync" THEN "exec" ELSE "endHeight")

endHeight ==
    /\ pc = "endHeight"
    /\ wal' = WriteSync(EndHeight(csHeight))
    /\ UNCHANGED <<store, stateDB, app>>
    /\ goto("exec")

-----------------------------------------------------------------------------
(* ApplyBlock of blockHeight, for finalizeCommit, fast sync and replayBlock.  *)

(* ValidateBlock, and execBlockOnProxyApp, which needs the validators of the  *)
(* height before.                                                             *)
exec ==
    /\ pc = "exec"
    /\ goto(CASE blockHeight # stateDB.height + 1 -> "invalid block"
              [] blockHeight \notin store.blocks -> "no block"
              [] blockHeight > 1 /\ ~LoadValidators(stateDB.vals, blockHeight - 1) -> "no validators"
              [] OTHER -> "saveResponses")
    /\ UNCHANGED disk

(* Faulty variant: the responses are not saved before the commit. *)
saveResponsesNot ==
    /\ pc = "saveResponses"
    /\ UNCHANGED disk
    /\ goto("commit")

saveResponses ==
    /\ pc = "saveResponses"
    /\ stateDB' = [stateDB EXCEPT !.responses = @ \cup {blockHeight}]
    /\ UNCHANGED <<store, wal, app>>
    /\ goto("commit")

(* The retain height in the application's response to Commit of h. *)
retainHeights(h) == {IF h < k THEN 0 ELSE h - k + 1 : k \in Retained} \cup {0}

appCommit(h, r) == [height |-> h, retain |-> IF r > app.retain THEN r ELSE app.retain]

commit ==
    /\ pc = "commit"
    /\ \E r \in IF mockApp THEN {0} ELSE retainHeights(blockHeight) :
         /\ app' = IF mockApp THEN app ELSE appCommit(blockHeight, r)
         /\ retain' = r
    /\ pc' = "saveValidators"
    /\ UNCHANGED <<store, stateDB, wal, phase, mockApp, csHeight, locked, pos, pruneFrom, crashes>>

(* updateState: the changes of the response.  The mock application's response *)
(* has the results of the transactions and nothing else.                      *)
newChanges ==
    stateDB.changes \cup (IF mockApp THEN {} ELSE UpdateHeights \cap {blockHeight})

(* SaveState: the validators of the height after the next, ... *)
saveValidators ==
    /\ pc = "saveValidators"
    /\ stateDB' = [stateDB EXCEPT !.vals[blockHeight + 2] = lastChanged(newChanges)]
    /\ UNCHANGED <<store, wal, app>>
    /\ goto("saveState")

(* ... then the state. *)
saveState ==
    /\ pc = "saveState"
    /\ stateDB' = [stateDB EXCEPT !.height = blockHeight, !.changes = newChanges]
    /\ UNCHANGED <<store, wal, app, phase, csHeight, locked, pos, retain, pruneFrom, crashes>>
    /\ mockApp' = FALSE
    /\ pc' = CASE phase = "handshake" -> "boot"
               [] phase = "fastsync" -> "fastsync"
               [] OTHER -> "pruneStore"

-----------------------------------------------------------------------------
(* pruneBlocks: PruneBlocks saves the new base, deletes the blocks below it,  *)
(* and PruneStates deletes the states.                                        *)
pruneStore ==
    /\ pc = "pruneStore"
    /\ IF retain <= store.base
         THEN pc' = "newHeight" /\ UNCHANGED <<store, pruneFrom>>
         ELSE /\ pc' = "deleteBlocks"
              /\ pruneFrom' = store.base
              /\ store' = [store EXCEPT !.base = retain]
    /\ UNCHANGED <<stateDB, wal, app, phase, mockApp, csHeight, locked, pos, retain, crashes>>

deleteBlocks ==
    /\ pc = "deleteBlocks"
    /\ store' = [store EXCEPT !.blocks = {h \in @ : h >= retain}]
    /\ UNCHANGED <<stateDB, wal, app>>
    /\ goto("pruneStates")

(* Faulty variant of PruneStates: the entry that others point to is deleted. *)
PruneStatesAll(db, from, to) ==
    [db EXCEPT !.vals = [h \in DOMAIN @ |-> IF h \in from..(to - 1) THEN 0 ELSE @[h]],
               !.responses = @ \ (from..(to - 1))]

(* PruneStates keeps the entry that the entry of height to points to. *)
PruneStates(db, from, to) ==
    LET keep == IF db.vals[to] = to THEN {} ELSE {db.vals[to]}
        pruned == (from..(to - 1)) \ keep
    IN  [db EXCEPT !.vals = [h \in DOMAIN @ |-> IF h \in pruned THEN 0 ELSE @[h]],
                   !.responses = @ \ (from..(to - 1))]

pruneStates ==
    /\ pc = "pruneStates"
    /\ stateDB' = PruneStates(stateDB, pruneFrom, retain)
    /\ UNCHANGED <<store, wal, app>>
    /\ goto("newHeight")

(* updateToState *)
newHeight ==
    /\ pc = "newHeight"
    /\ csHeight' = stateDB.height + 1
    /\ locked' = FALSE
    /\ pc' = IF phase = "replay" THEN "catchup" ELSE "consensus"
    /\ retain' = 0 /\ pruneFrom' = 0
    /\ UNCHANGED <<disk, phase, mockApp, pos, crashes>>

-----------------------------------------------------------------------------
(* Crash and restart. *)

(* What can be left of the WAL: at least what was fsynced; the buffer may     *)
(* have been written up to the middle of a record.                            *)
walsAfterCrash ==
    LET kept(n) == SubSeq(wal.log, 1, n)
        whole == {kept(n) : n \in wal.synced..Len(wal.log)}
        torn == {Append(kept(n), Torn) : n \in wal.synced..(Len(wal.log) - 1)}
    IN  {[log |-> log, synced |-> Len(log)] : log \in whole \cup torn}

(* The application may have lost its last commits, but no block that it did   *)
(* not ask to retain.                                                         *)
appsAfterCrash ==
    {[app EXCEPT !.height = h] : h \in {k \in 0..app.height : k >= app.retain - 1}}

Crash ==
    /\ pc \notin Failures \cup {"down"}
    /\ crashes < MaxCrashes
    /\ crashes' = crashes + 1
    /\ wal' \in walsAfterCrash
    /\ app' \in appsAfterCrash
    /\ pc' = "down"
    /\ locked' = FALSE /\ pos' = 0 /\ retain' = 0 /\ pruneFrom' = 0 /\ mockApp' = FALSE
    /\ UNCHANGED <<store, stateDB, phase, csHeight>>

restart ==
    /\ pc = "down"
    /\ pc' = "handshake" /\ phase' = "handshake"
    /\ UNCHANGED <<disk, mockApp, csHeight, locked, pos, retain, pruneFrom, crashes>>

(* Faulty variant of replayStep: the state's height does not count. *)
replayStepIgnoringState(a, s, t) ==
    CASE s = 0 -> "boot"
      [] a < store.base - 1 -> "app too low"
      [] s < a -> "app too high"
      [] a < s -> "replayBlocks"
      [] OTHER -> "boot"

(* ReplayBlocks, for the heights of the application, the store and the state. *)
replayStep(a, s, t) ==
    CASE s = 0 -> "boot"
      [] a < store.base - 1 -> "app too low"
      [] s < a -> "app too high"
      [] s < t -> "state ahead"
      [] s > t + 1 -> "store ahead"
      [] s = t /\ a = s -> "boot"
      [] s = t + 1 /\ a = t -> "exec"
      [] s = t + 1 /\ a = s /\ s \notin stateDB.responses -> "no responses"
      [] s = t + 1 /\ a = s -> "exec"
      [] OTHER -> "replayBlocks"

(* Faulty variant: the last block is always replayed with the real application. *)
ReplayBlocksWithRealApp ==
    /\ pc = "handshake"
    /\ pc' = replayStep(app.height, store.height, stateDB.height)
    /\ UNCHANGED <<disk, phase, mockApp, csHeight, locked, pos, retain, pruneFrom, crashes>>

ReplayBlocks ==
    /\ pc = "handshake"
    /\ pc' = replayStep(app.height, store.height, stateDB.height)
    /\ mockApp' = (pc' = "exec" /\ app.height = store.height)
    /\ UNCHANGED <<disk, phase, csHeight, locked, pos, retain, pruneFrom, crashes>>

(* replayBlocks: ExecCommitBlock for every block the application lacks, up to *)
(* the state's height; the block that the state lacks too goes through        *)
(* ApplyBlock.                                                                *)
replayBlocks ==
    /\ pc = "replayBlocks"
    /\ LET h == app.height + 1
       IN  IF h > stateDB.height
             THEN /\ goto(IF store.height > stateDB.height THEN "exec" ELSE "boot")
                  /\ UNCHANGED app
           ELSE IF h \notin store.blocks
             THEN goto("no block") /\ UNCHANGED app
           ELSE IF h > 1 /\ ~LoadValidators(stateDB.vals, h - 1)
             THEN goto("no validators") /\ UNCHANGED app
           ELSE /\ UNCHANGED <<pc, phase, mockApp, csHeight, locked, pos, retain, pruneFrom, crashes>>
                /\ \E r \in retainHeights(h) : app' = appCommit(h, r)
    /\ UNCHANGED <<store, stateDB, wal>>

(* After the handshake the node starts fast sync, if so configured. *)
startFastSync ==
    /\ pc = "boot"
    /\ pc' = "fastsync" /\ phase' = "fastsync"
    /\ csHeight' = stateDB.height + 1
    /\ UNCHANGED <<disk, mockApp, locked, pos, retain, pruneFrom, crashes>>

(* poolRoutine: SaveBlock and ApplyBlock, without the WAL. *)
syncBlock ==
    /\ pc = "fastsync"
    /\ stateDB.height < MaxHeight
    /\ UNCHANGED disk
    /\ goto("saveBlock")

(* SwitchToConsensus after blocks were synced skips the replay of the WAL. *)
switchToConsensus ==
    /\ pc = "fastsync"
    /\ stateDB.height >= csHeight
    /\ pc' = "consensus" /\ phase' = "consensus"
    /\ csHeight' = stateDB.height + 1
    /\ retain' = 0
    /\ UNCHANGED <<disk, mockApp, locked, pos, pruneFrom, crashes>>

-----------------------------------------------------------------------------
(* OnStart and catchupReplay. *)

(* SearchForEndHeight: the position of the marker, 0 if not found.  It goes   *)
(* on after a torn record; whether it meets the start of a record again       *)
(* depends on the bytes.                                                      *)
SearchForEndHeight(h, realigns) ==
    LET readable(n) == realigns \/ \A k \in 1..n : wal.log[k] # Torn
        found == {n \in 1..Len(wal.log) : wal.log[n] = EndHeight(h) /\ readable(n)}
    IN  IF found = {} THEN 0 ELSE CHOOSE n \in found : \A k \in found : n <= k

(* Faulty variant: OnStart returns the error of catchupReplay. *)
onStartNeedsMarker ==
    /\ \/ pc = "boot"
       \/ pc = "fastsync" /\ stateDB.height < csHeight
    /\ csHeight' = stateDB.height + 1
    /\ \E realigns \in BOOLEAN :
         LET last == SearchForEndHeight(csHeight' - 1, realigns)
         IN  IF SearchForEndHeight(csHeight', realigns) = 0 /\ last # 0
               THEN pc' = "catchup" /\ phase' = "replay" /\ pos' = last + 1
               ELSE pc' = "no marker" /\ UNCHANGED <<phase, pos>>
    /\ retain' = 0
    /\ UNCHANGED <<disk, mockApp, locked, pruneFrom, crashes>>

(* Without the marker of the last height, or with that of this height, the    *)
(* error is logged and consensus starts without replay.                       *)
onStart ==
    /\ \/ pc = "boot"
       \/ pc = "fastsync" /\ stateDB.height < csHeight
    /\ csHeight' = stateDB.height + 1
    /\ \E realigns \in BOOLEAN :
         LET last == SearchForEndHeight(csHeight' - 1, realigns)
         IN  IF SearchForEndHeight(csHeight', realigns) = 0 /\ last # 0
               THEN pc' = "catchup" /\ phase' = "replay" /\ pos' = last + 1
               ELSE pc' = "consensus" /\ phase' = "consensus" /\ pos' = 0
    /\ retain' = 0
    /\ UNCHANGED <<disk, mockApp, locked, pruneFrom, crashes>>

(* repairWalFile opens the file it is to rewrite with os.Open, for reading:   *)
(* the first record cannot be written and OnStart returns the error.          *)
repairWalFile == "repair failed"

(* One record of the WAL. *)
replayRecord ==
    /\ pc = "catchup"
    /\ pos <= Len(wal.log)
    /\ LET rec == wal.log[pos]
       IN  /\ locked' = (locked \/ rec = OwnVote(csHeight))
           /\ pc' = CASE rec = Torn -> repairWalFile
                      [] rec = Decision(csHeight) -> "saveBlock"
                      [] OTHER -> "catchup"
    /\ pos' = pos + 1
    /\ UNCHANGED <<disk, phase, mockApp, csHeight, retain, pruneFrom, crashes>>

replayDone ==
    /\ pc = "catchup"
    /\ pos > Len(wal.log)
    /\ pc' = "consensus" /\ phase' = "consensus" /\ pos' = 0
    /\ UNCHANGED <<disk, mockApp, csHeight, locked, retain, pruneFrom, crashes>>

Finalize == saveBlock \/ saveStoreState \/ endHeight
ApplyBlock == exec \/ saveResponses \/ commit \/ saveValidators \/ saveState
Prune == pruneStore \/ deleteBlocks \/ pruneStates
Start ==
    restart \/ ReplayBlocks \/ replayBlocks \/ onStart \/ replayRecord \/ replayDone
FastSync == startFastSync \/ syncBlock \/ switchToConsensus

(* The steps of the node, and a consensus that decides. *)
Progress == Finalize \/ ApplyBlock \/ Prune \/ newHeight \/ Start \/ FastSync \/ decide

Next == Progress \/ signPrecommit \/ FlushTick \/ Crash

Spec == Init /\ [][Next]_vars

(* The node runs and its peers bring it blocks, votes or the end of fast      *)
(* sync; it is under no obligation to sign.                                   *)
FairSpec == Spec /\ WF_vars(Progress)

-----------------------------------------------------------------------------
(* Whatever the crashes, and however far the application falls back within   *)
(* the blocks it asked to retain, the handshake finds heights it can deal    *)
(* with and every block and response it needs: none of the panics and errors *)
(* of ReplayBlocks and SaveBlock about heights is reached, and validators    *)
(* are missing only to an application left just below the base.              *)
HandshakeSucceeds ==
    /\ pc \notin HeightFailures
    /\ pc = "no validators" => store.base > 1 /\ app.height = store.base - 1

(* When the node takes part in consensus at a height, the store, the state   *)
(* and the application all have the block before it, and no more.            *)
InSyncInConsensus ==
    pc \in {"consensus", "catchup"} =>
        /\ store.height = csHeight - 1
        /\ stateDB.height = csHeight - 1
        /\ app.height = csHeight - 1

(* The application commits the blocks in order and each of them once, except *)
(* for those it has lost itself: replay with the mock application and the    *)
(* real one never executes a block twice or skips one.                       *)
CommitsOnceInOrder ==
    [][/\ app.height' > app.height => app.height' = app.height + 1
       /\ pc = "commit" /\ pc' # "down" => mockApp \/ app.height = blockHeight - 1]_vars

(* After pruning, interrupted or not, the blocks from the base on are there  *)
(* and so are the validators that voted on them.                             *)
RetainedIsComplete ==
    \A h \in 1..store.height :
        h >= store.base =>
            h \in store.blocks /\ (h <= stateDB.height => LoadValidators(stateDB.vals, h))

(* Two things a crash may leave behind that the node does not get over: a    *)
(* record of the WAL written in part, and an application whose last block is *)
(* the one before the base.                                                  *)
TornRecord == \E n \in 1..Len(wal.log) : wal.log[n] = Torn
AppBelowBase == store.base > 1 /\ app.height = store.base - 1

(* After crashes between any two writes the node starts, with or without the *)
(* marker of its last height in the WAL, and gets to the end of the chain by *)
(* consensus or fast sync, unless a crash has left one of those two.         *)
Recovers == <>(stateDB.height = MaxHeight \/ (pc = "down" /\ (TornRecord \/ AppBelowBase)))

(* A damaged WAL does not keep the node from starting: OnStart writes the    *)
(* records that repairWalFile can decode to a new file and replays that.     *)
WALIsRepaired == pc # "repair failed"

(* mockProxyApp "uses ABCIResponses to give the right results": the state    *)
(* after the replay of a block is the state without the crash.               *)
ChangesApplied == stateDB.changes = UpdateHeights \cap (1..stateDB.height)
=============================================================================
