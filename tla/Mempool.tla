------------------------------- MODULE Mempool -------------------------------
(***************************************************************************)
(* The mempool of a node (mempool.go and tree_mempool.go), its connection  *)
(* to the application, and what consensus and block execution do with it.  *)
(*                                                                         *)
(* With the local client the application is called in place: the callback  *)
(* of a first check runs in the goroutine of CheckTx, those of a recheck   *)
(* inside Update.  With the socket client requests and responses are       *)
(* queues, and a routine of the client runs the callbacks.                 *)
(*                                                                         *)
(* Every transaction has size 1.  The tree is its set of node keys (LLRB   *)
(* is the tree itself).  Flush, which its comment calls unsafe, the WAL    *)
(* and the filters of transaction size and gas are left out.               *)
(***************************************************************************)
EXTENDS Integers, SequencesExt

CONSTANTS
    Txs,
    Priority,           \* priority CheckTx gives each transaction
    Clients,            \* subset of {"local", "socket"}
    Size, MaxTxsBytes,  \* limits of the pool
    CacheSizes,         \* sizes of the cache
    Recheck,            \* config.Recheck
    Blocks,             \* the transactions of a block, as sequences
    MaxChecks,          \* bound: first checks
    MaxHeight           \* bound: blocks

VARIABLES
    client,
    mem,        \* basemempool and treeMempool
    requests,   \* socket client: requests without a response
    callers,    \* goroutines of CheckTx that have not come to SetCallback's end
    updater,    \* what the holder of the write lock does next
    starter,    \* the loop variable of recheckTxs
    app,        \* the height of the application's state
    step,       \* cs.Step: "NewHeight", "NewRound" (waiting for txs), "Propose"
    committed,  \* history: transactions whose last delivery had code OK
    checks

vars == <<client, mem, requests, callers, updater, starter, app, step, committed, checks>>

Nil == [tx |-> "nil", ts |-> 0]
key(tx, ts) == [tx |-> tx, ts |-> ts]

Init ==
    /\ client \in Clients
    /\ \E n \in CacheSizes :
         mem = [tree |-> {}, txsMap |-> [tx \in Txs |-> Nil], txsBytes |-> 0, cache |-> <<>>,
                cacheSize |-> n, evicted |-> {}, notified |-> FALSE, txsAvailable |-> FALSE,
                cursor |-> Nil, end |-> Nil, now |-> 1, checkedAt |-> [tx \in Txs |-> 0],
                told |-> FALSE, panic |-> FALSE]
    /\ requests = <<>> /\ callers = {}
    /\ updater = "none" /\ starter = Nil
    /\ app = 1 /\ step = "NewHeight"
    /\ committed = {} /\ checks = 0

-----------------------------------------------------------------------------
(* The tree, the map and the cache, as functions of the state m of the pool. *)

(* NodeKey.compare: higher priority, then earlier time *)
before(k, l) ==
    \/ Priority[k.tx] > Priority[l.tx]
    \/ Priority[k.tx] = Priority[l.tx] /\ k.ts < l.ts

GetNext(m, k) ==
    LET rest == IF k = Nil THEN m.tree ELSE {l \in m.tree : before(k, l)}
    IN  IF rest = {} THEN Nil ELSE CHOOSE l \in rest : \A o \in rest : o = l \/ before(l, o)

cacheRemove(m, tx) == [m EXCEPT !.cache = SelectSeq(@, LAMBDA t : t # tx)]

(* The oldest entry makes room for a new one; evicted keeps the history. *)
cachePush(m, tx) ==
    LET rest == cacheRemove(m, tx)
    IN  IF Contains(m.cache, tx) \/ Len(m.cache) < m.cacheSize
          THEN [rest EXCEPT !.cache = Append(@, tx)]
          ELSE [m EXCEPT !.cache = Append(Tail(@), tx), !.evicted = @ \cup {Head(m.cache)}]

isFull(m) == Cardinality(m.tree) >= Size \/ m.txsBytes + 1 > MaxTxsBytes

addTx(m, tx) ==
    [m EXCEPT !.tree = @ \cup {key(tx, m.now)}, !.txsMap[tx] = key(tx, m.now), !.now = @ + 1,
              !.txsBytes = @ + 1]

(* Faulty variant of updateRecheckCursor *)
updateRecheckCursorNot(m) == IF m.cursor = m.end THEN [m EXCEPT !.cursor = Nil] ELSE m

(* removeTx and its callers' update of txsBytes *)
removeTx(m, tx) ==
    IF m.txsMap[tx] = Nil THEN m
    ELSE [m EXCEPT !.tree = @ \ {m.txsMap[tx]}, !.txsMap[tx] = Nil, !.txsBytes = @ - 1,
                   !.panic = @ \/ m.txsMap[tx] \notin m.tree]

notifyTxsAvailable(m) ==
    [m EXCEPT !.panic = @ \/ m.tree = {}, !.notified = TRUE,
              !.told = @ \/ ~m.notified, !.txsAvailable = @ \/ ~m.notified]

resCbFirstTime(m, tx, res) ==
    IF res.ok /\ ~isFull(m)
    THEN notifyTxsAvailable([addTx(m, tx) EXCEPT !.checkedAt[tx] = res.at])
    ELSE cacheRemove(m, tx)

updateRecheckCursor(m) ==
    [m EXCEPT !.cursor = IF m.cursor = m.end THEN Nil ELSE GetNext(m, m.cursor)]

(* Faulty variant of resCbRecheck: what became invalid stays *)
resCbRecheckKeeping(m, tx, res) ==
    updateRecheckCursor(IF res.ok THEN [m EXCEPT !.checkedAt[tx] = res.at] ELSE m)

resCbRecheck(m, tx, res) ==
    LET checked == IF res.ok THEN [m EXCEPT !.checkedAt[tx] = res.at]
                   ELSE cacheRemove(removeTx(m, tx), tx)
        next == updateRecheckCursor(checked)
    IN  IF tx # m.cursor.tx \/ (~res.ok /\ m.txsMap[tx] = Nil) THEN [m EXCEPT !.panic = TRUE]
        ELSE IF next.cursor = Nil /\ next.tree # {} THEN notifyTxsAvailable(next) ELSE next

globalCb(m, tx, res) == IF m.cursor = Nil THEN m ELSE resCbRecheck(m, tx, res)

reqResCb(m, tx, res) ==
    IF m.cursor # Nil THEN [m EXCEPT !.panic = TRUE] ELSE resCbFirstTime(m, tx, res)

-----------------------------------------------------------------------------
(* Checking a transaction. *)

Running == ~mem.panic

answers == [ok : BOOLEAN, at : {app}]
request(kind, tx) == [kind |-> kind, tx |-> tx, answered |-> FALSE, res |-> [ok |-> FALSE, at |-> 0],
                      callback |-> FALSE]

(* goroutines that hold the read lock *)
readers == callers \cup {r \in Range(requests) : r.kind = "check" /\ ~r.callback}

(* CheckTx up to the call of the application; with the local client that call  *)
(* too.  A full pool refuses at once.  (That the connection has failed is left *)
(* out: the node then kills itself, killTMOnClientError.)                      *)
CheckTx(tx) ==
    /\ Running /\ updater = "none" /\ ~isFull(mem)
    /\ mem' = cachePush(mem, tx)
    /\ IF Contains(mem.cache, tx) THEN UNCHANGED <<requests, callers, checks>>
       ELSE /\ checks < MaxChecks
            /\ checks' = checks + 1
            /\ \/ /\ client = "local"
                  /\ \E res \in answers : callers' = callers \cup {[tx |-> tx, res |-> res]}
                  /\ UNCHANGED requests
               \/ /\ client = "socket"
                  /\ requests' = Append(requests, request("check", tx))
                  /\ UNCHANGED callers
    /\ UNCHANGED <<client, updater, starter, app, step, committed>>

(* SetCallback.  The local client's response is done and the callback runs at *)
(* once; the socket client never marks a response as done, so a callback set  *)
(* after the response is kept and not run.                                    *)
SetCallback ==
    /\ Running
    /\ \/ \E c \in callers :
            /\ callers' = callers \ {c}
            /\ mem' = IF client = "local" THEN reqResCb(mem, c.tx, c.res) ELSE mem
            /\ UNCHANGED requests
       \/ \E i \in DOMAIN requests :
            /\ requests[i].kind = "check" /\ ~requests[i].callback
            /\ requests' = [requests EXCEPT ![i].callback = TRUE]
            /\ UNCHANGED <<mem, callers>>
    /\ UNCHANGED <<client, updater, starter, app, step, committed, checks>>

(* The application behind a socket answers in order. *)
Answer ==
    /\ Running
    /\ \E i \in DOMAIN requests, res \in answers :
         /\ ~requests[i].answered
         /\ \A j \in 1..(i - 1) : requests[j].answered
         /\ requests' = [requests EXCEPT ![i].answered = TRUE, ![i].res = res]
    /\ UNCHANGED <<client, mem, callers, updater, starter, app, step, committed, checks>>

(* didRecvResponse: the global callback, then the one of the request if it is  *)
(* set by now.                                                                 *)
didRecvResponse ==
    /\ Running /\ requests # <<>> /\ Head(requests).answered
    /\ requests' = Tail(requests)
    /\ LET r == Head(requests)
           m == globalCb(mem, r.tx, r.res)
       IN  /\ mem' = IF r.callback THEN reqResCb(m, r.tx, r.res) ELSE m
           /\ callers' = IF r.kind = "check" /\ ~r.callback
                         THEN callers \cup {[tx |-> r.tx, res |-> r.res]} ELSE callers
    /\ UNCHANGED <<client, updater, starter, app, step, committed, checks>>

-----------------------------------------------------------------------------
(* Committing a block. *)

(* Faulty variant of Lock *)
LockWithReaders ==
    /\ Running /\ updater = "none" /\ step # "NewHeight" /\ app <= MaxHeight
    /\ updater' = "flush"
    /\ UNCHANGED <<client, mem, requests, callers, starter, app, step, committed, checks>>

(* Commit of BlockExecutor locks the mempool ... *)
Lock ==
    /\ Running /\ updater = "none" /\ step # "NewHeight" /\ app <= MaxHeight
    /\ readers = {}
    /\ updater' = "flush"
    /\ UNCHANGED <<client, mem, requests, callers, starter, app, step, committed, checks>>

(* Faulty variants of updateTx and updateHeight *)
updateTxNotCached(m, tx, ok) == removeTx(IF ok THEN m ELSE cacheRemove(m, tx), tx)
updateHeightNot(m) == [m EXCEPT !.told = FALSE]

(* One transaction of the block in Update *)
updateTx(m, tx, ok) == removeTx(IF ok THEN cachePush(m, tx) ELSE cacheRemove(m, tx), tx)

updateHeight(m) == [m EXCEPT !.notified = FALSE, !.told = FALSE]

(* ... waits for the responses to the requests made before, commits, and       *)
(* updates the pool up to the recheck.  good: the transactions with code OK.   *)
Update(block, good) ==
    /\ Running /\ updater = "flush" /\ requests = <<>>
    /\ app' = app + 1
    /\ committed' = (committed \ Range(block)) \cup good
    /\ LET m == FoldLeft(LAMBDA a, tx : updateTx(a, tx, tx \in good), updateHeight(mem), block)
       IN  IF m.tree # {} /\ Recheck
           THEN updater' = "recheck" /\ mem' = [m EXCEPT !.cursor = Nil]
           ELSE updater' = "none" /\ mem' = IF m.tree = {} THEN m ELSE notifyTxsAvailable(m)
    /\ starter' = Nil
    /\ step' = "NewHeight"
    /\ UNCHANGED <<client, requests, callers, checks>>

(* One turn of the loop of recheckTxs; the last one unlocks the mempool. *)
recheckTxs ==
    /\ Running /\ updater = "recheck"
    /\ LET next == GetNext(mem, starter)
           m == [mem EXCEPT !.cursor = IF @ = Nil THEN next ELSE @]
       IN  \/ /\ next = Nil
              /\ mem' = [mem EXCEPT !.end = starter]
              /\ updater' = "none"
              /\ UNCHANGED <<requests, starter>>
           \/ /\ next # Nil
              /\ starter' = next
              /\ \/ /\ client = "local"
                    /\ \E res \in answers : mem' = globalCb(m, next.tx, res)
                    /\ UNCHANGED requests
                 \/ /\ client = "socket"
                    /\ mem' = m
                    /\ requests' = Append(requests, request("recheck", next.tx))
              /\ UNCHANGED updater
    /\ UNCHANGED <<client, callers, app, step, committed, checks>>

(* CreateProposalBlock removes what the application calls invalid, under the  *)
(* lock and without a flush; a transaction not in the pool is an error.  The   *)
(* socket client has no CreateBlock.                                          *)
RemoveTxs(tx) ==
    /\ Running /\ client = "local" /\ updater = "none" /\ step = "Propose" /\ readers = {}
    /\ mem.txsMap[tx] # Nil
    /\ mem' = cacheRemove(removeTx(mem, tx), tx)
    /\ UNCHANGED <<client, requests, callers, updater, starter, app, step, committed, checks>>

-----------------------------------------------------------------------------
(* Consensus, with empty blocks off. *)

(* timeoutCommit, and enterNewRound; only height 1 does not wait. *)
enterNewRound ==
    /\ step = "NewHeight" /\ updater = "none"
    /\ step' = IF app = 1 THEN "Propose" ELSE "NewRound"
    /\ UNCHANGED <<client, mem, requests, callers, updater, starter, app, committed, checks>>

handleTxsAvailable ==
    /\ mem.txsAvailable /\ updater = "none"
    /\ mem' = [mem EXCEPT !.txsAvailable = FALSE]
    /\ step' = IF step = "NewRound" THEN "Propose" ELSE step
    /\ UNCHANGED <<client, requests, callers, updater, starter, app, committed, checks>>

UpdateStep == recheckTxs \/ \E block \in Blocks : \E good \in SUBSET Range(block) : Update(block, good)

Next ==
    \/ \E tx \in Txs : CheckTx(tx) \/ RemoveTxs(tx)
    \/ SetCallback \/ Answer \/ didRecvResponse
    \/ Lock \/ UpdateStep
    \/ enterNewRound \/ handleTxsAvailable

Spec == Init /\ [][Next]_vars

(* Goroutines go on, the application answers, the receive routine of consensus *)
(* takes what is in the channel.  That a block is decided is not assumed: with *)
(* every proposer waiting for transactions, none may come.                     *)
FairSpec ==
    /\ Spec
    /\ WF_vars(SetCallback) /\ WF_vars(Answer) /\ WF_vars(didRecvResponse)
    /\ WF_vars(UpdateStep) /\ WF_vars(enterNewRound) /\ WF_vars(handleTxsAvailable)

-----------------------------------------------------------------------------
pooled == {k.tx : k \in mem.tree}
rechecking == updater # "none" \/ mem.cursor # Nil \/ \E r \in Range(requests) : r.kind = "recheck"

(* txsBytes is the size of what is in the tree and the map points into it,     *)
(* whatever the cache forgets; and a transaction that the cache has not        *)
(* evicted is in the tree once, where the map has it, so that one removal      *)
(* removes it.  One that was evicted while it was in the pool is checked and   *)
(* added a second time, and only one of its two nodes is in the map.           *)
PoolIsConsistent ==
    /\ mem.txsBytes = Cardinality(mem.tree)
    /\ {mem.txsMap[tx] : tx \in Txs} \ {Nil} \subseteq mem.tree
    /\ \A k \in mem.tree : k.tx \in mem.evicted \/ k = mem.txsMap[k.tx]

(* A transaction that was committed does not come back while the cache         *)
(* remembers it, whoever sent it and whenever its check was under way: it      *)
(* would be proposed a second time.                                            *)
CommittedStaysOut == pooled \cap committed \subseteq mem.evicted

(* After a recheck every transaction in the pool that the cache has not        *)
(* evicted has been accepted by the application in its latest state: no answer *)
(* of before the commit is used after it.  (Local client.)                     *)
PoolIsCurrent ==
    client = "local" /\ Recheck /\ ~rechecking =>
        \A tx \in pooled \ mem.evicted : mem.checkedAt[tx] = app

(* "fires once for every height, and only when transactions are available": a  *)
(* pool that is not empty has notified consensus since the last block.         *)
NotifiedWhenTxs == Running /\ pooled # {} /\ ~rechecking => mem.told

(* None of the panics of the callbacks can happen with the local client, as    *)
(* long as the cache has evicted nothing.                                      *)
NoPanic == client = "local" /\ mem.evicted = {} => ~mem.panic

(* ... nor with any other: "this should never happen" (reqResCb).              *)
NeverPanics == ~mem.panic

(* "To configure Tendermint to not produce empty blocks unless there are       *)
(* transactions": a node that waits for transactions proposes when the pool    *)
(* has some.                                                                   *)
TxsAreProposed == step = "NewRound" /\ pooled # {} ~> step # "NewRound" \/ pooled = {}
=============================================================================
