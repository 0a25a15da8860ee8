# A formal model of tendermintx

TLA+ modules of the parts of tendermintx that decide whether a node is correct:
signing, counting votes, the consensus state machine, crash recovery and the
mempool. TLC checks them on small instances; TLAPS proves the most important
theorems for every value of the constants. `PROJECT.json` maps each definition
to the lines of Go it models and lists the runs, mutants, findings, hazards and
theorems.

## The system and its parts

A node takes part in a replicated state machine. In each height the validators
run rounds of *propose, prevote, precommit*; a block with precommits of more
than two thirds of the voting power in one round is final, is stored and is
executed by the application.

* **Consensus state machine** (`consensus/state.go`, `ticker.go`): one routine
  receives proposals, block parts, votes and timeouts, changes the round state
  and asks the private validator for signatures.
* **Vote sets** (`types/vote_set.go`, `consensus/types/height_vote_set.go`):
  count votes, detect conflicting ones, give the commit.
* **Private validator** (`privval/file.go`): signs, and must not sign two
  different messages for one height, round and step, across crashes.
* **Execution and stores** (`state/`, `store/`), **WAL and replay**
  (`consensus/wal.go`, `replay.go`): the order of writes, and the restart.
* **Mempool** (`mempool/`, `libs/tree/`): checks transactions with the
  application, keeps them in order of priority, tells consensus there are some.
* **Reactors** (consensus, mempool, evidence, fast sync v0/v1/v2, state sync,
  peer exchange) exchange messages over **p2p**; **application connections**
  (`abcix/client`, `proxy`), **evidence**, **light client**, **events and
  indexing**, **RPC**, **remote signer** and **libraries** make up the rest.

Every part is listed under "components" of `PROJECT.json` with its status; the
parts without a module are listed below with the plan.

## Modules

| Module | Models | Notes |
| --- | --- | --- |
| `FilePV` | `privval/file.go` | request → memory → file → return, with a crash anywhere |
| `FilePVProofs` | | inductive invariant and theorems about `FilePV` |
| `ValidatorPower` | power and quorum of a validator set | `PowerOf` is the sum of powers; any two quorums share an honest validator (`ValidatorPowerProofs`) |
| `VoteSetOps` | `types.VoteSet`, `MakeCommit`, `VerifyCommit`, `CommitToVoteSet` | operators on a vote set as a record |
| `VoteSet` | a vote set under any votes and claims | |
| `HeightVoteSetOps`, `HeightVoteSet` | `HeightVoteSet` | round tracking and peer catch-up rounds |
| `Locking` | what consensus promises of one height's votes | abstract specification, `Faulty` sign anything |
| `LockingProofs` | | agreement, validity, finality |
| `ConsensusState` | `consensus.State` and the ticker, one node, one height | refines `Locking` |
| `Recovery` | finalizeCommit, ApplyBlock, pruning, WAL, handshake, fast sync's writes | every write a step, a crash before any |
| `Mempool` | `basemempool`, `treeMempool`, the clients' callbacks, TxsAvailable | composed with the consensus steps that use it |
| `LLRB` | `libs/tree/llrb.go` | the tree itself, against a set |
| `MC*` | | instances for TLC |

How state and actions correspond to the code:

* **FilePV.** `lss` is `pv.LastSignState`, `file` the state file. `signVote` and
  `signProposal` are the two methods up to the in-memory update, `Save` the
  atomic file write, `Return` the hand-over to the caller, and `send` what the
  caller does with it: `consensus.State` copies the signature back into its own
  message, and not the timestamp. `released` therefore holds the message as sent
  and the sign bytes that its signature is for. `Reset`, an operator command, is
  left out.
* **Vote sets.** `voteSet` is a record with the fields of the struct; a vote has
  a step (height, round and type), an index, a block and a signature that is
  good or bad. `AddVote` makes the checks of `addVote` in their order and
  returns the error with the new set. In `HeightVoteSet`, `offered` and `opened`
  are history: the rounds unknown to the node that each peer named, and those
  among them that the node then tracked.
* **ConsensusState.** A handler calls one enter function after another before the
  routine takes its next message; `todo` holds the calls that remain, and each
  enter function is an action on it. `internalMsgQueue` is bounded;
  `sendInternalMessage`'s goroutines are in `senders`, so own messages may come
  out of order. `ticker` is the last timeout scheduled and whether its timer
  runs, `tocks` the timeouts that fired. Blocks are model values: whether
  `ValidateBlock` and `CheckBlock` accept one is a constant. Other validators
  and peers are the environment: votes, proposals and parts in any order, any
  number of times. Where the code asks the signer for its key before it reports a
  conflicting vote or saves a proof of lock change, the signer may fail: `report`
  then drops the evidence, and the history variable `unreported` remembers the
  vote. WAL and replay are in `Recovery`.
* **Recovery.** `store`, `stateDB`, `wal` and `app` are on disk, the rest is
  lost in a crash, as is the part of the WAL after the last fsync (any prefix of
  it survives, perhaps with a record written in part). `pc` is the next write.
  After a record written in part the search for a marker goes on, and whether it
  meets the start of a record again is left open (`realigns`).
  The application may lose commits, down to what it asked to retain.
* **Mempool.** The tree is its set of keys (`LLRB` is the tree). The local client
  calls the application in place; the socket client has queues and a routine
  that runs the callbacks. `Lock` waits for the readers as the mutex does. The
  cache drops its oldest entry when it is full; `mem.evicted` is the history of
  what it dropped. The return of `CheckTx` on a failed connection is left out: the
  node then kills itself (`killTMOnClientError` of `proxy`).

## Runs

Deadlock checking is off where a bound of the model (heights, rounds, checks)
is where behaviours end; `votes` has it on.

| Run | Instance | What it shows |
| --- | --- | --- |
| `votes` | signer: 3 height/round pairs × 3 steps, 3 contents (two differ in time only, two in payload only), up to 3 messages sent; vote set: 3 validators with power 1, 1, 2 (quorum 3), 2 blocks, nil, 2 peers, and bad votes; height vote set: 2 validators, rounds 0–4, node rounds 0–2, 2 peers | no double sign, no regression, no signature sent with another block, none before the file remembers it, whatever crashes; sums, majorities and commits are right under equivocation and claims; no majority is missed; memory and catch-up rounds are bounded; no accepted vote is lost |
| `locking` | 4 validators of power 1, one faulty that has signed everything, 3 blocks, of which two are valid, 2 rounds | the properties proved below, on an instance |
| `cs_rounds` | 3 validators (node 1, others 1 and 2), 2 rounds, 2 blocks | no panic, ever later signatures, locks and valid blocks have their polka, no wait without a timer, refines `Locking` |
| `cs_conflict` | one round with equivocation, a claim, an invalid block, failing signer and application, queue of size 1, empty blocks off, skip of timeoutCommit | equivocation is reported unless the signer fails just then, the committed block is collected and finalized |
| `cs_live` | 2 rounds, few votes, one of them may be lost | rounds end; a node in commit finalizes |
| `recovery` | 3 heights, 2 crashes, a validator change at height 1, 1 or 2 blocks retained | the node starts with its stores in step, commits once and in order, keeps what it retains; it gets on unless a crash left a torn WAL record or an application just below the pruned base |
| `mempool` | 3 transactions, pool of 2, cache of 1 (evicts) or 3 (does not), 3 checks, 2 blocks, both clients; tree with keys 1–12 | tree, map and sizes agree; committed and stale transactions that the cache has not evicted stay out; consensus is told; the tree is balanced and ordered |

The bounds let the interesting cases happen: two rounds are enough for a lock, a
later polka and an unlock; two crashes for one in the middle of a recovery from
another; three blocks for a pruned, a replayed and a new one; twelve keys for
every rotation and colour flip of insertion and deletion at two levels; three
messages sent for a first signature, its reuse and a later one; a cache of one
for a transaction that is evicted, checked again and pooled twice.
Symmetry is used in `votes` and `locking`, for validators of equal power, peers
and blocks that no other constant tells apart.
Each property has a mutant: a plausible mistake in one definition (named a
"faulty variant" in the module) under which TLC finds it violated.

Five runs state what a comment of the code says, and TLC finds a counterexample:

* `cs_finalize_doc`: "If we have the block AND +2/3 commits for it, finalize."
  `enterNewRound` has no check for the commit step: +2/3 prevotes of a later
  round take a node that waits for the block out of it, and the last part then
  finalizes nothing.
* `recovery_mock`: "mockProxyApp uses ABCIResponses to give the right results."
  It returns the transactions' results and not the validator and parameter
  updates, so a node that crashed between the application's commit and the
  saving of the state loses them.
* `recovery_repair`: "repairWalFile decodes messages from src (until the decoder
  errors) and writes them to dst." It opens its output with `os.Open`, for
  reading, and always fails: a crash that leaves a record written in part keeps
  the node from starting. `Recovers` excludes this end and no other of the WAL.
* `mempool_txs`: "Enter (!CreateEmptyBlocks): after enterNewRound(height,round),
  once txs are in the mempool". The notification for transactions that outlive a
  block is read during timeoutCommit and dropped, and the mempool sends one per
  height: the node waits with transactions in its pool until another message
  moves it on.
* `mempool_recheck`: "expected to be mutated in serial". `recheckEnd` is set
  after the requests are sent; with the socket client, answers that come in
  between are compared with the end of the previous recheck, and the mempool
  panics.

More was met while modelling and has no run of its own:

* A message sent with a reused signature keeps the caller's timestamp and does
  not verify (`consensus/state.go:1016`, `:1997`). `SignatureIsForSentBlock` says
  what is left: the signature is for the step and the block of the message.
* A transaction that the cache evicts while it is in the pool is checked and
  added a second time, and the map has only the second of its two nodes
  (`mempool/mempool.go:785`). A recheck that refuses both panics. The default
  cache is twice the size of the pool; `PoolIsConsistent`, `PoolIsCurrent`,
  `CommittedStaysOut` and `NoPanic` say for which transactions, or until when,
  they hold.
* The handshake admits an application one block below the pruned base, whose
  replay needs validators that were pruned; `HandshakeSucceeds` says that they are
  missing in no other case.
* After fast sync, or a crash between `SaveBlock` and the end-of-height record,
  the record of the last height is missing and the votes of the height in
  progress are not replayed.
* `llrb.GetNext` with a predicate goes right of a node that fails it and misses
  those on its left.

## Fairness

`cs_live`: weak fairness of the routine's own steps (a goroutine that is never
blocked for ever), of the timers, of each waiting message (Go's select picks
every ready case eventually), and of each vote and part that is not lost
(gossip sends again until the peer is known to have it). `recovery`: weak
fairness of the node's steps together, blocks decided by the network included;
nothing is assumed of signing and crashes are bounded. `mempool_txs`: weak
fairness of goroutines, answers and the consensus routine; that a block is
decided is not assumed.

## Proofs

All for any sets of validators, powers, blocks, rounds, requests.

* **`FilePVProofs`**: types, `NoDoubleSign`, `SignatureIsForSentBlock` and
  `ReleasedIsDurable`, `SigningMovesForward`. None of them is inductive. `Inv` adds
  that the step fields of memory and file are those of their sign bytes, that
  memory is the file or, while a save is pending, one step that is later, and
  that the file's sign bytes are those of every released signature for the
  file's step. `Return` then releases what the file already holds, and `Save`
  only moves the file forward.
* **`ValidatorPowerProofs`**: two quorums overlap in more than the faulty
  (`QuorumsIntersect`), from the additivity of `PowerOf`.
* **`LockingProofs`**: types, and, if less than a third of the power is faulty
  (`FaultyMinority`), `Agreement`, `Validity` and `DecisionIsFinal`. `Inv` says that
  an honest validator that precommitted a block stays locked on it, or on a later
  polka for it, unless every quorum already contains an honest validator that
  will never precommit it in that round (`NoCommit`), and that it prevotes
  accordingly. A polka for another block in a later round contains one of those
  prevotes (`LaterPolkaForbidsCommit`), which closes the induction over rounds
  without induction on data; `CommitIsUnique` follows from quorum intersection.

Assumptions: `PowerAssumption` (powers are positive, `PowerOf` is their sum,
stated by its additivity), `LockingAssumption` and `ConstantsAssumption`
(sets are what their names say), evaluated by TLC in the runs.

Only model-checked: liveness (`cs_live`, `Recovers`), that `ConsensusState`
implements `Locking`, the vote sets, recovery, the mempool, and the tree, whose
operators are recursive. Liveness, ENABLED, induction over data and recursive
operators are out of the prover's reach.

## Not modelled, and the plan

In this order; each shares a run with its neighbours where that is possible.

1. Evidence pool and reactor: pending, committed and expired evidence, amnesia
   trials; composed with `ConsensusState`'s reports.
2. Fast sync v0 (pool and requesters), v1 (state machine), v2 (scheduler and
   processor): abstract specification "blocks are applied in order and verified
   by the next commit", refinement by each.
3. Consensus reactor: peer round state and the gossip routines, with the vote
   sets; whether a peer is eventually sent what it lacks.
4. Light client (sequential, skipping, witnesses) against an abstract chain;
   state sync (snapshot pool, chunk queue, restore loop).
5. Proposer selection and validator set updates against a reference, and a proof
   of the bounds of the priorities.
6. p2p: switch, peers and reconnection, peer exchange and address book,
   multiplexed connection; concurrent list; mempool reactor and subscription.
7. Application connections (queue, flush, stop), remote signer, pubsub and
   indexing.
8. Proofs: `VoteSet` (`SumsArePower`, `Maj23IsFinal`), `Recovery`
   (`InSyncInConsensus`), the pool invariant of `Mempool`, the safety part of
   `ImplementsLocking`.

Left out for good: hashing and encoding (a hash is the identity of its content),
cryptography, RPC handlers, configuration, commands and tools, metrics and logs.
