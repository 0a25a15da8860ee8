---------------------------- MODULE MCMempoolTree ----------------------------
(* The mempool, and by itself the tree it keeps its transactions in; which    *)
(* names the one that runs.                                                   *)
EXTENDS MCMempool

CONSTANTS Keys
VARIABLES root, size, ref, which

tvars == <<root, size, ref>>
T == INSTANCE LLRB

MCInit == Init /\ T!Init /\ which \in {"mempool", "tree"}
MCNext ==
    \/ which = "mempool" /\ Next /\ UNCHANGED <<tvars, which>>
    \/ which = "tree" /\ T!Next /\ UNCHANGED <<vars, which>>
MCSpec == MCInit /\ [][MCNext]_<<vars, tvars, which>>

-----------------------------------------------------------------------------
(* Insert and Remove of libs/tree keep the tree a left-leaning red-black one. *)
StaysBalanced == which = "tree" => T!StaysBalanced

(* Insert, Remove and GetNext of libs/tree are those of an ordered set.       *)
HoldsItsKeysInOrder == which = "tree" => T!HoldsItsKeysInOrder
=============================================================================
