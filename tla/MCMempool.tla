------------------------------ MODULE MCMempool ------------------------------
(* Two transactions of the same priority and one of a lower one. *)
EXTENDS Mempool

CONSTANTS a, b, c

MCPriority == [tx \in Txs |-> IF tx = c THEN 1 ELSE 2]
MCBlocks == {<<>>, <<a>>, <<b, c>>}
=============================================================================
