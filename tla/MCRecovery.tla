----------------------------- MODULE MCRecovery -----------------------------
(* Three blocks, the first of which changes the validators, two crashes, and  *)
(* an application that asks for all, the last or the last two blocks to be    *)
(* retained.                                                                  *)
EXTENDS Recovery
=============================================================================
