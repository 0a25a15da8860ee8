------------------------------ MODULE MCLocking ------------------------------
(* Four validators of equal power, one of them faulty.  The faulty one has   *)
(* signed everything from the start: a vote more only enables more steps.    *)
EXTENDS Locking, FiniteSets, TLC

MCPower == [v \in Validators |-> 1]
MCPowerOf == [S \in SUBSET Validators |-> Cardinality(S)]
MCSymmetry == Permutations(Honest) \cup Permutations(ValidBlocks)

ASSUME FaultyMinority

MCInit ==
    /\ round = [v \in Honest |-> 0]
    /\ lockedRound = [v \in Honest |-> -1]
    /\ lockedBlock = [v \in Honest |-> NilID]
    /\ prevotes = Faulty \X Rounds \X BlockIDs
    /\ precommits = Faulty \X Rounds \X BlockIDs
    /\ decision = [v \in Honest |-> NilID]

MCSpec == MCInit /\ [][Next]_vars
=============================================================================
