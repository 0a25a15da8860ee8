--------------------------- MODULE ValidatorPower ---------------------------
(***************************************************************************)
(* The voting power of a validator set, as its users see it: the power of  *)
(* a set of validators, the total, and the two-thirds threshold.           *)
(***************************************************************************)
EXTENDS Integers

CONSTANTS
    Validators,     \* the validators of the set
    Power,          \* Validator.VotingPower
    PowerOf         \* the sum of the voting powers of each set of validators

(* PowerOf is the sum of Power: what one validator adds, and what follows    *)
(* from it for unions (a validator counted in both sets counts twice).       *)
ASSUME PowerAssumption ==
    /\ Power \in [Validators -> Nat \ {0}]
    /\ PowerOf \in [SUBSET Validators -> Nat]
    /\ PowerOf[{}] = 0
    /\ \A S \in SUBSET Validators : \A v \in Validators \ S :
         PowerOf[S \cup {v}] = PowerOf[S] + Power[v]
    /\ \A S, T \in SUBSET Validators :
         PowerOf[S \cup T] + PowerOf[S \cap T] = PowerOf[S] + PowerOf[T]

(* updateTotalVotingPower *)
TotalVotingPower == PowerOf[Validators]

(* the power a block needs in addVerifiedVote *)
quorum == (TotalVotingPower * 2) \div 3 + 1

HasQuorum(S) == PowerOf[S] >= quorum
=============================================================================
