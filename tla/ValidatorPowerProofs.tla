------------------------ MODULE ValidatorPowerProofs ------------------------
(* Facts about voting power that hold for every validator set. *)
EXTENDS ValidatorPower, TLAPS

(* The power of a set is a natural number, and so is the threshold. *)
LEMMA PowerIsNat ==
    /\ \A S \in SUBSET Validators : PowerOf[S] \in Nat
    /\ TotalVotingPower \in Nat
    /\ quorum \in Nat
    /\ 3 * quorum > 2 * TotalVotingPower
    /\ 3 * quorum <= 2 * TotalVotingPower + 3
  <1>1. \A S \in SUBSET Validators : PowerOf[S] \in Nat
    BY PowerAssumption
  <1>2. TotalVotingPower \in Nat
    BY <1>1 DEF TotalVotingPower
  <1> QED
    BY <1>1, <1>2 DEF quorum

(* More validators have at least as much power. *)
LEMMA PowerIsMonotone ==
    ASSUME NEW T \in SUBSET Validators, NEW S \in SUBSET T
    PROVE  PowerOf[S] <= PowerOf[T]
  <1>1. S \cup (T \ S) = T /\ S \cap (T \ S) = {}
    OBVIOUS
  <1>2. S \in SUBSET Validators /\ T \ S \in SUBSET Validators
    OBVIOUS
  <1>3. PowerOf[T] + PowerOf[{}] = PowerOf[S] + PowerOf[T \ S]
    <2>1. \A A, B \in SUBSET Validators :
            PowerOf[A \cup B] + PowerOf[A \cap B] = PowerOf[A] + PowerOf[B]
      BY PowerAssumption
    <2>2. PowerOf[S \cup (T \ S)] + PowerOf[S \cap (T \ S)] = PowerOf[S] + PowerOf[T \ S]
      BY <1>2, <2>1
    <2> QED
      BY <1>1, <2>2
  <1>4. PowerOf[T] \in Nat /\ PowerOf[S] \in Nat /\ PowerOf[T \ S] \in Nat /\ PowerOf[{}] = 0
    BY <1>2, PowerIsNat, PowerAssumption
  <1> QED
    BY <1>3, <1>4

(* Two sets that each pass the threshold of addVerifiedVote share more than  *)
(* any set holding less than a third of the power can account for.           *)
THEOREM QuorumsIntersect ==
    ASSUME NEW S \in SUBSET Validators, NEW T \in SUBSET Validators,
           NEW F \in SUBSET Validators,
           HasQuorum(S), HasQuorum(T), 3 * PowerOf[F] < TotalVotingPower
    PROVE  \E v \in S \cap T : v \notin F
  <1> SUFFICES ASSUME S \cap T \subseteq F PROVE FALSE
    OBVIOUS
  <1>1. PowerOf[S \cup T] + PowerOf[S \cap T] = PowerOf[S] + PowerOf[T]
    BY PowerAssumption
  <1>2. PowerOf[S \cup T] <= TotalVotingPower
    BY PowerIsMonotone DEF TotalVotingPower
  <1>3. PowerOf[S \cap T] <= PowerOf[F]
    BY PowerIsMonotone
  <1>4. /\ PowerOf[S] \in Nat /\ PowerOf[T] \in Nat /\ PowerOf[F] \in Nat
        /\ PowerOf[S \cup T] \in Nat /\ PowerOf[S \cap T] \in Nat
    BY PowerIsNat
  <1>5. PowerOf[S] >= quorum /\ PowerOf[T] >= quorum
    BY DEF HasQuorum
  <1>6. 2 * quorum - TotalVotingPower <= PowerOf[F]
    BY <1>1, <1>2, <1>3, <1>4, <1>5, PowerIsNat
  <1> QED
    BY <1>4, <1>6, PowerIsNat

(* Adding validators to a quorum leaves a quorum. *)
LEMMA QuorumIsMonotone ==
    ASSUME NEW T \in SUBSET Validators, NEW S \in SUBSET T, HasQuorum(S)
    PROVE  HasQuorum(T)
  <1>1. PowerOf[S] <= PowerOf[T] /\ PowerOf[S] >= quorum
    BY PowerIsMonotone DEF HasQuorum
  <1>2. S \in SUBSET Validators
    OBVIOUS
  <1>3. PowerOf[S] \in Nat /\ PowerOf[T] \in Nat /\ quorum \in Nat
    BY <1>2, PowerIsNat
  <1> QED
    BY <1>1, <1>3 DEF HasQuorum
=============================================================================
