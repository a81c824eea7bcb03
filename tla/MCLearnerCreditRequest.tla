---------------------- MODULE MCLearnerCreditRequest ----------------------
(* Instances of LearnerCreditRequest for TLC.                              *)
EXTENDS LearnerCreditRequest, TLC

CONSTANTS w1, w2, x1, x2

TwoWorkers == {w1, w2}
OnePair == {x1}
TwoPairs == {x1, x2}
TwoIds == 1 .. 2
ThreeIds == 1 .. 3
AllOps == Kinds
NoOps == {}

(* Kinds that may share a pair with each other and nothing goes wrong.     *)
Sharing == {"create", "cancel", "reverse"}

(* Kinds whose process may die and nothing goes wrong: those that write one*)
(* table only.                                                             *)
Harmless == {"create", "cancel", "decline"}

Symmetry == Permutations(TwoWorkers) \cup Permutations(TwoPairs)
============================================================================
