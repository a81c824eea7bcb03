-------------------------- MODULE MCCheckoutSession --------------------------
(* Small instances of the checkout sessions.                               *)
EXTENDS CheckoutSession, TLC

CONSTANTS u1, u2, a, b, c, f1, f2, w1, w2

TwoUsers == {u1, u2}
ThreeSlugs == {a, b, c}
OldCustomer == {c}
TwoFlows == {f1, f2}
TwoWorkers == {w1, w2}
SameSlug == [f \in Flows |-> a]

(* Users and workers are interchangeable.                                   *)
MCSymmetry == Permutations(Users) \cup Permutations(Workers)
=============================================================================
