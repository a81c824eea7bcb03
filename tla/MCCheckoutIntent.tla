-------------------------- MODULE MCCheckoutIntent --------------------------
(* Small instances of the checkout intents.                                *)
EXTENDS CheckoutIntent, TLC

CONSTANTS u1, u2, a, b, f1, f2, w1, w2

OneUser == {u1}
TwoUsers == {u1, u2}
OneSlug == {a}
TwoSlugs == {a, b}
OneFlow == {f1}
TwoFlows == {f1, f2}
OneWorker == {w1}
TwoWorkers == {w1, w2}
SameSlug == [f \in Flows |-> a]
OwnSlugs == [f \in Flows |-> IF f = f1 THEN a ELSE b]

(* Users and workers are interchangeable; workflows are told apart by slug.*)
MCSymmetry == Permutations(Users) \cup Permutations(Workers)
=============================================================================
