------------------------------- MODULE MCRenewal -------------------------------
(* Instances of Renewal for TLC.                                           *)
EXTENDS Renewal, TLC

CONSTANTS w1, w2, f1, f2, f3, p1, p2, p3, a1

OneWorker == {w1}
TwoWorkers == {w1, w2}
OneFlow == {f1}
TwoFlows == {f1, f2}
ThreeFlows == {f1, f2, f3}
TwoPlans == {p1, p2}
ThreePlans == {p1, p2, p3}
OneAdmin == {a1}
NoAdmins == {}

Symmetry == Permutations(ThreeFlows) \cup Permutations(ThreePlans)
===============================================================================
