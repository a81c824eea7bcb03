---------------------------- MODULE MCPolicyLock ----------------------------
(* The lock on three policies and three workers.  Policies never interact, *)
(* so more of them add only products of the same behaviours; three workers *)
(* are one more than the pair a violation of mutual exclusion needs.       *)
EXTENDS PolicyLock

CONSTANTS p1, p2, p3, w1, w2, w3

MCPolicies == {p1, p2, p3}
MCWorkers == {w1, w2, w3}
=============================================================================
