--------------------------- MODULE MCPolicyBudget ---------------------------
EXTENDS PolicyBudget, TLC

CONSTANTS p1, p2, w1, w2, x1, x2, x3, t1, t2, a1, l1, l2, g1

TwoPolicies == {p1, p2}
TwoWorkers == {w1, w2}
ThreePairs == {x1, x2, x3}
TwoTxs == {t1, t2}
OneAdmin == {a1}
UnitPrices == [x \in Pairs |-> 1]

(* A learner and two contents, which both policies have in their catalog,  *)
(* and a learner outside the group of the only policy with her content:    *)
(* the page offers her a policy that refuses to redeem.                    *)
MemberAndStranger == [x \in Pairs |-> IF x = x3 THEN l2 ELSE l1]
LastInFirst == [p \in Policies |-> IF p = p1 THEN Pairs ELSE {x1, x2}]
GroupOfFirst == [p \in Policies |-> IF p = p1 THEN {g1} ELSE {}]
OnlyMember == [g \in {g1} |-> {l1}]
OwnParams == [p \in Policies |-> p]
FirstPolicyFirst == [p \in Policies |-> IF p = p1 THEN 0 ELSE 1]
EachKind == [p \in Policies |-> IF p = p1 THEN "enrollments" ELSE "spend"]

(* The first two contents, the workers and the uuids are interchangeable.  *)
MCSymmetry == Permutations({x1, x2}) \cup Permutations(Workers) \cup Permutations(TxIds)
=============================================================================
