--------------------------- MODULE MCLearnerPortal ---------------------------
EXTENDS LearnerPortal

CONSTANTS c1, c2, x

OneCustomer == {c1}
TwoCustomers == {c1, c2}
OneCourse == {x}

(* The first licence does not cover the course, and the last one is for    *)
(* whoever has none.                                                       *)
TwoLicenses == {1, 2}
ThreeLicenses == {1, 2, 3}
OfFirst == [l \in Licenses |-> c1]
OnlyLater == [l \in Licenses |-> IF l = 1 THEN {} ELSE Courses]
Last == {CHOOSE l \in Licenses : \A m \in Licenses : m <= l}
None == {}
=============================================================================
