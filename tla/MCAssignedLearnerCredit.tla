----------------------- MODULE MCAssignedLearnerCredit -----------------------
EXTENDS AssignedLearnerCredit, TLC

CONSTANTS p1, w1, w2, h1, x1, x2, t1, t2, t3

OnePolicy == {p1}
OneWorker == {w1}
TwoWorkers == {w1, w2}
OneHandler == {h1}
OnePair == {x1}
TwoPairs == {x1, x2}
OneTx == {t1}
TwoTxs == {t1, t2}
ThreeTxs == {t1, t2, t3}
UnitPrices == [x \in Pairs |-> 1]

(* Workers, pairs of equal price and transaction uuids are interchangeable.*)
MCSymmetry == Permutations(Workers) \cup Permutations(Pairs) \cup Permutations(TxIds)
=============================================================================
