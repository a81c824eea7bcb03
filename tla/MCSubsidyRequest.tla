--------------------------- MODULE MCSubsidyRequest ---------------------------
(* Instances of SubsidyRequest for TLC.                                    *)
EXTENDS SubsidyRequest, TLC

CONSTANTS w1, w2, l1, l2, r1, r2, r3, c1, c2

OneWorker == {w1}
TwoWorkers == {w1, w2}
OneLearner == {l1}
TwoLearners == {l1, l2}
TwoIds == {r1, r2}
ThreeIds == {r1, r2, r3}
OneChain == {c1}
TwoChains == {c1, c2}
AllOps == Kinds
Reviews == {"create", "approve", "decline", "configure"}

(* Pairs of kinds that do no harm when they run at the same time.          *)
Sharing ==
    {{"decline"}, {"create", "approve"}, {"create", "decline"},
     {"approve", "mail"}, {"decline", "mail"}, {"create", "mail"},
     {"configure", "mail"}}
NoSharing == {}

Symmetry == Permutations(TwoWorkers) \cup Permutations(TwoLearners)
            \cup Permutations(ThreeIds) \cup Permutations(TwoChains)
===============================================================================
