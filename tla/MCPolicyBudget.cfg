CONSTANTS
    p1 = p1
    p2 = p2
    w1 = w1
    w2 = w2
    x1 = x1
    x2 = x2
    x3 = x3
    t1 = t1
    t2 = t2
    a1 = a1
    l1 = l1
    l2 = l2
    g1 = g1
    NoLock = NoLock
    Outside = Outside
    NoKey = NoKey
    NoEdit = NoEdit
    NoOffer = NoOffer
    Policies <- TwoPolicies
    Workers <- TwoWorkers
    Pairs <- ThreePairs
    TxIds <- TwoTxs
    Admins <- OneAdmin
    Price <- UnitPrices
    Learner <- MemberAndStranger
    Params <- OwnParams
    Catalog <- LastInFirst
    Groups <- GroupOfFirst
    Members <- OnlyMember
    Rank <- FirstPolicyFirst
    LimitKind <- EachKind
    LearnerLimit = 1
    SpendLimit = 1
    MaxDeposits = 2
    SlowRequests = FALSE
    LateCalls = FALSE
    Overlap = FALSE
    Portal = TRUE
    CreatedActive = FALSE
    Retires = FALSE
    Lowers = FALSE
SPECIFICATION BudgetSpec
SYMMETRY MCSymmetry
INVARIANTS
    LearnerWithinLimit
    LimitsWithinDeposits
    SpendWithinDeposits
    InactiveIsUnspent
    ChargedOnce
PROPERTIES
    ImplementsPolicyLock
