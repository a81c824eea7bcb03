CONSTANTS
    p1 = p1
    w1 = w1
    w2 = w2
    h1 = h1
    x1 = x1
    x2 = x2
    t1 = t1
    t2 = t2
    t3 = t3
    NoLock = NoLock
    Outside = Outside
    NoKey = NoKey
    NoTx = NoTx
    Policies <- OnePolicy
    Policy = p1
    Workers <- OneWorker
    Handlers <- OneHandler
    Pairs <- OnePair
    TxIds <- ThreeTxs
    Price <- UnitPrices
    SpendLimit = 3
    SlowRequests = TRUE
    LateCalls = TRUE
    Ops = {"cancel", "remind", "expire", "reverse", "fail", "force"}
SPECIFICATION AssignedSpec
SYMMETRY MCSymmetry
INVARIANTS
    AtMostOneLive
PROPERTIES
    ImplementsRedemption
