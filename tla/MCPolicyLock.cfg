CONSTANTS
    p1 = p1
    p2 = p2
    p3 = p3
    w1 = w1
    w2 = w2
    w3 = w3
    NoLock = NoLock
    Outside = Outside
    Policies <- MCPolicies
    Workers <- MCWorkers
    SlowRequests = FALSE
SPECIFICATION FairSpec
INVARIANTS
    MutualExclusion
PROPERTIES
    LockEventuallyFree
