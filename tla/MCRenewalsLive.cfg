SPECIFICATION FairSpec
CONSTANTS
    w1 = w1
    w2 = w2
    f1 = f1
    f2 = f2
    f3 = f3
    p1 = p1
    p2 = p2
    p3 = p3
    a1 = a1
    NoPlan = NoPlan
    NoFlow = NoFlow
    Flows <- OneFlow
    Plans <- TwoPlans
    Emails <- OneAdmin
    Parallel = 1
    Faults = {"summary"}
    Workers <- OneWorker
    MaxEvents = 3
    MaxRuns = 2
    InOrder = FALSE
    Again = TRUE
    Graceful = TRUE
INVARIANTS
    ProcessedOnce
PROPERTIES
    RenewalIsProcessed
CHECK_DEADLOCK FALSE
