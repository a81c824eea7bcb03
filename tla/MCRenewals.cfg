SPECIFICATION Spec
CONSTANTS
    w1 = w1
    w2 = w2
    f1 = f1
    f2 = f2
    f3 = f3
    p1 = p1
    p2 = p2
    p3 = p3
    a1 = a1
    NoPlan = NoPlan
    NoFlow = NoFlow
    Flows <- TwoFlows
    Plans <- ThreePlans
    Emails <- NoAdmins
    Parallel = 1
    Faults = {"failed", "unheard", "raised"}
    Workers <- OneWorker
    MaxEvents = 4
    MaxRuns = 2
    InOrder = TRUE
    Again = FALSE
    Graceful = TRUE
SYMMETRY Symmetry
INVARIANTS
    MadeOnce
    ProcessedIsActive
PROPERTIES
    ImplementsProvisioning
CHECK_DEADLOCK FALSE
