CONSTANTS
    u1 = u1
    u2 = u2
    a = a
    b = b
    c = c
    f1 = f1
    f2 = f2
    w1 = w1
    w2 = w2
    NoSlug = NoSlug
    NoFlow = NoFlow
    NoSession = NoSession
    Users <- TwoUsers
    Slugs <- ThreeSlugs
    Customers <- OldCustomer
    Flows <- TwoFlows
    Workers <- TwoWorkers
    SlugOf <- SameSlug
    Overlap = FALSE
    Kinds = {}
    Apart = TRUE
    Tabs = FALSE
    BareSlugs = FALSE
SPECIFICATION SessionSpec
SYMMETRY MCSymmetry
INVARIANTS
    SlugPaidOnce
    NobodyTakesOver
    PaidSessionIsRecorded
    FulfilledByWorkflow
CHECK_DEADLOCK FALSE
