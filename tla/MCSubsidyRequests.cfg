SPECIFICATION Spec
CONSTANTS
    w1 = w1
    w2 = w2
    l1 = l1
    l2 = l2
    r1 = r1
    r2 = r2
    r3 = r3
    c1 = c1
    c2 = c2
    NoOne = NoOne
    Learners <- TwoLearners
    Ids <- TwoIds
    Chains <- OneChain
    Workers <- TwoWorkers
    Stock = 2
    Ops <- AllOps
    Overlap <- Sharing
    Faults = {"crash", "lost", "unheard"}
    MaxFaults = 1
SYMMETRY Symmetry
INVARIANTS
    PendingHasOneOwner
    GivenIsRecorded
    OneKindOfSubsidy
PROPERTIES
    ReminderSkipsNone
CHECK_DEADLOCK FALSE
