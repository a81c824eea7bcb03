SPECIFICATION Spec
CONSTANTS
    w1 = w1
    w2 = w2
    x1 = x1
    x2 = x2
    NoPair = NoPair
    Workers <- TwoWorkers
    Ids <- ThreeIds
    Pairs <- TwoPairs
    Limit = 1
    Ops <- AllOps
    Overlap <- Sharing
    Crashes <- Harmless
SYMMETRY Symmetry
INVARIANTS
    RequestsAgree
    RequestsWithinBudget
PROPERTIES
    ChargedWhenApproved
CHECK_DEADLOCK FALSE
