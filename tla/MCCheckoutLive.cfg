CONSTANTS
    u1 = u1
    u2 = u2
    a = a
    b = b
    f1 = f1
    f2 = f2
    w1 = w1
    w2 = w2
    NoSlug = NoSlug
    NoFlow = NoFlow
    Users <- OneUser
    Slugs <- OneSlug
    Flows <- OneFlow
    Workers <- TwoWorkers
    SlugOf <- SameSlug
    Overlap = TRUE
    Kinds = {"patch", "admin"}
SPECIFICATION FairSpec
PROPERTIES
    LapsedIsReleased
    StalledIsReported
