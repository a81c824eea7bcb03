SPECIFICATION FairSpec
CONSTANTS
    MaxEnds = 2
    MaxQueued = 1
INVARIANTS
    ToldBeforeCleared
    AcknowledgedAfresh
PROPERTIES
    NoticesSettle
CHECK_DEADLOCK FALSE
