SPECIFICATION Spec
CONSTANTS
    None = None
    MaxEvent = 4
    MaxDrop = 2
    Unwanted = {2}
    Unkeyed = {4}
    Limit = 3
    MaxAttempts = 2
    DrainPolls = 4
    QuietPolls = 2
    SlowConnect = FALSE
INVARIANTS
    LossIsMarked
    InOrder
    LimitCountsEvents
    NothingStranded
PROPERTIES
    WatchEnds
CHECK_DEADLOCK FALSE
