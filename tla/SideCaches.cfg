SPECIFICATION Spec
CONSTANTS
    Process = {p1, p2}
    Works <- AllWorks
    Prefix = {INC, ABC}
    Table = {t1, t2}
    INC = INC
    ABC = ABC
    t1 = t1
    t2 = t2
    Builtin <- BuiltinMap
    Owners <- InitialOwners
    MaxRuns = 2
    MaxRenumbers = 1
    MaxEdits = 2
    None = None
CHECK_DEADLOCK FALSE
INVARIANTS
    StaleCacheIsHarmless
PROPERTIES
    StoresLoseNothing
    RemovedStaysRemoved
