SPECIFICATION Spec
CONSTANTS
    p1 = p1
    p2 = p2
    dev = dev
    prod = prod
    good = good
    bad = bad
    sso = sso
    None = None
    Free = Free
    Proc = {p1, p2}
    Name = {dev, prod}
    Input = {good, bad, sso}
    Good = {good, sso}
    Seeded = {good}
    OAuth = {sso}
    Commands <- AllCommands
INVARIANTS
    ImageIsDisk
    AllOrNothing
PROPERTIES
    SlotsAreIndependent
    AddNeverClobbers
    BrokenOnlyByRollback
SYMMETRY Symmetry
CHECK_DEADLOCK FALSE
