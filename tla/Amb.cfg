SPECIFICATION Spec
CONSTANTS
    MaxEvent = 3
    None = None
CHECK_DEADLOCK FALSE
INVARIANTS ArmedOnce NoHole
PROPERTIES VerdictComesLast EventArrives
