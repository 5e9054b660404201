SPECIFICATION Spec
CONSTANTS
    MaxEvent = 1
    None = None
CHECK_DEADLOCK FALSE
INVARIANTS AlwaysArmed
