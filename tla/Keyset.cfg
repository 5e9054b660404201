SPECIFICATION Spec
CONSTANTS
    MaxRow = 4
    PageSize = 2
    Caps = {0, 3}
    MaxChange = 2
    MaxFail = 1
    MaxOut = 8
CHECK_DEADLOCK FALSE
INVARIANTS AllButTheSlid TokenIsLastWritten
PROPERTY WalkEnds
