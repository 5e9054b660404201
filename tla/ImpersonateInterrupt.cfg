SPECIFICATION Spec
CONSTANTS
    Commands <- AllCommands
    Requests = 2
    Ignored = {}
    None = None
CHECK_DEADLOCK FALSE
INVARIANT CommandActsAsTarget
