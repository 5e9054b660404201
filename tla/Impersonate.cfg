SPECIFICATION FairSpec
CONSTANTS
    Commands <- AllCommands
    Requests = 2
    Ignored = {"hop", "revert", "logout"}
    None = None
CHECK_DEADLOCK FALSE
INVARIANTS
    ActsAsTargetUnlessInterrupted
    EndedOnEveryExit
    NoPartialFiles
PROPERTIES
    InterruptExits
