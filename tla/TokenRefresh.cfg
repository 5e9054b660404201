SPECIFICATION Spec
CONSTANTS
    p1 = p1
    p2 = p2
    web = web
    bot = bot
    None = None
    Free = Free
    Proc = {p1, p2}
    Client = {web, bot}
    Headless = {bot}
    Commands <- AllCommands
    MaxToken = 3
    Http <- HttpTimeouts
    Slack = 1
    LockWait = 1
INVARIANTS
    RefreshesOnce
    RotationIsSafe
    WaiterOutlastsHolder
PROPERTY NobodyHangs
CHECK_DEADLOCK FALSE
