SPECIFICATION Spec
CONSTANTS
    p1 = p1
    p2 = p2
    web = web
    bot = bot
    None = None
    Free = Free
    Proc = {p1, p2}
    Client = {web, bot}
    Headless = {bot}
    Commands <- Reconfigure
    MaxToken = 2
    Http <- HttpTimeouts
    Slack = 1
    LockWait = 1
INVARIANT OldClientForgotten
CHECK_DEADLOCK FALSE
