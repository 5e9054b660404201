SPECIFICATION FairSpec
CONSTANTS
    MaxDecisions = 2
    Commands <- AllCommands
    Instances <- AllInstances
CHECK_DEADLOCK FALSE
INVARIANTS
    ExitCodeTells
    NoStrangers
    WhyNotIsExact
    NothingIgnored
    ResultHolds
    ScriptRanAsAsked
    ExportIsFiltered
    ChecksAreTrue
    OkMeansDone
PROPERTIES
    CommandEnds
