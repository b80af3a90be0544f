CONSTANTS
    None = None
    MaxGen = 2
    MaxCommands = 1
    MaxCrashes = 1
    MaxFaults = 1
SPECIFICATION FairSpec
INVARIANTS
    TypeOK
    PublishedInOrder
    TerminalIsPublished
PROPERTIES
    ResultIsKept
    LaunchedOnce
    LaunchIsResolved
CHECK_DEADLOCK FALSE
