SPECIFICATION FairSpec
CONSTANTS
    BufSize = 9
    StdioSize = 3
    PipeSize = 4
    MaxLine = 2
    MaxLines = 2
    MaxCrashes = 1
    MaxRestarts = 1
INVARIANTS
    NothingLost
    LogInOrder
PROPERTIES
    PipeDrains
    CommandsAreRead
CHECK_DEADLOCK FALSE
