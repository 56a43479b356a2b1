SPECIFICATION FairSpec
CONSTANTS
    MaxWrites = 2
    MaxPid = 4
    MaxCrashes = 1
    MaxRestarts = 2
    Oneshot = FALSE
    RunIfdown = TRUE
    SystemLeavesSigchld = TRUE
    OldPid = 0
PROPERTIES
    HandlerSpec
    TincdFollowsConfig
    EndTogether
CHECK_DEADLOCK FALSE
