SPECIFICATION FairSpec
CONSTANTS
    MaxPid = 4
    MaxCrashes = 2
    MaxRestarts = 1
    Oneshot = TRUE
    RunIfdown = FALSE
    SystemLeavesSigchld = TRUE
    OldPid = 7
INVARIANTS
    OldHandledBeforeStart
CHECK_DEADLOCK FALSE
