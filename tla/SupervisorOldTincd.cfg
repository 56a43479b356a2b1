SPECIFICATION FairSpec
CONSTANTS
    MaxPid = 4
    MaxCrashes = 2
    MaxRestarts = 1
    Oneshot = FALSE
    RunIfdown = FALSE
    SystemLeavesSigchld = TRUE
    OldPid = 7
INVARIANTS
    OldTincdStopped
CHECK_DEADLOCK FALSE
