SPECIFICATION FairSpec
CONSTANTS
    MaxPid = 5
    MaxCrashes = 2
    MaxRestarts = 2
    Oneshot = FALSE
    RunIfdown = TRUE
    SystemLeavesSigchld = TRUE
    OldPid = 7
INVARIANTS
    AtMostOneTincd
    NoTincdAfterFatal
    OrphanOnlyFromForkWindow
    SigchildBlocksOnlyForSystem
PROPERTIES
    KillOnlyAfterTerm
    RestartOnCleanInterface
    DeathIsAnswered
    ServiceSpec
CHECK_DEADLOCK FALSE
