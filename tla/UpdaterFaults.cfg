SPECIFICATION FairSpec
CONSTANTS
    MaxVersion = 2
    Peerless = {}
    Signed = TRUE
    Interval = 1
    MaxDamaged = 1
    MaxFails = 2
    MaxCrashes = 0
    MaxSighups = 1
PROPERTIES
    ServiceSpec
    NoRollback
CHECK_DEADLOCK FALSE
