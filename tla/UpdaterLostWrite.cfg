SPECIFICATION FairSpec
CONSTANTS
    MaxVersion = 2
    Peerless = {}
    Signed = TRUE
    Interval = 1
    MaxDamaged = 0
    MaxFails = 1
    MaxCrashes = 0
    MaxSighups = 1
PROPERTIES
    ChangeIsWritten
CHECK_DEADLOCK FALSE
