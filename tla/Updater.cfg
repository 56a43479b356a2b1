SPECIFICATION FairSpec
CONSTANTS
    MaxVersion = 3
    Peerless = {2}
    Signed = TRUE
    Interval = 1
    MaxDamaged = 0
    MaxFails = 0
    MaxCrashes = 1
    MaxSighups = 1
INVARIANTS
    MyPeerIsListed
PROPERTIES
    UpdateIsInstalled
    ServiceFairness
CHECK_DEADLOCK FALSE
