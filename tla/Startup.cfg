SPECIFICATION FairSpec
CONSTANTS
    Starter = {s1, s2}
    MaxKills = 2
    MaxFails = 2
INVARIANTS
    PidfileIsOwn
    LockIsHeld
    ReadyIsTrue
PROPERTIES
    NoHalfStart
CHECK_DEADLOCK FALSE
