SPECIFICATION Spec
CONSTANTS
    anna = anna
    bert = bert
    Hosts = {anna, bert}
    BufSize = 2
    GrowBy = 2
    Cell = {"NUL", "/", ".old", "etc", "home", "hosts", "tinc.conf", anna, bert}
    Chunk = 1
    MaxLen = 2
    MaxRounds = 2
    MaxFails = 1
SYMMETRY HostSymmetry
INVARIANTS
    BackupComplete
    HostsEmptied
CHECK_DEADLOCK FALSE
