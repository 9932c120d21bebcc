SPECIFICATION OwnedSpec
CONSTANTS
    Ids = {a}
    Flushers = {f}
    MAX_INDEX_SEGMENTS = 2
    MaxSeq = 4
    MaxCrashes = 1
    MaxFaults = 0
    Durability = "Sync"
    IoFaults = {}
    PidReuse = TRUE
    RepeatedFlush = FALSE
    EmptyDeltas = TRUE
INVARIANTS OpenNeverFails
CHECK_DEADLOCK FALSE
