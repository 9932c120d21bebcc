SPECIFICATION OwnedSpec
CONSTANTS
    Ids = {a, b}
    Flushers = {f}
    MAX_INDEX_SEGMENTS = 2
    MaxSeq = 3
    MaxCrashes = 1
    MaxFaults = 2
    Durability = "Sync"
    IoFaults = {"append", "early"}
    PidReuse = TRUE
    RepeatedFlush = FALSE
    EmptyDeltas = FALSE
SYMMETRY Symmetry
INVARIANTS AckedRecovered OpenNeverFails
PROPERTIES SegmentsImmutable
CHECK_DEADLOCK FALSE
