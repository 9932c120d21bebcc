SPECIFICATION SharedSpec
CONSTANTS
    Ids = {a}
    Flushers = {f, g}
    MAX_INDEX_SEGMENTS = 2
    MaxSeq = 3
    MaxCrashes = 1
    MaxFaults = 1
    Durability = "Sync"
    IoFaults = {"append", "cleanup", "early", "late"}
    PidReuse = TRUE
    RepeatedFlush = TRUE
    EmptyDeltas = TRUE
SYMMETRY Symmetry
INVARIANTS SearchExact
PROPERTIES ManifestAdvances
CHECK_DEADLOCK FALSE
