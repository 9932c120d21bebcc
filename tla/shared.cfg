SPECIFICATION SharedSpec
CONSTANTS
    Ids = {a, b}
    Flushers = {f, g}
    MAX_INDEX_SEGMENTS = 2
    MaxSeq = 3
    MaxCrashes = 1
    MaxFaults = 1
    Durability = "Sync"
    IoFaults = {"append", "late"}
    PidReuse = TRUE
    RepeatedFlush = FALSE
    EmptyDeltas = FALSE
SYMMETRY Symmetry
INVARIANTS TypeOK AckedRecovered OpensUnlessOutgrown SearchExact
PROPERTIES SegmentsImmutable ManifestAdvances IsDurableMap
CHECK_DEADLOCK FALSE
