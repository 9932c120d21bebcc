SPECIFICATION Spec
CONSTANTS
    a = a
    b = b
    r1 = r1
    r2 = r2
    r3 = r3
    Ids = {a, b}
    Requests = {r1, r2, r3}
    Command <- MCCommand
    LastSequence = 2
    MIN_REINDEXED_POINTS = 1
    REINDEX_DIRTY_DIVISOR = 2
    Overlap = FALSE
    MaxLog = 3
    MaxSnapshots = 2
    MaxRefreshes = 1
    MaxCrashes = 1
    MaxFaults = 1
INVARIANTS ShardTypeOK ReplicaMatchesLog AppliedSurvives OneAnswer ReplicaSearchExact
PROPERTIES CatchesUp
CHECK_DEADLOCK FALSE
