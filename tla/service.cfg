SPECIFICATION MCSpec
CONSTANTS
    Callers = {c1, c2}
    Names = {n, m}
    Backups = {b}
    Configs = {1, 2}
    MaxWrites = 1
    MaxAccidents = 1
    Points = {p1, p2, p3}
    dirty_point_threshold = 2
    MaxBatches = 3
    MaxFlushErrors = 1
    Calls = {r1, r2, r3}
    max_concurrent_operations = 2
INVARIANTS BackupIsCommitted CatalogRecovered PermitsConserved AnswersTrue
PROPERTIES BackupsImmutable DirtyFlushed StopReturns Drains
CHECK_DEADLOCK FALSE
