SPECIFICATION MCSpec
CONSTANTS
    Callers = {c1}
    Names = {n}
    Backups = {b}
    Configs = {1}
    MaxWrites = 1
    MaxAccidents = 1
    Points = {p1}
    dirty_point_threshold = 1
    MaxBatches = 1
    MaxFlushErrors = 0
    Calls = {r1}
    max_concurrent_operations = 1
INVARIANTS ReopenSucceeds
CHECK_DEADLOCK FALSE
