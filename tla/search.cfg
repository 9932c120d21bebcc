SPECIFICATION MCSpec
CONSTANTS
    M = 2
    EfConstruction = 2
    MaxLevel = 1
    BuildSeed = 2
    BuildBatch = 3
    WorkerCount = 2
    MaxPooled = 1
    GenerationMax = 2
    Vectors = {0, 1, 3}
    LevelTables <- MCLevelTables
    Tiny <- MCTiny
    Searchers = {s1, s2}
    MaxNodes = 6
    Searched <- MCSearched
    Widths = {1, 2, 5}
    MaxSearches = 3
    FilterDepth = 2
    FilterNodes = 4
    PointIds = {1, 2}
    PointScore <- MCScore
    Metadata <- MCMetadata
    FilterCases <- MCFilterCases
    ApiFilters <- MCApiFilters
    MaxPointWrites = 3
SYMMETRY Symmetry
INVARIANTS
    GraphReopens
    SearchFindsReachable
    FilteredSearchExact
    FilterLimitsExact
CHECK_DEADLOCK FALSE
