SPECIFICATION MCSpec
CONSTANTS
    n1 = n1
    n2 = n2
    p = p
    q = q
    Ids <- MCIds
    ShardCount = 2
    Hash <- MCHash
    Score <- MCScore
    Writers = {w1, w2}
    MaxBatches = 2
    MaxFaults = 1
    K = 2
    Addresses <- MCAddresses
    Voters <- MCVoters
    Requests = {p, q}
    Writes <- MCWrites
    MAX_IN_FLIGHT_CLIENT_OPERATIONS = 1
    MaxDisturbances = 2
    MaxSearchDisturbances = 1
INVARIANTS CommitsAreAPrefix MergedTopK AckedCommitted RetriesKeepLaterWrites SearchSeesAcked IndexIsLowerBound
PROPERTIES WritesReturn
CHECK_DEADLOCK FALSE
