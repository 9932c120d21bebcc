SPECIFICATION Spec
CONSTANTS
    MaxIndex = 3
    MaxTerm = 2
    MaxWrites = 6
    MaxCrashes = 2
    MaxFaults = 1
INVARIANTS RaftLogTypeOK LogReadable
PROPERTIES IsRaftLogStore
CHECK_DEADLOCK FALSE
