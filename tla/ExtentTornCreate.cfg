CONSTANTS
    MaxBlocks = 3
    MaxIteration = 2
    MaxLifetimes = 2
    MaxFresh = 2
    MaxReads = 2
    CrashInCreate = TRUE
SPECIFICATION Spec
INVARIANT OpenAdoptsValidHeader
CHECK_DEADLOCK FALSE
