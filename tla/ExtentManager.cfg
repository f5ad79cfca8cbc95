CONSTANTS
    MaxBlocks = 7
    MaxIteration = 5
    MaxLifetimes = 2
    MaxFresh = 2
    MaxReads = 3
    CrashInCreate = FALSE
SPECIFICATION Spec
INVARIANT TypeOK
INVARIANT HeadersAlternate
INVARIANT CommittedUnlessTainted
PROPERTY HeaderSwitchAtomic
PROPERTY ImplementsCheckpointStore
CHECK_DEADLOCK FALSE
