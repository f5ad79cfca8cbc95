CONSTANTS
    Size = 5
    PtrSize = 2
    MaxCall = 7
    MaxStream = 9
    MaxBlocks = 4
    NoId = NoId
SPECIFICATION Spec
INVARIANT RoundTrip
INVARIANT FlushedBlocksHoldStream
PROPERTY ReadReturns
CHECK_DEADLOCK FALSE
