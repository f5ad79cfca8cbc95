CONSTANTS
    Size = 5
    PtrSize = 2
    MaxCall = 7
    MaxStream = 9
    MaxBlocks = 4
    NoId = NoId
SPECIFICATION Spec
PROPERTY WriteReturns
CHECK_DEADLOCK FALSE
