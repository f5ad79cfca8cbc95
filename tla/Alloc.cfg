CONSTANTS
    Threads = {t1, t2}
    Ptrs = {p1, p2}
    NoPtr = NoPtr
    Sizes = {0, 1, 2, 3}
    MaxSize = 2
    Countdowns = {0, 1}
    MaxCalls = 3
    MaxArmings = 2
SPECIFICATION Spec
SYMMETRY Symmetry
INVARIANT TypeOK
INVARIANT PeakIsMaximum
INVARIANT LiveIsSumOfBlocks
INVARIANT FaultBudget
CHECK_DEADLOCK FALSE
