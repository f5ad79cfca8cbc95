CONSTANTS
    Keys = {k1, k2, k3}
    Values = {v1, v2}
    Absent = Absent
    Hashes = {0, 1, 2, 4, 7}
    Nodes = {1, 2, 3, 4}
    InitBuckets = 2
    MaxBuckets = 8
SPECIFICATION Spec
SYMMETRY Symmetry
INVARIANT NodesOwned
INVARIANT IterationComplete
PROPERTY NodesStay
PROPERTY ImplementsFiniteMap
