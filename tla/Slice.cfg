CONSTANTS
    Items = {v1, v2}
    Zero = Zero
    Junk = Junk
    Gone = Gone
    SLICE_DEFAULT_CAPACITY = 2
    SLICE_GROWTH_FACTOR = 2
    Capacities = {0, 1, 3}
    MaxCapacity = 6
SPECIFICATION SliceSpec
SYMMETRY Symmetry
INVARIANT SliceTypeOK
INVARIANT ForeachComplete
PROPERTY ReservedRoomStays
PROPERTY ImplementsList
