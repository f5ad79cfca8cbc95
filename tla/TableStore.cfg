SPECIFICATION Spec
CONSTANTS
    Tables <- MCTables
    BLOCK_SIZE = 24
    FILE_BUFFER_HEADER_SIZE = 8
    MetaRoom = 700
    MaxChunk = 2
    MaxRows = 12
    MaxTables = 2
INVARIANT CatalogRoundTrip
INVARIANT PointersTile
INVARIANT RowsStored
INVARIANT OverrunBounded
