CONSTANTS
    SchemaNames = {main, s}
    TableNames = {t1, t2}
    DEFAULT_SCHEMA = main
    Gone = Gone
    MaxEntries = 8
    MayFail = TRUE
SPECIFICATION Spec
SYMMETRY Symmetry
INVARIANT ChainsWellFormed
INVARIANT EntriesOwned
INVARIANT DiesOfUncheckedOnly
PROPERTY VersionsStay
PROPERTY ImplementsDirectory
