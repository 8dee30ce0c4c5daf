SPECIFICATION Spec
CONSTANTS
    Tables <- CustomerTables
    N = 3
    BatchSize = 2
    Datasets <- CustomerDatasets
    FlushOrder <- CustomerFlushOrder
    Marks <- CustomerTables
    Deletions <- CustomerDeletions
    References <- CustomerReferences
    Exposed = {}
    ChecksInserts = FALSE
    NetworkFaults = TRUE
INVARIANTS
    LoadedIsComplete
