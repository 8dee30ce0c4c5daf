SPECIFICATION Spec
CONSTANTS
    Tables <- HRTables
    N = 3
    BatchSize = 2
    Datasets <- HRDatasets
    FlushOrder <- HRFlushOrder
    Marks <- HRMarks
    Deletions <- HRDeletions
    References <- HRReferences
    Exposed <- HRExposed
    ChecksInserts = FALSE
    NetworkFaults = FALSE
INVARIANTS
    CleanupIsFKSafe
