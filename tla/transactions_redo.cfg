SPECIFICATION Spec
CONSTANTS
    Tables <- TransactionTables
    N = 4
    BatchSize = 2
    Datasets <- TransactionDatasets
    FlushOrder <- TransactionFlushOrder
    Marks <- TransactionMarks
    Deletions <- TransactionDeletions
    References <- TransactionReferences
    Exposed = {}
    ChecksInserts = FALSE
    NetworkFaults = FALSE
INVARIANTS
    RedoWithinABatch
