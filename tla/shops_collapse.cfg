SPECIFICATION Spec
CONSTANTS
    Tables <- ShopTables
    N = 4
    BatchSize = 4
    Datasets <- ShopDatasets
    FlushOrder <- ShopFlushOrder
    Marks <- ShopTables
    Deletions <- ShopDeletions
    References <- ShopReferences
    Exposed <- ShopsExposed
    ChecksInserts = TRUE
    NetworkFaults = FALSE
INVARIANTS
    CollapseReloads
