SPECIFICATION Spec
CONSTANTS
    Tables <- CustomerTables
    N = 3
    BatchSize = 2
    Datasets <- CustomerDatasets
    FlushOrder <- CustomerFlushOrder
    Marks <- CustomerTables
    Deletions <- CustomerDeletions
    References <- CustomerReferences
    Exposed = {"customers"}
    ChecksInserts = FALSE
    NetworkFaults = FALSE
INVARIANTS
    NoHoles
    WatermarkSound
    LoadedIsComplete
    NoOrphans
    FaultOnlyOnCollapse
