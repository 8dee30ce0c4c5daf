SPECIFICATION FairSpec
CONSTANTS
    Tables <- ThreeTables
    N = 6
    BatchSize = 2
    Datasets <- DenseDatasets
    FlushOrder <- ThreeOrder
    Marks <- ThreeTables
    Deletions <- ChildrenFirst
    References <- ThreeReferences
    Exposed = {"child"}
    ChecksInserts = TRUE
    NetworkFaults = TRUE
INVARIANTS
    TypeOK
PROPERTIES
    KeepsPromise
    Recovers
