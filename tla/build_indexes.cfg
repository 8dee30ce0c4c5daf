SPECIFICATION Spec
CONSTANTS
  SchemaBatches = 2
  IndexBatches = 2
  ReleaseBatches = 2
  Sales <- MCSales
  LastMonth = 2
  Ranges <- MCRanges
  Customers = {1, 2, 3}
  WebTables <- MCWebTables
  WebBatches = 2
  MaxRuns = 4
INVARIANT FinishedIsIndexed
CHECK_DEADLOCK FALSE
