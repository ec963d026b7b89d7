SPECIFICATION FairSpec
CONSTANTS
  e1 = e1
  e2 = e2
  Executors = {e1}
  MaxConcurrentTasks = 2
  Pages = {1}
  Batches <- OneBatch
  Mothers = {1}
  RetryLimit = 2
  MaxRuns = 2
  MaxRequests = 2
  MaxDeaths = 1
CHECK_DEADLOCK FALSE
INVARIANTS TasksTypeOK NoLostTask IndexedUnlessCanceled
PROPERTY EveryDocumentEnds
