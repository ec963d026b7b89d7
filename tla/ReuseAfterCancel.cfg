SPECIFICATION Spec
CONSTANTS
  e1 = e1
  e2 = e2
  Executors = {e1}
  MaxConcurrentTasks = 2
  Pages = {1, 2}
  Batches <- OneBatch
  Mothers = {}
  RetryLimit = 3
  MaxRuns = 2
  MaxRequests = 3
  MaxDeaths = 1
CHECK_DEADLOCK FALSE
INVARIANT ReusedChunksAreIndexed
