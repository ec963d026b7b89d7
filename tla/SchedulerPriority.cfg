SPECIFICATION Spec
CONSTANTS
  r1 = r1
  r2 = r2
  r3 = r3
  Reqs = {r1, r2}
  NumBlocks = 8
  MaxReqBlocks = 7
  Hashes <- LongHashes
  NoHash = NoHash
  block_hashes <- LongBlockHashes
  EnableCaching = TRUE
  ConnectorEvicts = FALSE
  BlockSize = 1
  PromptLen <- LongPromptLen
  MaxTokens <- LongMaxTokens
  MinTokens <- LongMinTokens
  MaxModelLen = 7
  MaxNumScheduledTokens = 3
  MaxNumRunningReqs = 2
  LongPrefillTokenThreshold = 2
  EnableChunkedPrefill = TRUE
  Policy = "priority"
  PriorityKey <- MCPriorityKey
  Async = TRUE
  BatchQueueSize = 2
  MaxForcedResets = 1
INVARIANTS QueuesMatchStatus ScheduleAsserts ResetSucceeds
