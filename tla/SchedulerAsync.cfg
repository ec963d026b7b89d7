SPECIFICATION Spec
CONSTANTS
  r1 = r1
  r2 = r2
  r3 = r3
  Reqs = {r1, r2, r3}
  NumBlocks = 4
  MaxReqBlocks = 3
  Hashes <- MCHashes
  NoHash = NoHash
  block_hashes <- MCBlockHashes
  EnableCaching = TRUE
  ConnectorEvicts = FALSE
  BlockSize = 2
  PromptLen <- MCPromptLen
  MaxTokens <- MCMaxTokens
  MinTokens <- MCMinTokens
  MaxModelLen = 6
  MaxNumScheduledTokens = 3
  MaxNumRunningReqs = 2
  LongPrefillTokenThreshold = 0
  EnableChunkedPrefill = TRUE
  Policy = "fcfs"
  PriorityKey <- MCPriorityKey
  Async = TRUE
  BatchQueueSize = 2
  MaxForcedResets = 0
INVARIANTS TypeOK ComputedTokensHaveKV NeverAheadOfTokens
INVARIANTS PlaceholdersMatchOutputs OutputsWithinLimits FCFSOrder PrefixClosed
PROPERTIES OutputInOrder AppendOnly
