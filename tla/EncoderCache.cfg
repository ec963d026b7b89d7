SPECIFICATION FairSpec
CONSTANTS
  r1 = r1
  r2 = r2
  NoMask = NoMask
  Reqs = {r1, r2}
  mm_features <- MCFeatures
  NumTokens <- MCNumTokens
  CacheSize = 4
  MaxEncoderInputTokens = 5
  MaxNumScheduledTokens = 3
  BlockSize = 2
  BatchQueueSize = 2
  MaxFailures = 1
  MaxResets = 1
INVARIANTS EncoderTypeOK SlotsAccounted PinnedIsNeeded CachesAgree NoCacheMiss
PROPERTY PromptsGetComputed
CHECK_DEADLOCK FALSE
