SPECIFICATION Spec
CONSTANTS
  c1 = c1
  c2 = c2
  r1 = r1
  r2 = r2
  r3 = r3
  Clients = {c1}
  MaxRank = 1
  Requests = {r1, r2}
  SyncPeriod = 2
  PromptClient = FALSE
CHECK_DEADLOCK FALSE
INVARIANT NobodyStranded
