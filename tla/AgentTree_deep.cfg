SPECIFICATION AgentsSpec
CONSTANTS
  u = u  uFrag = uFrag  v = v  re = re
  NoScope = NoScope
  Url <- MCUrl
  Regex <- MCRegex
  Normal <- MCNormal
  Matches <- MCMatches
  Agent <- DeepIds
  Root <- MCRoot
  Parent <- DeepParent
  Depth <- DeepDepth
  ForkScopes <- FreeScopes
  MaxPerParent = 2
  MaxDepth = 2
  MaxTotal = 3
  MaxInterrupts = 0
  None = None
  Page = {1, 2}
  Interval = 2
  Window = 2
  Threshold = 2
  WarnAt = 1
  Limit = 2
  MaxRequests = 2
  MaxBatch = 2
  MaxChanges = 1
  Watcher = {a1, a2}
  FirstWatcher = a1
  Capacity = 2
  MaxSteps = 3
INVARIANTS
  TrackedChildHoldsClaim
  LimitsHold
  ChildAccounting
  ModelIsTold
  EveryEventOnce
  LastCoversAction
CHECK_DEADLOCK FALSE
