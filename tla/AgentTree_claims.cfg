SPECIFICATION Spec
CONSTANTS
  u = u  uFrag = uFrag  v = v  re = re
  NoScope = NoScope
  Url <- MCUrl
  Regex <- MCRegex
  Normal <- MCNormal
  Matches <- MCMatches
  Agent <- PairIds
  Root <- MCRoot
  Parent <- PairParent
  Depth <- PairDepth
  ForkScopes <- MixedScopes
  MaxPerParent = 2
  MaxDepth = 2
  MaxTotal = 3
  MaxInterrupts = 1
INVARIANTS
  ChildrenCounted
PROPERTIES
  ImplementsLeases
