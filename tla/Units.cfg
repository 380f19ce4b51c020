SPECIFICATION UnitsSpec
CONSTANTS
  Script = {s1, s2}
  MaxConcurrent = 1
  Server <- MCServer
  Tool <- MCTool
  Qualified <- MCQualified
  MaxRequests = 5
  MaxLife = 3
  MaxUnasked = 1
  Writer = {w1, w2}
  Inode = {1, 2, 3, 4, 5, 6}
  MaxUpdates = 2
  MaxCrashes = 1
  MaxSessions = 2
  MaxTurns = 2
  MaxPicks = 1
  MaxKills = 1
  Call = {c1, c2}
  MaxParts = 2
  MaxProse = 2
  MaxRetries = 1
  None = None
  MaxCalls = 5
  Container = {1, 2}
  Leaf = {3, 4}
  Url = {1, 2}
  Depths = {2}
  Default = 3
  MaxHeadings = 1
  MaxUpsets = 3
  MaxAsked = 3
  MaxChanges = 2
INVARIANTS
  ListedToolAnswers
  FilesKept
  DeliveredWhole
  AnswerIsOwn
  ActsOnItsElement
  ServiceKept
PROPERTIES
  EachIsATask
  WaitEnds
  CallEnds
CHECK_DEADLOCK FALSE
