SPECIFICATION BothSpec
CONSTANTS
  u = u  uFrag = uFrag  v = v  re = re
  NoScope = NoScope
  MaxIterations = 2
  Recent = 3
  Floor = 2
  DefaultFloor = 1
  MaxCalls = 2
  MaxTurns = 2
  MaxPresses = 2
  MaxCommands = 1
  Provider = {"anthropic", "openai", "other", "preset", "copilot"}
  None = None
  MaxOpened = 2
  MaxThreads = 2
  MaxServers = 2
INVARIANTS
  NoOrphanResult
  CallsAnswered
  BusyTracksTurn
  SignInKept
  ModeIsShown
PROPERTIES
  InterruptStopsLoop
  InterruptEndsTurn
  CommandGetsMutex
  ClaimsReleased
  WaitsEnd
CHECK_DEADLOCK FALSE
