SPECIFICATION Spec
CONSTANTS
  None = None
  MaxServers = 2
  MaxCalls = 2
  Capacity = 1
  Failures = 1
  MaxSockets = 2
  MaxFaults = 1
INVARIANTS
  OneConversation
CHECK_DEADLOCK FALSE
PROPERTIES
  Reconnects
  CallEnds
