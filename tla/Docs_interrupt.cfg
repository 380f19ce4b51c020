SPECIFICATION Spec
CONSTANTS
  MaxIterations = 2
  Recent = 3
  Floor = 2
  DefaultFloor = 1
  MaxCalls = 2
  MaxTurns = 2
  MaxPresses = 2
  MaxCommands = 1
PROPERTIES
  InterruptReaches
CHECK_DEADLOCK FALSE
