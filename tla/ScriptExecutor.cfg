SPECIFICATION FairSpec
CONSTANTS
  Executor <- FlatExecutors
  Stray = Stray
  MaxSteps = 1
  MaxBytes = 1
  Sizes = {1}
  MaxFrames <- FlatFrames
  Fuel = 1
  MinBranches = 2
  MaxPages = 3
INVARIANTS
  ExtractedWithinBudget
  OnOwnTab
  NoBranchOutlives
PROPERTIES
  ImplementsTask
  StopEnds
CHECK_DEADLOCK FALSE
