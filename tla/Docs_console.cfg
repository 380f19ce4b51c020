SPECIFICATION Spec
CONSTANTS
  Agent = {a1, a2}
  Root = a1
  Capacity = 2
  MaxSteps = 3
INVARIANTS
  PrintsArePulled
