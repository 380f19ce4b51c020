SPECIFICATION Spec
CONSTANTS
  Container = {1, 2, 3}
  Leaf = {4, 5}
  Url = {1}
  Depths = {}
  Default = 3
  MaxHeadings = 1
  MaxEvents = 0
INVARIANTS
  DescendsToTheOnly
CHECK_DEADLOCK FALSE
