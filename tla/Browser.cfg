SPECIFICATION BrowserSpec
CONSTANTS
  Ctx = {ctx1, ctx2}
  Session = ctx1
  None = None
  MaxTabs = 3
  MaxIndex = 3
  MaxUser = 3
  MaxFaults = 1
  MaxPages = 4
  MaxEvents = 1
  Url = {u1, u2, u3}
  Moved = u3
  Site = u2
  Blank = blank
  MaxSteps = 5
INVARIANTS
  TabsAreManaged
  PagesKept
  ActsOnBelievedPage
PROPERTIES
  UsersTabsSurvive
  ActsOnOwnTab
CHECK_DEADLOCK FALSE
