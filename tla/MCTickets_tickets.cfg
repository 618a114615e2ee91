SPECIFICATION Spec
CONSTANTS
  desk = desk
  Proc = {desk}
  None = None
  p1 = p1
  Policy = {p1}
  MaxTicket = 2
  MaxTime = 2
  MaxPaused = 1
  MaxDept = 1
  MaxRun = 2
  MaxWork = 2
  MaxOff = 1
  Limit = 0
  Rules <- Escalating
  ToManagers <- Escalating
  RoutedTo <- OneDept
  Asks <- OnlyOne
  Runs <- AllRequests
INVARIANTS TypeOK PausesMatchWaits BreachedAfterItsTime NoticesBoundedByRuns
PROPERTIES OverdueIsMarked
CHECK_DEADLOCK FALSE
