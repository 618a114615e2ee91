CONSTANTS
  m1 = m1  q1 = q1  q2 = q2
  None = None
  Room = {m1}
  Proc = {q1, q2}
  MaxTime = 2
  Slot <- Overlapping
  Occurrences <- Singles
  MaxId = 2
  IdLimit = 2
  Early = 1
  Grace = 1
  MaxTries = 1
  Runs <- OneMover
  Events = {"noShow"}
SPECIFICATION Spec
INVARIANTS NoDoubleBooking
PROPERTIES ApprovedTimeStands DecisionsStand
CHECK_DEADLOCK FALSE
