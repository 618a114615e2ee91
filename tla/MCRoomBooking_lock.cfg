CONSTANTS
  m1 = m1  q1 = q1  q2 = q2
  None = None
  Room = {m1}
  Proc = {q1, q2}
  MaxTime = 2
  Slot <- Apart
  Occurrences <- OneOrBoth
  MaxId = 2
  IdLimit = 2
  Early = 1
  Grace = 1
  MaxTries = 2
  Runs <- Creating
  Events = {"series", "crash", "maintain"}
SPECIFICATION FairSpec
INVARIANTS SectionExclusive NumbersStayFree
PROPERTIES HandlersEnd LocksAreFreed
CHECK_DEADLOCK FALSE
