SPECIFICATION Spec
CONSTANTS
  s1 = s1  s2 = s2
  Person = {ann, bob}
  ann = ann  bob = bob
  Accounts = {ann}
  OnFile <- OnFileOf
  Typed <- ByHost
  AtDoor <- ByGuest
  Inactive = {}
  Scanner = {s1, s2}
  Host = {host}
  MaxInvitees = 2
  MaxAdmitted = 1
  MaxGuests = 3
  MaxTokens = 1
  MaxCheckIns = 3
SYMMETRY Scanning
CONSTRAINT FewRows
INVARIANTS TypeOK AdmittedOnce GuestListSound RoomHoldsVisitors
PROPERTIES RemovedGuestStaysOut
CHECK_DEADLOCK FALSE
