SPECIFICATION Spec
CONSTANTS
  None = None
  c1 = c1  c2 = c2
  Client = {c1, c2}
  Desk = {desk}
  Method = {"email", "pin"}
  MaxAttempts = 2
  MaxCodes = 1
  MaxLocks = 1
  MaxKept = 1
  MaxTokens = 1
  MaxSessions = 1
  MaxChanges = 1
  MaxRoles = 1
SYMMETRY Clients
INVARIANTS TypeOK LockHolds ChallengeOpensOnce WrongCodesStop SessionsFollowAccount MethodsUsable
CONSTRAINTS FewChanges OneKey CodesOrRoles
CHECK_DEADLOCK FALSE
