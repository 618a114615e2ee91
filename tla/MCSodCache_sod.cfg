CONSTANTS
  a1 = a1  a2 = a2
  None = None
  Admin = {a1, a2}
  MaxChanges = 3
  EnvFallback = TRUE
SPECIFICATION Spec

PROPERTIES SettingReachesChecks
