CONSTANTS
  u1 = u1  u2 = u2  e1 = e1  e2 = e2
  None = None
  User = {u1, u2}
  MaxRole = 2
  MaxDept = 2
  SystemRole = {1}
  Admin = {e1, e2}
SPECIFICATION Spec
SYMMETRY Symmetric
CONSTRAINT FewExceptions
INVARIANTS ManagersFollowUsers
