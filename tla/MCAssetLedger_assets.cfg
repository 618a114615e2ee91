CONSTANTS
  i1 = i1   ann = ann  ben = ben  d1 = d1  q1 = q1  q2 = q2
  None = None
  MaxPiece = 2
  Item = {i1}
  Person = {ann, ben}
  Department = {d1}
  Proc = {q1, q2}
  Request = {1}
  Asker <- BenAsks
  Wants <- AllI1
  Quantity <- AllOne
  Alike <- SecondLike1
  Assigners = {ben}
  Members <- BothMembers
  SameBranch <- FirstWithD1
  SoD = TRUE
  MaxRepairs = 2
  Runs <- Handling
  MaxStock = 1
SPECIFICATION Spec
INVARIANTS TypeOK StockMatchesPieces HistoryNamesHolder RepairIsRecorded NobodyServesThemselves
PROPERTIES NumbersStayRetired
CONSTRAINT RepairsApart
CHECK_DEADLOCK FALSE
