CONSTANTS
  r1 = r1  r2 = r2  p1 = p1  p2 = p2  a1 = a1  a2 = a2  a3 = a3
  c1 = c1  t1 = t1  q1 = q1  q2 = q2
  alice = alice  bob = bob  carol = carol
  None = None
  Request = {r1, r2}
  Line = {1}
  PR = {}
  Asset = {}
  User = {alice, bob, carol}
  Proc = {q1, q2}
  Consumable = {c1}
  AssetCat = {t1}
  CatOf <- AllT1
  NamedCat <- Counted
  MaxQty = 2
  Qty <- OneEach
  PrCat <- BuysT1
  PrQty <- BuysTwo
  Requester <- AliceAsks
  PrOwner <- BobBuys
  Approvers = {bob}
  Stockkeepers = {bob}
  Overriders = {}
  Managers = {bob}
  ManagerStage = {r1, r2}
  Relink = {}
  InitStock <- OneInStock
  InitAssets = {}
  Handlers = {"create", "manager", "resubmit", "review", "approve", "reject", "receive", "fulfill", "crash"}
SPECIFICATION Spec
SYMMETRY HandlingRequests
INVARIANTS StockNeverNegative
CHECK_DEADLOCK FALSE
