CONSTANTS
  r1 = r1  r2 = r2  p1 = p1  p2 = p2  a1 = a1  a2 = a2  a3 = a3
  c1 = c1  t1 = t1  q1 = q1  q2 = q2
  alice = alice  bob = bob  carol = carol
  None = None
  Request = {r1}
  Line = {1}
  PR = {p1}
  Asset = {a1, a2}
  User = {alice, bob, carol}
  Proc = {q1, q2}
  Consumable = {c1}
  AssetCat = {t1}
  CatOf <- AllT1
  NamedCat <- Tagged
  MaxQty = 2
  Qty <- TwoThenOne
  PrCat <- BuysT1
  PrQty <- BuysTwo
  Requester <- AliceAsks
  PrOwner <- BobBuys
  Approvers = {bob, carol}
  Stockkeepers = {bob}
  Overriders = {}
  Managers = {}
  ManagerStage = {}
  Relink = {}
  InitStock <- OneInStock
  InitAssets = {}
  Handlers = {"create", "review", "reviewFail", "approve", "reject", "prApprove", "prDecide", "goodsReceipt", "receive", "assign", "setStatus", "remove", "crash"}
SPECIFICATION Spec
SYMMETRY HandlingPieces
INVARIANTS TypeOK ArrivalsBacked
PROPERTIES LinesFollowLifecycle ReservedPieceGoesToItsRequest
CHECK_DEADLOCK FALSE
