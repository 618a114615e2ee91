CONSTANTS
  r1 = r1  r2 = r2  p1 = p1  p2 = p2  a1 = a1  a2 = a2  a3 = a3
  c1 = c1  t1 = t1  q1 = q1  q2 = q2
  alice = alice  bob = bob  carol = carol
  None = None
  Request = {r1}
  Line = {1, 2}
  PR = {p1, p2}
  Asset = {a1, a2}
  User = {alice, bob, carol}
  Proc = {q1}
  Consumable = {c1}
  AssetCat = {t1}
  CatOf <- AllT1
  NamedCat <- TaggedThenCounted
  MaxQty = 2
  Qty <- TwoThenOne
  PrCat <- BuysT1
  PrQty <- BuysTwo
  Requester <- AliceAsks
  PrOwner <- AliceAndBobBuy
  Approvers = {alice, bob}
  Stockkeepers = {carol}
  Overriders = {bob, carol}
  Managers = {bob}
  ManagerStage = {r1}
  Relink = {}
  InitStock <- ThreeInStock
  InitAssets = {}
  Handlers = {"create", "manager", "resubmit", "review", "approve", "reject", "prApprove", "prDecide", "goodsReceipt", "receive"}
SPECIFICATION Spec
SYMMETRY Pieces
INVARIANTS IssuedOnce ApproverIsNotRequester ManagerStageIsNotBypassed
PROPERTIES ClosedIsFinal
CHECK_DEADLOCK FALSE
