CONSTANTS
  r1 = r1  r2 = r2  p1 = p1  p2 = p2  a1 = a1  a2 = a2  a3 = a3
  c1 = c1  t1 = t1  q1 = q1  q2 = q2
  alice = alice  bob = bob  carol = carol
  None = None
  Request = {r1}
  Line = {1, 2}
  PR = {}
  Asset = {}
  User = {alice, bob, carol}
  Proc = {q1}
  Consumable = {c1}
  AssetCat = {t1}
  CatOf <- AllT1
  NamedCat <- Counted
  MaxQty = 2
  Qty <- OneEach
  PrCat <- BuysT1
  PrQty <- BuysTwo
  Requester <- AliceAsks
  PrOwner <- BobBuys
  Approvers = {bob}
  Stockkeepers = {bob}
  Overriders = {}
  Managers = {}
  ManagerStage = {}
  Relink = {}
  InitStock <- ThreeInStock
  InitAssets = {}
  Handlers = {"create", "review", "receive", "fulfill"}
SPECIFICATION Spec
INVARIANTS IssuedOnce
CHECK_DEADLOCK FALSE
