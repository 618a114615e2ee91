-------------------------- MODULE Procurement_proofs --------------------------
(***************************************************************************)
(* Theorems about Procurement, for every value of its constants.           *)
(***************************************************************************)
EXTENDS Procurement, FiniteSetTheorems, TLAPS

(***************************************************************************)
(* Type correctness.  TypeOK is not inductive: what a handler carries has  *)
(* to fit the step it is at.                                               *)
(***************************************************************************)
Fits(o) ==
  /\ o.step \in {"create", "review", "reserve", "approve", "reject", "fulfill", "prLinked"} => o.r \in Request
  /\ o.step \in {"manager", "approve"} => o.to \in RequestStatus
  /\ o.step = "prDecide" => o.to \in PrStatus

OpsOK(ops) == ops \in [Proc -> Op] /\ \A q \in Proc : Fits(ops[q])

TypeInv == TypeOK /\ OpsOK(op)

LEMMA BlankType == Blank \in RequestDoc
BY ConstantsOK DEF Blank, RequestDoc, Item, RequestStatus, LineStatus

LEMMA IdleType == Idle \in Op /\ Fits(Idle)
BY BlankType DEF Idle, Fits, Op, Step, RequestStatus, PrStatus

LEMMA DeriveType == ASSUME NEW items PROVE Derive(items) \in RequestStatus
BY DEF Derive, DeriveSupplyStatus, RequestStatus

LEMMA OutdateType == ASSUME NEW ops, OpsOK(ops), NEW r PROVE OpsOK(Outdate(ops, r))
BY ZenonT(60) DEF OpsOK, Outdate, Fits, Op

LEMMA PutType ==
  ASSUME NEW ops, OpsOK(ops), NEW q \in Proc, NEW o \in Op, Fits(o)
  PROVE  OpsOK([ops EXCEPT ![q] = o])
BY DEF OpsOK

LEMMA UnlinkType == ASSUME TypeOK, NEW S PROVE Unlink(S) \in [PR -> PurchaseDoc]
BY DEF TypeOK, Unlink, PurchaseDoc

LEMMA NewItemsType ==
  ASSUME NEW links \in [Line -> PR \cup {None}] PROVE NewItems(links) \in [Line -> Item]
BY ConstantsOK DEF NewItems, Item, LineStatus

LEMMA MarkedType ==
  ASSUME NEW d \in RequestDoc, NEW k, NEW l \in LineStatus PROVE Marked(d, k, l) \in RequestDoc
<1>1. [d.items EXCEPT ![k].line = l] \in [Line -> Item]
  BY DEF RequestDoc, Item
<1>2. Marked(d, k, l) = [d EXCEPT !.items = [d.items EXCEPT ![k].line = l]]
  BY DEF Marked, RequestDoc
<1>3. QED BY <1>1, <1>2 DEF RequestDoc

LEMMA LinkedType ==
  ASSUME NEW d \in RequestDoc, NEW k, NEW c \in Cat PROVE Linked(d, k, c) \in RequestDoc
<1>1. [d.items EXCEPT ![k].cat = c] \in [Line -> Item]
  BY DEF RequestDoc, Item
<1>2. Linked(d, k, c) = [d EXCEPT !.items = [d.items EXCEPT ![k].cat = c]]
  BY DEF Linked, RequestDoc
<1>3. QED BY <1>1, <1>2 DEF RequestDoc

LEMMA LinkingType ==
  ASSUME NEW items \in [Line -> Item], NEW K PROVE Linking(items, K) \in [Line -> Item]
BY ConstantsOK DEF Linking, Item

LEMMA RequestPut ==
  ASSUME TypeInv, NEW r, NEW d, r \in Request => d \in RequestDoc
  PROVE  [sr EXCEPT ![r] = d] \in [Request -> RequestDoc]
BY DEF TypeInv, TypeOK

LEMMA PurchasePut ==
  ASSUME TypeInv, NEW p, NEW d, p \in PR => d \in PurchaseDoc
  PROVE  [pr EXCEPT ![p] = d] \in [PR -> PurchaseDoc]
BY DEF TypeInv, TypeOK

LEMMA DocItemType ==
  ASSUME TypeInv, NEW q \in Proc, NEW k \in Line PROVE op[q].doc.items[k] \in Item
BY DEF TypeInv, TypeOK, Op, RequestDoc

LEMMA ChosenType == ASSUME TypeInv, NEW q \in Proc, NEW k \in Line PROVE Choices(q, k) \subseteq Cat \cup {None}
BY DocItemType, ConstantsOK DEF Choices, Item

LEMMA LinkSetType ==
  ASSUME TypeInv, NEW p, NEW v \in Request \X Line PROVE [pr EXCEPT ![p].link = v] \in [PR -> PurchaseDoc]
BY DEF TypeInv, TypeOK, PurchaseDoc

LEMMA DoneType == ASSUME TypeInv, NEW q \in Proc, Done(q) PROVE OpsOK(op')
BY IdleType, PutType DEF TypeInv, Done

LEMMA GotoType ==
  ASSUME TypeInv, NEW q \in Proc, NEW h \in {"release", "unlink", "prLinked", "prRevert"}, Goto(q, h),
         h = "prLinked" => op[q].r # None
  PROVE  OpsOK(op')
<1>1. [op[q] EXCEPT !.step = h] \in Op /\ Fits([op[q] EXCEPT !.step = h])
  BY ZenonT(60) DEF TypeInv, TypeOK, Op, Step, Fits
<1>2. QED BY <1>1, PutType DEF TypeInv, Goto

LEMMA SettledType ==
  ASSUME TypeInv, NEW q \in Proc, NEW k \in Line, NEW item \in Item, Settled(q, k, item)
  PROVE  OpsOK(op')
<1> DEFINE o == [op[q] EXCEPT !.doc.items[k] = item, !.todo = @ \ {k}]
<1>1. [op[q].doc EXCEPT !.items[k] = item] \in RequestDoc
  <2>1. op[q].doc \in RequestDoc
    BY DEF TypeInv, TypeOK, Op
  <2>2. [op[q].doc.items EXCEPT ![k] = item] \in [Line -> Item]
    BY <2>1 DEF RequestDoc
  <2> QED BY <2>1, <2>2 DEF RequestDoc
<1>2. o \in Op /\ Fits(o)
  BY <1>1 DEF TypeInv, OpsOK, Op, Fits
<1>3. op' = [op EXCEPT ![q] = o]
  BY DEF Settled
<1>4. QED BY <1>2, <1>3, PutType DEF TypeInv

LEMMA CreateType == ASSUME TypeInv, NEW q \in Proc, CreateStep(q) PROVE TypeInv'
<1>1. ASSUME NEW r \in Request, CreateBegin(q, r) PROVE TypeInv'
  <2>1. PICK links \in [Line -> PR \cup {None}] :
          op' = [op EXCEPT ![q] = [Idle EXCEPT !.step = "create", !.r = r,
                         !.todo = {k \in Line : links[k] # None},
                         !.doc = [Blank EXCEPT !.status = InitialStatus(r), !.items = NewItems(links)]]]
    BY <1>1 DEF CreateBegin
  <2> DEFINE d == [Blank EXCEPT !.status = InitialStatus(r), !.items = NewItems(links)]
             o == [Idle EXCEPT !.step = "create", !.r = r, !.todo = {k \in Line : links[k] # None}, !.doc = d]
  <2>2. d \in RequestDoc
    BY BlankType, NewItemsType DEF InitialStatus, RequestDoc, RequestStatus
  <2>3. o \in Op /\ Fits(o)
    BY ZenonT(60), <2>2, IdleType DEF Fits, Op, Step
  <2>4. OpsOK(op')
    BY <2>1, <2>3, PutType DEF TypeInv
  <2>5. QED BY <1>1, <2>4 DEF TypeInv, TypeOK, OpsOK, CreateBegin
<1>2. ASSUME NEW k \in Line, CreateClaim(q, k) PROVE TypeInv'
  <2> DEFINE o == [op[q] EXCEPT !.todo = @ \ {k}]
  <2>1. o \in Op /\ Fits(o)
    BY DEF TypeInv, OpsOK, Op, Fits
  <2>2. OpsOK(op')
    BY <1>2, <2>1, PutType DEF CreateClaim, TypeInv
  <2>3. <<op[q].r, k>> \in Request \X Line
    BY <1>2 DEF CreateClaim, At, TypeInv, OpsOK, Fits
  <2>4. pr' \in [PR -> PurchaseDoc]
    BY <1>2, <2>3, LinkSetType DEF CreateClaim
  <2>5. QED BY <1>2, <2>2, <2>4 DEF TypeInv, TypeOK, OpsOK, CreateClaim
<1>3. CASE CreateSave(q)
  <2>1. sr' \in [Request -> RequestDoc]
    BY <1>3 DEF CreateSave, TypeInv, TypeOK, Op
  <2>2. QED BY <1>3, <2>1, DoneType DEF CreateSave, TypeInv, TypeOK, OpsOK
<1>4. CASE CreateFail(q)
  <2>1. pr' \in [PR -> PurchaseDoc]
    BY <1>4, UnlinkType DEF CreateFail, TypeInv
  <2>2. QED BY <1>4, <2>1, DoneType DEF CreateFail, TypeInv, TypeOK, OpsOK
<1>5. QED BY <1>1, <1>2, <1>3, <1>4 DEF CreateStep

LEMMA ManagerType == ASSUME TypeInv, NEW q \in Proc, ManagerStep(q) PROVE TypeInv'
<1>1. ASSUME NEW r \in Request, NEW u \in User, NEW to \in RequestStatus, ManagerBegin(q, r, u, to)
      PROVE  TypeInv'
  <2> DEFINE o == [Idle EXCEPT !.step = "manager", !.r = r, !.u = u, !.to = to]
  <2>1. o \in Op /\ Fits(o)
    BY IdleType DEF Fits, Op, Step
  <2>2. QED BY <1>1, <2>1, PutType DEF ManagerBegin, TypeInv, TypeOK, OpsOK
<1>2. CASE ManagerSave(q)
  <2> DEFINE r == op[q].r
             d == DecidedByManager(sr[r], op[q].u, op[q].to)
  <2>0. op[q].u \in User \cup {None} /\ op[q].to \in RequestStatus
    <3>1. op[q] \in Op /\ Fits(op[q]) /\ op[q].step = "manager"
      BY <1>2 DEF ManagerSave, At, TypeInv, OpsOK
    <3> QED BY <3>1 DEF Op, Fits
  <2>a. r \in Request => sr[r] \in RequestDoc
    BY DEF TypeInv, TypeOK
  <2>b. r \in Request => d \in RequestDoc
    BY <2>0, <2>a DEF DecidedByManager, RequestDoc
  <2>c. sr' = [sr EXCEPT ![r] = d]
    BY <1>2 DEF ManagerSave
  <2>1. sr' \in [Request -> RequestDoc]
    <3> HIDE DEF r, d
    <3> QED BY <2>b, <2>c DEF TypeInv, TypeOK
  <2>2. OpsOK(op')
    BY <1>2, DoneType, GotoType DEF ManagerSave
  <2>3. QED BY <1>2, <2>1, <2>2 DEF ManagerSave, TypeInv, TypeOK, OpsOK
<1>3. ASSUME NEW r \in Request, ResubmitBegin(q, r) PROVE TypeInv'
  <2> DEFINE o == [Idle EXCEPT !.step = "resubmit", !.r = r, !.doc = sr[r]]
  <2>1. o \in Op /\ Fits(o)
    BY ZenonT(60), IdleType DEF Fits, Op, Step, TypeInv, TypeOK
  <2>2. QED BY <1>3, <2>1, PutType DEF ResubmitBegin, TypeInv, TypeOK, OpsOK
<1>4. CASE ResubmitSave(q)
  <2>1. sr' \in [Request -> RequestDoc]
    <3> DEFINE r == op[q].r
    <3>1. r \in Request => sr[r] \in RequestDoc
      BY DEF TypeInv, TypeOK
    <3>2. r \in Request => Resubmitted(sr[r], r) \in RequestDoc
      BY <3>1, BlankType DEF Resubmitted, InitialStatus, RequestDoc, RequestStatus
    <3>3. sr' = [sr EXCEPT ![r] = Resubmitted(sr[r], r)]
      BY <1>4 DEF ResubmitSave
    <3> HIDE DEF r
    <3> QED BY <3>2, <3>3 DEF TypeInv, TypeOK
  <2>2. OpsOK(op')
    BY <1>4, IdleType, OutdateType, PutType DEF ResubmitSave, TypeInv
  <2>3. QED BY <1>4, <2>1, <2>2 DEF TypeInv, TypeOK, ResubmitSave, OpsOK
<1>5. QED BY <1>1, <1>2, <1>3, <1>4 DEF ManagerStep

LEMMA ReviewType == ASSUME TypeInv, NEW q \in Proc, ReviewStep(q) PROVE TypeInv'
<1>1. ASSUME NEW r \in Request, NEW u \in User, ReviewBegin(q, r, u) PROVE TypeInv'
  <2>1. PICK lines \in SUBSET Line :
          op' = [op EXCEPT ![q] = [Idle EXCEPT !.step = "review", !.r = r, !.u = u,
                                               !.doc = sr[r], !.todo = lines]]
    BY <1>1 DEF ReviewBegin
  <2> DEFINE o == [Idle EXCEPT !.step = "review", !.r = r, !.u = u, !.doc = sr[r], !.todo = lines]
  <2>2. o \in Op /\ Fits(o)
    BY IdleType DEF Fits, Op, Step, TypeInv, TypeOK
  <2>3. QED BY <1>1, <2>1, <2>2, PutType DEF TypeInv, TypeOK, OpsOK, ReviewBegin
<1>2. ASSUME NEW k \in Line, ReviewLink(q, k) PROVE TypeInv'
  <2>1. PICK c \in Choices(q, k) \ {None} : Settled(q, k, [op[q].doc.items[k] EXCEPT !.cat = c])
    BY <1>2 DEF ReviewLink
  <2>2. [op[q].doc.items[k] EXCEPT !.cat = c] \in Item
    BY DocItemType, ChosenType DEF Item
  <2>3. QED BY <1>2, <2>1, <2>2, SettledType DEF TypeInv, TypeOK, OpsOK, ReviewLink
<1>3. ASSUME NEW k \in Line, ReviewConsumable(q, k) PROVE TypeInv'
  <2>1. PICK c \in Consumable : Settled(q, k, [op[q].doc.items[k] EXCEPT !.cat = c, !.line = "READY"])
    BY <1>3 DEF ReviewConsumable
  <2>2. [op[q].doc.items[k] EXCEPT !.cat = c, !.line = "READY"] \in Item
    BY DocItemType DEF Item, Cat, LineStatus
  <2>3. QED BY <1>3, <2>1, <2>2, SettledType DEF TypeInv, TypeOK, OpsOK, ReviewConsumable
<1>4. ASSUME NEW k \in Line, ReviewPick(q, k) PROVE TypeInv'
  <2>1. PICK c \in AssetCat, S \in SUBSET Asset :
          op' = [op EXCEPT ![q] = [op[q] EXCEPT !.step = "reserve", !.k = k, !.pick = S,
                                                !.doc = Linked(@, k, c)]]
    BY <1>4 DEF ReviewPick, FreeAssets
  <2> DEFINE o == [op[q] EXCEPT !.step = "reserve", !.k = k, !.pick = S, !.doc = Linked(@, k, c)]
  <2>2. Linked(op[q].doc, k, c) \in RequestDoc
    BY LinkedType DEF TypeInv, TypeOK, Op, Cat
  <2>3. o \in Op /\ Fits(o)
    BY ZenonT(60), <1>4, <2>2 DEF TypeInv, OpsOK, Fits, Op, Step, ReviewPick, Reviewing, At
  <2>4. QED BY <1>4, <2>1, <2>3, PutType DEF TypeInv, TypeOK, OpsOK, ReviewPick
<1>5. ASSUME NEW k \in Line, ReviewOrder(q, k) PROVE TypeInv'
  <2>1. PICK c \in Choices(q, k) : Settled(q, k, [op[q].doc.items[k] EXCEPT !.cat = c, !.line = "ON_ORDER"])
    BY <1>5 DEF ReviewOrder
  <2>2. [op[q].doc.items[k] EXCEPT !.cat = c, !.line = "ON_ORDER"] \in Item
    BY DocItemType, ChosenType DEF Item, LineStatus
  <2>3. QED BY <1>5, <2>1, <2>2, SettledType DEF TypeInv, TypeOK, OpsOK, ReviewOrder
<1>6. ASSUME NEW k \in Line, ReviewReject(q, k) PROVE TypeInv'
  <2>1. PICK c \in Choices(q, k) :
          Settled(q, k, [op[q].doc.items[k] EXCEPT !.cat = c, !.line = "REJECTED", !.pr = None])
    BY <1>6 DEF ReviewReject
  <2>2. [op[q].doc.items[k] EXCEPT !.cat = c, !.line = "REJECTED", !.pr = None] \in Item
    BY DocItemType, ChosenType DEF Item, LineStatus
  <2>3. pr' \in [PR -> PurchaseDoc]
    BY <1>6, UnlinkType DEF ReviewReject, TypeInv
  <2>4. QED BY <1>6, <2>1, <2>2, <2>3, SettledType DEF TypeInv, TypeOK, OpsOK, ReviewReject
<1>7. ASSUME NEW k \in Line, NEW p \in PR, ReviewOrderLinked(q, k, p) PROVE TypeInv'
  <2>1. OrderedThrough(op[q].doc.items[k], p) \in Item
    BY ConstantsOK DEF OrderedThrough, Item, LineStatus
  <2>2. <<op[q].r, k>> \in Request \X Line
    BY <1>7 DEF ReviewOrderLinked, Reviewing, At, TypeInv, OpsOK, Fits
  <2>3. pr' \in [PR -> PurchaseDoc]
    BY ZenonT(60), <1>7, <2>2 DEF ReviewOrderLinked, TypeInv, TypeOK, PurchaseDoc
  <2>4. QED BY <1>7, <2>1, <2>3, SettledType DEF TypeInv, TypeOK, OpsOK, ReviewOrderLinked
<1>8. CASE ReviewReserve(q)
  <2> DEFINE o == [op[q] EXCEPT !.step = "review", !.k = None, !.pick = {},
                                !.todo = @ \ {op[q].k}, !.doc = Marked(@, op[q].k, "READY")]
  <2>1. Marked(op[q].doc, op[q].k, "READY") \in RequestDoc
    BY MarkedType DEF TypeInv, TypeOK, Op, LineStatus
  <2>2. op[q].todo \ {op[q].k} \in SUBSET Line
    BY DEF TypeInv, TypeOK, Op
  <2>3. o \in Op /\ Fits(o)
    BY ZenonT(60), <1>8, <2>1, <2>2 DEF TypeInv, OpsOK, Fits, Op, Step, ReviewReserve, At
  <2>4. op' = [op EXCEPT ![q] = o] \/ Done(q)
    BY <1>8 DEF ReviewReserve
  <2>5. OpsOK(op')
    BY <2>3, <2>4, PutType, DoneType DEF TypeInv
  <2>6. asset' \in [Asset -> AssetDoc]
    BY <1>8 DEF ReviewReserve, TypeInv, TypeOK, Op, Reserve, AssetDoc
  <2>7. QED BY <1>8, <2>5, <2>6 DEF TypeInv, TypeOK, OpsOK, ReviewReserve
<1>9. CASE ReviewSave(q)
  <2>1. ReviewedDoc(q) \in RequestDoc
    <3>1. sr[op[q].r] \in RequestDoc
      BY <1>9 DEF ReviewSave, At, TypeInv, TypeOK, OpsOK, Fits
    <3>2. op[q].doc \in RequestDoc /\ op[q].u \in User \cup {None}
      BY DEF TypeInv, TypeOK, Op
    <3>3. QED BY <3>1, <3>2, DeriveType DEF ReviewedDoc, RequestDoc
  <2>2. OpsOK(op')
    BY <1>9, IdleType, OutdateType, PutType DEF ReviewSave, TypeInv
  <2>3. QED BY <1>9, <2>1, <2>2 DEF TypeInv, TypeOK, OpsOK, ReviewSave
<1>10. CASE ReviewFail(q)
  BY <1>10, DoneType DEF ReviewFail, TypeInv, TypeOK, OpsOK
<1>11. QED BY <1>1, <1>2, <1>3, <1>4, <1>5, <1>6, <1>7, <1>8, <1>9, <1>10 DEF ReviewStep

LEMMA ApprovingType ==
  ASSUME TypeInv, NEW p \in PR \cup {None}, NEW r \in Request, NEW u \in User \cup {None}
  PROVE  Approving(p, r, u) \in Op /\ Fits(Approving(p, r, u))
<1> DEFINE K == {k \in Line : sr[r].items[k].cat = None}
           to == IF HasPendingPurchase(sr[r].items) THEN "ORDERED" ELSE "APPROVED"
<1>1. K \in SUBSET Line /\ to \in RequestStatus
  BY DEF RequestStatus
<1> HIDE DEF K, to
<1>2. [Idle EXCEPT !.step = "approve", !.r = r, !.p = p, !.u = u, !.todo = K, !.to = to] \in Op
  BY <1>1, IdleType DEF Op, Step
<1>3. Approving(p, r, u) = [Idle EXCEPT !.step = "approve", !.r = r, !.p = p, !.u = u, !.todo = K, !.to = to]
  BY DEF Approving, K, to
<1>4. QED BY <1>1, <1>2, <1>3, IdleType DEF Fits, Op

LEMMA DecideType == ASSUME TypeInv, NEW q \in Proc, DecideStep(q) PROVE TypeInv'
<1>1. ASSUME NEW r \in Request, NEW u \in User, ApproveBegin(q, r, u) PROVE TypeInv'
  BY <1>1, ApprovingType, PutType DEF ApproveBegin, TypeInv, TypeOK, OpsOK
<1>2. ASSUME NEW r \in Request, NEW u \in User, RejectBegin(q, r, u) PROVE TypeInv'
  <2> DEFINE o == [Idle EXCEPT !.step = "reject", !.r = r, !.u = u]
  <2>1. o \in Op /\ Fits(o)
    BY IdleType DEF Fits, Op, Step
  <2>2. QED BY <1>2, <2>1, PutType DEF RejectBegin, TypeInv, TypeOK, OpsOK
<1>3. CASE ApproveSave(q)
  <2>1. ASSUME NEW d \in RequestDoc
        PROVE  [d EXCEPT !.status = op[q].to, !.approver = op[q].u, !.items = Linking(d.items, op[q].todo)]
                 \in RequestDoc
    BY <1>3, LinkingType DEF ApproveSave, At, TypeInv, TypeOK, OpsOK, Fits, Op, RequestDoc
  <2>2. sr' \in [Request -> RequestDoc]
    BY <1>3, <2>1 DEF ApproveSave, TypeInv, TypeOK
  <2>3. QED BY <1>3, <2>2, DoneType DEF ApproveSave, TypeInv, TypeOK, OpsOK
<1>4. CASE ApproveConflict(q)
  BY <1>4, DoneType, GotoType DEF ApproveConflict, TypeInv, TypeOK, OpsOK
<1>5. CASE RejectSave(q)
  <2>1. sr' \in [Request -> RequestDoc]
    <3> DEFINE d == [sr[op[q].r] EXCEPT !.status = "REJECTED", !.approver = op[q].u]
    <3>1. op[q].u \in User \cup {None}
      BY DEF TypeInv, TypeOK, Op
    <3>2. op[q].r \in Request => d \in RequestDoc
      BY <3>1 DEF TypeInv, TypeOK, RequestDoc, RequestStatus
    <3>3. sr' = [sr EXCEPT ![op[q].r] = d]
      BY <1>5 DEF RejectSave
    <3>4. QED BY <3>2, <3>3, RequestPut
  <2>2. QED BY <1>5, <2>1, GotoType DEF RejectSave, TypeInv, TypeOK, OpsOK
<1>6. CASE RejectRelease(q)
  <2>1. asset' \in [Asset -> AssetDoc]
    BY <1>6 DEF RejectRelease, Release, TypeInv, TypeOK, AssetDoc
  <2>2. QED BY <1>6, <2>1, GotoType DEF RejectRelease, TypeInv, TypeOK, OpsOK
<1>7. CASE RejectUnlink(q)
  <2>1. pr' \in [PR -> PurchaseDoc]
    BY <1>7, UnlinkType DEF RejectUnlink, TypeInv
  <2>2. QED BY <1>7, <2>1, DoneType DEF RejectUnlink, TypeInv, TypeOK, OpsOK
<1>8. QED BY <1>1, <1>2, <1>3, <1>4, <1>5, <1>6, <1>7 DEF DecideStep

LEMMA FulfillType == ASSUME TypeInv, NEW q \in Proc, FulfillStep(q) PROVE TypeInv'
<1>1. ASSUME NEW r \in Request, FulfillBegin(q, r) PROVE TypeInv'
  <2> DEFINE o == [Idle EXCEPT !.step = "fulfill", !.r = r, !.doc = sr[r],
                               !.todo = {k \in Line : sr[r].items[k].cat # None}]
  <2>1. o \in Op /\ Fits(o)
    BY ZenonT(60), IdleType DEF Fits, Op, Step, TypeInv, TypeOK
  <2>2. QED BY <1>1, <2>1, PutType DEF FulfillBegin, TypeInv, TypeOK, OpsOK
<1>2. ASSUME NEW k \in Line, FulfillDeduct(q, k) PROVE TypeInv'
  <2> DEFINE o == [op[q] EXCEPT !.todo = @ \ {k}]
  <2>1. o \in Op /\ Fits(o)
    BY DEF TypeInv, OpsOK, Op, Fits
  <2>2. OpsOK(op')
    BY <1>2, <2>1, PutType DEF FulfillDeduct, TypeInv
  <2>3. Qty[k] \in Int
    BY ConstantsOK
  <2>4. stock' \in [Consumable -> Int]
    <3> DEFINE c == op[q].doc.items[k].cat
    <3>1. stock' = [stock EXCEPT ![c] = @ - Qty[k]]
      BY <1>2 DEF FulfillDeduct
    <3>2. c \in Consumable => stock[c] - Qty[k] \in Int
      BY <2>3 DEF TypeInv, TypeOK
    <3> HIDE DEF c
    <3>3. QED BY <3>1, <3>2 DEF TypeInv, TypeOK
  <2>5. issued' \in [Request -> [Line -> Nat]]
    <3> DEFINE r == op[q].r
               f == [issued[r] EXCEPT ![k] = @ + 1]
    <3>1. issued' = [issued EXCEPT ![r] = f]
      BY <1>2 DEF FulfillDeduct
    <3>2. r \in Request => f \in [Line -> Nat]
      BY DEF TypeInv, TypeOK
    <3> HIDE DEF r, f
    <3>3. QED BY <3>1, <3>2 DEF TypeInv, TypeOK
  <2>6. QED BY <1>2, <2>2, <2>4, <2>5 DEF FulfillDeduct, TypeInv, TypeOK, OpsOK
<1>3. ASSUME NEW k \in Line, FulfillFail(q, k) PROVE TypeInv'
  BY <1>3, DoneType DEF FulfillFail, TypeInv, TypeOK, OpsOK
<1>4. CASE FulfillSave(q)
  <2>1. sr' \in [Request -> RequestDoc]
    BY ZenonT(60), <1>4 DEF FulfillSave, TypeInv, TypeOK, RequestDoc, RequestStatus
  <2>2. QED BY <1>4, <2>1, DoneType DEF FulfillSave, TypeInv, TypeOK, OpsOK
<1>5. QED BY <1>1, <1>2, <1>3, <1>4 DEF FulfillStep

LEMMA PurchaseType == ASSUME TypeInv, NEW q \in Proc, PurchaseStep(q) PROVE TypeInv'
<1>1. ASSUME NEW p \in PR, NEW u \in User, PrApproveBegin(q, p, u) PROVE TypeInv'
  <2> DEFINE o == [Idle EXCEPT !.step = "prSave", !.p = p, !.u = u, !.r = PendingLinked(p)]
  <2>1. PendingLinked(p) \in Request \cup {None}
    BY DEF PendingLinked, TypeInv, TypeOK, PurchaseDoc
  <2>2. o \in Op /\ Fits(o)
    BY ZenonT(60), <2>1, IdleType DEF Fits, Op, Step
  <2>3. QED BY <1>1, <2>2, PutType DEF PrApproveBegin, TypeInv, TypeOK, OpsOK
<1>2. ASSUME NEW p \in PR, NEW u \in User, NEW to \in PrStatus, PrDecideBegin(q, p, u, to) PROVE TypeInv'
  <2> DEFINE o == [Idle EXCEPT !.step = "prDecide", !.p = p, !.u = u, !.to = to]
  <2>1. o \in Op /\ Fits(o)
    BY IdleType DEF Fits, Op, Step
  <2>2. QED BY <1>2, <2>1, PutType DEF PrDecideBegin, TypeInv, TypeOK, OpsOK
<1>3. CASE PrApproveSave(q)
  <2>1. pr' \in [PR -> PurchaseDoc]
    <3> DEFINE d == [pr[op[q].p] EXCEPT !.status = "APPROVED", !.approver = op[q].u]
    <3>1. op[q].u \in User \cup {None}
      BY DEF TypeInv, TypeOK, Op
    <3>2. op[q].p \in PR => d \in PurchaseDoc
      BY ZenonT(60), <3>1 DEF TypeInv, TypeOK, PurchaseDoc, PrStatus
    <3>3. pr' = [pr EXCEPT ![op[q].p] = d]
      BY <1>3 DEF PrApproveSave
    <3>4. QED BY <3>2, <3>3, PurchasePut
  <2>2. QED BY <1>3, <2>1, DoneType, GotoType DEF PrApproveSave, TypeInv, TypeOK, OpsOK
<1>4. CASE PrApproveLinked(q)
  <2>1. op[q].r \in Request /\ op[q].p \in PR \cup {None} /\ op[q].u \in User \cup {None}
    BY <1>4 DEF PrApproveLinked, At, TypeInv, TypeOK, OpsOK, Op, Fits
  <2>2. OpsOK(op')
    BY <1>4, <2>1, ApprovingType, GotoType, PutType DEF PrApproveLinked, TypeInv
  <2>3. QED BY <1>4, <2>2 DEF PrApproveLinked, TypeInv, TypeOK, OpsOK
<1>5. CASE PrRevert(q)
  <2>1. pr' \in [PR -> PurchaseDoc]
    BY ZenonT(60), <1>5 DEF PrRevert, TypeInv, TypeOK, PurchaseDoc, PrStatus
  <2>2. QED BY <1>5, <2>1, DoneType DEF PrRevert, TypeInv, TypeOK, OpsOK
<1>6. CASE PrDecideSave(q)
  <2>1. pr' \in [PR -> PurchaseDoc]
    <3> DEFINE d == [pr[op[q].p] EXCEPT !.status = op[q].to,
                            !.approver = IF op[q].to = "REJECTED" THEN op[q].u ELSE @]
    <3>1. op[q].to \in PrStatus /\ op[q].u \in User \cup {None}
      BY <1>6 DEF PrDecideSave, At, TypeInv, OpsOK, Op, Fits
    <3>2. op[q].p \in PR => d \in PurchaseDoc
      BY <3>1 DEF TypeInv, TypeOK, PurchaseDoc
    <3>3. pr' = [pr EXCEPT ![op[q].p] = d]
      BY <1>6 DEF PrDecideSave
    <3>4. QED BY <3>2, <3>3, PurchasePut
  <2>2. QED BY <1>6, <2>1, DoneType DEF PrDecideSave, TypeInv, TypeOK, OpsOK
<1>7. QED BY <1>1, <1>2, <1>3, <1>4, <1>5, <1>6 DEF PurchaseStep

LEMMA QtyOfNat == ASSUME NEW S, S \subseteq Line PROVE QtyOf(S) \in Nat
<1>1. S \X (1..MaxQty) \subseteq Line \X (1..MaxQty)
  OBVIOUS
<1>2. IsFiniteSet(Line \X (1..MaxQty))
  <2>1. IsFiniteSet(1..MaxQty)
    <3>1. MaxQty \in Int
      BY ConstantsOK
    <3>2. QED BY <3>1, FS_Interval
  <2>2. QED BY <2>1, ConstantsOK, FS_Product
<1>3. IsFiniteSet({x \in S \X (1..MaxQty) : x[2] <= Qty[x[1]]})
  BY <1>1, <1>2, FS_Subset
<1>4. QED BY <1>3, FS_CardinalityType DEF QtyOf

LEMMA PurchaseQtyNat ==
  ASSUME NEW k \in Line, NEW p \in PR \cup {None} PROVE PurchaseQty(k, p) \in Nat
BY ConstantsOK DEF PurchaseQty, Lesser

LEMMA CollectedDocType ==
  ASSUME TypeInv, NEW r \in Request, NEW K \in SUBSET Line, NEW S \in SUBSET Asset
  PROVE  CollectedDoc(r, K, S) \in RequestDoc
<1> DEFINE items == [k \in Line |-> IF k \in K THEN Collected(sr[r].items[k]) ELSE sr[r].items[k]]
<1>1. items \in [Line -> Item]
  <2>1. ASSUME NEW item \in Item PROVE Collected(item) \in Item
    BY DEF Collected, Item, LineStatus
  <2>2. sr[r].items \in [Line -> Item]
    BY DEF TypeInv, TypeOK, RequestDoc
  <2>3. QED BY <2>1, <2>2
<1>2. CASE Tracked(sr[r].items)
  <2>1. CollectedDoc(r, K, S) = [sr[r] EXCEPT !.items = items, !.status = Derive(items), !.got = @ \cup S]
    BY <1>2 DEF CollectedDoc
  <2>2. Derive(items) \in RequestStatus
    BY DeriveType
  <2> HIDE DEF items
  <2>3. sr[r] \in RequestDoc
    BY DEF TypeInv, TypeOK
  <2>4. sr[r].got \cup S \in SUBSET Asset
    BY <2>3 DEF RequestDoc
  <2>5. QED BY <1>1, <2>1, <2>2, <2>3, <2>4 DEF RequestDoc
<1>3. CASE ~Tracked(sr[r].items)
  BY <1>3 DEF CollectedDoc, TypeInv, TypeOK, RequestDoc, RequestStatus
<1>4. QED BY <1>2, <1>3

LEMMA WithArrivalType ==
  ASSUME NEW item \in Item, NEW k \in Line, NEW n \in Nat PROVE WithArrival(item, k, n) \in Item
<1> DEFINE l == IF Completes(item, k, n) THEN "READY" ELSE item.line
<1>1. item.arrived + n \in Nat /\ l \in LineStatus
  BY DEF Item, LineStatus
<1>2. WithArrival(item, k, n) = [item EXCEPT !.arrived = item.arrived + n, !.line = l]
  BY DEF WithArrival, Item
<1> HIDE DEF l
<1>3. QED BY <1>1, <1>2 DEF Item

LEMMA AfterArrivalType ==
  ASSUME TypeInv, NEW d \in RequestDoc, NEW k \in Line, NEW n \in Nat
  PROVE  AfterArrival(d, k, n) \in RequestDoc
<1> DEFINE items == [d.items EXCEPT ![k] = WithArrival(d.items[k], k, n)]
           status == IF Completes(d.items[k], k, n) THEN Derive(items)
                     ELSE IF d.status = "ORDERED" /\ ~HasPendingPurchase(items) THEN "APPROVED" ELSE d.status
<1>1. items \in [Line -> Item]
  BY WithArrivalType DEF RequestDoc
<1>2. status \in RequestStatus
  BY DeriveType DEF RequestDoc, RequestStatus
<1>3. AfterArrival(d, k, n) = [d EXCEPT !.items = items, !.status = status]
  BY DEF AfterArrival
<1> HIDE DEF items, status
<1>4. QED BY <1>1, <1>2, <1>3 DEF RequestDoc

LEMMA TransactionType == ASSUME TypeInv, Transaction PROVE TypeInv'
<1>1. ASSUME NEW r \in Request, NEW u \in User, NEW K \in SUBSET Line, NEW S \in SUBSET Asset, Receive(r, u, K, S)
      PROVE  TypeInv'
  <2>1. sr' \in [Request -> RequestDoc]
    BY <1>1, CollectedDocType, RequestPut DEF Receive
  <2>2. \A c \in Consumable : QtyOf(LinesOf(r, K, c)) \in Nat
    BY QtyOfNat DEF LinesOf
  <2>3. stock' \in [Consumable -> Int]
    BY <1>1, <2>2 DEF Receive, Deduct, TypeInv, TypeOK
  <2>4. asset' \in [Asset -> AssetDoc]
    BY <1>1 DEF Receive, Release, TypeInv, TypeOK, AssetDoc
  <2>5. issued' \in [Request -> [Line -> Nat]]
    <3> DEFINE f == [k \in Line |-> issued[r][k] + IF k \in K /\ sr[r].items[k].cat \in Consumable THEN 1 ELSE 0]
    <3>1. f \in [Line -> Nat]
      BY DEF TypeInv, TypeOK
    <3>2. issued' = [issued EXCEPT ![r] = f]
      BY <1>1 DEF Receive
    <3> HIDE DEF f
    <3>3. QED BY <3>1, <3>2 DEF TypeInv, TypeOK
  <2>6. OpsOK(op')
    BY <1>1, OutdateType DEF Receive, TypeInv
  <2>7. QED BY <1>1, <2>1, <2>3, <2>4, <2>5, <2>6 DEF Receive, TypeInv, TypeOK, OpsOK
<1>2. ASSUME NEW p \in PR, NEW u \in User, NEW n \in 1..PrQty[p], NEW S \in SUBSET Asset, NEW R \in SUBSET Asset,
             GoodsReceipt(p, u, n, S, R)
      PROVE  TypeInv'
  <2> DEFINE m == Arriving(p, n)
             r == pr[p].link[1]
             k == pr[p].link[2]
  <2>1. n \in Nat \ {0} /\ PrQty[p] \in Nat
    BY ConstantsOK
  <2>2. HandsOver(p) => r \in Request /\ k \in Line
    BY DEF HandsOver, TypeInv, TypeOK, PurchaseDoc
  <2>3. m \in Int /\ (m > 0 => HandsOver(p))
    BY <2>1, <2>2, PurchaseQtyNat DEF Arriving, Lesser, TypeInv, TypeOK, RequestDoc, Item
  <2>4. sr' \in [Request -> RequestDoc]
    <3>1. CASE m > 0
      <4>1. sr[r] \in RequestDoc
        BY <2>2, <2>3, <3>1 DEF TypeInv, TypeOK
      <4>2. AfterArrival(sr[r], k, m) \in RequestDoc
        BY <2>2, <2>3, <3>1, <4>1, AfterArrivalType
      <4>3. sr' = [sr EXCEPT ![r] = AfterArrival(@, k, m)]
        BY <1>2, <3>1 DEF GoodsReceipt
      <4>4. QED BY <4>2, <4>3 DEF TypeInv, TypeOK
    <3>2. QED BY <1>2, <3>1 DEF GoodsReceipt, TypeInv, TypeOK
  <2>5. pr' \in [PR -> PurchaseDoc]
    <3>1. AfterReceipt(pr[p], p, n) \in PurchaseDoc
      <4>1. pr[p] \in PurchaseDoc
        BY DEF TypeInv, TypeOK
      <4>2. pr[p].received + n \in Nat
        BY <2>1, <4>1 DEF PurchaseDoc
      <4>3. QED BY <4>1, <4>2 DEF AfterReceipt, PurchaseDoc, PrStatus
    <3>2. QED BY <1>2, <3>1 DEF GoodsReceipt, TypeInv, TypeOK
  <2>6. stock' \in [Consumable -> Int]
    BY <1>2, <2>1 DEF GoodsReceipt, TypeInv, TypeOK
  <2>7. asset' \in [Asset -> AssetDoc]
    BY <1>2, <2>2, <2>3 DEF GoodsReceipt, Register, TypeInv, TypeOK, AssetDoc
  <2>8. OpsOK(op')
    BY <1>2, OutdateType DEF GoodsReceipt, TypeInv
  <2>9. QED BY <1>2, <2>4, <2>5, <2>6, <2>7, <2>8 DEF GoodsReceipt, TypeInv, TypeOK, OpsOK
<1>3. ASSUME NEW a \in Asset, RegisterStep(a) PROVE TypeInv'
  BY <1>3 DEF RegisterStep, AssignDirectly, ReturnAsset, SetStatus, RemoveAsset, TypeInv, TypeOK, AssetDoc, OpsOK
<1>4. QED BY <1>1, <1>2, <1>3 DEF Transaction

LEMMA TypeInit == Init => TypeInv
BY BlankType, IdleType, ConstantsOK DEF Init, TypeInv, TypeOK, OpsOK, PurchaseDoc, PrStatus, AssetDoc

LEMMA TypeStep == TypeInv /\ [Next]_vars => TypeInv'
<1> SUFFICES ASSUME TypeInv, [Next]_vars PROVE TypeInv'
  OBVIOUS
<1>1. ASSUME NEW q \in Proc, SaveConflict(q) \/ Crash(q) PROVE TypeInv'
  BY <1>1, DoneType DEF SaveConflict, Crash, TypeInv, TypeOK, OpsOK
<1>2. CASE UNCHANGED vars
  BY <1>2 DEF vars, TypeInv, TypeOK, OpsOK
<1>3. QED BY <1>1, <1>2, CreateType, ManagerType, ReviewType, DecideType, FulfillType, PurchaseType,
             TransactionType DEF Next

\* Every row and every handler's copy of one stays within its schema, and what a
\* handler carries fits the step it is at.
THEOREM TypeCorrect == Spec => [](TypeOK /\ OpsOK(op))
<1>1. TypeInv <=> TypeOK /\ OpsOK(op)
  BY DEF TypeInv
<1>2. QED BY <1>1, TypeInit, TypeStep, PTL DEF Spec

-----------------------------------------------------------------------------
(***************************************************************************)
(* The stock, the reserved pieces and the arrivals of Procurement are      *)
(* accounted for, for every value of its constants and however the         *)
(* handlers interleave, fail and crash.                                    *)
(***************************************************************************)

LEMMA CreateFrame == ASSUME NEW q \in Proc, CreateStep(q) PROVE UNCHANGED <<stock, asset>>
BY DEF CreateStep, CreateBegin, CreateClaim, CreateSave, CreateFail

LEMMA ManagerFrame == ASSUME NEW q \in Proc, ManagerStep(q) PROVE UNCHANGED <<pr, stock, asset>>
BY DEF ManagerStep, ManagerBegin, ManagerSave, ResubmitBegin, ResubmitSave

LEMMA ReviewFrame ==
  ASSUME NEW q \in Proc, ReviewStep(q) PROVE UNCHANGED stock /\ (ReviewReserve(q) \/ UNCHANGED asset)
BY DEF ReviewStep, ReviewBegin, ReviewLink, ReviewConsumable, ReviewPick, ReviewOrder, ReviewReject,
       ReviewOrderLinked, ReviewReserve, ReviewSave, ReviewFail

LEMMA DecideFrame ==
  ASSUME NEW q \in Proc, DecideStep(q) PROVE UNCHANGED stock /\ (RejectRelease(q) \/ UNCHANGED asset)
BY DEF DecideStep, ApproveBegin, RejectBegin, ApproveSave, ApproveConflict, RejectSave, RejectRelease,
       RejectUnlink

LEMMA FulfillFrame ==
  ASSUME NEW q \in Proc, FulfillStep(q)
  PROVE  UNCHANGED <<pr, asset>> /\ ((\E k \in Line : FulfillDeduct(q, k)) \/ UNCHANGED stock)
BY DEF FulfillStep, FulfillBegin, FulfillDeduct, FulfillFail, FulfillSave

LEMMA PurchaseFrame == ASSUME NEW q \in Proc, PurchaseStep(q) PROVE UNCHANGED <<sr, stock, asset>>
BY DEF PurchaseStep, PrApproveBegin, PrDecideBegin, PrApproveSave, PrApproveLinked, PrRevert, PrDecideSave

-----------------------------------------------------------------------------
(* The stock is checked at the moment it is deducted, so it never runs     *)
(* below zero.                                                             *)

LEMMA StockStep == TypeInv /\ StockNeverNegative /\ [Next]_vars => StockNeverNegative'
<1> SUFFICES ASSUME TypeInv, StockNeverNegative, [Next]_vars PROVE StockNeverNegative'
  OBVIOUS
<1>1. ASSUME NEW q \in Proc, NEW k \in Line, FulfillDeduct(q, k) PROVE StockNeverNegative'
  <2> DEFINE c == op[q].doc.items[k].cat
  <2>1. Qty[k] \in Int
    BY ConstantsOK
  <2>2. stock[c] >= Qty[k] /\ stock' = [stock EXCEPT ![c] = @ - Qty[k]]
    BY <1>1 DEF FulfillDeduct, Covers
  <2> HIDE DEF c
  <2>3. QED BY <2>1, <2>2 DEF StockNeverNegative, TypeInv, TypeOK
<1>2. ASSUME NEW r \in Request, NEW u \in User, NEW K \in SUBSET Line, NEW S \in SUBSET Asset, Receive(r, u, K, S)
      PROVE  StockNeverNegative'
  <2>1. \A c \in Consumable : QtyOf(LinesOf(r, K, c)) \in Nat
    BY QtyOfNat DEF LinesOf
  <2>2. QED BY <1>2, <2>1 DEF Receive, Deduct, StockNeverNegative, TypeInv, TypeOK
<1>3. ASSUME NEW p \in PR, NEW u \in User, NEW n \in 1..PrQty[p], NEW S \in SUBSET Asset, NEW R \in SUBSET Asset,
             GoodsReceipt(p, u, n, S, R)
      PROVE  StockNeverNegative'
  <2>1. n \in Nat
    BY ConstantsOK
  <2>2. QED BY <1>3, <2>1 DEF GoodsReceipt, StockNeverNegative, TypeInv, TypeOK
<1>4. CASE UNCHANGED stock
  BY <1>4 DEF StockNeverNegative
<1>5. QED BY <1>1, <1>2, <1>3, <1>4, CreateFrame, ManagerFrame, ReviewFrame, DecideFrame, FulfillFrame, PurchaseFrame
          DEF Next, Transaction, RegisterStep, AssignDirectly, ReturnAsset, SetStatus, RemoveAsset, SaveConflict, Crash, vars

\* The stock of a consumable never goes below zero, whichever handlers deduct
\* from it between their check and their deduction.
THEOREM StockSafe == Spec => []StockNeverNegative
<1>1. Init => StockNeverNegative
  BY ConstantsOK DEF Init, StockNeverNegative
<1>2. QED BY <1>1, TypeInit, TypeStep, StockStep, PTL DEF Spec

-----------------------------------------------------------------------------
(* Nobody holds a reserved piece: it lies in the warehouse, or is under     *)
(* repair or retired.                                                      *)

HeldByNobody == \A a \in Asset : asset[a].reserved # None => asset[a].status \in {"AVAILABLE", "OUT"}

HeldForItsRequest ==
  \A a \in Asset : asset[a].reserved # None =>
    /\ asset'[a].reserved \in {asset[a].reserved, None}
    /\ asset'[a].status = "ASSIGNED" => a \in sr'[asset[a].reserved].got

LEMMA ReservedStep ==
  ASSUME TypeInv, HeldByNobody, [Next]_vars PROVE HeldByNobody' /\ HeldForItsRequest
<1> USE DEF HeldByNobody, HeldForItsRequest
<1>1. ASSUME NEW q \in Proc, ReviewReserve(q) PROVE HeldByNobody' /\ HeldForItsRequest
  BY <1>1 DEF ReviewReserve, Reserve, TypeInv, TypeOK, AssetDoc
<1>2. ASSUME NEW q \in Proc, RejectRelease(q) PROVE HeldByNobody' /\ HeldForItsRequest
  BY <1>2 DEF RejectRelease, Release, TypeInv, TypeOK, AssetDoc
<1>3. ASSUME NEW r \in Request, NEW u \in User, NEW K \in SUBSET Line, NEW S \in SUBSET Asset, Receive(r, u, K, S)
      PROVE  HeldByNobody' /\ HeldForItsRequest
  <2> DEFINE left == [a \in Asset |-> IF a \in S THEN [status |-> "ASSIGNED", reserved |-> None] ELSE asset[a]]
  <2>1. asset' = Release(left, r, {a \in Asset : CatOf[a] \in ReleasedCats(r, K)})
    BY <1>3 DEF Receive
  <2>2. \A a \in S : asset[a].reserved \in {None, r}
    BY <1>3 DEF Receive, Scanned
  <2>3. \A a \in S : a \in sr'[r].got
    BY <1>3 DEF Receive, CollectedDoc, TypeInv, TypeOK, RequestDoc
  <2>4. QED BY <2>1, <2>2, <2>3 DEF Release, TypeInv, TypeOK, AssetDoc
<1>4. ASSUME NEW p \in PR, NEW u \in User, NEW n \in 1..PrQty[p], NEW S \in SUBSET Asset, NEW R \in SUBSET Asset,
             GoodsReceipt(p, u, n, S, R)
      PROVE  HeldByNobody' /\ HeldForItsRequest
  <2>1. \A a \in S : asset[a].status = "NEW"
    BY <1>4 DEF GoodsReceipt, NewPieces
  <2>2. \A a \in Asset : asset'[a] = asset[a] \/ (a \in S /\ asset'[a].status = "AVAILABLE")
    BY <1>4 DEF GoodsReceipt, Register
  <2>3. QED BY <2>1, <2>2
<1>5. ASSUME NEW a \in Asset, RegisterStep(a) PROVE HeldByNobody' /\ HeldForItsRequest
  <2>1. asset[a] \in AssetDoc /\ None \notin Request
    BY ConstantsOK DEF TypeInv, TypeOK
  <2>2. \A b \in Asset : b # a => asset'[b] = asset[b]
    BY <1>5 DEF RegisterStep, AssignDirectly, ReturnAsset, SetStatus, RemoveAsset, TypeInv, TypeOK
  <2>3. CASE AssignDirectly(a)
    <3>1. asset[a].reserved = None /\ asset'[a].reserved = None
      BY <2>1, <2>3 DEF AssignDirectly, TypeInv, TypeOK, AssetDoc
    <3> QED BY <2>2, <3>1
  <2>4. CASE ReturnAsset(a)
    <3>1. asset[a].reserved = None /\ asset'[a].reserved = None
      BY <2>1, <2>4 DEF ReturnAsset, TypeInv, TypeOK, AssetDoc
    <3> QED BY <2>2, <3>1
  <2>5. CASE RemoveAsset(a)
    <3>1. asset'[a] = [status |-> "GONE", reserved |-> None]
      BY <2>5 DEF RemoveAsset, TypeInv, TypeOK
    <3> QED BY <2>2, <3>1
  <2>6. ASSUME NEW s \in {"AVAILABLE", "OUT"}, SetStatus(a, s) PROVE HeldByNobody' /\ HeldForItsRequest
    <3>1. asset'[a].status = s /\ asset'[a].reserved = asset[a].reserved
      BY <2>1, <2>6 DEF SetStatus, TypeInv, TypeOK, AssetDoc
    <3> QED BY <2>2, <3>1
  <2> QED BY <1>5, <2>3, <2>4, <2>5, <2>6 DEF RegisterStep
<1>6. CASE UNCHANGED asset
  BY <1>6
<1>7. QED BY <1>1, <1>2, <1>3, <1>4, <1>5, <1>6, CreateFrame, ManagerFrame, ReviewFrame, DecideFrame, FulfillFrame,
             PurchaseFrame DEF Next, Transaction, SaveConflict, Crash, vars

\* A piece reserved for a request is handed out only in a collection of that
\* request, and its reservation passes to no other one, whatever the register's
\* own operations and overlapping reviews do.
THEOREM ReservedSafe == Spec => ReservedPieceGoesToItsRequest
<1>1. Init => HeldByNobody
  BY DEF Init, HeldByNobody
<1>2. TypeInv /\ HeldByNobody /\ [Next]_vars => HeldByNobody' /\ [HeldForItsRequest]_vars
  BY ReservedStep
<1>3. [][HeldForItsRequest]_vars <=> ReservedPieceGoesToItsRequest
  BY DEF ReservedPieceGoesToItsRequest, HeldForItsRequest
<1>4. QED BY <1>1, <1>2, <1>3, TypeInit, TypeStep, PTL DEF Spec

-----------------------------------------------------------------------------
(***************************************************************************)
(* What lines count as arrived is backed by what their purchase requests   *)
(* buy for them and have received.  The invariant has to cover the copies  *)
(* that handlers hold, for any of them may be saved later, and it survives *)
(* their being out of date because a receipt count never goes down.        *)
(***************************************************************************)

BackedBy(item, k, f) ==
  item.pr # None => /\ item.arrived <= PurchaseQty(k, item.pr)
                    /\ item.arrived <= f[item.pr].received

BackedLines(items, f) == \A k \in Line : BackedBy(items[k], k, f)

NotOverReceived == \A p \in PR : pr[p].received <= PrQty[p]
RequestsBacked == \A r \in Request : BackedLines(sr[r].items, pr)
CopiesBacked == \A q \in Proc : BackedLines(op[q].doc.items, pr)

Backed == NotOverReceived /\ RequestsBacked /\ CopiesBacked

ReceiptsKept == \A p \in PR : pr'[p].received = pr[p].received

LEMMA ReceivedNat == ASSUME TypeInv, NEW p \in PR PROVE pr[p].received \in Nat
BY DEF TypeInv, TypeOK, PurchaseDoc

\* Lines that nothing has arrived for are backed by anything.
LEMMA FreshBacked ==
  ASSUME TypeInv, NEW items \in [Line -> Item], \A k \in Line : items[k].arrived = 0
  PROVE  BackedLines(items, pr)
<1>1. ASSUME NEW k \in Line, items[k].pr # None PROVE BackedBy(items[k], k, pr)
  <2>1. items[k].pr \in PR
    BY <1>1 DEF Item
  <2>2. PurchaseQty(k, items[k].pr) \in Nat /\ pr[items[k].pr].received \in Nat
    BY <2>1, PurchaseQtyNat, ReceivedNat
  <2>3. QED BY <2>2 DEF BackedBy
<1>2. QED BY <1>1 DEF BackedLines, BackedBy

LEMMA BlankBacked == ASSUME TypeInv PROVE BackedLines(Blank.items, pr) /\ BackedLines(Idle.doc.items, pr)
<1>1. Blank.items \in [Line -> Item] /\ \A k \in Line : Blank.items[k].arrived = 0
  BY BlankType DEF Blank, RequestDoc
<1>2. BackedLines(Blank.items, pr)
  BY <1>1, FreshBacked
<1>3. Idle.doc = Blank
  BY DEF Idle
<1>4. QED BY <1>2, <1>3

\* Steps that receive nothing: it is enough to look at the lines they write.
LEMMA BackedKept ==
  ASSUME TypeInv, TypeInv', Backed, ReceiptsKept,
         \A r \in Request : BackedLines(sr'[r].items, pr),
         \A q \in Proc : BackedLines(op'[q].doc.items, pr)
  PROVE  Backed'
<1>1. ASSUME NEW items \in [Line -> Item], BackedLines(items, pr) PROVE BackedLines(items, pr')
  BY <1>1 DEF BackedLines, BackedBy, ReceiptsKept, Item
<1>2. \A r \in Request : sr'[r].items \in [Line -> Item]
  BY DEF TypeInv, TypeOK, RequestDoc
<1>3. \A q \in Proc : op'[q].doc.items \in [Line -> Item]
  <2>1. \A q \in Proc : op'[q].doc \in RequestDoc
    BY DEF TypeInv, TypeOK, Op
  <2>2. QED BY <2>1 DEF RequestDoc
<1>4. NotOverReceived'
  BY DEF Backed, NotOverReceived, ReceiptsKept
<1>5. RequestsBacked'
  BY <1>1, <1>2 DEF RequestsBacked
<1>6. CopiesBacked'
  BY <1>1, <1>3 DEF CopiesBacked
<1>7. QED BY <1>4, <1>5, <1>6 DEF Backed

\* ... and of the copies, only at the one of the process that moves.
LEMMA CopyKept ==
  ASSUME TypeInv, CopiesBacked, NEW q \in Proc, NEW o, op' = [op EXCEPT ![q] = o], BackedLines(o.doc.items, pr)
  PROVE  \A x \in Proc : BackedLines(op'[x].doc.items, pr)
BY DEF CopiesBacked, TypeInv, TypeOK

LEMMA DoneKept ==
  ASSUME TypeInv, CopiesBacked, NEW q \in Proc, Done(q)
  PROVE  \A x \in Proc : BackedLines(op'[x].doc.items, pr)
BY BlankBacked, CopyKept DEF Done

LEMMA OutdateKept ==
  ASSUME TypeInv, NEW r, NEW x \in Proc PROVE Outdate(op, r)[x].doc = op[x].doc
BY DEF Outdate, TypeInv, TypeOK, Op

LEMMA GotoKept ==
  ASSUME TypeInv, CopiesBacked, NEW q \in Proc, NEW h, Goto(q, h)
  PROVE  \A x \in Proc : BackedLines(op'[x].doc.items, pr)
<1>1. [op[q] EXCEPT !.step = h].doc = op[q].doc
  BY DEF TypeInv, TypeOK, Op
<1>2. QED BY <1>1, CopyKept DEF Goto, CopiesBacked

\* A save that rewrites the lines of r with backed ones.
LEMMA SavedKept ==
  ASSUME TypeInv, RequestsBacked, NEW r, NEW d, BackedLines(d.items, pr), sr' = [sr EXCEPT ![r] = d]
  PROVE  \A x \in Request : BackedLines(sr'[x].items, pr)
BY DEF RequestsBacked, TypeInv, TypeOK

LEMMA SettledKept ==
  ASSUME TypeInv, CopiesBacked, NEW q \in Proc, NEW k \in Line, NEW item, BackedBy(item, k, pr), Settled(q, k, item)
  PROVE  \A x \in Proc : BackedLines(op'[x].doc.items, pr)
<1> DEFINE o == [op[q] EXCEPT !.doc.items[k] = item, !.todo = @ \ {k}]
<1>1. op[q].doc.items \in [Line -> Item] /\ op[q].doc \in RequestDoc
  BY DEF TypeInv, TypeOK, Op, RequestDoc
<1>2. o.doc.items = [op[q].doc.items EXCEPT ![k] = item]
  BY <1>1 DEF TypeInv, TypeOK, Op, RequestDoc
<1>3. BackedLines(o.doc.items, pr)
  BY <1>1, <1>2 DEF CopiesBacked, BackedLines
<1>4. op' = [op EXCEPT ![q] = o]
  BY DEF Settled
<1>5. QED BY <1>3, <1>4, CopyKept

LEMMA UnlinkKeeps == ASSUME TypeInv, NEW S, pr' = Unlink(S) PROVE ReceiptsKept
BY DEF Unlink, ReceiptsKept, TypeInv, TypeOK, PurchaseDoc

LEMMA CreateBacked ==
  ASSUME TypeInv, TypeInv', Backed, NEW q \in Proc, CreateStep(q) PROVE Backed'
<1> USE DEF Backed
<1>1. ASSUME NEW r \in Request, CreateBegin(q, r) PROVE Backed'
  <2>1. PICK links \in [Line -> PR \cup {None}] :
          op' = [op EXCEPT ![q] = [Idle EXCEPT !.step = "create", !.r = r,
                         !.todo = {k \in Line : links[k] # None},
                         !.doc = [Blank EXCEPT !.status = InitialStatus(r), !.items = NewItems(links)]]]
    BY <1>1 DEF CreateBegin
  <2> DEFINE d == [Blank EXCEPT !.status = InitialStatus(r), !.items = NewItems(links)]
             o == [Idle EXCEPT !.step = "create", !.r = r, !.todo = {k \in Line : links[k] # None}, !.doc = d]
  <2>2. BackedLines(NewItems(links), pr)
    BY NewItemsType, FreshBacked DEF NewItems
  <2>3. o.doc.items = NewItems(links)
    BY DEF Idle, Blank
  <2>4. UNCHANGED <<sr, pr>>
    BY <1>1 DEF CreateBegin
  <2>5. QED BY <2>1, <2>2, <2>3, <2>4, CopyKept, BackedKept DEF RequestsBacked, ReceiptsKept
<1>2. ASSUME NEW k \in Line, CreateClaim(q, k) PROVE Backed'
  <2> DEFINE o == [op[q] EXCEPT !.todo = @ \ {k}]
  <2>1. o.doc = op[q].doc
    BY DEF TypeInv, TypeOK, Op
  <2>2. op' = [op EXCEPT ![q] = o] /\ sr' = sr
    BY <1>2 DEF CreateClaim
  <2>3. ReceiptsKept
    BY <1>2 DEF CreateClaim, ReceiptsKept, TypeInv, TypeOK, PurchaseDoc
  <2>4. QED BY <2>1, <2>2, <2>3, CopyKept, BackedKept DEF RequestsBacked, CopiesBacked
<1>3. CASE CreateSave(q)
  <2>1. BackedLines(op[q].doc.items, pr) /\ sr' = [sr EXCEPT ![op[q].r] = op[q].doc] /\ pr' = pr /\ Done(q)
    BY <1>3 DEF CreateSave, CopiesBacked
  <2>2. QED BY <2>1, SavedKept, DoneKept, BackedKept DEF ReceiptsKept
<1>4. CASE CreateFail(q)
  <2>1. ReceiptsKept /\ sr' = sr /\ Done(q)
    BY <1>4, UnlinkKeeps DEF CreateFail
  <2>2. QED BY <2>1, DoneKept, BackedKept DEF RequestsBacked
<1>5. QED BY <1>1, <1>2, <1>3, <1>4 DEF CreateStep

LEMMA ManagerBacked ==
  ASSUME TypeInv, TypeInv', Backed, NEW q \in Proc, ManagerStep(q) PROVE Backed'
<1> USE DEF Backed
<1>0. ReceiptsKept
  BY ManagerFrame DEF ReceiptsKept
<1>1. ASSUME NEW r \in Request, NEW u \in User, NEW to \in RequestStatus, ManagerBegin(q, r, u, to)
      PROVE  Backed'
  <2> DEFINE o == [Idle EXCEPT !.step = "manager", !.r = r, !.u = u, !.to = to]
  <2>1. o.doc = Idle.doc
    BY DEF Idle
  <2>2. op' = [op EXCEPT ![q] = o] /\ sr' = sr
    BY <1>1 DEF ManagerBegin
  <2>3. QED BY <1>0, <2>1, <2>2, BlankBacked, CopyKept, BackedKept DEF RequestsBacked
<1>2. CASE ManagerSave(q)
  <2> DEFINE d == DecidedByManager(sr[op[q].r], op[q].u, op[q].to)
  <2>1. sr' = [sr EXCEPT ![op[q].r] = d]
    BY <1>2 DEF ManagerSave
  <2>2. \A x \in Request : sr'[x].items = sr[x].items
    BY <2>1 DEF DecidedByManager, TypeInv, TypeOK, RequestDoc
  <2>3. \A x \in Proc : BackedLines(op'[x].doc.items, pr)
    BY <1>2, DoneKept, GotoKept DEF ManagerSave
  <2>4. QED BY <1>0, <2>2, <2>3, BackedKept DEF RequestsBacked
<1>3. ASSUME NEW r \in Request, ResubmitBegin(q, r) PROVE Backed'
  <2> DEFINE o == [Idle EXCEPT !.step = "resubmit", !.r = r, !.doc = sr[r]]
  <2>1. o.doc = sr[r]
    BY DEF Idle
  <2>2. op' = [op EXCEPT ![q] = o] /\ sr' = sr
    BY <1>3 DEF ResubmitBegin
  <2>3. QED BY <1>0, <2>1, <2>2, CopyKept, BackedKept DEF RequestsBacked
<1>4. CASE ResubmitSave(q)
  <2>1. \A x \in Request : sr'[x].items \in {sr[x].items, Blank.items}
    BY <1>4 DEF ResubmitSave, Resubmitted, TypeInv, TypeOK, RequestDoc
  <2>2. \A x \in Proc : op'[x].doc \in {op[x].doc, Idle.doc}
    BY <1>4, OutdateKept, OutdateType DEF ResubmitSave, TypeInv, OpsOK
  <2>3. QED BY <1>0, <2>1, <2>2, BlankBacked, BackedKept DEF RequestsBacked, CopiesBacked
<1>5. QED BY <1>1, <1>2, <1>3, <1>4 DEF ManagerStep

LEMMA CopyItemBacked ==
  ASSUME TypeInv, Backed, NEW q \in Proc, NEW k \in Line PROVE BackedBy(op[q].doc.items[k], k, pr)
BY DEF Backed, CopiesBacked, BackedLines

LEMMA ReviewBacked ==
  ASSUME TypeInv, TypeInv', Backed, NEW q \in Proc, ReviewStep(q) PROVE Backed'
<1> USE DEF Backed
<1>1. ASSUME NEW r \in Request, NEW u \in User, ReviewBegin(q, r, u) PROVE Backed'
  <2>1. PICK lines \in SUBSET Line :
          op' = [op EXCEPT ![q] = [Idle EXCEPT !.step = "review", !.r = r, !.u = u,
                                               !.doc = sr[r], !.todo = lines]]
    BY <1>1 DEF ReviewBegin
  <2> DEFINE o == [Idle EXCEPT !.step = "review", !.r = r, !.u = u, !.doc = sr[r], !.todo = lines]
  <2>2. o.doc = sr[r]
    BY DEF Idle
  <2>3. UNCHANGED <<sr, pr>>
    BY <1>1 DEF ReviewBegin
  <2>4. QED BY <2>1, <2>2, <2>3, CopyKept, BackedKept DEF RequestsBacked, ReceiptsKept
<1>2. ASSUME NEW k \in Line, ReviewLink(q, k) PROVE Backed'
  <2>1. PICK c \in Choices(q, k) \ {None} : Settled(q, k, [op[q].doc.items[k] EXCEPT !.cat = c])
    BY <1>2 DEF ReviewLink
  <2>2. BackedBy([op[q].doc.items[k] EXCEPT !.cat = c], k, pr)
    BY CopyItemBacked, DocItemType DEF BackedBy, Item
  <2>3. UNCHANGED <<sr, pr>>
    BY <1>2 DEF ReviewLink
  <2>4. QED BY <2>1, <2>2, <2>3, SettledKept, BackedKept DEF RequestsBacked, ReceiptsKept
<1>3. ASSUME NEW k \in Line, ReviewConsumable(q, k) PROVE Backed'
  <2>1. PICK c \in Consumable : Settled(q, k, [op[q].doc.items[k] EXCEPT !.cat = c, !.line = "READY"])
    BY <1>3 DEF ReviewConsumable
  <2>2. BackedBy([op[q].doc.items[k] EXCEPT !.cat = c, !.line = "READY"], k, pr)
    BY CopyItemBacked, DocItemType DEF BackedBy, Item
  <2>3. UNCHANGED <<sr, pr>>
    BY <1>3 DEF ReviewConsumable
  <2>4. QED BY <2>1, <2>2, <2>3, SettledKept, BackedKept DEF RequestsBacked, ReceiptsKept
<1>4. ASSUME NEW k \in Line, ReviewPick(q, k) PROVE Backed'
  <2>1. PICK c \in AssetCat, S \in SUBSET Asset :
          op' = [op EXCEPT ![q] = [op[q] EXCEPT !.step = "reserve", !.k = k, !.pick = S,
                                                !.doc = Linked(@, k, c)]]
    BY <1>4 DEF ReviewPick, FreeAssets
  <2> DEFINE d == Linked(op[q].doc, k, c)
             o == [op[q] EXCEPT !.step = "reserve", !.k = k, !.pick = S, !.doc = d]
  <2>2. op[q].doc \in RequestDoc /\ op[q].doc.items \in [Line -> Item]
    BY DEF TypeInv, TypeOK, Op, RequestDoc
  <2>3. d.items = [op[q].doc.items EXCEPT ![k] = [op[q].doc.items[k] EXCEPT !.cat = c]]
    BY <2>2 DEF Linked, RequestDoc
  <2>4. BackedLines(d.items, pr)
    BY <2>2, <2>3, CopyItemBacked DEF BackedLines, BackedBy, Item
  <2>5. o.doc = d
    BY DEF TypeInv, TypeOK, Op
  <2>6. UNCHANGED <<sr, pr>> /\ op' = [op EXCEPT ![q] = o]
    BY <1>4, <2>1 DEF ReviewPick
  <2>7. QED BY <2>4, <2>5, <2>6, CopyKept, BackedKept DEF RequestsBacked, ReceiptsKept
<1>5. ASSUME NEW k \in Line, ReviewOrder(q, k) PROVE Backed'
  <2>1. PICK c \in Choices(q, k) : Settled(q, k, [op[q].doc.items[k] EXCEPT !.cat = c, !.line = "ON_ORDER"])
    BY <1>5 DEF ReviewOrder
  <2>2. BackedBy([op[q].doc.items[k] EXCEPT !.cat = c, !.line = "ON_ORDER"], k, pr)
    BY CopyItemBacked, DocItemType DEF BackedBy, Item
  <2>3. UNCHANGED <<sr, pr>>
    BY <1>5 DEF ReviewOrder
  <2>4. QED BY <2>1, <2>2, <2>3, SettledKept, BackedKept DEF RequestsBacked, ReceiptsKept
<1>6. ASSUME NEW k \in Line, ReviewReject(q, k) PROVE Backed'
  <2>1. PICK c \in Choices(q, k) :
          Settled(q, k, [op[q].doc.items[k] EXCEPT !.cat = c, !.line = "REJECTED", !.pr = None])
    BY <1>6 DEF ReviewReject
  <2>2. BackedBy([op[q].doc.items[k] EXCEPT !.cat = c, !.line = "REJECTED", !.pr = None], k, pr)
    BY DocItemType DEF BackedBy, Item
  <2>3. sr' = sr /\ ReceiptsKept
    BY <1>6, UnlinkKeeps DEF ReviewReject
  <2>4. QED BY <2>1, <2>2, <2>3, SettledKept, BackedKept DEF RequestsBacked
<1>7. ASSUME NEW k \in Line, NEW p \in PR, ReviewOrderLinked(q, k, p) PROVE Backed'
  <2>1. PurchaseQty(k, p) \in Nat /\ pr[p].received \in Nat
    BY PurchaseQtyNat, ReceivedNat
  <2>2. BackedBy(OrderedThrough(op[q].doc.items[k], p), k, pr)
    BY <2>1 DEF OrderedThrough, BackedBy
  <2>3. sr' = sr /\ ReceiptsKept
    BY <1>7 DEF ReviewOrderLinked, ReceiptsKept, TypeInv, TypeOK, PurchaseDoc
  <2>4. QED BY <1>7, <2>2, <2>3, SettledKept, BackedKept DEF ReviewOrderLinked, RequestsBacked
<1>8. CASE ReviewReserve(q)
  <2> DEFINE d == Marked(op[q].doc, op[q].k, "READY")
             o == [op[q] EXCEPT !.step = "review", !.k = None, !.pick = {}, !.todo = @ \ {op[q].k}, !.doc = d]
  <2>1. op[q].doc \in RequestDoc /\ op[q].doc.items \in [Line -> Item]
    BY DEF TypeInv, TypeOK, Op, RequestDoc
  <2>2. d.items = [op[q].doc.items EXCEPT ![op[q].k] = [op[q].doc.items[op[q].k] EXCEPT !.line = "READY"]]
    BY <2>1 DEF Marked, RequestDoc
  <2>3. BackedLines(d.items, pr)
    BY <2>1, <2>2, CopyItemBacked DEF BackedLines, BackedBy, Item
  <2>4. o.doc = d
    BY DEF TypeInv, TypeOK, Op
  <2>5. UNCHANGED <<sr, pr>> /\ (op' = [op EXCEPT ![q] = o] \/ Done(q))
    BY <1>8 DEF ReviewReserve
  <2>6. QED BY <2>3, <2>4, <2>5, CopyKept, DoneKept, BackedKept DEF RequestsBacked, ReceiptsKept
<1>9. CASE ReviewSave(q)
  <2>1. op[q].r \in Request => ReviewedDoc(q).items = op[q].doc.items
    BY DEF ReviewedDoc, TypeInv, TypeOK, RequestDoc
  <2>2. op[q].r \in Request /\ sr' = [sr EXCEPT ![op[q].r] = ReviewedDoc(q)] /\ pr' = pr
    BY <1>9 DEF ReviewSave, At, TypeInv, OpsOK, Fits
  <2>3. \A x \in Proc : op'[x].doc \in {op[x].doc, Idle.doc}
    BY <1>9, OutdateKept, OutdateType DEF ReviewSave, TypeInv, OpsOK
  <2>4. \A x \in Proc : BackedLines(op'[x].doc.items, pr)
    BY <2>3, BlankBacked DEF CopiesBacked
  <2>5. BackedLines(ReviewedDoc(q).items, pr)
    BY <2>1, <2>2 DEF CopiesBacked
  <2>6. QED BY <2>2, <2>4, <2>5, SavedKept, BackedKept DEF ReceiptsKept
<1>10. CASE ReviewFail(q)
  BY <1>10, DoneKept, BackedKept DEF ReviewFail, RequestsBacked, ReceiptsKept
<1>11. QED BY <1>1, <1>2, <1>3, <1>4, <1>5, <1>6, <1>7, <1>8, <1>9, <1>10 DEF ReviewStep

LEMMA DecideBacked ==
  ASSUME TypeInv, TypeInv', Backed, NEW q \in Proc, DecideStep(q) PROVE Backed'
<1> USE DEF Backed
<1>1. ASSUME NEW p \in PR \cup {None}, NEW r \in Request, NEW u \in User \cup {None},
             op' = [op EXCEPT ![q] = Approving(p, r, u)]
      PROVE  \A x \in Proc : BackedLines(op'[x].doc.items, pr)
  <2>1. Approving(p, r, u).doc = Idle.doc
    BY DEF Approving, Idle
  <2>2. QED BY <1>1, <2>1, BlankBacked, CopyKept
<1>2. ASSUME NEW r \in Request, NEW u \in User, ApproveBegin(q, r, u) PROVE Backed'
  BY <1>1, <1>2, BackedKept DEF ApproveBegin, RequestsBacked, ReceiptsKept
<1>3. ASSUME NEW r \in Request, NEW u \in User, RejectBegin(q, r, u) PROVE Backed'
  <2> DEFINE o == [Idle EXCEPT !.step = "reject", !.r = r, !.u = u]
  <2>1. o.doc = Idle.doc
    BY DEF Idle
  <2>2. op' = [op EXCEPT ![q] = o] /\ UNCHANGED <<sr, pr>>
    BY <1>3 DEF RejectBegin
  <2>3. QED BY <2>1, <2>2, BlankBacked, CopyKept, BackedKept DEF RequestsBacked, ReceiptsKept
<1>4. CASE ApproveSave(q)
  <2> DEFINE d == [sr[op[q].r] EXCEPT !.status = op[q].to, !.approver = op[q].u, !.items = Linking(@, op[q].todo)]
  <2>1. sr' = [sr EXCEPT ![op[q].r] = d] /\ pr' = pr /\ Done(q)
    BY <1>4 DEF ApproveSave
  <2>2. ASSUME op[q].r \in Request PROVE BackedLines(d.items, pr)
    <3>1. sr[op[q].r] \in RequestDoc
      BY <2>2 DEF TypeInv, TypeOK
    <3>2. d.items = Linking(sr[op[q].r].items, op[q].todo)
      BY <3>1 DEF RequestDoc
    <3>3. \A k \in Line : sr[op[q].r].items[k] \in Item
      BY <3>1 DEF RequestDoc
    <3>4. \A k \in Line : BackedBy(sr[op[q].r].items[k], k, pr)
      BY <2>2 DEF RequestsBacked, BackedLines
    <3>5. QED BY <3>2, <3>3, <3>4 DEF Linking, BackedLines, BackedBy, Item
  <2>3. \A x \in Request : BackedLines(sr'[x].items, pr)
    <3> HIDE DEF d
    <3>1. QED BY <2>1, <2>2 DEF RequestsBacked, TypeInv, TypeOK
  <2>4. QED BY <2>1, <2>3, DoneKept, BackedKept DEF ReceiptsKept
<1>5. CASE ApproveConflict(q)
  BY <1>5, DoneKept, GotoKept, BackedKept DEF ApproveConflict, RequestsBacked, ReceiptsKept
<1>6. CASE RejectSave(q)
  <2> DEFINE d == [sr[op[q].r] EXCEPT !.status = "REJECTED", !.approver = op[q].u]
  <2>1. sr' = [sr EXCEPT ![op[q].r] = d] /\ pr' = pr
    BY <1>6 DEF RejectSave
  <2>2. op[q].r \in Request => d.items = sr[op[q].r].items
    BY DEF TypeInv, TypeOK, RequestDoc
  <2>3. \A x \in Request : sr'[x].items = sr[x].items
    BY <2>1, <2>2 DEF TypeInv, TypeOK
  <2>4. QED BY <1>6, <2>1, <2>3, GotoKept, BackedKept DEF RejectSave, RequestsBacked, ReceiptsKept
<1>7. CASE RejectRelease(q)
  BY <1>7, GotoKept, BackedKept DEF RejectRelease, RequestsBacked, ReceiptsKept
<1>8. CASE RejectUnlink(q)
  BY <1>8, UnlinkKeeps, DoneKept, BackedKept DEF RejectUnlink, RequestsBacked
<1>9. QED BY <1>2, <1>3, <1>4, <1>5, <1>6, <1>7, <1>8 DEF DecideStep

LEMMA FulfillBacked ==
  ASSUME TypeInv, TypeInv', Backed, NEW q \in Proc, FulfillStep(q) PROVE Backed'
<1> USE DEF Backed
<1>0. ReceiptsKept
  BY FulfillFrame DEF ReceiptsKept
<1>1. ASSUME NEW r \in Request, FulfillBegin(q, r) PROVE Backed'
  <2> DEFINE o == [Idle EXCEPT !.step = "fulfill", !.r = r, !.doc = sr[r],
                               !.todo = {k \in Line : sr[r].items[k].cat # None}]
  <2>1. o.doc = sr[r]
    BY DEF Idle
  <2>2. op' = [op EXCEPT ![q] = o] /\ sr' = sr
    BY <1>1 DEF FulfillBegin
  <2>3. QED BY <1>0, <2>1, <2>2, CopyKept, BackedKept DEF RequestsBacked
<1>2. ASSUME NEW k \in Line, FulfillDeduct(q, k) PROVE Backed'
  <2> DEFINE o == [op[q] EXCEPT !.todo = @ \ {k}]
  <2>1. o.doc = op[q].doc
    BY DEF TypeInv, TypeOK, Op
  <2>2. op' = [op EXCEPT ![q] = o] /\ sr' = sr
    BY <1>2 DEF FulfillDeduct
  <2>3. QED BY <1>0, <2>1, <2>2, CopyKept, BackedKept DEF RequestsBacked, CopiesBacked
<1>3. ASSUME NEW k \in Line, FulfillFail(q, k) PROVE Backed'
  BY <1>0, <1>3, DoneKept, BackedKept DEF FulfillFail, RequestsBacked
<1>4. CASE FulfillSave(q)
  <2>1. \A x \in Request : sr'[x].items = sr[x].items
    BY <1>4 DEF FulfillSave, TypeInv, TypeOK, RequestDoc
  <2>2. QED BY <1>0, <1>4, <2>1, DoneKept, BackedKept DEF FulfillSave, RequestsBacked
<1>5. QED BY <1>1, <1>2, <1>3, <1>4 DEF FulfillStep

LEMMA PurchaseBacked ==
  ASSUME TypeInv, TypeInv', Backed, NEW q \in Proc, PurchaseStep(q) PROVE Backed'
<1> USE DEF Backed
<1>0. sr' = sr
  BY PurchaseFrame
<1>1. ASSUME NEW p \in PR, NEW u \in User, PrApproveBegin(q, p, u) PROVE Backed'
  <2> DEFINE o == [Idle EXCEPT !.step = "prSave", !.p = p, !.u = u, !.r = PendingLinked(p)]
  <2>1. o.doc = Idle.doc
    BY DEF Idle
  <2>2. op' = [op EXCEPT ![q] = o] /\ pr' = pr
    BY <1>1 DEF PrApproveBegin
  <2>3. QED BY <1>0, <2>1, <2>2, BlankBacked, CopyKept, BackedKept DEF RequestsBacked, ReceiptsKept
<1>2. ASSUME NEW p \in PR, NEW u \in User, NEW to \in PrStatus, PrDecideBegin(q, p, u, to) PROVE Backed'
  <2> DEFINE o == [Idle EXCEPT !.step = "prDecide", !.p = p, !.u = u, !.to = to]
  <2>1. o.doc = Idle.doc
    BY DEF Idle
  <2>2. op' = [op EXCEPT ![q] = o] /\ pr' = pr
    BY <1>2 DEF PrDecideBegin
  <2>3. QED BY <1>0, <2>1, <2>2, BlankBacked, CopyKept, BackedKept DEF RequestsBacked, ReceiptsKept
<1>3. CASE PrApproveSave(q)
  <2>1. ReceiptsKept
    BY <1>3 DEF PrApproveSave, ReceiptsKept, TypeInv, TypeOK, PurchaseDoc
  <2>2. QED BY <1>0, <1>3, <2>1, DoneKept, GotoKept, BackedKept DEF PrApproveSave, RequestsBacked
<1>4. CASE PrApproveLinked(q)
  <2>1. Approving(op[q].p, op[q].r, op[q].u).doc = Idle.doc
    BY DEF Approving, Idle
  <2>2. pr' = pr /\ (op' = [op EXCEPT ![q] = Approving(op[q].p, op[q].r, op[q].u)] \/ Goto(q, "prRevert"))
    BY <1>4 DEF PrApproveLinked
  <2>3. QED BY <1>0, <2>1, <2>2, BlankBacked, CopyKept, GotoKept, BackedKept DEF RequestsBacked, ReceiptsKept
<1>5. CASE PrRevert(q)
  <2>1. ReceiptsKept
    BY <1>5 DEF PrRevert, ReceiptsKept, TypeInv, TypeOK, PurchaseDoc
  <2>2. QED BY <1>0, <1>5, <2>1, DoneKept, BackedKept DEF PrRevert, RequestsBacked
<1>6. CASE PrDecideSave(q)
  <2>1. ReceiptsKept
    BY <1>6 DEF PrDecideSave, ReceiptsKept, TypeInv, TypeOK, PurchaseDoc
  <2>2. QED BY <1>0, <1>6, <2>1, DoneKept, BackedKept DEF PrDecideSave, RequestsBacked
<1>7. QED BY <1>1, <1>2, <1>3, <1>4, <1>5, <1>6 DEF PurchaseStep

LEMMA ReceiveBacked ==
  ASSUME TypeInv, TypeInv', Backed, NEW r \in Request, NEW u \in User, NEW K \in SUBSET Line,
         NEW S \in SUBSET Asset, Receive(r, u, K, S)
  PROVE  Backed'
<1> USE DEF Backed
<1>1. sr[r] \in RequestDoc /\ sr[r].items \in [Line -> Item]
  BY DEF TypeInv, TypeOK, RequestDoc
<1>2. ASSUME NEW k \in Line
      PROVE  LET it == CollectedDoc(r, K, S).items[k]
             IN  it.pr = sr[r].items[k].pr /\ it.arrived = sr[r].items[k].arrived
  <2>1. CASE Tracked(sr[r].items)
    BY <1>1, <2>1 DEF CollectedDoc, Collected, RequestDoc, Item
  <2>2. CASE ~Tracked(sr[r].items)
    BY <1>1, <2>2 DEF CollectedDoc, RequestDoc
  <2>3. QED BY <2>1, <2>2
<1>3. BackedLines(CollectedDoc(r, K, S).items, pr)
  BY <1>2 DEF RequestsBacked, BackedLines, BackedBy
<1>4. sr' = [sr EXCEPT ![r] = CollectedDoc(r, K, S)] /\ pr' = pr /\ (op' = Outdate(op, r) \/ op' = op)
  BY DEF Receive
<1>5. \A x \in Proc : op'[x].doc = op[x].doc
  BY <1>4, OutdateKept
<1>6. QED BY <1>3, <1>4, <1>5, SavedKept, BackedKept DEF ReceiptsKept, CopiesBacked

LEMMA GoodsReceiptBacked ==
  ASSUME TypeInv, TypeInv', Backed, NEW p \in PR, NEW u \in User, NEW n \in 1..PrQty[p],
         NEW S \in SUBSET Asset, NEW R \in SUBSET Asset, GoodsReceipt(p, u, n, S, R)
  PROVE  Backed'
<1> USE DEF Backed
<1> DEFINE m == Arriving(p, n)
           r == pr[p].link[1]
           k == pr[p].link[2]
<1>1. n \in Nat \ {0} /\ PrQty[p] \in Nat
  BY ConstantsOK
<1>2. n <= PrQty[p] - pr[p].received /\ pr' = [pr EXCEPT ![p] = AfterReceipt(@, p, n)]
  BY DEF GoodsReceipt, Receivable
<1>3. pr'[p].received = pr[p].received + n /\ \A x \in PR \ {p} : pr'[x] = pr[x]
  BY <1>2 DEF AfterReceipt, TypeInv, TypeOK, PurchaseDoc
<1>4. NotOverReceived'
  BY <1>1, <1>2, <1>3, ReceivedNat DEF NotOverReceived
<1>5. ASSUME NEW items \in [Line -> Item], BackedLines(items, pr) PROVE BackedLines(items, pr')
  <2>1. \A x \in PR : pr'[x].received >= pr[x].received /\ pr[x].received \in Nat /\ pr'[x].received \in Nat
    BY <1>1, <1>3, ReceivedNat
  <2>2. \A x \in Line : items[x].arrived \in Nat /\ items[x].pr \in PR \cup {None}
    BY DEF Item
  <2>3. QED BY <1>5, <2>1, <2>2 DEF BackedLines, BackedBy
<1>6. \A x \in Request : sr[x].items \in [Line -> Item]
  BY DEF TypeInv, TypeOK, RequestDoc
<1>7. RequestsBacked'
  <2>1. CASE m > 0
    <3>1. HandsOver(p)
      BY <2>1 DEF Arriving
    <3>2. r \in Request /\ k \in Line
      BY <3>1 DEF HandsOver, TypeInv, TypeOK, PurchaseDoc
    <3> DEFINE it == sr[r].items[k]
               d == AfterArrival(sr[r], k, m)
    <3>3. it \in Item /\ it.pr = p /\ sr[r] \in RequestDoc
      BY <1>6, <3>1, <3>2 DEF HandsOver, TypeInv, TypeOK
    <3>4. PurchaseQty(k, p) \in Nat /\ it.arrived \in Nat
      BY <3>2, <3>3, PurchaseQtyNat DEF Item
    <3>5. m \in Nat /\ m <= n /\ m <= PurchaseQty(k, p) - it.arrived
      BY SMTT(30), <1>1, <2>1, <3>1, <3>4 DEF Arriving, Lesser
    <3>6. it.arrived <= pr[p].received
      <4>1. p # None
        BY ConstantsOK
      <4>2. BackedBy(it, k, pr)
        BY <3>2 DEF RequestsBacked, BackedLines
      <4>3. QED BY <3>3, <4>1, <4>2 DEF BackedBy
    <3>7. d.items = [sr[r].items EXCEPT ![k] = WithArrival(it, k, m)]
      BY <3>3 DEF AfterArrival, RequestDoc
    <3>8. WithArrival(it, k, m).pr = p /\ WithArrival(it, k, m).arrived = it.arrived + m
      BY <3>3 DEF WithArrival, Item
    <3> HIDE DEF m, r, k, it
    <3>9. BackedBy(WithArrival(it, k, m), k, pr')
      BY <1>1, <1>3, <3>4, <3>5, <3>6, <3>8, ReceivedNat DEF BackedBy
    <3>10. BackedLines(sr[r].items, pr')
      BY <1>5, <1>6, <3>2 DEF RequestsBacked
    <3>11. BackedLines(d.items, pr')
      BY <1>6, <3>2, <3>7, <3>9, <3>10 DEF BackedLines
    <3>12. sr' = [sr EXCEPT ![r] = d]
      BY <2>1 DEF GoodsReceipt, m, r, k
    <3> HIDE DEF d
    <3>13. QED BY <1>5, <1>6, <3>2, <3>11, <3>12 DEF RequestsBacked, TypeInv, TypeOK
  <2>2. CASE ~(m > 0)
    <3>1. sr' = sr
      BY <2>2 DEF GoodsReceipt
    <3>2. QED BY <1>5, <1>6, <3>1 DEF RequestsBacked
  <2>3. QED BY <2>1, <2>2
<1>8. CopiesBacked'
  <2>1. \A x \in Proc : op'[x].doc = op[x].doc
    BY OutdateKept DEF GoodsReceipt
  <2>2. \A x \in Proc : op[x].doc.items \in [Line -> Item]
    <3>1. \A x \in Proc : op[x].doc \in RequestDoc
      BY DEF TypeInv, TypeOK, Op
    <3>2. QED BY <3>1 DEF RequestDoc
  <2>3. QED BY <1>5, <2>1, <2>2 DEF CopiesBacked
<1>9. QED BY <1>4, <1>7, <1>8

LEMMA BackedStep == TypeInv /\ TypeInv' /\ Backed /\ [Next]_vars => Backed'
<1> SUFFICES ASSUME TypeInv, TypeInv', Backed, [Next]_vars PROVE Backed'
  OBVIOUS
<1>1. ASSUME NEW q \in Proc, SaveConflict(q) \/ Crash(q) PROVE Backed'
  BY <1>1, DoneKept, BackedKept DEF SaveConflict, Crash, Backed, RequestsBacked, ReceiptsKept
<1>2. ASSUME NEW a \in Asset, RegisterStep(a) PROVE Backed'
  <2>1. UNCHANGED <<sr, pr, op>>
    BY <1>2 DEF RegisterStep, AssignDirectly, ReturnAsset, SetStatus, RemoveAsset
  <2>2. QED BY <2>1 DEF Backed, NotOverReceived, RequestsBacked, CopiesBacked
<1>3. CASE UNCHANGED vars
  BY <1>3 DEF vars, Backed, NotOverReceived, RequestsBacked, CopiesBacked
<1>4. QED BY <1>1, <1>2, <1>3, CreateBacked, ManagerBacked, ReviewBacked, DecideBacked, FulfillBacked,
             PurchaseBacked, ReceiveBacked, GoodsReceiptBacked DEF Next, Transaction

\* A purchase request is never received beyond its quantity, and no line counts
\* more units as arrived than its purchase request buys for it or has received.
THEOREM ArrivalsSafe == Spec => []ArrivalsBacked
<1>1. Init => Backed
  <2> SUFFICES ASSUME Init PROVE Backed
    OBVIOUS
  <2>1. TypeInv
    BY TypeInit
  <2>2. NotOverReceived
    BY ConstantsOK DEF Init, NotOverReceived
  <2>3. RequestsBacked /\ CopiesBacked
    BY <2>1, BlankBacked DEF Init, RequestsBacked, CopiesBacked
  <2>4. QED BY <2>2, <2>3 DEF Backed
<1>2. TypeInv /\ Backed => ArrivalsBacked
  <2> SUFFICES ASSUME TypeInv, Backed, NEW p \in PR, NEW x \in LinesNaming(p)
               PROVE  /\ pr[p].received <= PrQty[p]
                      /\ sr[x[1]].items[x[2]].arrived <= PurchaseQty(x[2], p)
                      /\ sr[x[1]].items[x[2]].arrived <= pr[p].received
    BY DEF ArrivalsBacked, Backed, NotOverReceived
  <2>1. x[1] \in Request /\ x[2] \in Line /\ sr[x[1]].items[x[2]].pr = p
    BY DEF LinesNaming
  <2>2. p # None
    BY ConstantsOK
  <2>3. QED BY <2>1, <2>2 DEF Backed, NotOverReceived, RequestsBacked, BackedLines, BackedBy
<1>3. QED BY <1>1, <1>2, TypeInit, TypeStep, BackedStep, PTL DEF Spec
=============================================================================
