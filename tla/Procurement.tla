----------------------------- MODULE Procurement -----------------------------
(***************************************************************************)
(* Supply requests, the purchase requests that buy what they lack, the     *)
(* goods receipts that bring it in, and the stock and assets handed out:   *)
(* src/supply-requests, src/purchase-requests, src/goods-receipt and the   *)
(* reservation half of src/assets.                                         *)
(*                                                                         *)
(* A database row is a record; `op[q]' is the request handler that process *)
(* q runs: what it has read (`doc', a copy), what it still has to do and   *)
(* the step it is at.  A handler without a transaction is one action up to *)
(* its first write and one action per later write, so other handlers fall  *)
(* between; goods receipt and collection run in a MongoDB transaction and  *)
(* are one action.  A save that rewrites the lines is checked against the  *)
(* version of the row and makes every copy read earlier stale; a save of   *)
(* scalar fields is neither checked nor noticed.                           *)
(***************************************************************************)
EXTENDS SupplyLines, Integers, FiniteSets

CONSTANTS
  Request, Line, PR, Asset, User, Proc, None,
  Consumable,      \* catalog items counted by quantity
  AssetCat,        \* catalog items whose pieces carry an Asset Tag
  CatOf,           \* [Asset -> AssetCat]
  NamedCat,        \* [Line -> catalog item the line's name matches, or None]
  MaxQty, Qty,     \* [Line -> quantity asked for, 1..MaxQty]
  PrCat, PrQty,    \* [PR -> catalog item], [PR -> quantity to buy]
  Requester,       \* [Request -> User]
  PrOwner,         \* [PR -> User]
  Approvers,       \* users with supplies.approve
  Stockkeepers,    \* users with supplies.manage: they record goods receipts
  Overriders,      \* users with supplies.fulfill and assets.assign
  Managers,        \* users who manage the requesters' department
  ManagerStage,    \* requests that pass the department manager first
  Relink,          \* catalog items a reviewer may switch a line to
  InitStock,       \* [Consumable -> Nat]
  InitAssets,      \* assets in the warehouse at the start
  Handlers         \* the handlers that run

Cat == Consumable \cup AssetCat

ASSUME ConstantsOK ==
  /\ None \notin Request \cup Line \cup PR \cup Asset \cup User \cup Cat \cup (Request \X Line)
  /\ Consumable \cap AssetCat = {}
  /\ IsFiniteSet(Line)
  /\ CatOf \in [Asset -> AssetCat]
  /\ NamedCat \in [Line -> Cat \cup {None}]
  /\ MaxQty \in Nat /\ Qty \in [Line -> 1..MaxQty]
  /\ PrCat \in [PR -> Cat] /\ PrQty \in [PR -> Nat \ {0}]
  /\ Requester \in [Request -> User] /\ PrOwner \in [PR -> User]
  /\ Approvers \cup Stockkeepers \cup Overriders \cup Managers \subseteq User
  /\ ManagerStage \subseteq Request /\ Relink \subseteq Cat
  /\ InitStock \in [Consumable -> Nat] /\ InitAssets \subseteq Asset

VARIABLES
  sr,      \* supply requests
  pr,      \* purchase requests
  stock,   \* stockQty of the consumable catalog items
  asset,   \* registered assets: status and reservedForRequestId
  op,      \* the handler each process runs
  issued   \* history: how often the stock of a line has been deducted

vars == <<sr, pr, stock, asset, op, issued>>

-----------------------------------------------------------------------------
(* Rows *)

PrStatus == {"PENDING", "APPROVED", "PARTIALLY_RECEIVED", "RECEIVED", "REJECTED", "CANCELLED"}

Item == [cat : Cat \cup {None}, line : LineStatus, pr : PR \cup {None}, arrived : Nat]

RequestDoc == [status : RequestStatus, manager : User \cup {None}, approver : User \cup {None},
               items : [Line -> Item], got : SUBSET Asset]

PurchaseDoc == [status : PrStatus, approver : User \cup {None}, received : Nat,
                link : (Request \X Line) \cup {None}]

\* "NEW" is not yet registered, "OUT" under repair or retired, "GONE" deleted.
AssetDoc == [status : {"NEW", "AVAILABLE", "ASSIGNED", "OUT", "GONE"}, reserved : Request \cup {None}]

Blank == [status |-> "NONE", manager |-> None, approver |-> None, got |-> {},
          items |-> [k \in Line |-> [cat |-> None, line |-> "WAITING", pr |-> None, arrived |-> 0]]]

Step == {"idle", "create", "manager", "resubmit", "review", "reserve", "approve", "reject",
         "release", "unlink", "fulfill", "prSave", "prLinked", "prRevert", "prDecide"}

Op == [step : Step, r : Request \cup {None}, p : PR \cup {None}, u : User \cup {None},
       to : RequestStatus \cup PrStatus, doc : RequestDoc, todo : SUBSET Line,
       k : Line \cup {None}, pick : SUBSET Asset, stale : BOOLEAN]

Idle == [step |-> "idle", r |-> None, p |-> None, u |-> None, to |-> "NONE", doc |-> Blank,
         todo |-> {}, k |-> None, pick |-> {}, stale |-> FALSE]

-----------------------------------------------------------------------------
(* Helpers *)

Present(items) == {items[k].line : k \in Line}
Derive(items) == DeriveSupplyStatus(Present(items))
Tracked(items) == IsLineTracked(Present(items))

Lesser(a, b) == IF a < b THEN a ELSE b

\* purchaseQty: what the linked purchase request buys for the line.
PurchaseQty(k, p) == IF p = None THEN 0 ELSE Lesser(PrQty[p], Qty[k])

HasPendingPurchase(items) ==
  \E k \in Line : items[k].pr # None /\ items[k].arrived < PurchaseQty(k, items[k].pr)

Linking(items, K) == [k \in Line |-> IF k \in K THEN [items[k] EXCEPT !.cat = NamedCat[k]] ELSE items[k]]
AutoLinkCatalog(items) == Linking(items, {k \in Line : items[k].cat = None})

FreeAssets(c) == {a \in Asset : CatOf[a] = c /\ asset[a] = [status |-> "AVAILABLE", reserved |-> None]}

InStock(c) == IF c \in Consumable THEN stock[c]
              ELSE Cardinality({a \in Asset : CatOf[a] = c /\ asset[a].status = "AVAILABLE"})

\* The quantity asked for by lines S together: the number of units they ask for.
QtyOf(S) == Cardinality({x \in S \X (1..MaxQty) : x[2] <= Qty[x[1]]})

ReadyLines(items, c) == {k \in Line : items[k].line = "READY" /\ items[k].cat = c}

\* Quantity of c promised to the READY lines of the other open requests.
ReservedConsumableQty(c, r) ==
  Cardinality({x \in (Request \ {r}) \X Line \X (1..MaxQty) :
                 sr[x[1]].status \in OpenStatus /\ x[2] \in ReadyLines(sr[x[1]].items, c) /\ x[3] <= Qty[x[2]]})

\* A save that rewrites the lines of r: copies of r read before are outdated.
Outdate(ops, r) ==
  [q \in Proc |-> IF ops[q].r = r THEN [ops[q] EXCEPT !.stale = TRUE] ELSE ops[q]]

Unlink(S) == [p \in PR |-> IF p \in S THEN [pr[p] EXCEPT !.link = None] ELSE pr[p]]

\* (Mutant: no optimistic concurrency on the lines.)
AnyVersionHolds(q) == TRUE

\* Mongoose's version check: the copy read is still the latest version.
VersionHolds(q) == ~op[q].stale

Begin(q, h) == op[q].step = "idle" /\ h \in Handlers
At(q, h) == op[q].step = h
Goto(q, h) == op' = [op EXCEPT ![q].step = h]
Done(q) == op' = [op EXCEPT ![q] = Idle]

-----------------------------------------------------------------------------
(* create *)

InitialStatus(r) == IF r \in ManagerStage THEN "PENDING_MANAGER" ELSE "REQUESTED"

\* prepareLinks: what a purchase request must satisfy to be linked at creation.
Linkable(r, k, p) ==
  /\ PrOwner[p] = Requester[r]
  /\ pr[p].status \in {"PENDING", "APPROVED"} /\ pr[p].received = 0 /\ pr[p].link = None
  /\ PrCat[p] = NamedCat[k]
  /\ Qty[k] - InStock(PrCat[p]) <= PrQty[p] /\ PrQty[p] <= Qty[k]

NewItems(links) ==
  [k \in Line |-> [cat |-> NamedCat[k], line |-> "WAITING", pr |-> links[k], arrived |-> 0]]

CreateBegin(q, r) ==
  /\ Begin(q, "create") /\ sr[r].status = "NONE"
  /\ \E links \in [Line -> PR \cup {None}] :
       LET linked == {k \in Line : links[k] # None}
       IN  /\ \A k \in linked : Linkable(r, k, links[k])
           /\ \A j, k \in linked : links[j] = links[k] => j = k
           /\ op' = [op EXCEPT ![q] = [Idle EXCEPT !.step = "create", !.r = r, !.todo = linked,
                       !.doc = [Blank EXCEPT !.status = InitialStatus(r), !.items = NewItems(links)]]]
  /\ UNCHANGED <<sr, pr, stock, asset, issued>>

\* One conditional update per linked purchase request.
CreateClaim(q, k) ==
  /\ At(q, "create") /\ k \in op[q].todo
  /\ LET p == op[q].doc.items[k].pr
     IN  pr[p].link = None /\ pr' = [pr EXCEPT ![p].link = <<op[q].r, k>>]
  /\ op' = [op EXCEPT ![q].todo = @ \ {k}]
  /\ UNCHANGED <<sr, stock, asset, issued>>

CreateSave(q) ==
  /\ At(q, "create") /\ op[q].todo = {} /\ sr[op[q].r].status = "NONE"
  /\ sr' = [sr EXCEPT ![op[q].r] = op[q].doc]
  /\ Done(q)
  /\ UNCHANGED <<pr, stock, asset, issued>>

\* A claim lost to another request, or an identifier used meanwhile: what was
\* claimed is released.
CreateFail(q) ==
  /\ At(q, "create")
  /\ \/ \E k \in op[q].todo : pr[op[q].doc.items[k].pr].link # None
     \/ sr[op[q].r].status # "NONE"
  /\ pr' = Unlink({op[q].doc.items[k].pr : k \in Line \ op[q].todo})
  /\ Done(q)
  /\ UNCHANGED <<sr, stock, asset, issued>>

-----------------------------------------------------------------------------
(* The department manager's stage and the requester's resubmission *)

ManagerBegin(q, r, u, to) ==
  /\ Begin(q, "manager") /\ sr[r].status = "PENDING_MANAGER"
  /\ u \in Managers /\ u # Requester[r]
  /\ to \in {"REQUESTED", "REJECTED", "NEEDS_REVISION"}
  /\ op' = [op EXCEPT ![q] = [Idle EXCEPT !.step = "manager", !.r = r, !.u = u, !.to = to]]
  /\ UNCHANGED <<sr, pr, stock, asset, issued>>

\* Letting a request pass names the manager; the other decisions do not.
DecidedByManager(d, u, to) ==
  [d EXCEPT !.status = to, !.manager = IF to = "REQUESTED" THEN u ELSE d.manager]

ManagerSave(q) ==
  /\ At(q, "manager")
  /\ sr' = [sr EXCEPT ![op[q].r] = DecidedByManager(@, op[q].u, op[q].to)]
  /\ IF op[q].to = "REJECTED" THEN Goto(q, "release") ELSE Done(q)
  /\ UNCHANGED <<pr, stock, asset, issued>>

ResubmitBegin(q, r) ==
  /\ Begin(q, "resubmit") /\ sr[r].status = "NEEDS_REVISION"
  /\ op' = [op EXCEPT ![q] = [Idle EXCEPT !.step = "resubmit", !.r = r, !.doc = sr[r]]]
  /\ UNCHANGED <<sr, pr, stock, asset, issued>>

\* (Mutant: a request sent back is resubmitted straight to the warehouse.)
ResubmittedToWarehouse(d, r) == [d EXCEPT !.items = Blank.items, !.status = "REQUESTED"]

\* The lines are replaced and the stage decided anew; the purchase requests linked
\* to the old lines are not released.
Resubmitted(d, r) == [d EXCEPT !.items = Blank.items, !.status = InitialStatus(r)]

ResubmitSave(q) ==
  /\ At(q, "resubmit") /\ VersionHolds(q)
  /\ LET r == op[q].r
     IN  /\ sr' = [sr EXCEPT ![r] = Resubmitted(@, r)]
         /\ op' = [Outdate(op, r) EXCEPT ![q] = Idle]
  /\ UNCHANGED <<pr, stock, asset, issued>>

-----------------------------------------------------------------------------
(* reviewLines: the warehouse settles lines one by one, on its copy of the *)
(* request, with side effects on purchase requests and assets that stay    *)
(* when a later line or the final save fails.                              *)

ReviewBegin(q, r, u) ==
  /\ Begin(q, "review") /\ u \in Approvers /\ u # Requester[r]
  /\ sr[r].status \in HandoverStatus
  /\ sr[r].status = "REQUESTED" \/ Tracked(sr[r].items)
  /\ \E lines \in SUBSET Line \ {{}} :
       op' = [op EXCEPT ![q] = [Idle EXCEPT !.step = "review", !.r = r, !.u = u,
                                            !.doc = sr[r], !.todo = lines]]
  /\ UNCHANGED <<sr, pr, stock, asset, issued>>

\* The catalog item of line k once the reviewer's optional choice is applied.
Choices(q, k) == {op[q].doc.items[k].cat} \cup Relink

Reviewing(q, k) == At(q, "review") /\ k \in op[q].todo

\* A READY or COLLECTED line is no longer open to a decision (a READY one may
\* still be linked to another catalog item).
Undecided(q, k) == op[q].doc.items[k].line \notin {"READY", "COLLECTED"}

Settled(q, k, item) ==
  op' = [op EXCEPT ![q] = [op[q] EXCEPT !.doc.items[k] = item, !.todo = @ \ {k}]]

ReviewLink(q, k) ==
  /\ Reviewing(q, k) /\ op[q].doc.items[k].line # "COLLECTED"
  /\ \E c \in Choices(q, k) \ {None} : Settled(q, k, [op[q].doc.items[k] EXCEPT !.cat = c])
  /\ UNCHANGED <<sr, pr, stock, asset, issued>>

\* Units of c in stock that no READY line has been promised.
FreeQty(q, k, c) ==
  stock[c] - ReservedConsumableQty(c, op[q].r) - QtyOf(ReadyLines(op[q].doc.items, c) \ {k})

ReviewConsumable(q, k) ==
  /\ Reviewing(q, k) /\ Undecided(q, k)
  /\ \E c \in Choices(q, k) \cap Consumable :
       /\ FreeQty(q, k, c) >= Qty[k]
       /\ Settled(q, k, [op[q].doc.items[k] EXCEPT !.cat = c, !.line = "READY"])
  /\ UNCHANGED <<sr, pr, stock, asset, issued>>

\* The copy d with line k linked to catalog item c.
Linked(d, k, c) == [d EXCEPT !.items[k].cat = c]

\* findFreeAssetIds ...
ReviewPick(q, k) ==
  /\ Reviewing(q, k) /\ Undecided(q, k)
  /\ \E c \in Choices(q, k) \cap AssetCat : \E S \in SUBSET FreeAssets(c) :
       /\ Cardinality(S) = Qty[k]
       /\ op' = [op EXCEPT ![q] = [op[q] EXCEPT !.step = "reserve", !.k = k, !.pick = S,
                                            !.doc = Linked(@, k, c)]]
  /\ UNCHANGED <<sr, pr, stock, asset, issued>>

\* (Mutant: reserves without looking at the piece again.)
ReserveAnyway(S, r) ==
  [a \in Asset |-> IF a \in S THEN [asset[a] EXCEPT !.reserved = r] ELSE asset[a]]

\* reserveForRequestInTx: only what is still free is reserved.
Reserve(S, r) ==
  [a \in Asset |-> IF a \in S /\ asset[a] = [status |-> "AVAILABLE", reserved |-> None]
                     THEN [asset[a] EXCEPT !.reserved = r] ELSE asset[a]]

\* The copy d with line k marked l.
Marked(d, k, l) == [d EXCEPT !.items[k].line = l]

\* ... then reserve them: too few by now ends the review, and those it did
\* reserve stay reserved.
ReviewReserve(q) ==
  /\ At(q, "reserve")
  /\ asset' = Reserve(op[q].pick, op[q].r)
  /\ IF op[q].pick \subseteq FreeAssets(op[q].doc.items[op[q].k].cat)
       THEN op' = [op EXCEPT ![q] = [op[q] EXCEPT !.step = "review", !.k = None, !.pick = {},
                                       !.todo = @ \ {op[q].k}, !.doc = Marked(@, op[q].k, "READY")]]
       ELSE Done(q)
  /\ UNCHANGED <<sr, pr, stock, issued>>

ReviewOrder(q, k) ==
  /\ Reviewing(q, k) /\ Undecided(q, k)
  /\ \E c \in Choices(q, k) :
       Settled(q, k, [op[q].doc.items[k] EXCEPT !.cat = c, !.line = "ON_ORDER"])
  /\ UNCHANGED <<sr, pr, stock, asset, issued>>

\* What reviewLines asks of a purchase request: the reviewer's own, and its
\* supplyRequestId unset (the filter of the conditional update).
Claimable(p, u) ==
  PrOwner[p] = u /\ pr[p].status \in {"PENDING", "APPROVED"} /\ pr[p].link = None

\* (Mutant: the request's status written where the line's belongs.)
OrderedThroughAsRequest(item, p) == [cat |-> PrCat[p], line |-> "ORDERED", pr |-> p, arrived |-> 0]

\* The line once it is ordered through purchase request p.
OrderedThrough(item, p) == [cat |-> PrCat[p], line |-> "ON_ORDER", pr |-> p, arrived |-> 0]

ReviewOrderLinked(q, k, p) ==
  /\ Reviewing(q, k) /\ Undecided(q, k) /\ Claimable(p, op[q].u)
  /\ PrCat[p] \in Choices(q, k)
  /\ pr' = [pr EXCEPT ![p].link = <<op[q].r, k>>]
  /\ Settled(q, k, OrderedThrough(op[q].doc.items[k], p))
  /\ UNCHANGED <<sr, stock, asset, issued>>

ReviewReject(q, k) ==
  /\ Reviewing(q, k) /\ Undecided(q, k)
  /\ pr' = Unlink({op[q].doc.items[k].pr})
  /\ \E c \in Choices(q, k) :
       Settled(q, k, [op[q].doc.items[k] EXCEPT !.cat = c, !.line = "REJECTED", !.pr = None])
  /\ UNCHANGED <<sr, stock, asset, issued>>

\* Only the fields that differ from the copy read are written.
ReviewedDoc(q) ==
  LET read == op[q].doc
      now == sr[op[q].r]
      derived == Derive(read.items)
  IN  [now EXCEPT !.items = read.items,
                  !.status = IF derived = read.status THEN @ ELSE derived,
                  !.approver = IF read.status = "REQUESTED" /\ derived # "REQUESTED"
                                 THEN op[q].u ELSE @]

ReviewSave(q) ==
  /\ At(q, "review") /\ op[q].todo = {} /\ VersionHolds(q)
  /\ sr' = [sr EXCEPT ![op[q].r] = ReviewedDoc(q)]
  /\ op' = [Outdate(op, op[q].r) EXCEPT ![q] = Idle]
  /\ UNCHANGED <<pr, stock, asset, issued>>

\* The request was changed since it was read: VersionError, no compensation.
SaveConflict(q) ==
  /\ At(q, "resubmit") \/ (At(q, "review") /\ op[q].todo = {})
  /\ ~VersionHolds(q) /\ Done(q)
  /\ UNCHANGED <<sr, pr, stock, asset, issued>>

\* A line that may not be changed, a shortage, a lost claim: the call fails with
\* no compensation either.
ReviewFail(q) ==
  /\ "reviewFail" \in Handlers /\ At(q, "review") /\ Done(q)
  /\ UNCHANGED <<sr, pr, stock, asset, issued>>

-----------------------------------------------------------------------------
(* approve and reject of a whole request *)

\* (Mutants: no check of the status, no check of who approves.)
ApprovableAnyStatus(r, u) ==
  u # Requester[r] /\ \A k \in Line : AutoLinkCatalog(sr[r].items)[k].cat # None
ApprovableByAnyone(r, u) ==
  sr[r].status = "REQUESTED" /\ \A k \in Line : AutoLinkCatalog(sr[r].items)[k].cat # None

Approvable(r, u) ==
  /\ sr[r].status = "REQUESTED" /\ u # Requester[r]
  /\ \A k \in Line : AutoLinkCatalog(sr[r].items)[k].cat # None

\* applyApproval: the status it is going to write, and in `todo' the lines that
\* autoLinkCatalog linked to a catalog item by their name.
Approving(p, r, u) ==
  [Idle EXCEPT !.step = "approve", !.r = r, !.p = p, !.u = u,
               !.todo = {k \in Line : sr[r].items[k].cat = None},
               !.to = IF HasPendingPurchase(sr[r].items) THEN "ORDERED" ELSE "APPROVED"]

ApproveBegin(q, r, u) ==
  /\ Begin(q, "approve") /\ u \in Approvers /\ Approvable(r, u)
  /\ \A k \in Line : sr[r].items[k].pr # None =>
       pr[sr[r].items[k].pr].status \notin {"PENDING", "REJECTED", "CANCELLED"}
  /\ op' = [op EXCEPT ![q] = Approving(None, r, u)]
  /\ UNCHANGED <<sr, pr, stock, asset, issued>>

\* The save writes status and approver, and the catalog items linked by name if
\* there were any: only then is it checked against the version.
VersionChecked(q) == op[q].todo # {}

ApproveSave(q) ==
  /\ At(q, "approve") /\ (VersionChecked(q) => VersionHolds(q))
  /\ sr' = [sr EXCEPT ![op[q].r] = [sr[op[q].r] EXCEPT
               !.status = op[q].to, !.approver = op[q].u, !.items = Linking(@, op[q].todo)]]
  /\ Done(q)
  /\ UNCHANGED <<pr, stock, asset, issued>>

\* A version conflict fails the call; purchase approval then reverts its own part.
ApproveConflict(q) ==
  /\ At(q, "approve") /\ VersionChecked(q) /\ ~VersionHolds(q)
  /\ IF op[q].p = None THEN Done(q) ELSE Goto(q, "prRevert")
  /\ UNCHANGED <<sr, pr, stock, asset, issued>>

RejectBegin(q, r, u) ==
  /\ Begin(q, "reject") /\ u \in Approvers /\ sr[r].status = "REQUESTED"
  /\ op' = [op EXCEPT ![q] = [Idle EXCEPT !.step = "reject", !.r = r, !.u = u]]
  /\ UNCHANGED <<sr, pr, stock, asset, issued>>

RejectSave(q) ==
  /\ At(q, "reject")
  /\ sr' = [sr EXCEPT ![op[q].r] = [@ EXCEPT !.status = "REJECTED", !.approver = op[q].u]]
  /\ Goto(q, "release")
  /\ UNCHANGED <<pr, stock, asset, issued>>

\* releaseReservationsForRequest, for the pieces in S.
Release(f, r, S) ==
  [a \in Asset |-> IF a \in S /\ f[a].reserved = r THEN [f[a] EXCEPT !.reserved = None] ELSE f[a]]

RejectRelease(q) ==
  /\ At(q, "release")
  /\ asset' = Release(asset, op[q].r, Asset)
  /\ Goto(q, "unlink")
  /\ UNCHANGED <<sr, pr, stock, issued>>

RejectUnlink(q) ==
  /\ At(q, "unlink")
  /\ pr' = Unlink({p \in PR : pr[p].link \in {op[q].r} \X Line})
  /\ Done(q)
  /\ UNCHANGED <<sr, stock, asset, issued>>

-----------------------------------------------------------------------------
(* Handing out: receive (one transaction) and fulfill (none) *)

MayCollect(r, u) == u = Requester[r] \/ (u \in Overriders /\ u # sr[r].approver)

\* (Mutant: a line collected before may be collected again.)
CollectableAgain(r, K) ==
  IF Tracked(sr[r].items) THEN K # {} /\ \A k \in K : sr[r].items[k].line \in {"READY", "COLLECTED"}
  ELSE K = Line /\ ~HasPendingPurchase(sr[r].items)

\* The lines one collection may take: READY ones of a reviewed request, all of a
\* request approved as a whole once its purchases have arrived.
Collectable(r, K) ==
  IF Tracked(sr[r].items) THEN K # {} /\ \A k \in K : sr[r].items[k].line = "READY"
  ELSE K = Line /\ ~HasPendingPurchase(sr[r].items)

LinesOf(r, K, c) == {k \in K : sr[r].items[k].cat = c}
PiecesOf(S, c) == {a \in S : CatOf[a] = c}

\* Pieces collected earlier count towards a request approved as a whole.
CollectedBefore(r) == IF Tracked(sr[r].items) THEN {} ELSE sr[r].got

\* Every line of an asset category is scanned in full, with pieces that are in
\* the warehouse and not reserved for another request.
Scanned(r, K, S) ==
  /\ \A a \in S : asset[a].status = "AVAILABLE" /\ asset[a].reserved \in {None, r}
  /\ \A c \in AssetCat : QtyOf(LinesOf(r, K, c)) =
                           Cardinality(PiecesOf(S, c)) + Cardinality(PiecesOf(CollectedBefore(r), c))

\* Categories whose reservations the collection of lines K ends.
ReleasedCats(r, K) ==
  IF Tracked(sr[r].items)
    THEN {c \in AssetCat : LinesOf(r, K, c) # {} /\ \A k \in LinesOf(r, Line \ K, c) :
                             sr[r].items[k].line \in {"REJECTED", "COLLECTED"}}
    ELSE AssetCat

Collected(item) == [item EXCEPT !.line = "COLLECTED"]

CollectedDoc(r, K, S) ==
  LET d == sr[r]
      items == [k \in Line |-> IF k \in K THEN Collected(d.items[k]) ELSE d.items[k]]
  IN  IF Tracked(d.items)
        THEN [d EXCEPT !.items = items, !.status = Derive(items), !.got = @ \cup S]
        ELSE [d EXCEPT !.status = "CLOSED", !.got = @ \cup S]

Deduct(r, K) == [c \in Consumable |-> stock[c] - QtyOf(LinesOf(r, K, c))]

\* The save rewrites the lines only of a reviewed request, and the list of pieces
\* handed out only if there are any: else copies read before stay current.
Receive(r, u, K, S) ==
  /\ "receive" \in Handlers /\ sr[r].status \in OpenStatus /\ MayCollect(r, u)
  /\ Collectable(r, K) /\ Scanned(r, K, S)
  /\ \A c \in Consumable : stock[c] >= QtyOf(LinesOf(r, K, c))
  /\ stock' = Deduct(r, K)
  /\ asset' = LET left == [a \in Asset |-> IF a \in S THEN [status |-> "ASSIGNED", reserved |-> None]
                                           ELSE asset[a]]
              IN  Release(left, r, {a \in Asset : CatOf[a] \in ReleasedCats(r, K)})
  /\ sr' = [sr EXCEPT ![r] = CollectedDoc(r, K, S)]
  /\ issued' = [issued EXCEPT ![r] = [k \in Line |->
                  @[k] + IF k \in K /\ sr[r].items[k].cat \in Consumable THEN 1 ELSE 0]]
  /\ op' = IF Tracked(sr[r].items) \/ S # {} THEN Outdate(op, r) ELSE op
  /\ UNCHANGED pr

\* fulfill closes a request of consumables without scanning, whatever the status
\* of its lines: it checks every line, then deducts line by line.
FulfillBegin(q, r) ==
  /\ Begin(q, "fulfill")
  /\ sr[r].status \in OpenStatus /\ ~HasPendingPurchase(sr[r].items)
  /\ \A k \in Line : sr[r].items[k].cat \notin AssetCat
  /\ \A k \in Line : sr[r].items[k].cat \in Consumable => stock[sr[r].items[k].cat] >= Qty[k]
  /\ op' = [op EXCEPT ![q] = [Idle EXCEPT !.step = "fulfill", !.r = r, !.doc = sr[r],
                                          !.todo = {k \in Line : sr[r].items[k].cat # None}]]
  /\ UNCHANGED <<sr, pr, stock, asset, issued>>

\* (Mutant: the decrement has no filter.)
AlwaysCovers(c, n) == TRUE

\* The filter of adjustStock: the decrement happens only if the stock left covers it.
Covers(c, n) == stock[c] >= n

FulfillDeduct(q, k) ==
  /\ At(q, "fulfill") /\ k \in op[q].todo
  /\ LET c == op[q].doc.items[k].cat
     IN  Covers(c, Qty[k]) /\ stock' = [stock EXCEPT ![c] = @ - Qty[k]]
  /\ issued' = [issued EXCEPT ![op[q].r][k] = @ + 1]
  /\ op' = [op EXCEPT ![q].todo = @ \ {k}]
  /\ UNCHANGED <<sr, pr, asset>>

FulfillSave(q) ==
  /\ At(q, "fulfill") /\ op[q].todo = {}
  /\ sr' = [sr EXCEPT ![op[q].r].status = "CLOSED"]
  /\ Done(q)
  /\ UNCHANGED <<pr, stock, asset, issued>>

\* The stock of a line was taken meanwhile; earlier lines stay deducted.
FulfillFail(q, k) ==
  /\ At(q, "fulfill") /\ k \in op[q].todo
  /\ stock[op[q].doc.items[k].cat] < Qty[k]
  /\ Done(q)
  /\ UNCHANGED <<sr, pr, stock, asset, issued>>

-----------------------------------------------------------------------------
(* Purchase requests *)

\* pendingLinkedRequest: the linked supply request, if it still waits for approval.
PendingLinked(p) ==
  IF pr[p].link # None /\ sr[pr[p].link[1]].status = "REQUESTED" THEN pr[p].link[1] ELSE None

PrApproveBegin(q, p, u) ==
  /\ Begin(q, "prApprove") /\ u \in Approvers /\ u # PrOwner[p]
  /\ pr[p].status = "PENDING"
  /\ PendingLinked(p) # None => Approvable(PendingLinked(p), u)
  /\ op' = [op EXCEPT ![q] = [Idle EXCEPT !.step = "prSave", !.p = p, !.u = u, !.r = PendingLinked(p)]]
  /\ UNCHANGED <<sr, pr, stock, asset, issued>>

PrApproveSave(q) ==
  /\ At(q, "prSave")
  /\ pr' = [pr EXCEPT ![op[q].p] = [@ EXCEPT !.status = "APPROVED", !.approver = op[q].u]]
  /\ IF op[q].r = None THEN Done(q) ELSE Goto(q, "prLinked")
  /\ UNCHANGED <<sr, stock, asset, issued>>

\* approveWithPurchase reads the request anew; the other purchase requests it may
\* be linked to are not looked at.
PrApproveLinked(q) ==
  /\ At(q, "prLinked")
  /\ IF Approvable(op[q].r, op[q].u)
       THEN op' = [op EXCEPT ![q] = Approving(op[q].p, op[q].r, op[q].u)]
       ELSE Goto(q, "prRevert")
  /\ UNCHANGED <<sr, pr, stock, asset, issued>>

\* The catch block of approve: the purchase request waits for approval again.
PrRevert(q) ==
  /\ At(q, "prRevert")
  /\ pr' = [pr EXCEPT ![op[q].p] = [@ EXCEPT !.status = "PENDING", !.approver = None]]
  /\ Done(q)
  /\ UNCHANGED <<sr, stock, asset, issued>>

\* reject by an approver, cancel by the owner.
PrDecideBegin(q, p, u, to) ==
  /\ Begin(q, "prDecide") /\ pr[p].status = "PENDING"
  /\ \/ to = "REJECTED" /\ u \in Approvers /\ u # PrOwner[p]
     \/ to = "CANCELLED" /\ u = PrOwner[p]
  /\ op' = [op EXCEPT ![q] = [Idle EXCEPT !.step = "prDecide", !.p = p, !.u = u, !.to = to]]
  /\ UNCHANGED <<sr, pr, stock, asset, issued>>

PrDecideSave(q) ==
  /\ At(q, "prDecide")
  /\ LET p == op[q].p
     IN  pr' = [pr EXCEPT ![p] = [pr[p] EXCEPT
                  !.status = op[q].to, !.approver = IF op[q].to = "REJECTED" THEN op[q].u ELSE @]]
  /\ Done(q)
  /\ UNCHANGED <<sr, stock, asset, issued>>

-----------------------------------------------------------------------------
(* Goods receipt: one transaction over the purchase request, the stock or  *)
(* the asset register, and the supply request that waits for the goods.    *)

Receivable(p, u, n) ==
  /\ pr[p].status \in {"APPROVED", "PARTIALLY_RECEIVED"} /\ u # pr[p].approver
  /\ n <= PrQty[p] - pr[p].received

\* (Mutant: the quantity received is overwritten instead of added to.)
AfterReceiptOverwrites(d, p, n) ==
  [d EXCEPT !.received = n,
            !.status = IF d.received + n >= PrQty[p] THEN "RECEIVED" ELSE "PARTIALLY_RECEIVED"]

AfterReceipt(d, p, n) ==
  [d EXCEPT !.received = @ + n,
            !.status = IF d.received + n >= PrQty[p] THEN "RECEIVED" ELSE "PARTIALLY_RECEIVED"]

\* The link still means what it says: the request is open to goods and its line
\* names this purchase request.
HandsOver(p) ==
  /\ pr[p].link # None
  /\ sr[pr[p].link[1]].status \in HandoverStatus
  /\ sr[pr[p].link[1]].items[pr[p].link[2]].pr = p

\* (Mutant: the whole receipt goes to the line.)
ArrivingAll(p, n) == IF HandsOver(p) THEN n ELSE 0

\* Units of a receipt of n that go to the linked line; the rest is free stock.
Arriving(p, n) ==
  IF HandsOver(p)
    THEN Lesser(n, PurchaseQty(pr[p].link[2], p) - sr[pr[p].link[1]].items[pr[p].link[2]].arrived)
    ELSE 0

\* An ordered line whose purchase n more units complete.
Completes(item, k, n) == item.line = "ON_ORDER" /\ item.arrived + n >= PurchaseQty(k, item.pr)

WithArrival(item, k, n) ==
  [item EXCEPT !.arrived = @ + n, !.line = IF Completes(item, k, n) THEN "READY" ELSE @]

\* applyArrivalInTx: the request once n units have arrived for line k.
AfterArrival(d, k, n) ==
  LET items == [d.items EXCEPT ![k] = WithArrival(d.items[k], k, n)]
  IN  [d EXCEPT !.items = items,
                !.status = IF Completes(d.items[k], k, n) THEN Derive(items)
                           ELSE IF d.status = "ORDERED" /\ ~HasPendingPurchase(items) THEN "APPROVED"
                           ELSE @]

\* Newly registered pieces S, of which those in R are reserved for r.
Register(S, R, r) ==
  [a \in Asset |-> IF a \in S THEN [status |-> "AVAILABLE", reserved |-> IF a \in R THEN r ELSE None]
                  ELSE asset[a]]

NewPieces(c) == {a \in Asset : CatOf[a] = c /\ asset[a].status = "NEW"}

GoodsReceipt(p, u, n, S, R) ==
  LET m == Arriving(p, n)
      r == pr[p].link[1]
      k == pr[p].link[2]
  IN  /\ "goodsReceipt" \in Handlers /\ u \in Stockkeepers /\ Receivable(p, u, n)
      /\ IF PrCat[p] \in Consumable
           THEN S = {} /\ R = {} /\ stock' = [stock EXCEPT ![PrCat[p]] = @ + n]
           ELSE /\ S \subseteq NewPieces(PrCat[p]) /\ Cardinality(S) = n
                /\ R \subseteq S /\ Cardinality(R) = m
                /\ UNCHANGED stock
      /\ asset' = Register(S, R, IF m > 0 THEN r ELSE None)
      /\ pr' = [pr EXCEPT ![p] = AfterReceipt(@, p, n)]
      /\ IF m > 0
           THEN sr' = [sr EXCEPT ![r] = AfterArrival(@, k, m)] /\ op' = Outdate(op, r)
           ELSE UNCHANGED <<sr, op>>
      /\ UNCHANGED issued

-----------------------------------------------------------------------------
(* The asset register's own operations, as far as reservations meet them:  *)
(* assign refuses a reserved piece, a change of status and a deletion do    *)
(* not look at the reservation, and a change of status keeps it.            *)

AssignDirectly(a) ==
  /\ "assign" \in Handlers
  /\ asset[a] = [status |-> "AVAILABLE", reserved |-> None]
  /\ asset' = [asset EXCEPT ![a].status = "ASSIGNED"]
  /\ UNCHANGED <<sr, pr, stock, op, issued>>

ReturnAsset(a) ==
  /\ "assign" \in Handlers /\ asset[a].status = "ASSIGNED"
  /\ asset' = [asset EXCEPT ![a].status = "AVAILABLE"]
  /\ UNCHANGED <<sr, pr, stock, op, issued>>

SetStatus(a, s) ==
  /\ "setStatus" \in Handlers /\ asset[a].status \in {"AVAILABLE", "ASSIGNED", "OUT"}
  /\ asset' = [asset EXCEPT ![a].status = s]
  /\ UNCHANGED <<sr, pr, stock, op, issued>>

RemoveAsset(a) ==
  /\ "remove" \in Handlers /\ asset[a].status \in {"AVAILABLE", "ASSIGNED", "OUT"}
  /\ asset' = [asset EXCEPT ![a] = [status |-> "GONE", reserved |-> None]]
  /\ UNCHANGED <<sr, pr, stock, op, issued>>

RegisterStep(a) ==
  \/ AssignDirectly(a) \/ ReturnAsset(a) \/ RemoveAsset(a)
  \/ \E s \in {"AVAILABLE", "OUT"} : SetStatus(a, s)

\* The server stops, or the database fails, between two writes of a handler.
Crash(q) ==
  /\ "crash" \in Handlers /\ op[q].step # "idle" /\ Done(q)
  /\ UNCHANGED <<sr, pr, stock, asset, issued>>

-----------------------------------------------------------------------------
Init ==
  /\ sr = [r \in Request |-> Blank]
  /\ pr = [p \in PR |-> [status |-> "PENDING", approver |-> None, received |-> 0, link |-> None]]
  /\ stock = InitStock
  /\ asset = [a \in Asset |-> [status |-> IF a \in InitAssets THEN "AVAILABLE" ELSE "NEW", reserved |-> None]]
  /\ op = [q \in Proc |-> Idle]
  /\ issued = [r \in Request |-> [k \in Line |-> 0]]

CreateStep(q) ==
  \/ \E r \in Request : CreateBegin(q, r)
  \/ \E k \in Line : CreateClaim(q, k)
  \/ CreateSave(q) \/ CreateFail(q)

ManagerStep(q) ==
  \/ \E r \in Request, u \in User, to \in RequestStatus : ManagerBegin(q, r, u, to)
  \/ ManagerSave(q)
  \/ \E r \in Request : ResubmitBegin(q, r)
  \/ ResubmitSave(q)

ReviewStep(q) ==
  \/ \E r \in Request, u \in User : ReviewBegin(q, r, u)
  \/ \E k \in Line : ReviewLink(q, k) \/ ReviewConsumable(q, k) \/ ReviewPick(q, k)
                     \/ ReviewOrder(q, k) \/ ReviewReject(q, k)
  \/ \E k \in Line, p \in PR : ReviewOrderLinked(q, k, p)
  \/ ReviewReserve(q) \/ ReviewSave(q) \/ ReviewFail(q)

DecideStep(q) ==
  \/ \E r \in Request, u \in User : ApproveBegin(q, r, u) \/ RejectBegin(q, r, u)
  \/ ApproveSave(q) \/ ApproveConflict(q)
  \/ RejectSave(q) \/ RejectRelease(q) \/ RejectUnlink(q)

FulfillStep(q) ==
  \/ \E r \in Request : FulfillBegin(q, r)
  \/ \E k \in Line : FulfillDeduct(q, k) \/ FulfillFail(q, k)
  \/ FulfillSave(q)

PurchaseStep(q) ==
  \/ \E p \in PR, u \in User : PrApproveBegin(q, p, u)
  \/ \E p \in PR, u \in User, to \in PrStatus : PrDecideBegin(q, p, u, to)
  \/ PrApproveSave(q) \/ PrApproveLinked(q) \/ PrRevert(q) \/ PrDecideSave(q)

Transaction ==
  \/ \E r \in Request, u \in User, K \in SUBSET Line, S \in SUBSET Asset : Receive(r, u, K, S)
  \/ \E p \in PR, u \in User : \E n \in 1..PrQty[p], S, R \in SUBSET Asset : GoodsReceipt(p, u, n, S, R)
  \/ \E a \in Asset : RegisterStep(a)

Next ==
  \/ \E q \in Proc : \/ CreateStep(q) \/ ManagerStep(q) \/ ReviewStep(q) \/ DecideStep(q)
                     \/ FulfillStep(q) \/ PurchaseStep(q) \/ SaveConflict(q) \/ Crash(q)
  \/ Transaction

Spec == Init /\ [][Next]_vars

-----------------------------------------------------------------------------
(* Properties *)

\* Every row and every handler's copy of one stays within its schema.
TypeOK ==
  /\ sr \in [Request -> RequestDoc]
  /\ pr \in [PR -> PurchaseDoc]
  /\ stock \in [Consumable -> Int]
  /\ asset \in [Asset -> AssetDoc]
  /\ op \in [Proc -> Op]
  /\ issued \in [Request -> [Line -> Nat]]

\* The lines, of any request, that name purchase request p.
LinesNaming(p) == {x \in Request \X Line : sr[x[1]].items[x[2]].pr = p}

\* A purchase request is never received beyond the quantity ordered, and no line
\* counts more units as arrived than its purchase request buys for it or has
\* received, whatever copies of the request are saved when (loadForReceiveInTx,
\* applyArrivalInTx, and the reset of arrivedQty when reviewLines links a line).
ArrivalsBacked ==
  \A p \in PR :
    /\ pr[p].received <= PrQty[p]
    /\ \A x \in LinesNaming(p) :
         /\ sr[x[1]].items[x[2]].arrived <= PurchaseQty(x[2], p)
         /\ sr[x[1]].items[x[2]].arrived <= pr[p].received

\* Two handlers that deduct from one stock never take it below zero, although
\* each checks the quantity first and deducts later (adjustStock).
StockNeverNegative == \A c \in Consumable : stock[c] >= 0

\* A piece reserved for a request is handed out only in a collection of that
\* request, whatever happens to it in between (repair, retirement, a review that
\* picked it before), and its reservation is never handed to another request
\* directly (reservedForRequestId, src/assets/schemas/asset.schema.ts).  It may
\* leave the warehouse: setStatus and remove do not look at the reservation.
ReservedPieceGoesToItsRequest ==
  [][\A a \in Asset : asset[a].reserved # None =>
       /\ asset'[a].reserved \in {asset[a].reserved, None}
       /\ asset'[a].status = "ASSIGNED" => a \in sr'[asset[a].reserved].got]_vars

\* The life of the lines, whatever handlers race on a request: see LineLifecycle.
Lines == [r \in Request |-> [k \in Line |-> sr[r].items[k].line]]
Lifecycle == INSTANCE LineLifecycle WITH line <- Lines
LinesFollowLifecycle == Lifecycle!Spec

\* A request that is closed or rejected stays so.
ClosedIsFinal ==
  [][\A r \in Request : sr[r].status \in {"CLOSED", "REJECTED"} => sr'[r].status = sr[r].status]_vars

\* The stock of a line is deducted at most once.
IssuedOnce == \A r \in Request, k \in Line : issued[r][k] <= 1

\* A request that has a department manager's stage reaches the warehouse only once
\* a manager other than its requester has let it pass, be it sent back and
\* resubmitted in between; and no approval from before the manager sent it back
\* counts for the lines written since (managerApprovedBy; managerApprove, resubmit).
ManagerStageIsNotBypassed ==
  \A r \in ManagerStage :
    /\ sr[r].status \in HandoverStatus \cup {"CLOSED"} => sr[r].manager \notin {None, Requester[r]}
    /\ sr[r].status \in {"PENDING_MANAGER", "NEEDS_REVISION"} => sr[r].manager = None

\* Whoever approved an open or closed request is not the one who asked for it.
ApproverIsNotRequester ==
  \A r \in Request : sr[r].status \in OpenStatus \cup {"CLOSED"} =>
    sr[r].approver \notin {None, Requester[r]}
=============================================================================
