----------------------------- MODULE AssetLedger -----------------------------
(***************************************************************************)
(* The register of tagged pieces: numbering, assignment, return, claims,   *)
(* repair and removal; the catalog items they belong to, or that are only  *)
(* counted, with their stock; the goods received for neither a request nor *)
(* a purchase request (src/assets, src/supply-catalog, src/goods-receipt,  *)
(* src/maintenance-history).                                               *)
(*                                                                         *)
(* What the code does in one database transaction is one action.  A        *)
(* creation (number, insertion, count), a recalculation of stock (read,    *)
(* count, write), a correction of stock or a change of an item's type      *)
(* (check, write) and the repair record that follows a change of status    *)
(* are separate writes: they are steps of a handler `op[q]'.  Requests are *)
(* approved and ready; module Procurement has their life.                  *)
(*                                                                         *)
(* Abstracted: names, tags and serial numbers, whether an item is enabled, *)
(* prices, invoices and who may receive without a purchase request; items  *)
(* from before item types existed are left out.                            *)
(***************************************************************************)
EXTENDS Integers, Sequences, FiniteSets

CONSTANTS
  MaxPiece,     \* bound: numbers given to pieces
  Item,         \* catalog items; their numbers are never given twice
  MaxStock,     \* bound: units counted of an item
  Person, Department, Proc, None,
  Request,      \* supply requests, numbered in order of creation
  Asker,        \* [Request -> Person]
  Wants,        \* [Request -> Item], the one line of the request
  Quantity,     \* [Request -> Nat]
  Alike,        \* pieces whose type and requests whose line have names that match: SUBSET (Piece \X Request)
  Assigners,    \* persons with the permission assets.assign
  Members,      \* [Department -> SUBSET Person]
  SameBranch,   \* pieces and departments of one branch: SUBSET (Piece \X Department)
  SoD,          \* segregation of duties is enforced
  MaxRepairs,   \* bound: repair records
  Runs          \* [Proc -> handlers that the process runs]

Piece == 1..MaxPiece

ASSUME LedgerConstantsOK ==
  /\ MaxPiece \in Nat /\ MaxStock \in Nat /\ MaxRepairs \in Nat /\ SoD \in BOOLEAN /\ IsFiniteSet(Proc)
  /\ Request \subseteq Nat \ {0}
  /\ Asker \in [Request -> Person] /\ Wants \in [Request -> Item] /\ Quantity \in [Request -> Nat \ {0}]
  /\ Assigners \subseteq Person /\ Members \in [Department -> SUBSET Person]
  /\ SameBranch \subseteq Piece \X Department /\ Alike \subseteq Piece \X Request
  /\ None \notin Person \cup Department \cup Item /\ None \notin Request /\ None \notin {"ASSET", "CONSUMABLE"}

VARIABLES
  asset,     \* [Piece -> row]
  seq,       \* the counter of piece numbers
  kind,      \* [Item -> itemType], None before the item is created
  stock,     \* [Item -> Nat], the catalog's count
  units,     \* history, [Item -> Int]: units counted into an item since its stock was last
             \* recalculated, as long as it is not unsure
  repair,    \* [Piece -> sequence of repair records, the newest last]
  got,       \* [Request -> SUBSET Piece], receivedAssetIds
  closed,    \* [Request -> BOOLEAN], the line is collected and the request closed
  op,        \* the handler each process runs
  unsure     \* history, [Item -> BOOLEAN]: a mismatch was logged for the item, a piece in store was
             \* given to or taken from it by an edit, or a recalculation or a change of type
             \* was overtaken

vars == <<asset, seq, kind, stock, units, repair, got, closed, op, unsure>>
catalog == <<kind, units>>

-----------------------------------------------------------------------------
(* Rows *)

AssetStatus == {"AVAILABLE", "ASSIGNED", "UNDER_REPAIR", "RETIRED"}

\* "GONE" tells a deleted row from one that never was; the code sees neither.
\* `open' is assignmentHistory without the entries that have a return date;
\* `by' and `via' are history: who gave the piece, and for which request.
AssetDoc ==
  [status : AssetStatus \cup {"NONE", "GONE"}, item : Item \cup {None},
   holder : Person \cup {None}, dept : Department \cup {None}, open : Seq(Person),
   for : Request \cup {None}, by : Person \cup {None}, via : Request \cup {None}]

NewPiece(i) == [status |-> "AVAILABLE", item |-> i, holder |-> None, dept |-> None, open |-> <<>>,
                for |-> None, by |-> None, via |-> None]

NoPiece == [NewPiece(None) EXCEPT !.status = "NONE"]

RecordStatus == {"IN_PROGRESS", "COMPLETED"}

CatalogItemType == {"ASSET", "CONSUMABLE"}

Step == {"idle", "insert", "count", "recount", "restock", "adjust", "retype",
         "openRecord", "findRecord", "closeRecord"}

Op == [step : Step, p : Piece \cup {0}, i : Item \cup {None}, n : Int, had : Nat,
       to : CatalogItemType \cup {None}]

Idle == [step |-> "idle", p |-> 0, i |-> None, n |-> 0, had |-> 0, to |-> None]

At(q, s) == op[q].step = s
Begin(q, h) == At(q, "idle") /\ h \in Runs[q]
Done(q) == op' = [op EXCEPT ![q] = Idle]

Exists(p) == asset[p].status \in AssetStatus
Available(i) == {p \in Piece : asset[p].status = "AVAILABLE" /\ asset[p].item = i}

\* Pieces inserted whose creation has not yet raised the stock of item i.
Uncounted(i) == {q \in Proc : At(q, "count") /\ op[q].i = i}

-----------------------------------------------------------------------------
(* syncStock and adjustStockTracked *)

Contribution(s) == IF s = "AVAILABLE" THEN 1 ELSE 0

\* (Mutant: a piece that leaves the store stays counted.)
DeltaOfArrivals(from, to) == IF Contribution(to) > Contribution(from) THEN 1 ELSE 0

Delta(from, to) == Contribution(to) - Contribution(from)

\* (Mutant: stock goes below zero.)
Unclamped(n) == n

Clamped(n) == IF n < 0 THEN 0 ELSE n

\* A piece without a catalog item has no stock.  Stock is never taken below
\* zero: what is missing is logged as a mismatch.
SyncStock(i, from, to) ==
  LET want == stock[i] + Delta(from, to)
  IN  IF i = None THEN UNCHANGED <<stock, unsure>>
      ELSE /\ stock' = [stock EXCEPT ![i] = Clamped(want)]
           /\ unsure' = [unsure EXCEPT ![i] = @ \/ want < 0]

\* strict: an assignment is refused when the catalog counts nothing in stock.
InStock(p) == asset[p].item # None => stock[asset[p].item] >= 1

-----------------------------------------------------------------------------
(* Registration: generateId, create, createAssignedAssetInTx *)

\* (Mutant: the number after the largest in use.)
NumberAfterLast == LET used == {p \in Piece : Exists(p)} \cup {0}
                   IN  1 + CHOOSE n \in used : \A m \in used : m <= n

\* The counter, raised to the largest number in use, then incremented.
NextNumber == LET used == {p \in Piece : Exists(p)} \cup {seq}
              IN  1 + CHOOSE n \in used : \A m \in used : m <= n

CreateBegin(q, i) ==
  /\ Begin(q, "create") /\ NextNumber \in Piece
  /\ i # None => kind[i] = "ASSET"
  /\ seq' = NextNumber
  /\ op' = [op EXCEPT ![q] = [Idle EXCEPT !.step = "insert", !.p = NextNumber, !.i = i]]
  /\ UNCHANGED <<asset, catalog, stock, repair, got, closed, unsure>>

CreateInsert(q) ==
  /\ At(q, "insert") /\ ~Exists(op[q].p)
  /\ asset' = [asset EXCEPT ![op[q].p] = NewPiece(op[q].i)]
  /\ IF op[q].i = None THEN Done(q) ELSE op' = [op EXCEPT ![q].step = "count"]
  /\ UNCHANGED <<seq, catalog, stock, repair, got, closed, unsure>>

CreateCount(q) ==
  /\ At(q, "count")
  /\ stock' = [stock EXCEPT ![op[q].i] = @ + 1]
  /\ Done(q)
  /\ UNCHANGED <<asset, seq, catalog, repair, got, closed, unsure>>

\* bulkImport of pieces: each row is a create, and a row that fails is reported.
\* Without a type the row takes the name of its item, which must exist.
ImportRow(q, i) == (i # None => kind[i] # None) /\ CreateBegin(q, i)

\* createAssignedAssetInTx, for each number in new, without an assignee
Registered(new, i) == [p \in Piece |-> IF p \in new THEN NewPiece(i) ELSE asset[p]]

\* n pieces registered in the transaction of a goods receipt, each with its
\* own number and each counted.
Register(i, n) ==
  LET new == NextNumber .. (NextNumber + n - 1)
  IN  /\ new \subseteq Piece
      /\ asset' = Registered(new, i)
      /\ seq' = NextNumber + n - 1
      /\ stock' = [stock EXCEPT ![i] = @ + n * Delta("NONE", "AVAILABLE")]
      /\ UNCHANGED units

\* n units of item i put in, or taken out
Count(i, n) ==
  /\ stock' = [stock EXCEPT ![i] = @ + n]
  /\ units' = [units EXCEPT ![i] = IF unsure[i] THEN @ ELSE @ + n]

\* n units received of an item that is only counted
CountIn(i, n) ==
  /\ stock[i] + n <= MaxStock
  /\ Count(i, n)
  /\ UNCHANGED <<asset, seq>>

-----------------------------------------------------------------------------
(* Catalog items and the goods received for them *)

\* createInTx and create: the row of a new item
NewItem(i, k) == kind[i] = None /\ kind' = [kind EXCEPT ![i] = k]

\* create: a tagged item starts with no stock, whatever was asked.
CreateItem(i, k, n) ==
  /\ NewItem(i, k)
  /\ IF k = "ASSET" THEN UNCHANGED <<asset, seq, stock, units>> ELSE CountIn(i, n)
  /\ UNCHANGED <<repair, got, closed, op, unsure>>

\* bulkImport of items: each row is a create, and a row that fails is reported.
ImportItem(i, k, n) == CreateItem(i, k, n)

\* trackingMode of an item of kind k
Receive(i, k, n) == IF k = "ASSET" THEN Register(i, n) ELSE CountIn(i, n)

\* The item that receive finds in the catalog.
Found(i) == kind[i] # None

\* restock: receive for an item of the catalog
Restock(i, n) ==
  /\ Found(i)
  /\ Receive(i, kind[i], n)
  /\ UNCHANGED <<kind, repair, got, closed, op, unsure>>

\* newItem: the item and what is received of it, in one transaction
ReceiveNewItem(i, k, n) ==
  /\ NewItem(i, k)
  /\ Receive(i, k, n)
  /\ UNCHANGED <<repair, got, closed, op, unsure>>

\* The controller refuses to correct the stock of a tagged item.
AdjustBegin(q, i, d) ==
  /\ Begin(q, "adjust") /\ kind[i] = "CONSUMABLE"
  /\ op' = [op EXCEPT ![q] = [Idle EXCEPT !.step = "adjust", !.i = i, !.n = d]]
  /\ UNCHANGED <<asset, seq, catalog, stock, repair, got, closed, unsure>>

\* adjustStock: refused when the stock does not cover what is taken.
AdjustWrite(q) ==
  /\ At(q, "adjust")
  /\ LET i == op[q].i
     IN  IF stock[i] + op[q].n \in 0..MaxStock
           THEN /\ Count(i, op[q].n)
                /\ unsure' = [unsure EXCEPT ![i] = @ \/ kind[i] = "ASSET"]
           ELSE UNCHANGED <<stock, units, unsure>>
  /\ Done(q)
  /\ UNCHANGED <<asset, seq, kind, repair, got, closed>>

\* catalogHasAssets
HasAssets(i) == \E p \in Piece : Exists(p) /\ asset[p].status # "RETIRED" /\ asset[p].item = i

\* (Mutant: the stock is not looked at.)
RetypableWithStock(i) == ~HasAssets(i)

Retypable(i) == ~HasAssets(i) /\ stock[i] = 0

\* update: the type changes only of an item with no stock and no piece but
\* retired ones.
RetypeBegin(q, i, k) ==
  /\ Begin(q, "retype") /\ kind[i] \in CatalogItemType \ {k}
  /\ Retypable(i)
  /\ op' = [op EXCEPT ![q] = [Idle EXCEPT !.step = "retype", !.i = i, !.had = stock[i], !.to = k]]
  /\ UNCHANGED <<asset, seq, catalog, stock, repair, got, closed, unsure>>

RetypeWrite(q) ==
  /\ At(q, "retype")
  /\ LET i == op[q].i
     IN  /\ kind' = [kind EXCEPT ![i] = op[q].to]
         /\ unsure' = [unsure EXCEPT ![i] = @ \/ stock[i] # op[q].had]
  /\ Done(q)
  /\ UNCHANGED <<asset, seq, stock, units, repair, got, closed>>

\* update: the item of a piece may be edited, with no change of stock.
Relabel(p, i) ==
  /\ Exists(p) /\ asset[p].item # i
  /\ asset' = [asset EXCEPT ![p].item = i]
  /\ unsure' = [j \in Item |-> unsure[j] \/ (asset[p].status = "AVAILABLE" /\ j \in {i, asset[p].item})]
  /\ UNCHANGED <<seq, catalog, stock, repair, got, closed, op>>

-----------------------------------------------------------------------------
(* Assignment, claim and return *)

Free(p, r) ==
  /\ asset[p].status = "AVAILABLE"
  /\ asset[p].for = None \/ asset[p].for = r

\* (Mutant: the entry that was open stays open.)
CloseNone(entries) == entries

\* The first entry without a return date gets one.
CloseEntry(entries) == IF entries = <<>> THEN <<>> ELSE Tail(entries)

\* performAssign: from u to v, on behalf of department d or of request r.
Assign(p, u, v, d, r) ==
  /\ Free(p, r) /\ InStock(p)
  /\ asset' = [asset EXCEPT ![p] =
       [asset[p] EXCEPT !.status = "ASSIGNED", !.holder = v, !.dept = d, !.for = None,
                        !.open = Append(CloseEntry(@), v), !.by = u, !.via = r]]
  /\ SyncStock(asset[p].item, "AVAILABLE", "ASSIGNED")

AssignPerson(p, u, v) ==
  /\ u \in Assigners /\ (SoD => u # v)
  /\ Assign(p, u, v, None, None)
  /\ UNCHANGED <<seq, catalog, repair, got, closed, op>>

\* The custodian belongs to the department, and the piece to its branch.
AssignDepartment(p, u, v, d) ==
  /\ u \in Assigners /\ v \in Members[d] /\ (SoD => u # v)
  /\ <<p, d>> \in SameBranch
  /\ Assign(p, u, v, d, None)
  /\ UNCHANGED <<seq, catalog, repair, got, closed, op>>

\* matchAssetToItem: the piece is of the item asked for, or else has a name like it.
Matches(p, r) == asset[p].item = Wants[r] \/ <<p, r>> \in Alike

\* Pieces received for r that still exist and still match its line.
Counted(r) == {p \in got[r] : Exists(p) /\ Matches(p, r)}

\* The open requests of v with quota left for a piece like p ...
Entitled(v, p) ==
  {r \in Request : Asker[r] = v /\ ~closed[r] /\ Matches(p, r) /\ Cardinality(Counted(r)) < Quantity[r]}

\* (Mutant: segregation of duties is forgotten.)
NeedsEntitlementOfOthers(u, v) == u \notin Assigners \/ u # v

\* Assigners may take for themselves, when duties are not segregated.
NeedsEntitlement(u, v) == u \notin Assigners \/ u # v \/ SoD

\* findEntitlement: the oldest of these requests.
Hit(u, v, p) ==
  IF NeedsEntitlement(u, v) THEN CHOOSE r \in Entitled(v, p) : \A s \in Entitled(v, p) : r <= s ELSE None

\* recordReceipt: the line is collected, and the request closed, when what it asks for is tagged and complete.
Collected(r) == kind[Wants[r]] = "ASSET" /\ Cardinality(Counted(r)) + 1 >= Quantity[r]

\* claim: u scans piece p for themselves, or hands it to v.  What is reserved for a request that is closed by
\* it stays reserved.
Claim(p, u, v) ==
  /\ u = v \/ u \in Assigners
  /\ NeedsEntitlement(u, v) => Entitled(v, p) # {}
  /\ Assign(p, u, v, None, Hit(u, v, p))
  /\ LET r == Hit(u, v, p)
     IN  /\ r # None => Found(Wants[r])
         /\ got' = [s \in Request |-> IF s = r THEN got[s] \cup {p} ELSE got[s]]
         /\ closed' = [s \in Request |-> closed[s] \/ (s = r /\ Collected(s))]
  /\ UNCHANGED <<seq, catalog, repair, op>>

InStore(x, s) == [x EXCEPT !.status = s, !.holder = None, !.dept = None, !.open = CloseEntry(@),
                           !.by = None, !.via = None]

Return(p) ==
  /\ asset[p].status = "ASSIGNED"
  /\ asset' = [asset EXCEPT ![p] = InStore(@, "AVAILABLE")]
  /\ SyncStock(asset[p].item, "ASSIGNED", "AVAILABLE")
  /\ UNCHANGED <<seq, catalog, repair, got, closed, op>>

\* reserveForRequestInTx, for an open request.
Reserve(p, r) ==
  /\ Free(p, None) /\ ~closed[r] /\ asset[p].item = Wants[r]
  /\ asset' = [asset EXCEPT ![p].for = r]
  /\ UNCHANGED <<seq, catalog, stock, repair, got, closed, op, unsure>>

-----------------------------------------------------------------------------
(* setStatus, with the repair records that follow it, and remove; records are not edited by hand *)

\* Repair records there are, or will be: see MaxRepairs.
Repairs == Cardinality({x \in Piece \X (1..MaxRepairs) : x[2] \in DOMAIN repair[x[1]]})
             + Cardinality({q \in Proc : At(q, "openRecord")})

SetStatus(q, p, s) ==
  /\ Begin(q, "setStatus") /\ Exists(p)
  /\ s = "UNDER_REPAIR" => Repairs < MaxRepairs
  /\ asset' = [asset EXCEPT ![p] = IF @.status = "ASSIGNED" THEN InStore(@, s) ELSE [@ EXCEPT !.status = s]]
  /\ SyncStock(asset[p].item, asset[p].status, s)
  /\ op' = CASE s = "UNDER_REPAIR" -> [op EXCEPT ![q] = [Idle EXCEPT !.step = "openRecord", !.p = p]]
             [] s # "UNDER_REPAIR" /\ asset[p].status = "UNDER_REPAIR"
                  -> [op EXCEPT ![q] = [Idle EXCEPT !.step = "findRecord", !.p = p]]
             [] OTHER -> op
  /\ UNCHANGED <<seq, catalog, repair, got, closed>>

\* create, of a repair record
Opened(records) == Append(records, "IN_PROGRESS")

OpenRecord(q) ==
  /\ At(q, "openRecord")
  /\ repair' = [repair EXCEPT ![op[q].p] = Opened(@)]
  /\ Done(q)
  /\ UNCHANGED <<asset, seq, catalog, stock, got, closed, unsure>>

InProgress(p) == {k \in DOMAIN repair[p] : repair[p][k] = "IN_PROGRESS"}

\* The newest repair in progress is the one found, if there is any.
FindRecord(q) ==
  /\ At(q, "findRecord")
  /\ LET found == InProgress(op[q].p)
     IN  IF found = {} THEN Done(q)
         ELSE \E k \in found : /\ \A j \in found : j <= k
                               /\ op' = [op EXCEPT ![q].step = "closeRecord", ![q].n = k]
  /\ UNCHANGED <<asset, seq, catalog, stock, repair, got, closed, unsure>>

\* (Mutant: all the repairs in progress are completed.)
CompletedAll(records, k) == [j \in DOMAIN records |-> "COMPLETED"]

Completed(records, k) == [records EXCEPT ![k] = "COMPLETED"]

CloseRecord(q) ==
  /\ At(q, "closeRecord")
  /\ repair' = [repair EXCEPT ![op[q].p] = Completed(@, op[q].n)]
  /\ Done(q)
  /\ UNCHANGED <<asset, seq, catalog, stock, got, closed, unsure>>

Remove(p) ==
  /\ Exists(p)
  /\ asset' = [asset EXCEPT ![p] = [NoPiece EXCEPT !.status = "GONE"]]
  /\ SyncStock(asset[p].item, asset[p].status, "GONE")
  /\ UNCHANGED <<seq, catalog, repair, got, closed, op>>

-----------------------------------------------------------------------------
(* recalculateAssetStock, for one item *)

RecalculateBegin(q, i) ==
  /\ Begin(q, "recalculate") /\ \E p \in Piece : Exists(p) /\ asset[p].item = i
  /\ op' = [op EXCEPT ![q] = [Idle EXCEPT !.step = "recount", !.i = i, !.had = stock[i]]]
  /\ UNCHANGED <<asset, seq, catalog, stock, repair, got, closed, unsure>>

RecalculateCount(q) ==
  /\ At(q, "recount")
  /\ op' = [op EXCEPT ![q].step = "restock", ![q].n = Cardinality(Available(op[q].i))]
  /\ UNCHANGED <<asset, seq, catalog, stock, repair, got, closed, unsure>>

\* The count is written when it differs from the stock read at first, also
\* for an item that is only counted and still has pieces, if retired ones: its
\* units are lost.
RecalculateWrite(q) ==
  /\ At(q, "restock")
  /\ LET i == op[q].i
     IN  IF op[q].n = op[q].had
           THEN UNCHANGED <<stock, units, unsure>>
           ELSE /\ stock' = [stock EXCEPT ![i] = op[q].n]
                /\ units' = [units EXCEPT ![i] = 0]
                /\ unsure' = [unsure EXCEPT ![i] = op[q].n # Cardinality(Available(i)) \/ Uncounted(i) # {}]
  /\ Done(q)
  /\ UNCHANGED <<asset, seq, kind, repair, got, closed>>


-----------------------------------------------------------------------------
Init ==
  /\ asset = [p \in Piece |-> NoPiece]
  /\ seq = 0
  /\ kind = [i \in Item |-> None]
  /\ stock = [i \in Item |-> 0]
  /\ units = [i \in Item |-> 0]
  /\ repair = [p \in Piece |-> <<>>]
  /\ got = [r \in Request |-> {}]
  /\ closed = [r \in Request |-> FALSE]
  /\ op = [q \in Proc |-> Idle]
  /\ unsure = [i \in Item |-> FALSE]

Custody(p) ==
  \/ \E u, v \in Person : AssignPerson(p, u, v) \/ Claim(p, u, v)
  \/ \E u, v \in Person, d \in Department : AssignDepartment(p, u, v, d)
  \/ \E r \in Request : Reserve(p, r)
  \/ Return(p) \/ Remove(p)

Registering ==
  \/ \E p \in Piece, i \in Item : Relabel(p, i)
  \/ \E q \in Proc, i \in Item \cup {None} : CreateBegin(q, i) \/ ImportRow(q, i)
  \/ \E q \in Proc, i \in Item : RecalculateBegin(q, i)
  \/ \E q \in Proc : CreateInsert(q) \/ CreateCount(q) \/ RecalculateCount(q) \/ RecalculateWrite(q)

Stocking ==
  \/ \E i \in Item, k \in CatalogItemType, n \in 0..MaxStock : CreateItem(i, k, n) \/ ImportItem(i, k, n)
  \/ \E i \in Item, n \in 1..MaxPiece : Restock(i, n)
  \/ \E i \in Item, k \in CatalogItemType, n \in 1..MaxPiece : ReceiveNewItem(i, k, n)
  \/ \E q \in Proc, i \in Item, d \in {-1, 1} : AdjustBegin(q, i, d)
  \/ \E q \in Proc, i \in Item, k \in CatalogItemType : RetypeBegin(q, i, k)
  \/ \E q \in Proc : AdjustWrite(q) \/ RetypeWrite(q)

Repairing ==
  \/ \E q \in Proc, p \in Piece, s \in {"AVAILABLE", "UNDER_REPAIR", "RETIRED"} : SetStatus(q, p, s)
  \/ \E q \in Proc : OpenRecord(q) \/ FindRecord(q) \/ CloseRecord(q)

Next == (\E p \in Piece : Custody(p)) \/ Registering \/ Stocking \/ Repairing

Spec == Init /\ [][Next]_vars

-----------------------------------------------------------------------------
(* Properties *)

\* Every variable holds values of its type.
TypeOK ==
  /\ asset \in [Piece -> AssetDoc] /\ seq \in 0..MaxPiece
  /\ kind \in [Item -> CatalogItemType \cup {None}] /\ units \in [Item -> Int]
  /\ stock \in [Item -> Nat] /\ unsure \in [Item -> BOOLEAN]
  /\ repair \in [Piece -> Seq(RecordStatus)]
  /\ got \in [Request -> SUBSET Piece] /\ closed \in [Request -> BOOLEAN]
  /\ op \in [Proc -> Op]

\* The stock of an item is the number of its pieces in store, but for those
\* whose creation is still to count them, and of the units counted into it,
\* which a tagged item has none of, through all changes of its type; unless
\* the code has logged a mismatch, a piece in store was relabelled, or a
\* recalculation or change of type was overtaken.  (One process creates and changes types.)
StockMatchesPieces ==
  \A i \in Item : ~unsure[i] =>
    /\ stock[i] + Cardinality(Uncounted(i)) = Cardinality(Available(i)) + units[i]
    /\ kind[i] = "ASSET" => units[i] = 0

\* A piece is held exactly when its history has an open entry, the only one,
\* and the entry names the holder: no path leaves an old assignment open.
HistoryNamesHolder ==
  \A p \in Piece :
    IF asset[p].status = "ASSIGNED" THEN asset[p].open = <<asset[p].holder>>
    ELSE asset[p].open = <<>> /\ asset[p].holder = None /\ asset[p].dept = None

\* A piece under repair has a repair in progress once the handlers that changed
\* its status are done, whatever other handlers sent it back and forth meanwhile.
RepairIsRecorded ==
  \A p \in Piece :
    asset[p].status = "UNDER_REPAIR" =>
      InProgress(p) # {} \/ \E q \in Proc : At(q, "openRecord") /\ op[q].p = p

\* With segregation of duties nobody gives a piece to themselves, unless a
\* request of theirs, which others approved, entitles them to it.
NobodyServesThemselves ==
  SoD => \A p \in Piece : asset[p].status = "ASSIGNED" /\ asset[p].by = asset[p].holder
                            => asset[p].via \in Request /\ Asker[asset[p].via] = asset[p].holder

\* The number of a deleted piece is never given again.
NumbersStayRetired ==
  [][\A p \in Piece : asset[p].status = "GONE" => asset'[p].status = "GONE"]_vars
=============================================================================
