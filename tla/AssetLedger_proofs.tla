-------------------------- MODULE AssetLedger_proofs --------------------------
(***************************************************************************)
(* Theorems about AssetLedger, for every value of its constants.           *)
(***************************************************************************)
EXTENDS AssetLedger, FiniteSetTheorems, SequenceTheorems, NaturalsInduction, WellFoundedInduction, TLAPS

(***************************************************************************)
(* Type correctness.  TypeOK alone is not inductive: the count that a      *)
(* recalculation writes has to be a count, and the number of a new piece   *)
(* is within the register because none is above the counter.  The counter  *)
(* also keeps the numbers about to be inserted apart, and unused.          *)
(***************************************************************************)
OpsFit ==
  \A q \in Proc : /\ At(q, "restock") => op[q].n \in Nat
                  /\ At(q, "findRecord") => op[q].p \in Piece

NumbersGiven ==
  /\ \A p \in Piece : asset[p].status # "NONE" => p <= seq
  /\ \A q \in Proc : At(q, "insert") =>
       op[q].p \in Piece /\ op[q].p <= seq /\ asset[op[q].p].status = "NONE"
  /\ \A q, r \in Proc : At(q, "insert") /\ At(r, "insert") /\ op[q].p = op[r].p => q = r

TypeInv == TypeOK /\ OpsFit /\ NumbersGiven

LEMMA PieceNumbers == Piece \subseteq Nat /\ \A p \in Piece : p >= 1 /\ p <= MaxPiece
BY LedgerConstantsOK DEF Piece

LEMMA NextIsAfterSeq == ASSUME TypeInv PROVE NextNumber = seq + 1 /\ seq \in Nat
<1> DEFINE used == {p \in Piece : Exists(p)} \cup {seq}
           top == CHOOSE n \in used : \A m \in used : m <= n
<1>1. seq \in Nat
  BY LedgerConstantsOK DEF TypeInv, TypeOK
<1>2. \A p \in Piece : Exists(p) => p <= seq
  BY DEF TypeInv, NumbersGiven, Exists, AssetStatus
<1>3. seq \in used /\ \A m \in used : m <= seq /\ m \in Nat
  BY <1>1, <1>2, PieceNumbers
<1>4. top \in used /\ \A m \in used : m <= top
  <2> HIDE DEF used
  <2> QED BY <1>3
<1>5. top = seq
  <2> HIDE DEF used, top
  <2> QED BY <1>3, <1>4
<1>6. NextNumber = 1 + top
  BY DEF NextNumber
<1> HIDE DEF top, used
<1> QED BY <1>1, <1>5, <1>6

(***************************************************************************)
(* What a step does to the row of a piece.                                 *)
(***************************************************************************)
Arrives(p) == asset[p].status = "NONE" /\ p <= seq' /\ \E i \in Item \cup {None} : asset'[p] = NewPiece(i)

Relabelled(p) == Exists(p) /\ \E i \in Item : asset'[p] = [asset[p] EXCEPT !.item = i]

Reserved(p) ==
  asset[p].status = "AVAILABLE" /\ \E r \in Request : asset'[p] = [asset[p] EXCEPT !.for = r]

GivenRow(x, u, v, d, r) ==
  [x EXCEPT !.status = "ASSIGNED", !.holder = v, !.dept = d, !.for = None,
            !.open = Append(CloseEntry(@), v), !.by = u, !.via = r]

Given(p) ==
  /\ asset[p].status = "AVAILABLE"
  /\ \E u, v \in Person, d \in Department \cup {None}, r \in Request \cup {None} :
       /\ asset'[p] = GivenRow(asset[p], u, v, d, r)
       /\ SoD /\ u = v => r \in Request /\ Asker[r] = v

Stored(p) ==
  asset[p].status = "ASSIGNED"
    /\ \E s \in AssetStatus \ {"ASSIGNED"} : asset'[p] = InStore(asset[p], s)

Marked(p) ==
  Exists(p) /\ asset[p].status # "ASSIGNED"
    /\ \E s \in AssetStatus \ {"ASSIGNED"} : asset'[p] = [asset[p] EXCEPT !.status = s]

Deleted(p) == Exists(p) /\ asset'[p] = [NoPiece EXCEPT !.status = "GONE"]

RowMoves(p) ==
  \/ asset'[p] = asset[p] \/ Arrives(p) \/ Relabelled(p) \/ Reserved(p) \/ Given(p)
  \/ Stored(p) \/ Marked(p) \/ Deleted(p)

RowsMove == asset' = [p \in Piece |-> asset'[p]] /\ \A p \in Piece : RowMoves(p)

NoArrival == \A p \in Piece : asset[p].status = "NONE" => asset'[p] = asset[p]

LEMMA ClosedEntries ==
  ASSUME NEW s \in Seq(Person) PROVE CloseEntry(s) \in Seq(Person)
<1>1. CASE s = <<>> BY <1>1 DEF CloseEntry
<1>2. CASE s # <<>> BY <1>2, HeadTailProperties DEF CloseEntry
<1> QED BY <1>1, <1>2

LEMMA NoEntries == <<>> \in Seq(Person)
BY EmptySeq

LEMMA RowTyped ==
  ASSUME TypeInv, NEW p \in Piece, RowMoves(p) PROVE asset'[p] \in AssetDoc
<1> DEFINE x == asset[p]
<1>1. x \in AssetDoc
  BY DEF TypeInv, TypeOK
<1>2. CASE asset'[p] = asset[p]
  BY <1>1, <1>2
<1>3. CASE Arrives(p)
  BY <1>3, NoEntries DEF Arrives, NewPiece, AssetDoc, AssetStatus
<1>4. CASE Relabelled(p)
  BY <1>1, <1>4 DEF Relabelled, AssetDoc
<1>5. CASE Reserved(p)
  BY <1>1, <1>5 DEF Reserved, AssetDoc
<1>6. CASE Given(p)
  <2>1. PICK u, v \in Person, d \in Department \cup {None}, r \in Request \cup {None} :
          asset'[p] = GivenRow(x, u, v, d, r)
    BY <1>6 DEF Given
  <2>2. Append(CloseEntry(x.open), v) \in Seq(Person)
    BY <1>1, ClosedEntries, AppendProperties DEF AssetDoc
  <2> QED BY <1>1, <2>1, <2>2 DEF GivenRow, AssetDoc, AssetStatus
<1>7. CASE Stored(p)
  <2>1. CloseEntry(x.open) \in Seq(Person)
    BY <1>1, ClosedEntries DEF AssetDoc
  <2> QED BY <1>1, <1>7, <2>1 DEF Stored, InStore, AssetDoc
<1>8. CASE Marked(p)
  BY <1>1, <1>8 DEF Marked, AssetDoc
<1>9. CASE Deleted(p)
  BY <1>9, NoEntries DEF Deleted, NoPiece, NewPiece, AssetDoc
<1> QED BY <1>2, <1>3, <1>4, <1>5, <1>6, <1>7, <1>8, <1>9 DEF RowMoves

\* A step of one row.
LEMMA OneRow ==
  ASSUME TypeInv, NEW p \in Piece, NEW x, asset' = [asset EXCEPT ![p] = x], RowMoves(p)
  PROVE  RowsMove
<1>1. DOMAIN asset = Piece /\ \A r \in Piece \ {p} : asset'[r] = asset[r]
  BY DEF TypeInv, TypeOK
<1> QED BY <1>1 DEF RowsMove, RowMoves

LEMMA NoRow == ASSUME TypeInv, asset' = asset PROVE RowsMove /\ NoArrival
BY DEF TypeInv, TypeOK, RowsMove, RowMoves, NoArrival

(***************************************************************************)
(* What a step does to the handlers, but for a creation.                   *)
(***************************************************************************)
HandlersMove ==
  /\ op' \in [Proc -> Op] /\ OpsFit'
  /\ \A q \in Proc : At(q, "insert")' => At(q, "insert") /\ op'[q] = op[q]

LEMMA OneHandler ==
  ASSUME TypeInv, NEW q \in Proc, NEW o \in Op, op' = [op EXCEPT ![q] = o],
         o.step # "insert", o.step = "restock" => o.n \in Nat, o.step = "findRecord" => o.p \in Piece
  PROVE  HandlersMove
<1>1. op \in [Proc -> Op]
  BY DEF TypeInv, TypeOK
<1>2. op'[q] = o /\ \A r \in Proc \ {q} : op'[r] = op[r]
  BY <1>1
<1>3. op' \in [Proc -> Op]
  BY <1>1
<1>4. OpsFit'
  BY <1>2 DEF OpsFit, At, TypeInv
<1> QED BY <1>2, <1>3, <1>4 DEF HandlersMove, At

LEMMA NoHandler == ASSUME TypeInv, op' = op PROVE HandlersMove
BY DEF TypeInv, TypeOK, HandlersMove, OpsFit, At

LEMMA IdleOp == Idle \in Op /\ Idle.step = "idle"
BY DEF Idle, Op, Step

\* One field of a handler's record
LEMMA OpEdit ==
  ASSUME NEW x \in Op
  PROVE  /\ \A s \in Step : [x EXCEPT !.step = s] \in Op
         /\ \A p \in Piece : [x EXCEPT !.p = p] \in Op
         /\ \A i \in Item \cup {None} : [x EXCEPT !.i = i] \in Op
         /\ \A n \in Int : [x EXCEPT !.n = n] \in Op
         /\ \A m \in Nat : [x EXCEPT !.had = m] \in Op
         /\ \A k \in CatalogItemType : [x EXCEPT !.to = k] \in Op
<1>1. \A s \in Step : [x EXCEPT !.step = s] \in Op BY DEF Op
<1>2. \A p \in Piece : [x EXCEPT !.p = p] \in Op BY DEF Op
<1>3. \A i \in Item \cup {None} : [x EXCEPT !.i = i] \in Op BY DEF Op
<1>4. \A n \in Int : [x EXCEPT !.n = n] \in Op BY DEF Op
<1>5. \A m \in Nat : [x EXCEPT !.had = m] \in Op BY DEF Op
<1>6. \A k \in CatalogItemType : [x EXCEPT !.to = k] \in Op BY DEF Op
<1> QED BY <1>1, <1>2, <1>3, <1>4, <1>5, <1>6

\* The fields that the operations set together
LEMMA OpPiece ==
  ASSUME NEW x \in Op, NEW s \in Step, NEW p \in Piece, NEW i \in Item \cup {None}
  PROVE  [x EXCEPT !.step = s, !.p = p, !.i = i] \in Op
<1>1. \A y \in Op : [y EXCEPT !.p = p] \in Op /\ [y EXCEPT !.i = i] \in Op
  BY OpEdit
<1>2. [x EXCEPT !.step = s] \in Op
  BY OpEdit
<1> QED BY ONLY <1>1, <1>2

LEMMA OpUnits ==
  ASSUME NEW x \in Op, NEW s \in Step, NEW i \in Item \cup {None}, NEW n \in Int
  PROVE  [x EXCEPT !.step = s, !.i = i, !.n = n] \in Op
<1>1. \A y \in Op : [y EXCEPT !.i = i] \in Op /\ [y EXCEPT !.n = n] \in Op
  BY OpEdit
<1>2. [x EXCEPT !.step = s] \in Op
  BY OpEdit
<1> QED BY ONLY <1>1, <1>2

LEMMA OpStock ==
  ASSUME NEW x \in Op, NEW s \in Step, NEW i \in Item \cup {None}, NEW m \in Nat
  PROVE  [x EXCEPT !.step = s, !.i = i, !.had = m] \in Op
<1>1. \A y \in Op : [y EXCEPT !.i = i] \in Op /\ [y EXCEPT !.had = m] \in Op
  BY OpEdit
<1>2. [x EXCEPT !.step = s] \in Op
  BY OpEdit
<1> QED BY ONLY <1>1, <1>2

LEMMA OpKind ==
  ASSUME NEW x \in Op, NEW s \in Step, NEW i \in Item \cup {None}, NEW m \in Nat, NEW k \in CatalogItemType
  PROVE  [x EXCEPT !.step = s, !.i = i, !.had = m, !.to = k] \in Op
<1>1. \A y \in Op : [y EXCEPT !.i = i] \in Op /\ [y EXCEPT !.had = m] \in Op /\ [y EXCEPT !.to = k] \in Op
  BY OpEdit
<1>2. [x EXCEPT !.step = s] \in Op
  BY OpEdit
<1> QED BY ONLY <1>1, <1>2

LEMMA DoneMoves == ASSUME TypeInv, NEW q \in Proc, Done(q) PROVE HandlersMove
BY IdleOp, OneHandler DEF Done

RestTyped ==
  /\ kind' \in [Item -> CatalogItemType \cup {None}] /\ units' \in [Item -> Int]
  /\ stock' \in [Item -> Nat] /\ unsure' \in [Item -> BOOLEAN]
  /\ repair' \in [Piece -> Seq(RecordStatus)]
  /\ got' \in [Request -> SUBSET Piece] /\ closed' \in [Request -> BOOLEAN]

\* The step of anything but a creation keeps the invariant.
LEMMA KeepsType ==
  ASSUME TypeInv, RowsMove, NoArrival, HandlersMove, RestTyped, seq' = seq
  PROVE  TypeInv'
<1>1. asset' \in [Piece -> AssetDoc]
  <2>1. \A p \in Piece : asset'[p] \in AssetDoc
    BY RowTyped DEF RowsMove
  <2> QED BY <2>1 DEF RowsMove
<1>2. TypeOK'
  BY <1>1 DEF TypeOK, TypeInv, RestTyped, HandlersMove
<1>3. \A p \in Piece : asset'[p].status # "NONE" => p <= seq'
  BY DEF NoArrival, TypeInv, NumbersGiven
<1>4. \A q \in Proc : At(q, "insert")' =>
        op'[q].p \in Piece /\ op'[q].p <= seq' /\ asset'[op'[q].p].status = "NONE"
  BY DEF NoArrival, HandlersMove, TypeInv, NumbersGiven
<1>5. \A q, r \in Proc : At(q, "insert")' /\ At(r, "insert")' /\ op'[q].p = op'[r].p => q = r
  BY DEF HandlersMove, TypeInv, NumbersGiven
<1> QED BY <1>2, <1>3, <1>4, <1>5 DEF TypeInv, NumbersGiven, HandlersMove

(***************************************************************************)
(* The operations, one by one.                                             *)
(***************************************************************************)
\* syncStock
LEMMA SyncTypes ==
  ASSUME TypeInv, NEW i \in Item \cup {None}, NEW from, NEW to, SyncStock(i, from, to)
  PROVE  stock' \in [Item -> Nat] /\ unsure' \in [Item -> BOOLEAN]
<1> DEFINE want == stock[i] + Delta(from, to)
<1>1. CASE i = None
  BY <1>1 DEF SyncStock, TypeInv, TypeOK
<1>2. CASE i # None
  <2>1. i \in Item /\ stock[i] \in Nat
    BY <1>2 DEF TypeInv, TypeOK
  <2>2. want \in Int
    BY <2>1 DEF Delta, Contribution
  <2>3. stock' = [stock EXCEPT ![i] = Clamped(want)]
        /\ unsure' = [unsure EXCEPT ![i] = @ \/ want < 0]
    BY <1>2 DEF SyncStock
  <2> HIDE DEF want
  <2>4. Clamped(want) \in Nat
    BY <2>2 DEF Clamped
  <2>5. stock' \in [Item -> Nat]
    BY <2>1, <2>3, <2>4 DEF TypeInv, TypeOK
  <2>6. unsure' \in [Item -> BOOLEAN]
    <3>1. (unsure[i] \/ want < 0) \in BOOLEAN
      OBVIOUS
    <3> QED BY <2>3, <3>1 DEF TypeInv, TypeOK
  <2> QED BY <2>5, <2>6
<1> QED BY <1>1, <1>2

LEMMA ItemOfPiece == ASSUME TypeInv, NEW p \in Piece PROVE asset[p].item \in Item \cup {None}
BY DEF TypeInv, TypeOK, AssetDoc

\* One row moves, its item is synchronised, no handler takes part.
LEMMA SyncedRow ==
  ASSUME TypeInv, NEW p \in Piece, NEW x, asset' = [asset EXCEPT ![p] = x], RowMoves(p),
         asset[p].status # "NONE",
         stock' \in [Item -> Nat], unsure' \in [Item -> BOOLEAN], HandlersMove,
         seq' = seq, kind' = kind, units' = units, repair' = repair,
         got' \in [Request -> SUBSET Piece], closed' \in [Request -> BOOLEAN]
  PROVE  RowsMove /\ TypeInv'
<1>1. RowsMove
  BY OneRow
<1>2. NoArrival
  BY DEF NoArrival, TypeInv, TypeOK
<1>3. RestTyped
  BY DEF RestTyped, TypeInv, TypeOK
<1> QED BY <1>1, <1>2, <1>3, KeepsType

\* An operation on the catalog or on the records only.
LEMMA RowsKept ==
  ASSUME TypeInv, asset' = asset, HandlersMove, RestTyped, seq' = seq
  PROVE  RowsMove /\ TypeInv'
BY NoRow, KeepsType

LEMMA CreateBeginMoves ==
  ASSUME TypeInv, NEW q \in Proc, NEW i \in Item \cup {None}, CreateBegin(q, i)
  PROVE  RowsMove /\ TypeInv'
<1> DEFINE o == [Idle EXCEPT !.step = "insert", !.p = seq + 1, !.i = i]
<1>1. seq \in Nat /\ seq + 1 \in Piece /\ seq' = seq + 1 /\ op' = [op EXCEPT ![q] = o]
      /\ asset' = asset /\ At(q, "idle")
  BY NextIsAfterSeq DEF CreateBegin, Begin
<1>2. o \in Op /\ o.step = "insert" /\ o.p = seq + 1
  <2>1. "insert" \in Step /\ seq + 1 \in Piece /\ Idle \in Op
    BY <1>1, IdleOp DEF Step
  <2>2. o \in Op
    BY <2>1, OpPiece
  <2> QED BY <2>1, <2>2 DEF Op
<1> HIDE DEF o
<1>3. op' \in [Proc -> Op] /\ op'[q] = o /\ \A r \in Proc \ {q} : op'[r] = op[r]
  BY <1>1, <1>2 DEF TypeInv, TypeOK
<1>4. OpsFit'
  BY <1>2, <1>3 DEF TypeInv, OpsFit, At
<1>5. TypeOK'
  <2>1. seq' \in 0..MaxPiece
    BY <1>1, PieceNumbers
  <2> QED BY <2>1, <1>3 DEF TypeOK, TypeInv, CreateBegin, catalog
<1>6. \A p \in Piece : asset'[p].status # "NONE" => p <= seq' /\ p # seq + 1
  BY <1>1, PieceNumbers DEF TypeInv, NumbersGiven
<1>7. \A r \in Proc \ {q} : At(r, "insert")' =>
        op'[r].p \in Piece /\ op'[r].p <= seq /\ asset'[op'[r].p].status = "NONE"
  BY <1>1, <1>3 DEF TypeInv, NumbersGiven, At
<1>8. asset'[op'[q].p].status = "NONE"
  BY <1>1, <1>2, <1>3, <1>6
<1>9. NumbersGiven'
  <2>1. \A p \in Piece : asset'[p].status # "NONE" => p <= seq'
    BY <1>6
  <2>2. ASSUME NEW r \in Proc, At(r, "insert")'
        PROVE  op'[r].p \in Piece /\ op'[r].p <= seq' /\ asset'[op'[r].p].status = "NONE"
    <3>1. CASE r = q
      BY <1>1, <1>2, <1>3, <1>8, <3>1
    <3>2. CASE r # q
      <4>1. op'[r].p \in Piece /\ op'[r].p <= seq /\ asset'[op'[r].p].status = "NONE"
        BY <1>7, <2>2, <3>2
      <4>2. \A m \in Piece : m <= seq => m <= seq'
        BY <1>1, PieceNumbers
      <4> QED BY <4>1, <4>2
    <3> QED BY <3>1, <3>2
  <2>3. ASSUME NEW r1 \in Proc, NEW r2 \in Proc, At(r1, "insert")', At(r2, "insert")', op'[r1].p = op'[r2].p
        PROVE  r1 = r2
    <3>1. \A r \in Proc \ {q} : At(r, "insert")' => At(r, "insert") /\ op'[r].p = op[r].p /\ op'[r].p # seq + 1
      BY <1>1, <1>3, <1>7, PieceNumbers DEF At
    <3>2. op'[q].p = seq + 1
      BY <1>2, <1>3
    <3> QED BY <2>3, <3>1, <3>2 DEF TypeInv, NumbersGiven
  <2> QED BY <2>1, <2>2, <2>3 DEF NumbersGiven
<1> QED BY <1>1, <1>4, <1>5, <1>9, NoRow DEF TypeInv

LEMMA CreateInsertMoves ==
  ASSUME TypeInv, NEW q \in Proc, CreateInsert(q) PROVE RowsMove /\ TypeInv'
<1> DEFINE p == op[q].p
           i == op[q].i
           o == IF i = None THEN Idle ELSE [op[q] EXCEPT !.step = "count"]
<1>1. op[q] \in Op /\ At(q, "insert") /\ p \in Piece /\ p <= seq /\ asset[p].status = "NONE"
      /\ i \in Item \cup {None}
  BY DEF CreateInsert, TypeInv, TypeOK, NumbersGiven, Op
<1>2. asset' = [asset EXCEPT ![p] = NewPiece(i)] /\ seq' = seq /\ seq \in Nat
  BY NextIsAfterSeq DEF CreateInsert
<1>3. op' = [op EXCEPT ![q] = o]
  BY DEF CreateInsert, Done
<1>4. o \in Op /\ o.step # "insert" /\ o.step # "restock" /\ o.step # "findRecord"
  <2>1. [op[q] EXCEPT !.step = "count"] \in Op /\ [op[q] EXCEPT !.step = "count"].step = "count"
    <3>1. "count" \in Step
      BY DEF Step
    <3> QED BY <1>1, <3>1, OpEdit DEF Op
  <2> QED BY <2>1, IdleOp
<1> HIDE DEF o
<1>5. HandlersMove /\ op'[q] = o
  <2>1. HandlersMove
    BY <1>3, <1>4, OneHandler
  <2> QED BY <1>3, <2>1 DEF TypeInv, TypeOK
<1>6. asset'[p] = NewPiece(i) /\ \A r \in Piece \ {p} : asset'[r] = asset[r]
  BY <1>1, <1>2 DEF TypeInv, TypeOK
<1>7. RowMoves(p)
  BY <1>1, <1>2, <1>6 DEF RowMoves, Arrives
<1>8. RowsMove
  BY <1>1, <1>2, <1>7, OneRow
<1>9. asset' \in [Piece -> AssetDoc]
  BY <1>8, RowTyped DEF RowsMove
<1>10. TypeOK'
  BY <1>2, <1>5, <1>9 DEF TypeOK, TypeInv, HandlersMove, CreateInsert, catalog
<1>11. \A r \in Piece : asset'[r].status # "NONE" => r <= seq'
  BY <1>1, <1>2, <1>6 DEF TypeInv, NumbersGiven
<1>12. \A r \in Proc : At(r, "insert")' => r # q /\ At(r, "insert") /\ op'[r] = op[r]
  BY <1>4, <1>5 DEF HandlersMove, At
<1>13. \A r \in Proc : At(r, "insert")' => op[r].p # p
  BY <1>1, <1>12 DEF TypeInv, NumbersGiven
<1>14. NumbersGiven'
  BY <1>1, <1>2, <1>6, <1>11, <1>12, <1>13 DEF TypeInv, NumbersGiven
<1> QED BY <1>5, <1>8, <1>10, <1>14 DEF TypeInv, HandlersMove

LEMMA CreateCountMoves ==
  ASSUME TypeInv, NEW q \in Proc, CreateCount(q) PROVE RowsMove /\ TypeInv'
<1>1. HandlersMove
  BY DoneMoves DEF CreateCount
<1>2. stock' \in [Item -> Nat]
  <2>1. stock' = [stock EXCEPT ![op[q].i] = @ + 1] /\ \A i \in Item : stock[i] + 1 \in Nat
    BY DEF CreateCount, TypeInv, TypeOK
  <2> QED BY <2>1 DEF TypeInv, TypeOK
<1>3. RestTyped
  BY <1>2 DEF RestTyped, CreateCount, catalog, TypeInv, TypeOK
<1> QED BY <1>1, <1>3, RowsKept DEF CreateCount

\* n units of item i
LEMMA CountTypes ==
  ASSUME TypeInv, NEW i \in Item, NEW n \in Int, stock[i] + n \in Nat, Count(i, n)
  PROVE  stock' \in [Item -> Nat] /\ units' \in [Item -> Int]
<1>1. units[i] + n \in Int /\ units[i] \in Int
  BY DEF TypeInv, TypeOK
<1>2. (IF unsure[i] THEN units[i] ELSE units[i] + n) \in Int
  BY <1>1
<1> QED BY <1>2 DEF Count, TypeInv, TypeOK

\* What is received, and what is given as the stock of a new item
LEMMA ReceivedMoves ==
  ASSUME TypeInv, NEW i \in Item, NEW n \in Nat, kind' \in [Item -> CatalogItemType \cup {None}],
         UNCHANGED <<repair, got, closed, op, unsure>>,
         (n >= 1 /\ Register(i, n)) \/ CountIn(i, n)
  PROVE  RowsMove /\ TypeInv'
<1>1. HandlersMove
  BY NoHandler
<1>2. CASE CountIn(i, n)
  <2>1. stock[i] + n \in Nat /\ n \in Int
    BY DEF TypeInv, TypeOK
  <2>2. RestTyped
    BY <1>2, <2>1, CountTypes DEF CountIn, RestTyped, TypeInv, TypeOK
  <2> QED BY <1>1, <1>2, <2>2, RowsKept DEF CountIn
<1>3. CASE n >= 1 /\ Register(i, n)
  <2> DEFINE fresh == (seq + 1) .. (seq + n)
  <2>1. seq \in Nat /\ fresh \subseteq Piece /\ asset' = Registered(fresh, i) /\ seq' = seq + n
        /\ units' = units /\ stock' = [stock EXCEPT ![i] = @ + n * Delta("NONE", "AVAILABLE")]
    <3>1. NextNumber = seq + 1 /\ seq \in Nat
      BY NextIsAfterSeq
    <3>2. NextNumber + n - 1 = seq + n
      BY <3>1
    <3> QED BY <1>3, <3>1, <3>2 DEF Register
  <2>2. Delta("NONE", "AVAILABLE") = 1
    BY DEF Delta, Contribution
  <2>3. stock' \in [Item -> Nat]
    <3>1. n * 1 = n
      OBVIOUS
    <3> QED BY <2>1, <2>2, <3>1 DEF TypeInv, TypeOK
  <2>4. seq + n \in fresh
    BY <1>3, <2>1
  <2>5. seq' \in 0..MaxPiece
    BY <2>1, <2>4, PieceNumbers
  <2>6. \A p \in fresh : p > seq /\ p <= seq' /\ asset[p].status = "NONE"
    BY <2>1, PieceNumbers DEF TypeInv, NumbersGiven
  <2>7. asset' = [p \in Piece |-> asset'[p]]
        /\ \A p \in Piece : asset'[p] = IF p \in fresh THEN NewPiece(i) ELSE asset[p]
    BY <2>1 DEF Registered
  <2> HIDE DEF fresh
  <2>8. \A p \in fresh : RowMoves(p)
    BY <2>1, <2>6, <2>7 DEF RowMoves, Arrives
  <2>9. RowsMove
    BY <2>7, <2>8 DEF RowsMove, RowMoves
  <2>10. asset' \in [Piece -> AssetDoc]
    BY <2>9, RowTyped DEF RowsMove
  <2>11. TypeOK'
    BY <1>1, <2>1, <2>3, <2>5, <2>10 DEF TypeOK, TypeInv, HandlersMove
  <2>12. \A p \in Piece : asset'[p].status # "NONE" => p <= seq'
    BY <2>1, <2>6, <2>7, PieceNumbers DEF TypeInv, NumbersGiven
  <2>13. \A q \in Proc : At(q, "insert")' =>
          /\ At(q, "insert") /\ op'[q].p = op[q].p /\ op[q].p \in Piece
          /\ op[q].p <= seq /\ asset[op[q].p].status = "NONE" /\ op[q].p \notin fresh
    BY <1>1, <2>1, <2>6, PieceNumbers DEF HandlersMove, TypeInv, NumbersGiven
  <2>14. \A q \in Proc : At(q, "insert")' =>
           op'[q].p \in Piece /\ op'[q].p <= seq' /\ asset'[op'[q].p].status = "NONE"
    BY <2>1, <2>7, <2>13, PieceNumbers
  <2>15. NumbersGiven'
    BY <2>12, <2>13, <2>14 DEF TypeInv, NumbersGiven
  <2> QED BY <1>1, <2>9, <2>11, <2>15 DEF TypeInv, HandlersMove
<1> QED BY <1>2, <1>3

LEMMA CreateItemMoves ==
  ASSUME TypeInv, NEW i \in Item, NEW k \in CatalogItemType, NEW n \in 0..MaxStock, CreateItem(i, k, n)
  PROVE  RowsMove /\ TypeInv'
<1>1. kind' \in [Item -> CatalogItemType \cup {None}]
  BY DEF CreateItem, NewItem, TypeInv, TypeOK
<1>2. CASE k = "ASSET"
  <2>1. RestTyped
    BY <1>1, <1>2 DEF CreateItem, RestTyped, TypeInv, TypeOK
  <2> QED BY <1>2, <2>1, NoHandler, RowsKept DEF CreateItem
<1>3. CASE k # "ASSET"
  <2>1. n \in Nat
    BY LedgerConstantsOK
  <2> QED BY <1>1, <1>3, <2>1, ReceivedMoves DEF CreateItem
<1> QED BY <1>2, <1>3

LEMMA ReceiptMoves ==
  ASSUME TypeInv, NEW i \in Item, NEW n \in 1..MaxPiece,
         Restock(i, n) \/ \E k \in CatalogItemType : ReceiveNewItem(i, k, n)
  PROVE  RowsMove /\ TypeInv'
<1>1. n \in Nat /\ n >= 1
  BY LedgerConstantsOK
<1>2. kind' \in [Item -> CatalogItemType \cup {None}]
  BY DEF Restock, ReceiveNewItem, NewItem, TypeInv, TypeOK
<1>3. Register(i, n) \/ CountIn(i, n)
  BY DEF Restock, ReceiveNewItem, Receive
<1>4. UNCHANGED <<repair, got, closed, op, unsure>>
  BY DEF Restock, ReceiveNewItem
<1> QED BY <1>1, <1>2, <1>3, <1>4, ReceivedMoves

LEMMA AdjustMoves ==
  ASSUME TypeInv, NEW q \in Proc,
         (\E i \in Item, d \in {-1, 1} : AdjustBegin(q, i, d)) \/ AdjustWrite(q)
  PROVE  RowsMove /\ TypeInv'
<1>1. CASE \E i \in Item, d \in {-1, 1} : AdjustBegin(q, i, d)
  <2>1. PICK i \in Item, d \in {-1, 1} : AdjustBegin(q, i, d)
    BY <1>1
  <2> DEFINE o == [Idle EXCEPT !.step = "adjust", !.i = i, !.n = d]
  <2>2. o \in Op /\ o.step = "adjust" /\ op' = [op EXCEPT ![q] = o]
    <3>1. "adjust" \in Step /\ stock[i] \in Nat /\ Idle \in Op
      BY IdleOp DEF Step, TypeInv, TypeOK
    <3>2. o \in Op
      <4>1. d \in Int /\ i \in Item \cup {None}
        BY <2>1
      <4> QED BY <3>1, <4>1, OpUnits
    <3>3. o.step = "adjust"
      BY <3>1 DEF Op
    <3> QED BY <2>1, <3>2, <3>3 DEF AdjustBegin
  <2> HIDE DEF o
  <2>3. HandlersMove
    BY <2>2, OneHandler
  <2>4. RestTyped
    BY <2>1 DEF AdjustBegin, catalog, RestTyped, TypeInv, TypeOK
  <2> QED BY <2>1, <2>3, <2>4, RowsKept DEF AdjustBegin
<1>2. CASE AdjustWrite(q)
  <2> DEFINE i == op[q].i
             n == op[q].n
  <2>1. HandlersMove
    BY <1>2, DoneMoves DEF AdjustWrite
  <2>2. i \in Item \cup {None} /\ n \in Int
    BY DEF TypeInv, TypeOK, Op
  <2>3. CASE stock[i] + n \in 0..MaxStock
    <3>1. /\ Count(i, n) /\ unsure' = [unsure EXCEPT ![i] = @ \/ kind[i] = "ASSET"]
      BY <1>2, <2>3 DEF AdjustWrite
    <3>2. CASE i \in Item
      <4>1. stock[i] + n \in Nat
        BY <2>3, LedgerConstantsOK
      <4>2. stock' \in [Item -> Nat] /\ units' \in [Item -> Int]
        BY <2>2, <3>1, <3>2, <4>1, CountTypes
      <4>3. unsure' \in [Item -> BOOLEAN]
        BY <3>1, <3>2 DEF TypeInv, TypeOK
      <4>4. RestTyped
        BY <1>2, <4>2, <4>3 DEF AdjustWrite, RestTyped, TypeInv, TypeOK
      <4> QED BY <1>2, <2>1, <4>4, RowsKept DEF AdjustWrite
    <3>3. CASE i \notin Item
      <4>1. stock' = stock /\ units' = units /\ unsure' = unsure
        BY <3>1, <3>3 DEF Count, TypeInv, TypeOK
      <4>2. RestTyped
        BY <1>2, <4>1 DEF AdjustWrite, RestTyped, TypeInv, TypeOK
      <4> QED BY <1>2, <2>1, <4>2, RowsKept DEF AdjustWrite
    <3> QED BY <3>2, <3>3
  <2>4. CASE ~(stock[i] + n \in 0..MaxStock)
    <3>1. stock' = stock /\ units' = units /\ unsure' = unsure
      BY <1>2, <2>4 DEF AdjustWrite
    <3>2. RestTyped
      BY <1>2, <3>1 DEF AdjustWrite, RestTyped, TypeInv, TypeOK
    <3> QED BY <1>2, <2>1, <3>2, RowsKept DEF AdjustWrite
  <2> QED BY <2>3, <2>4
<1> QED BY <1>1, <1>2

LEMMA RetypeMoves ==
  ASSUME TypeInv, NEW q \in Proc,
         (\E i \in Item, k \in CatalogItemType : RetypeBegin(q, i, k)) \/ RetypeWrite(q)
  PROVE  RowsMove /\ TypeInv'
<1>1. CASE \E i \in Item, k \in CatalogItemType : RetypeBegin(q, i, k)
  <2>1. PICK i \in Item, k \in CatalogItemType : RetypeBegin(q, i, k)
    BY <1>1
  <2> DEFINE o == [Idle EXCEPT !.step = "retype", !.i = i, !.had = stock[i], !.to = k]
  <2>2. o \in Op /\ o.step = "retype" /\ op' = [op EXCEPT ![q] = o]
    <3>1. "retype" \in Step /\ stock[i] \in Nat /\ Idle \in Op
      BY IdleOp DEF Step, TypeInv, TypeOK
    <3>2. o \in Op
      BY <3>1, OpKind
    <3>3. o.step = "retype"
      BY <3>1 DEF Op
    <3> QED BY <2>1, <3>2, <3>3 DEF RetypeBegin
  <2> HIDE DEF o
  <2>3. HandlersMove
    BY <2>2, OneHandler
  <2>4. RestTyped
    BY <2>1 DEF RetypeBegin, catalog, RestTyped, TypeInv, TypeOK
  <2> QED BY <2>1, <2>3, <2>4, RowsKept DEF RetypeBegin
<1>2. CASE RetypeWrite(q)
  <2>1. HandlersMove
    BY <1>2, DoneMoves DEF RetypeWrite
  <2>2. op[q].to \in CatalogItemType \cup {None}
    BY DEF TypeInv, TypeOK, Op
  <2>3. RestTyped
    BY <1>2, <2>2 DEF RetypeWrite, RestTyped, TypeInv, TypeOK
  <2> QED BY <1>2, <2>1, <2>3, RowsKept DEF RetypeWrite
<1> QED BY <1>1, <1>2

LEMMA RelabelMoves ==
  ASSUME TypeInv, NEW p \in Piece, NEW i \in Item, Relabel(p, i)
  PROVE  RowsMove /\ TypeInv'
<1> DEFINE x == [asset[p] EXCEPT !.item = i]
<1>1. asset' = [asset EXCEPT ![p] = x] /\ asset'[p] = x
  BY DEF Relabel, TypeInv, TypeOK
<1>2. RowMoves(p) /\ asset[p].status # "NONE"
  BY <1>1 DEF RowMoves, Relabelled, Relabel, Exists, AssetStatus
<1>3. stock' \in [Item -> Nat] /\ unsure' \in [Item -> BOOLEAN] /\ got' \in [Request -> SUBSET Piece]
      /\ closed' \in [Request -> BOOLEAN]
  BY DEF Relabel, TypeInv, TypeOK
<1> HIDE DEF x
<1> QED BY <1>1, <1>2, <1>3, NoHandler, SyncedRow DEF Relabel, catalog

\* performAssign
LEMMA AssignMoves ==
  ASSUME TypeInv, NEW p \in Piece, NEW u \in Person, NEW v \in Person, NEW d \in Department \cup {None},
         NEW r \in Request \cup {None}, Assign(p, u, v, d, r), SoD /\ u = v => r \in Request /\ Asker[r] = v,
         UNCHANGED <<seq, catalog, repair, op>>,
         got' \in [Request -> SUBSET Piece], closed' \in [Request -> BOOLEAN]
  PROVE  RowsMove /\ TypeInv'
<1> DEFINE x == GivenRow(asset[p], u, v, d, r)
<1>1. asset' = [asset EXCEPT ![p] = x] /\ asset'[p] = x
  <2>1. asset' = [asset EXCEPT ![p] = x]
    BY DEF Assign, GivenRow, x
  <2> HIDE DEF x
  <2> QED BY <2>1 DEF TypeInv, TypeOK
<1>2. RowMoves(p) /\ asset[p].status # "NONE"
  BY <1>1 DEF RowMoves, Given, Assign, Free
<1>3. stock' \in [Item -> Nat] /\ unsure' \in [Item -> BOOLEAN]
  BY ItemOfPiece, SyncTypes DEF Assign
<1> HIDE DEF x
<1> QED BY <1>1, <1>2, <1>3, NoHandler, SyncedRow DEF catalog

LEMMA AssignPersonMoves ==
  ASSUME TypeInv, NEW p \in Piece, NEW u \in Person, NEW v \in Person, AssignPerson(p, u, v)
  PROVE  RowsMove /\ TypeInv'
<1>1. Assign(p, u, v, None, None) /\ ~(SoD /\ u = v)
  BY DEF AssignPerson
<1>2. got' \in [Request -> SUBSET Piece] /\ closed' \in [Request -> BOOLEAN]
  BY DEF AssignPerson, TypeInv, TypeOK
<1> QED BY <1>1, <1>2, AssignMoves DEF AssignPerson

LEMMA AssignDepartmentMoves ==
  ASSUME TypeInv, NEW p \in Piece, NEW u \in Person, NEW v \in Person, NEW d \in Department,
         AssignDepartment(p, u, v, d)
  PROVE  RowsMove /\ TypeInv'
<1>1. Assign(p, u, v, d, None) /\ ~(SoD /\ u = v)
  BY DEF AssignDepartment
<1>2. got' \in [Request -> SUBSET Piece] /\ closed' \in [Request -> BOOLEAN]
  BY DEF AssignDepartment, TypeInv, TypeOK
<1> QED BY <1>1, <1>2, AssignMoves DEF AssignDepartment

\* The oldest of the requests that entitle is one of them.
LEMMA LeastRequest ==
  ASSUME NEW S, S \subseteq Nat, S # {}
  PROVE  (CHOOSE r \in S : \A s \in S : r <= s) \in S
<1> DEFINE Less == {ss \in Nat \X Nat : ss[1] < ss[2]}
<1>1. IsWellFoundedOn(Less, Nat)
  BY NatLessThanWellFounded DEF OpToRel
<1>2. PICK i \in S : \A j \in S : ~(<<j, i>> \in Less)
  <2> HIDE DEF Less
  <2> QED BY <1>1, WFMin
<1>3. \A j \in S : ~(j < i)
  BY <1>2
<1>4. \A j \in S : i <= j
  BY <1>3
<1> QED BY <1>4

LEMMA HitEntitles ==
  ASSUME NEW p \in Piece, NEW u \in Person, NEW v \in Person, Claim(p, u, v)
  PROVE  /\ Hit(u, v, p) \in Request \cup {None}
         /\ SoD => Hit(u, v, p) \in Request /\ Asker[Hit(u, v, p)] = v
<1> DEFINE S == Entitled(v, p)
           oldest == CHOOSE r \in S : \A s \in S : r <= s
<1>1. S \subseteq Request /\ S \subseteq Nat /\ \A r \in S : Asker[r] = v
  BY LedgerConstantsOK DEF Entitled
<1>2. CASE NeedsEntitlement(u, v)
  <2>1. S # {}
    BY <1>2 DEF Claim
  <2>2. oldest \in S
    <3> HIDE DEF S
    <3> QED BY <1>1, <2>1, LeastRequest
  <2>3. Hit(u, v, p) = oldest
    BY <1>2 DEF Hit
  <2> HIDE DEF oldest, S
  <2> QED BY <1>1, <2>2, <2>3
<1>3. CASE ~NeedsEntitlement(u, v)
  BY <1>3 DEF Hit, NeedsEntitlement
<1> QED BY <1>2, <1>3

LEMMA ClaimMoves ==
  ASSUME TypeInv, NEW p \in Piece, NEW u \in Person, NEW v \in Person, Claim(p, u, v)
  PROVE  RowsMove /\ TypeInv'
<1> DEFINE r == Hit(u, v, p)
<1>1. r \in Request \cup {None} /\ (SoD => r \in Request /\ Asker[r] = v)
  BY HitEntitles
<1>2. Assign(p, u, v, None, r)
      /\ got' = [s \in Request |-> IF s = r THEN got[s] \cup {p} ELSE got[s]]
      /\ closed' = [s \in Request |-> closed[s] \/ (s = r /\ Collected(s))]
      /\ UNCHANGED <<seq, catalog, repair, op>>
  BY DEF Claim
<1> HIDE DEF r
<1>3. got' \in [Request -> SUBSET Piece] /\ closed' \in [Request -> BOOLEAN]
  BY <1>2 DEF TypeInv, TypeOK
<1> QED BY <1>1, <1>2, <1>3, AssignMoves

LEMMA ReturnMoves ==
  ASSUME TypeInv, NEW p \in Piece, Return(p) PROVE RowsMove /\ TypeInv'
<1> DEFINE x == InStore(asset[p], "AVAILABLE")
<1>1. asset' = [asset EXCEPT ![p] = x] /\ asset'[p] = x
  BY DEF Return, TypeInv, TypeOK
<1>2. RowMoves(p) /\ asset[p].status # "NONE"
  BY <1>1 DEF RowMoves, Stored, Return, AssetStatus
<1>3. stock' \in [Item -> Nat] /\ unsure' \in [Item -> BOOLEAN]
  BY ItemOfPiece, SyncTypes DEF Return
<1>4. got' \in [Request -> SUBSET Piece] /\ closed' \in [Request -> BOOLEAN]
  BY DEF Return, TypeInv, TypeOK
<1> HIDE DEF x
<1> QED BY <1>1, <1>2, <1>3, <1>4, NoHandler, SyncedRow DEF Return, catalog

LEMMA ReserveMoves ==
  ASSUME TypeInv, NEW p \in Piece, NEW r \in Request, Reserve(p, r) PROVE RowsMove /\ TypeInv'
<1> DEFINE x == [asset[p] EXCEPT !.for = r]
<1>1. asset' = [asset EXCEPT ![p] = x] /\ asset'[p] = x
  BY DEF Reserve, TypeInv, TypeOK
<1>2. RowMoves(p) /\ asset[p].status # "NONE"
  BY <1>1 DEF RowMoves, Reserved, Reserve, Free
<1>3. stock' \in [Item -> Nat] /\ unsure' \in [Item -> BOOLEAN] /\ got' \in [Request -> SUBSET Piece]
      /\ closed' \in [Request -> BOOLEAN]
  BY DEF Reserve, TypeInv, TypeOK
<1> HIDE DEF x
<1> QED BY <1>1, <1>2, <1>3, NoHandler, SyncedRow DEF Reserve, catalog

LEMMA RemoveMoves ==
  ASSUME TypeInv, NEW p \in Piece, Remove(p) PROVE RowsMove /\ TypeInv'
<1> DEFINE x == [NoPiece EXCEPT !.status = "GONE"]
<1>1. asset' = [asset EXCEPT ![p] = x] /\ asset'[p] = x
  BY DEF Remove, TypeInv, TypeOK
<1>2. RowMoves(p) /\ asset[p].status # "NONE"
  BY <1>1 DEF RowMoves, Deleted, Remove, Exists, AssetStatus
<1>3. stock' \in [Item -> Nat] /\ unsure' \in [Item -> BOOLEAN]
  BY ItemOfPiece, SyncTypes DEF Remove
<1>4. got' \in [Request -> SUBSET Piece] /\ closed' \in [Request -> BOOLEAN]
  BY DEF Remove, TypeInv, TypeOK
<1> HIDE DEF x
<1> QED BY <1>1, <1>2, <1>3, <1>4, NoHandler, SyncedRow DEF Remove, catalog

\* The handlers that setStatus leaves behind
StatusOp(q, p, s) ==
  CASE s = "UNDER_REPAIR" -> [op EXCEPT ![q] = [Idle EXCEPT !.step = "openRecord", !.p = p]]
    [] s # "UNDER_REPAIR" /\ asset[p].status = "UNDER_REPAIR"
         -> [op EXCEPT ![q] = [Idle EXCEPT !.step = "findRecord", !.p = p]]
    [] OTHER -> op

LEMMA StatusOps ==
  ASSUME TypeInv, NEW q \in Proc, NEW p \in Piece, NEW s, op' = StatusOp(q, p, s)
  PROVE  HandlersMove
<1> DEFINE o(step) == [Idle EXCEPT !.step = step, !.p = p]
<1>1. \A step \in {"openRecord", "findRecord"} : o(step) \in Op /\ o(step).step = step /\ o(step).p = p
  <2>1. ASSUME NEW step \in {"openRecord", "findRecord"}
        PROVE  o(step) \in Op /\ o(step).step = step /\ o(step).p = p
    <3>1. step \in Step /\ Idle \in Op
      BY IdleOp DEF Step
    <3>2. [Idle EXCEPT !.step = step] \in Op /\ [Idle EXCEPT !.step = step].step = step
      BY <3>1, OpEdit DEF Op
    <3>3. \A y \in Op : [y EXCEPT !.p = p] \in Op
      BY OpEdit
    <3>4. o(step) \in Op
      BY <3>2, <3>3
    <3> QED BY <3>1, <3>4 DEF Op
  <2> HIDE DEF o
  <2> QED BY <2>1
<1>2. op' = op \/ \E step \in {"openRecord", "findRecord"} : op' = [op EXCEPT ![q] = o(step)]
  BY DEF StatusOp
<1> HIDE DEF o
<1>3. CASE op' = op
  BY <1>3, NoHandler
<1>4. CASE \E step \in {"openRecord", "findRecord"} : op' = [op EXCEPT ![q] = o(step)]
  BY <1>1, <1>4, OneHandler
<1> QED BY <1>2, <1>3, <1>4

SettableStatus == {"AVAILABLE", "UNDER_REPAIR", "RETIRED"}

LEMMA SetStatusMoves ==
  ASSUME TypeInv, NEW q \in Proc, NEW p \in Piece, NEW s \in SettableStatus, SetStatus(q, p, s)
  PROVE  RowsMove /\ TypeInv'
<1> DEFINE x == IF asset[p].status = "ASSIGNED" THEN InStore(asset[p], s) ELSE [asset[p] EXCEPT !.status = s]
<1>1. asset' = [asset EXCEPT ![p] = x] /\ asset'[p] = x
  BY DEF SetStatus, TypeInv, TypeOK
<1>2. s \in AssetStatus \ {"ASSIGNED"}
  BY DEF SettableStatus, AssetStatus
<1>3. RowMoves(p) /\ asset[p].status # "NONE"
  BY <1>1, <1>2 DEF RowMoves, Stored, Marked, SetStatus, Exists, AssetStatus
<1>4. stock' \in [Item -> Nat] /\ unsure' \in [Item -> BOOLEAN]
  BY ItemOfPiece, SyncTypes DEF SetStatus
<1>5. got' \in [Request -> SUBSET Piece] /\ closed' \in [Request -> BOOLEAN]
  BY DEF SetStatus, TypeInv, TypeOK
<1>6. HandlersMove
  BY StatusOps DEF SetStatus, StatusOp
<1> HIDE DEF x
<1> QED BY <1>1, <1>3, <1>4, <1>5, <1>6, SyncedRow DEF SetStatus, catalog

LEMMA RecordRows ==
  ASSUME NEW s \in Seq(RecordStatus)
  PROVE  Opened(s) \in Seq(RecordStatus) /\ \A k : Completed(s, k) \in Seq(RecordStatus)
<1>1. Opened(s) \in Seq(RecordStatus)
  BY AppendProperties DEF Opened, RecordStatus
<1>2. ASSUME NEW k PROVE Completed(s, k) \in Seq(RecordStatus)
  <2>1. CASE k \in 1..Len(s)
    BY <2>1, ExceptSeq DEF Completed, RecordStatus
  <2>2. CASE k \notin 1..Len(s)
    <3>1. DOMAIN s = 1..Len(s)
      BY LenProperties
    <3>2. [s EXCEPT ![k] = "COMPLETED"] = s
      BY <2>2, <3>1
    <3> QED BY <3>2 DEF Completed
  <2> QED BY <2>1, <2>2
<1> QED BY <1>1, <1>2

LEMMA RecordsMove ==
  ASSUME TypeInv, NEW q \in Proc, OpenRecord(q) \/ FindRecord(q) \/ CloseRecord(q)
  PROVE  RowsMove /\ TypeInv'
<1>1. CASE OpenRecord(q)
  <2>1. repair' \in [Piece -> Seq(RecordStatus)]
    BY <1>1, RecordRows DEF OpenRecord, TypeInv, TypeOK
  <2>2. HandlersMove
    BY <1>1, DoneMoves DEF OpenRecord
  <2>3. RestTyped
    BY <1>1, <2>1 DEF OpenRecord, catalog, RestTyped, TypeInv, TypeOK
  <2> QED BY <1>1, <2>2, <2>3, RowsKept DEF OpenRecord
<1>2. CASE CloseRecord(q)
  <2>1. repair' \in [Piece -> Seq(RecordStatus)]
    BY <1>2, RecordRows DEF CloseRecord, TypeInv, TypeOK
  <2>2. HandlersMove
    BY <1>2, DoneMoves DEF CloseRecord
  <2>3. RestTyped
    BY <1>2, <2>1 DEF CloseRecord, catalog, RestTyped, TypeInv, TypeOK
  <2> QED BY <1>2, <2>2, <2>3, RowsKept DEF CloseRecord
<1>3. CASE FindRecord(q)
  <2>1. RestTyped
    BY <1>3 DEF FindRecord, catalog, RestTyped, TypeInv, TypeOK
  <2>2. CASE Done(q)
    BY <1>3, <2>1, <2>2, DoneMoves, RowsKept DEF FindRecord
  <2>3. CASE \E k \in InProgress(op[q].p) : op' = [op EXCEPT ![q].step = "closeRecord", ![q].n = k]
    <3>1. PICK k \in InProgress(op[q].p) : op' = [op EXCEPT ![q].step = "closeRecord", ![q].n = k]
      BY <2>3
    <3> DEFINE o == [op[q] EXCEPT !.step = "closeRecord", !.n = k]
    <3>2. op' = [op EXCEPT ![q] = o]
      BY <3>1
    <3>3. o \in Op /\ o.step = "closeRecord"
      <4>1. op[q] \in Op
        BY DEF TypeInv, TypeOK
      <4>2. k \in Int
        <5>1. op[q].p \in Piece
          BY <1>3 DEF FindRecord, TypeInv, OpsFit
        <5>2. repair[op[q].p] \in Seq(RecordStatus)
          BY <5>1 DEF TypeInv, TypeOK
        <5> QED BY <3>1, <5>2 DEF InProgress
      <4>3. "closeRecord" \in Step
        BY DEF Step
      <4>4. \A y \in Op : [y EXCEPT !.n = k] \in Op
        BY <4>2, OpEdit
      <4>5. [op[q] EXCEPT !.step = "closeRecord"] \in Op
        BY <4>1, <4>3, OpEdit
      <4>6. o \in Op
        BY <4>4, <4>5
      <4> QED BY <4>1, <4>6 DEF Op
    <3> HIDE DEF o
    <3> QED BY <1>3, <2>1, <3>2, <3>3, OneHandler, RowsKept DEF FindRecord
  <2> QED BY <1>3, <2>2, <2>3 DEF FindRecord
<1> QED BY <1>1, <1>2, <1>3

LEMMA RecalculateMoves ==
  ASSUME TypeInv, NEW q \in Proc,
         (\E i \in Item : RecalculateBegin(q, i)) \/ RecalculateCount(q) \/ RecalculateWrite(q)
  PROVE  RowsMove /\ TypeInv'
<1>1. CASE \E i \in Item : RecalculateBegin(q, i)
  <2>1. PICK i \in Item : RecalculateBegin(q, i)
    BY <1>1
  <2> DEFINE o == [Idle EXCEPT !.step = "recount", !.i = i, !.had = stock[i]]
  <2>2. o \in Op /\ o.step = "recount" /\ op' = [op EXCEPT ![q] = o]
    <3>1. "recount" \in Step /\ stock[i] \in Nat /\ Idle \in Op
      BY IdleOp DEF Step, TypeInv, TypeOK
    <3>2. o \in Op
      BY <3>1, OpStock
    <3>3. o.step = "recount"
      BY <3>1 DEF Op
    <3> QED BY <2>1, <3>2, <3>3 DEF RecalculateBegin
  <2> HIDE DEF o
  <2>3. HandlersMove
    BY <2>2, OneHandler
  <2>4. RestTyped
    BY <2>1 DEF RecalculateBegin, catalog, RestTyped, TypeInv, TypeOK
  <2> QED BY <2>1, <2>3, <2>4, RowsKept DEF RecalculateBegin
<1>2. CASE RecalculateCount(q)
  <2> DEFINE n == Cardinality(Available(op[q].i))
             o == [op[q] EXCEPT !.step = "restock", !.n = n]
  <2>1. n \in Nat
    <3>1. IsFiniteSet(Piece)
      BY FS_Interval, LedgerConstantsOK DEF Piece
    <3>2. Available(op[q].i) \subseteq Piece
      BY DEF Available
    <3> QED BY <3>1, <3>2, FS_Subset, FS_CardinalityType
  <2>2. op' = [op EXCEPT ![q] = o]
    BY <1>2 DEF RecalculateCount
  <2> HIDE DEF n
  <2>3. o \in Op /\ o.step = "restock" /\ o.n = n
    <3>1. op[q] \in Op /\ "restock" \in Step /\ n \in Int
      BY <2>1 DEF TypeInv, TypeOK, Step
    <3>2. \A y \in Op : [y EXCEPT !.n = n] \in Op
      BY <3>1, OpEdit
    <3>3. [op[q] EXCEPT !.step = "restock"] \in Op
      BY <3>1, OpEdit
    <3>4. o \in Op
      BY <3>2, <3>3
    <3> QED BY <3>1, <3>4 DEF Op
  <2> HIDE DEF o
  <2>4. HandlersMove
    BY <2>1, <2>2, <2>3, OneHandler
  <2>5. RestTyped
    BY <1>2 DEF RecalculateCount, catalog, RestTyped, TypeInv, TypeOK
  <2> QED BY <1>2, <2>4, <2>5, RowsKept DEF RecalculateCount
<1>3. CASE RecalculateWrite(q)
  <2> DEFINE i == op[q].i
  <2>1. HandlersMove
    BY <1>3, DoneMoves DEF RecalculateWrite
  <2>2. op[q].n \in Nat
    BY <1>3 DEF RecalculateWrite, TypeInv, OpsFit
  <2>3. stock' \in [Item -> Nat] /\ units' \in [Item -> Int] /\ unsure' \in [Item -> BOOLEAN]
    <3>1. CASE op[q].n = op[q].had
      BY <1>3, <3>1 DEF RecalculateWrite, TypeInv, TypeOK
    <3>2. CASE op[q].n # op[q].had
      <4>1. /\ stock' = [stock EXCEPT ![i] = op[q].n] /\ units' = [units EXCEPT ![i] = 0]
            /\ unsure' = [unsure EXCEPT ![i] = op[q].n # Cardinality(Available(i)) \/ Uncounted(i) # {}]
        BY <1>3, <3>2 DEF RecalculateWrite
      <4>2. (op[q].n # Cardinality(Available(i)) \/ Uncounted(i) # {}) \in BOOLEAN /\ 0 \in Int
        OBVIOUS
      <4>3. stock' \in [Item -> Nat] /\ units' \in [Item -> Int]
        <5> DEFINE n == op[q].n
        <5>1. n \in Nat /\ stock' = [stock EXCEPT ![i] = n]
          BY <2>2, <4>1
        <5> HIDE DEF n
        <5>2. stock' \in [Item -> Nat]
          BY <5>1 DEF TypeInv, TypeOK
        <5>3. units' \in [Item -> Int]
          <6>1. ASSUME NEW z \in Int PROVE [units EXCEPT ![i] = z] \in [Item -> Int]
            BY DEF TypeInv, TypeOK
          <6> QED BY <4>1, <6>1
        <5> QED BY <5>2, <5>3
      <4>4. unsure' \in [Item -> BOOLEAN]
        BY <4>1, <4>2 DEF TypeInv, TypeOK
      <4> QED BY <4>3, <4>4
    <3> QED BY <3>1, <3>2
  <2>4. RestTyped
    BY <1>3, <2>3 DEF RecalculateWrite, RestTyped, TypeInv, TypeOK
  <2> QED BY <1>3, <2>1, <2>4, RowsKept DEF RecalculateWrite
<1> QED BY <1>1, <1>2, <1>3

LEMMA CustodyMoves ==
  ASSUME TypeInv, NEW p \in Piece, Custody(p) PROVE RowsMove /\ TypeInv'
BY AssignPersonMoves, AssignDepartmentMoves, ClaimMoves, ReserveMoves, ReturnMoves, RemoveMoves DEF Custody

LEMMA RegisteringMoves ==
  ASSUME TypeInv, Registering PROVE RowsMove /\ TypeInv'
<1>1. ASSUME NEW q \in Proc, NEW i \in Item \cup {None}, CreateBegin(q, i) \/ ImportRow(q, i)
      PROVE  RowsMove /\ TypeInv'
  BY <1>1, CreateBeginMoves DEF ImportRow
<1> QED BY <1>1, RelabelMoves, RecalculateMoves, CreateInsertMoves, CreateCountMoves DEF Registering

LEMMA StockingMoves ==
  ASSUME TypeInv, Stocking PROVE RowsMove /\ TypeInv'
<1>1. ASSUME NEW i \in Item, NEW k \in CatalogItemType, NEW n \in 0..MaxStock,
             CreateItem(i, k, n) \/ ImportItem(i, k, n)
      PROVE  RowsMove /\ TypeInv'
  BY <1>1, CreateItemMoves DEF ImportItem
<1> QED BY <1>1, ReceiptMoves, AdjustMoves, RetypeMoves DEF Stocking

LEMMA RepairingMoves ==
  ASSUME TypeInv, Repairing PROVE RowsMove /\ TypeInv'
BY SetStatusMoves, RecordsMove DEF Repairing, SettableStatus

LEMMA NextMoves ==
  ASSUME TypeInv, [Next]_vars PROVE RowsMove /\ TypeInv'
<1>1. CASE Next
  BY <1>1, CustodyMoves, RegisteringMoves, StockingMoves, RepairingMoves DEF Next
<1>2. CASE UNCHANGED vars
  <2>1. HandlersMove /\ RestTyped
    BY <1>2, NoHandler DEF vars, catalog, RestTyped, TypeInv, TypeOK
  <2> QED BY <1>2, <2>1, RowsKept DEF vars
<1> QED BY <1>1, <1>2

LEMMA InitType == Init => TypeInv
<1> SUFFICES ASSUME Init PROVE TypeInv
  OBVIOUS
<1>1. NoPiece \in AssetDoc
  BY NoEntries DEF NoPiece, NewPiece, AssetDoc
<1>2. <<>> \in Seq(RecordStatus) /\ 0 \in 0..MaxPiece
  BY EmptySeq, LedgerConstantsOK
<1>3. TypeOK
  BY <1>1, <1>2, IdleOp DEF Init, TypeOK
<1>4. NoPiece.status = "NONE"
  BY DEF NoPiece, NewPiece
<1>5. OpsFit /\ NumbersGiven
  BY <1>4, IdleOp DEF Init, OpsFit, NumbersGiven, At
<1> QED BY <1>3, <1>5 DEF TypeInv

\* Every variable of the register and the catalog keeps its type.
THEOREM LedgerTypeCorrect == Spec => []TypeOK
<1>1. Init => TypeInv BY InitType
<1>2. TypeInv /\ [Next]_vars => TypeInv' BY NextMoves
<1>3. TypeInv => TypeOK BY DEF TypeInv
<1> QED BY <1>1, <1>2, <1>3, PTL DEF Spec

(***************************************************************************)
(* The history of a piece: one entry is open while the piece is held, and  *)
(* names the holder.                                                       *)
(***************************************************************************)
HistoryNames(x) ==
  IF x.status = "ASSIGNED" THEN x.open = <<x.holder>>
  ELSE x.open = <<>> /\ x.holder = None /\ x.dept = None

LEMMA HistoryStep ==
  ASSUME TypeInv, NEW p \in Piece, RowMoves(p), HistoryNames(asset[p])
  PROVE  HistoryNames(asset'[p])
<1> DEFINE x == asset[p]
<1>1. x \in AssetDoc
  BY DEF TypeInv, TypeOK
<1>2. CASE asset'[p] = asset[p]
  BY <1>2
<1>3. CASE Arrives(p)
  BY <1>3 DEF Arrives, NewPiece, HistoryNames
<1>4. CASE Relabelled(p)
  BY <1>1, <1>4 DEF Relabelled, HistoryNames, AssetDoc
<1>5. CASE Reserved(p)
  BY <1>1, <1>5 DEF Reserved, HistoryNames, AssetDoc
<1>6. CASE Given(p)
  <2>1. PICK u, v \in Person, d \in Department \cup {None}, r \in Request \cup {None} :
          asset'[p] = GivenRow(x, u, v, d, r)
    BY <1>6 DEF Given
  <2>2. x.open = <<>>
    BY <1>6 DEF Given, HistoryNames
  <2>3. Append(CloseEntry(x.open), v) = <<v>>
    BY <2>2 DEF CloseEntry
  <2>4. GivenRow(x, u, v, d, r).open = <<v>> /\ GivenRow(x, u, v, d, r).holder = v
        /\ GivenRow(x, u, v, d, r).status = "ASSIGNED"
    BY <1>1, <2>3 DEF GivenRow, AssetDoc
  <2> QED BY <2>1, <2>4 DEF HistoryNames
<1>7. CASE Stored(p)
  <2>1. PICK s \in AssetStatus \ {"ASSIGNED"} : asset'[p] = InStore(x, s)
    BY <1>7 DEF Stored
  <2>2. x.open = <<x.holder>>
    BY <1>7 DEF Stored, HistoryNames
  <2>3. CloseEntry(x.open) = <<>>
    BY <2>2 DEF CloseEntry
  <2>4. InStore(x, s).open = <<>> /\ InStore(x, s).holder = None /\ InStore(x, s).dept = None
        /\ InStore(x, s).status = s
    BY <1>1, <2>3 DEF InStore, AssetDoc
  <2> QED BY <2>1, <2>4 DEF HistoryNames
<1>8. CASE Marked(p)
  <2>1. PICK s \in AssetStatus \ {"ASSIGNED"} : asset'[p] = [x EXCEPT !.status = s]
    BY <1>8 DEF Marked
  <2> QED BY <1>1, <1>8, <2>1 DEF Marked, HistoryNames, AssetDoc
<1>9. CASE Deleted(p)
  BY <1>9 DEF Deleted, NoPiece, NewPiece, HistoryNames
<1> QED BY <1>2, <1>3, <1>4, <1>5, <1>6, <1>7, <1>8, <1>9 DEF RowMoves

\* performAssign closes the entry it finds before it opens its own, and every way back to
\* the store closes the last one: HistoryNamesHolder holds for any number of pieces and handlers.
THEOREM HistorySafe == Spec => []HistoryNamesHolder
<1>1. HistoryNamesHolder <=> \A p \in Piece : HistoryNames(asset[p])
  BY DEF HistoryNamesHolder, HistoryNames
<1>2. Init => TypeInv /\ HistoryNamesHolder
  BY <1>1, InitType DEF Init, NoPiece, NewPiece, HistoryNames
<1>3. TypeInv /\ HistoryNamesHolder /\ [Next]_vars => (TypeInv /\ HistoryNamesHolder)'
  <2> SUFFICES ASSUME TypeInv, HistoryNamesHolder, [Next]_vars PROVE (TypeInv /\ HistoryNamesHolder)'
    OBVIOUS
  <2>1. RowsMove /\ TypeInv'
    BY NextMoves
  <2>2. \A p \in Piece : HistoryNames(asset'[p])
    BY <1>1, <2>1, HistoryStep DEF RowsMove
  <2> QED BY <2>1, <2>2 DEF HistoryNamesHolder, HistoryNames
<1> QED BY <1>2, <1>3, PTL DEF Spec

(***************************************************************************)
(* Segregation of duties.                                                  *)
(***************************************************************************)
GivenByOthers(x) ==
  SoD => (x.status = "ASSIGNED" /\ x.by = x.holder => x.via \in Request /\ Asker[x.via] = x.holder)

LEMMA GivenStep ==
  ASSUME TypeInv, NEW p \in Piece, RowMoves(p), GivenByOthers(asset[p])
  PROVE  GivenByOthers(asset'[p])
<1> DEFINE x == asset[p]
<1>1. x \in AssetDoc
  BY DEF TypeInv, TypeOK
<1>2. CASE asset'[p] = asset[p]
  BY <1>2
<1>3. CASE Arrives(p)
  BY <1>3 DEF Arrives, NewPiece, GivenByOthers
<1>4. CASE Relabelled(p)
  BY <1>1, <1>4 DEF Relabelled, GivenByOthers, AssetDoc
<1>5. CASE Reserved(p)
  BY <1>1, <1>5 DEF Reserved, GivenByOthers, AssetDoc
<1>6. CASE Given(p)
  <2>1. PICK u, v \in Person, d \in Department \cup {None}, r \in Request \cup {None} :
          /\ asset'[p] = GivenRow(x, u, v, d, r)
          /\ SoD /\ u = v => r \in Request /\ Asker[r] = v
    BY <1>6 DEF Given
  <2>2. GivenRow(x, u, v, d, r).by = u /\ GivenRow(x, u, v, d, r).holder = v
        /\ GivenRow(x, u, v, d, r).via = r
    BY <1>1 DEF GivenRow, AssetDoc
  <2> QED BY <2>1, <2>2 DEF GivenByOthers
<1>7. CASE Stored(p)
  BY <1>1, <1>7 DEF Stored, InStore, GivenByOthers, AssetDoc
<1>8. CASE Marked(p)
  BY <1>1, <1>8 DEF Marked, GivenByOthers, AssetDoc
<1>9. CASE Deleted(p)
  BY <1>9 DEF Deleted, NoPiece, NewPiece, GivenByOthers
<1> QED BY <1>2, <1>3, <1>4, <1>5, <1>6, <1>7, <1>8, <1>9 DEF RowMoves

\* assertNotSelf on the ways of the warehouse, and the entitlement that a claim looks for, leave
\* no way to give oneself a piece but by a request of one's own.
THEOREM OwnGoodsSafe == Spec => []NobodyServesThemselves
<1>1. NobodyServesThemselves <=> \A p \in Piece : GivenByOthers(asset[p])
  BY DEF NobodyServesThemselves, GivenByOthers
<1>2. Init => TypeInv /\ NobodyServesThemselves
  BY <1>1, InitType DEF Init, NoPiece, NewPiece, GivenByOthers
<1>3. TypeInv /\ NobodyServesThemselves /\ [Next]_vars => (TypeInv /\ NobodyServesThemselves)'
  <2> SUFFICES ASSUME TypeInv, NobodyServesThemselves, [Next]_vars
               PROVE  (TypeInv /\ NobodyServesThemselves)'
    OBVIOUS
  <2>1. RowsMove /\ TypeInv'
    BY NextMoves
  <2>2. \A p \in Piece : GivenByOthers(asset'[p])
    BY <1>1, <2>1, GivenStep DEF RowsMove
  <2> QED BY <2>1, <2>2 DEF NobodyServesThemselves, GivenByOthers
<1> QED BY <1>2, <1>3, PTL DEF Spec

\* generateId: a number is above every number given before, so a deleted piece does not come back.
THEOREM NumbersRetire == Spec => NumbersStayRetired
<1>1. Init => TypeInv BY InitType
<1>2. TypeInv /\ [Next]_vars => TypeInv' BY NextMoves
<1>3. TypeInv /\ [Next]_vars => [\A p \in Piece : asset[p].status = "GONE" => asset'[p].status = "GONE"]_vars
  <2> SUFFICES ASSUME TypeInv, [Next]_vars, NEW p \in Piece, asset[p].status = "GONE"
               PROVE  asset'[p].status = "GONE"
    OBVIOUS
  <2>1. RowMoves(p)
    BY NextMoves DEF RowsMove
  <2> QED BY <2>1 DEF RowMoves, Arrives, Relabelled, Reserved, Given, Stored, Marked, Deleted,
                      Exists, AssetStatus
<1> QED BY <1>1, <1>2, <1>3, PTL DEF Spec, NumbersStayRetired

(***************************************************************************)
(* Repair records.  A piece may have several repairs in progress, and the  *)
(* newest is completed whichever handler looks for it; so the invariant    *)
(* counts: every handler about to complete a record of a piece has one of  *)
(* its own to complete, and a piece under repair has one besides.          *)
(***************************************************************************)
Recording == {"openRecord", "findRecord", "closeRecord"}
Openers(p) == {q \in Proc : op[q].step = "openRecord" /\ op[q].p = p}
Closers(p) == {q \in Proc : op[q].step \in {"findRecord", "closeRecord"} /\ op[q].p = p}
Owed(p) == (IF asset[p].status = "UNDER_REPAIR" THEN 1 ELSE 0) + Cardinality(Closers(p))
Kept(p) == Cardinality(InProgress(p)) + Cardinality(Openers(p))
RecordInv == \A p \in Piece : Owed(p) <= Kept(p)

LEMMA RecordSizes ==
  ASSUME TypeInv, NEW p \in Piece
  PROVE  /\ IsFiniteSet(Openers(p)) /\ Cardinality(Openers(p)) \in Nat
         /\ IsFiniteSet(Closers(p)) /\ Cardinality(Closers(p)) \in Nat
         /\ IsFiniteSet(InProgress(p)) /\ Cardinality(InProgress(p)) \in Nat
<1>1. Openers(p) \subseteq Proc /\ Closers(p) \subseteq Proc /\ IsFiniteSet(Proc)
  BY LedgerConstantsOK DEF Openers, Closers
<1>2. InProgress(p) \subseteq 1..Len(repair[p]) /\ IsFiniteSet(1..Len(repair[p]))
  <2>1. repair[p] \in Seq(RecordStatus)
    BY DEF TypeInv, TypeOK
  <2>2. DOMAIN repair[p] = 1..Len(repair[p]) /\ Len(repair[p]) \in Nat
    BY <2>1, LenProperties
  <2>3. IsFiniteSet(1..Len(repair[p]))
    BY <2>2, FS_Interval
  <2> QED BY <2>2, <2>3 DEF InProgress
<1> QED BY <1>1, <1>2, FS_Subset, FS_CardinalityType

\* A step with no part in repairs
Quiet ==
  /\ repair' = repair
  /\ \A q \in Proc : op'[q] = op[q] \/ (op[q].step \notin Recording /\ op'[q].step \notin Recording)
  /\ \A p \in Piece : asset'[p].status = "UNDER_REPAIR" => asset[p].status = "UNDER_REPAIR"

LEMMA QuietKeeps ==
  ASSUME TypeInv, Quiet, NEW p \in Piece, Owed(p) <= Kept(p) PROVE (Owed(p) <= Kept(p))'
<1>1. Openers(p)' = Openers(p) /\ Closers(p)' = Closers(p)
  BY DEF Quiet, Recording, Openers, Closers
<1>2. InProgress(p)' = InProgress(p)
  BY DEF Quiet, InProgress
<1> QED BY <1>1, <1>2, RecordSizes DEF Quiet, Owed, Kept

LEMMA CustodyQuiet ==
  ASSUME TypeInv, NEW p \in Piece, Custody(p) PROVE Quiet
<1>1. repair' = repair /\ op' = op
  BY DEF Custody, AssignPerson, AssignDepartment, Claim, Reserve, Return, Remove
<1>2. \A r \in Piece \ {p} : asset'[r] = asset[r]
  BY DEF Custody, AssignPerson, AssignDepartment, Claim, Reserve, Return, Remove, Assign, TypeInv, TypeOK
<1>3. asset[p] \in AssetDoc /\ asset \in [Piece -> AssetDoc]
  BY DEF TypeInv, TypeOK
<1>4. ASSUME NEW u, NEW v, NEW d, NEW r, Assign(p, u, v, d, r) PROVE asset'[p].status = "ASSIGNED"
  BY <1>3, <1>4 DEF Assign, AssetDoc
<1>5. ASSUME NEW r, Reserve(p, r) PROVE asset'[p].status = asset[p].status
  BY <1>3, <1>5 DEF Reserve, AssetDoc
<1>6. ASSUME Return(p) PROVE asset'[p].status = "AVAILABLE"
  BY <1>3, <1>6 DEF Return, InStore, AssetDoc
<1>7. ASSUME Remove(p) PROVE asset'[p].status = "GONE"
  BY <1>3, <1>7 DEF Remove, NoPiece, NewPiece
<1>8. asset'[p].status = "UNDER_REPAIR" => asset[p].status = "UNDER_REPAIR"
  BY <1>4, <1>5, <1>6, <1>7 DEF Custody, AssignPerson, AssignDepartment, Claim
<1> QED BY <1>1, <1>2, <1>8 DEF Quiet

\* A handler outside repairs takes a step outside repairs.
LEMMA QuietHandler ==
  ASSUME TypeInv, NEW q \in Proc, NEW o, op' = [op EXCEPT ![q] = o], op[q].step \notin Recording,
         o.step \notin Recording, repair' = repair,
         \A p \in Piece : asset'[p].status = "UNDER_REPAIR" => asset[p].status = "UNDER_REPAIR"
  PROVE  Quiet
BY DEF Quiet, TypeInv, TypeOK

LEMMA RegisteringQuiet ==
  ASSUME TypeInv, Registering PROVE Quiet
<1>1. ASSUME NEW p \in Piece, NEW i \in Item, Relabel(p, i) PROVE Quiet
  <2>1. asset[p] \in AssetDoc /\ asset \in [Piece -> AssetDoc]
    BY DEF TypeInv, TypeOK
  <2>2. \A r \in Piece : asset'[r].status = asset[r].status
    BY <1>1, <2>1 DEF Relabel, AssetDoc
  <2> QED BY <1>1, <2>2 DEF Relabel, Quiet
<1>2. ASSUME NEW q \in Proc, NEW i \in Item \cup {None}, CreateBegin(q, i) PROVE Quiet
  <2> DEFINE o == [Idle EXCEPT !.step = "insert", !.p = NextNumber, !.i = i]
  <2>1. o.step = "insert"
    BY IdleOp DEF Op
  <2> HIDE DEF o
  <2> QED BY <1>2, <2>1, QuietHandler DEF CreateBegin, Begin, At, Recording, o
<1>3. ASSUME NEW q \in Proc, CreateInsert(q) PROVE Quiet
  <2> DEFINE o == IF op[q].i = None THEN Idle ELSE [op[q] EXCEPT !.step = "count"]
  <2>1. o.step \in {"idle", "count"} /\ op[q].step = "insert" /\ repair' = repair
        /\ op' = [op EXCEPT ![q] = o]
    <3>1. op[q] \in Op
      BY DEF TypeInv, TypeOK
    <3> QED BY <1>3, <3>1, IdleOp DEF CreateInsert, Done, At, Op
  <2> HIDE DEF o
  <2>2. \A p \in Piece : asset'[p].status = "UNDER_REPAIR" => asset[p].status = "UNDER_REPAIR"
    BY <1>3 DEF CreateInsert, NewPiece, TypeInv, TypeOK
  <2> QED BY <2>1, <2>2, QuietHandler DEF Recording
<1>4. ASSUME NEW q \in Proc, CreateCount(q) \/ RecalculateWrite(q) PROVE Quiet
  BY <1>4, QuietHandler, IdleOp DEF CreateCount, RecalculateWrite, Done, At, Recording
<1>5. ASSUME NEW q \in Proc, RecalculateCount(q) PROVE Quiet
  <2> DEFINE o == [op[q] EXCEPT !.step = "restock", !.n = Cardinality(Available(op[q].i))]
  <2>1. op[q] \in Op
    BY DEF TypeInv, TypeOK
  <2>2. o.step = "restock"
    BY <2>1 DEF Op
  <2>3. op' = [op EXCEPT ![q] = o]
    BY <1>5 DEF RecalculateCount
  <2> HIDE DEF o
  <2> QED BY <1>5, <2>2, <2>3, QuietHandler DEF RecalculateCount, At, Recording
<1>6. ASSUME NEW q \in Proc, NEW i \in Item, RecalculateBegin(q, i) PROVE Quiet
  <2> DEFINE o == [Idle EXCEPT !.step = "recount", !.i = i, !.had = stock[i]]
  <2>1. o.step = "recount"
    BY IdleOp DEF Op
  <2> HIDE DEF o
  <2> QED BY <1>6, <2>1, QuietHandler DEF RecalculateBegin, Begin, At, Recording, o
<1> QED BY <1>1, <1>2, <1>3, <1>4, <1>5, <1>6 DEF Registering, ImportRow

LEMMA StockingQuiet ==
  ASSUME TypeInv, Stocking PROVE Quiet
<1>1. ASSUME NEW i \in Item, NEW n, repair' = repair, op' = op, Register(i, n) \/ CountIn(i, n) PROVE Quiet
  <2>1. \A p \in Piece : asset'[p].status = "UNDER_REPAIR" => asset[p].status = "UNDER_REPAIR"
    <3>1. CASE CountIn(i, n)
      BY <3>1 DEF CountIn
    <3>2. CASE Register(i, n)
      <4>1. PICK fresh : asset' = Registered(fresh, i)
        BY <3>2 DEF Register
      <4> QED BY <4>1 DEF Registered, NewPiece
    <3> QED BY <1>1, <3>1, <3>2
  <2> QED BY <1>1, <2>1 DEF Quiet
<1>2. ASSUME NEW i \in Item, NEW k, NEW n, CreateItem(i, k, n) PROVE Quiet
  <2>1. CASE k = "ASSET"
    BY <1>2, <2>1 DEF CreateItem, Quiet
  <2>2. CASE k # "ASSET"
    BY <1>1, <1>2, <2>2 DEF CreateItem
  <2> QED BY <2>1, <2>2
<1>3. ASSUME NEW i \in Item, NEW n, Restock(i, n) \/ \E k : ReceiveNewItem(i, k, n) PROVE Quiet
  BY <1>1, <1>3 DEF Restock, ReceiveNewItem, Receive
<1>4. ASSUME NEW q \in Proc, NEW i \in Item, NEW d \in {-1, 1}, AdjustBegin(q, i, d) PROVE Quiet
  <2> DEFINE o == [Idle EXCEPT !.step = "adjust", !.i = i, !.n = d]
  <2>1. o.step = "adjust"
    BY IdleOp DEF Op
  <2> HIDE DEF o
  <2> QED BY <1>4, <2>1, QuietHandler DEF AdjustBegin, Begin, At, Recording, o
<1>5. ASSUME NEW q \in Proc, NEW i \in Item, NEW k \in CatalogItemType, RetypeBegin(q, i, k) PROVE Quiet
  <2> DEFINE o == [Idle EXCEPT !.step = "retype", !.i = i, !.had = stock[i], !.to = k]
  <2>1. o.step = "retype"
    BY IdleOp DEF Op
  <2> HIDE DEF o
  <2> QED BY <1>5, <2>1, QuietHandler DEF RetypeBegin, Begin, At, Recording, o
<1>6. ASSUME NEW q \in Proc, AdjustWrite(q) \/ RetypeWrite(q) PROVE Quiet
  BY <1>6, QuietHandler, IdleOp DEF AdjustWrite, RetypeWrite, Done, At, Recording
<1> QED BY <1>2, <1>3, <1>4, <1>5, <1>6 DEF Stocking, ImportItem

LEMMA AddOne ==
  ASSUME NEW S, IsFiniteSet(S), NEW x, x \notin S
  PROVE  Cardinality(S \cup {x}) = Cardinality(S) + 1
BY FS_AddElement

LEMMA TakeOne ==
  ASSUME NEW S, IsFiniteSet(S), NEW x, x \in S
  PROVE  Cardinality(S \ {x}) = Cardinality(S) - 1
BY FS_RemoveElement

\* setStatus leaves a handler that owes the piece a record, or one that completes a record.
LEMMA SetStatusKeeps ==
  ASSUME TypeInv, NEW q \in Proc, NEW p \in Piece, NEW s \in SettableStatus, SetStatus(q, p, s),
         NEW r \in Piece, Owed(r) <= Kept(r)
  PROVE  (Owed(r) <= Kept(r))'
<1>1. repair' = repair /\ op[q].step = "idle" /\ op \in [Proc -> Op]
  BY DEF SetStatus, Begin, At, TypeInv, TypeOK
<1>2. InProgress(r)' = InProgress(r)
  BY <1>1 DEF InProgress
<1>3. /\ IsFiniteSet(Openers(r)) /\ Cardinality(Openers(r)) \in Nat
      /\ IsFiniteSet(Closers(r)) /\ Cardinality(Closers(r)) \in Nat
      /\ Cardinality(InProgress(r)) \in Nat
  BY RecordSizes
<1>4. q \notin Openers(r) /\ q \notin Closers(r)
  BY <1>1 DEF Openers, Closers
<1>5. asset \in [Piece -> AssetDoc] /\ asset[p] \in AssetDoc
  BY DEF TypeInv, TypeOK
<1>6. asset'[p].status = s /\ \A x \in Piece \ {p} : asset'[x] = asset[x]
  BY <1>5 DEF SetStatus, InStore, AssetDoc
<1> DEFINE o(step) == [Idle EXCEPT !.step = step, !.p = p]
<1>7. \A step : o(step).step = step /\ o(step).p = p
  BY IdleOp DEF Op
<1>8. CASE s = "UNDER_REPAIR"
  <2>1. op' = [op EXCEPT ![q] = o("openRecord")]
    BY <1>8 DEF SetStatus
  <2> HIDE DEF o
  <2>2. op'[q].step = "openRecord" /\ op'[q].p = p /\ \A x \in Proc \ {q} : op'[x] = op[x]
    BY <1>1, <1>7, <2>1
  <2>3. Closers(r)' = Closers(r)
    BY <1>4, <2>2 DEF Closers
  <2>4. CASE r = p
    <3>1. Openers(r)' = Openers(r) \cup {q}
      BY <2>2, <2>4 DEF Openers
    <3>2. Cardinality(Openers(r)') = Cardinality(Openers(r)) + 1
      BY <1>3, <1>4, <3>1, AddOne
    <3> QED BY <1>2, <1>3, <2>3, <3>2 DEF Owed, Kept
  <2>5. CASE r # p
    <3>1. Openers(r)' = Openers(r)
      BY <1>4, <2>2, <2>5 DEF Openers
    <3> QED BY <1>2, <1>6, <2>3, <2>5, <3>1 DEF Owed, Kept
  <2> QED BY <2>4, <2>5
<1>9. CASE s # "UNDER_REPAIR" /\ asset[p].status = "UNDER_REPAIR"
  <2>1. op' = [op EXCEPT ![q] = o("findRecord")]
    BY <1>9 DEF SetStatus
  <2> HIDE DEF o
  <2>2. op'[q].step = "findRecord" /\ op'[q].p = p /\ \A x \in Proc \ {q} : op'[x] = op[x]
    BY <1>1, <1>7, <2>1
  <2>3. Openers(r)' = Openers(r)
    BY <1>4, <2>2 DEF Openers
  <2>4. CASE r = p
    <3>1. Closers(r)' = Closers(r) \cup {q}
      BY <2>2, <2>4 DEF Closers
    <3>2. Cardinality(Closers(r)') = Cardinality(Closers(r)) + 1
      BY <1>3, <1>4, <3>1, AddOne
    <3> QED BY <1>2, <1>3, <1>6, <1>9, <2>3, <2>4, <3>2 DEF Owed, Kept
  <2>5. CASE r # p
    <3>1. Closers(r)' = Closers(r)
      BY <1>4, <2>2, <2>5 DEF Closers
    <3> QED BY <1>2, <1>6, <2>3, <2>5, <3>1 DEF Owed, Kept
  <2> QED BY <2>4, <2>5
<1>10. CASE s # "UNDER_REPAIR" /\ asset[p].status # "UNDER_REPAIR"
  <2>1. op' = op
    BY <1>10 DEF SetStatus
  <2>2. Quiet
    BY <1>1, <1>6, <1>10, <2>1 DEF Quiet
  <2> QED BY <2>2, QuietKeeps
<1> QED BY <1>8, <1>9, <1>10

LEMMA OpenRecordKeeps ==
  ASSUME TypeInv, NEW q \in Proc, OpenRecord(q), NEW p \in Piece, Owed(p) <= Kept(p)
  PROVE  (Owed(p) <= Kept(p))'
<1>1. asset' = asset /\ op[q].step = "openRecord" /\ op'[q].step = "idle" /\ \A x \in Proc \ {q} : op'[x] = op[x]
  BY IdleOp DEF OpenRecord, At, Done, TypeInv, TypeOK
<1>2. Closers(p)' = Closers(p)
  BY <1>1 DEF Closers
<1>3. /\ IsFiniteSet(Openers(p)) /\ Cardinality(Openers(p)) \in Nat /\ Cardinality(Closers(p)) \in Nat
      /\ IsFiniteSet(InProgress(p)) /\ Cardinality(InProgress(p)) \in Nat
  BY RecordSizes
<1>4. CASE op[q].p = p
  <2> DEFINE n == Len(repair[p]) + 1
  <2>1. repair'[p] = Append(repair[p], "IN_PROGRESS") /\ repair[p] \in Seq(RecordStatus)
    BY <1>4 DEF OpenRecord, Opened, TypeInv, TypeOK
  <2>2. Len(repair[p]) \in Nat /\ DOMAIN repair[p] = 1..Len(repair[p]) /\ DOMAIN repair'[p] = 1..n
        /\ repair'[p][n] = "IN_PROGRESS" /\ \A k \in 1..Len(repair[p]) : repair'[p][k] = repair[p][k]
    BY <2>1, AppendProperties, LenProperties DEF RecordStatus
  <2>3. InProgress(p)' = InProgress(p) \cup {n} /\ n \notin InProgress(p)
    BY <2>2 DEF InProgress
  <2>4. Openers(p)' = Openers(p) \ {q} /\ q \in Openers(p)
    BY <1>1, <1>4 DEF Openers
  <2> HIDE DEF n
  <2>5. Cardinality(InProgress(p)') = Cardinality(InProgress(p)) + 1
    BY <1>3, <2>3, AddOne
  <2>6. Cardinality(Openers(p)') = Cardinality(Openers(p)) - 1
    BY <1>3, <2>4, TakeOne
  <2> QED BY <1>1, <1>2, <1>3, <2>5, <2>6 DEF Owed, Kept
<1>5. CASE op[q].p # p
  <2>1. Openers(p)' = Openers(p)
    BY <1>1, <1>5 DEF Openers
  <2>2. InProgress(p)' = InProgress(p)
    BY <1>5 DEF InProgress, OpenRecord, TypeInv, TypeOK
  <2> QED BY <1>1, <1>2, <2>1, <2>2 DEF Owed, Kept
<1> QED BY <1>4, <1>5

LEMMA FindRecordKeeps ==
  ASSUME TypeInv, NEW q \in Proc, FindRecord(q), NEW p \in Piece, Owed(p) <= Kept(p)
  PROVE  (Owed(p) <= Kept(p))'
<1>1. /\ asset' = asset /\ repair' = repair /\ op[q].step = "findRecord" /\ op[q] \in Op
      /\ op \in [Proc -> Op]
  BY DEF FindRecord, At, TypeInv, TypeOK
<1>2. InProgress(p)' = InProgress(p)
  BY <1>1 DEF InProgress
<1>3. /\ IsFiniteSet(Closers(p)) /\ Cardinality(Closers(p)) \in Nat
      /\ Cardinality(Openers(p)) \in Nat /\ Cardinality(InProgress(p)) \in Nat
  BY RecordSizes
<1>4. CASE Done(q)
  <2>1. op'[q].step = "idle" /\ \A x \in Proc \ {q} : op'[x] = op[x]
    BY <1>1, <1>4, IdleOp DEF Done
  <2>2. Openers(p)' = Openers(p)
    BY <1>1, <2>1 DEF Openers
  <2>3. Closers(p)' = Closers(p) \/ (q \in Closers(p) /\ Closers(p)' = Closers(p) \ {q})
    BY <1>1, <2>1 DEF Closers
  <2>4. Cardinality(Closers(p)') = Cardinality(Closers(p)) \/ Cardinality(Closers(p)') = Cardinality(Closers(p)) - 1
    BY <1>3, <2>3, TakeOne
  <2> QED BY <1>1, <1>2, <1>3, <2>2, <2>4 DEF Owed, Kept
<1>5. CASE \E k : op' = [op EXCEPT ![q].step = "closeRecord", ![q].n = k]
  <2>1. op'[q].step = "closeRecord" /\ op'[q].p = op[q].p /\ \A x \in Proc \ {q} : op'[x] = op[x]
    BY <1>1, <1>5 DEF Op
  <2>2. Openers(p)' = Openers(p) /\ Closers(p)' = Closers(p)
    BY <1>1, <2>1 DEF Openers, Closers
  <2> QED BY <1>1, <1>2, <2>2 DEF Owed, Kept
<1> QED BY <1>4, <1>5 DEF FindRecord

LEMMA CloseRecordKeeps ==
  ASSUME TypeInv, NEW q \in Proc, CloseRecord(q), NEW p \in Piece, Owed(p) <= Kept(p)
  PROVE  (Owed(p) <= Kept(p))'
<1>1. asset' = asset /\ op[q].step = "closeRecord" /\ op'[q].step = "idle" /\ \A x \in Proc \ {q} : op'[x] = op[x]
  BY IdleOp DEF CloseRecord, At, Done, TypeInv, TypeOK
<1>2. Openers(p)' = Openers(p)
  BY <1>1 DEF Openers
<1>3. /\ IsFiniteSet(Closers(p)) /\ Cardinality(Closers(p)) \in Nat /\ Cardinality(Openers(p)) \in Nat
      /\ IsFiniteSet(InProgress(p)) /\ Cardinality(InProgress(p)) \in Nat
  BY RecordSizes
<1>4. CASE op[q].p = p
  <2> DEFINE n == op[q].n
  <2>1. repair'[p] = [repair[p] EXCEPT ![n] = "COMPLETED"]
    BY <1>4 DEF CloseRecord, Completed, TypeInv, TypeOK
  <2> HIDE DEF n
  <2>2. InProgress(p)' = InProgress(p) \ {n}
    BY <2>1 DEF InProgress
  <2>3. Cardinality(InProgress(p)') \in {Cardinality(InProgress(p)), Cardinality(InProgress(p)) - 1}
    <3>1. CASE n \in InProgress(p)
      BY <1>3, <2>2, <3>1, TakeOne
    <3>2. CASE n \notin InProgress(p)
      <4>1. InProgress(p)' = InProgress(p)
        BY <2>2, <3>2
      <4> QED BY <4>1
    <3> QED BY <3>1, <3>2
  <2>4. Closers(p)' = Closers(p) \ {q} /\ q \in Closers(p)
    BY <1>1, <1>4 DEF Closers
  <2>5. Cardinality(Closers(p)') = Cardinality(Closers(p)) - 1
    BY <1>3, <2>4, TakeOne
  <2> QED BY <1>1, <1>2, <1>3, <2>3, <2>5 DEF Owed, Kept
<1>5. CASE op[q].p # p
  <2>1. Closers(p)' = Closers(p)
    BY <1>1, <1>5 DEF Closers
  <2>2. InProgress(p)' = InProgress(p)
    BY <1>5 DEF InProgress, CloseRecord, TypeInv, TypeOK
  <2> QED BY <1>1, <1>2, <2>1, <2>2 DEF Owed, Kept
<1> QED BY <1>4, <1>5

LEMMA RecordStep ==
  ASSUME TypeInv, RecordInv, [Next]_vars PROVE RecordInv'
<1> SUFFICES ASSUME NEW p \in Piece PROVE (Owed(p) <= Kept(p))'
  BY DEF RecordInv
<1>1. Owed(p) <= Kept(p)
  BY DEF RecordInv
<1>2. CASE UNCHANGED vars
  <2>1. Quiet
    BY <1>2 DEF vars, Quiet
  <2> QED BY <1>1, <2>1, QuietKeeps
<1>3. CASE (\E r \in Piece : Custody(r)) \/ Registering \/ Stocking
  BY <1>1, <1>3, CustodyQuiet, RegisteringQuiet, StockingQuiet, QuietKeeps
<1>4. CASE Repairing
  BY <1>1, <1>4, SetStatusKeeps, OpenRecordKeeps, FindRecordKeeps, CloseRecordKeeps
     DEF Repairing, SettableStatus
<1> QED BY <1>2, <1>3, <1>4 DEF Next

\* Sent to repair and fetched back by any number of handlers, a piece under repair has a repair in
\* progress or a handler about to record one.
THEOREM RepairsSafe == Spec => []RepairIsRecorded
<1>1. Init => TypeInv /\ RecordInv
  <2> SUFFICES ASSUME Init PROVE TypeInv /\ RecordInv
    OBVIOUS
  <2>1. TypeInv
    BY InitType
  <2>2. ASSUME NEW p \in Piece PROVE Owed(p) <= Kept(p)
    <3>1. Closers(p) = {} /\ asset[p].status = "NONE"
      BY IdleOp DEF Init, Closers, NoPiece, NewPiece
    <3>2. Cardinality(Closers(p)) = 0
      BY <3>1, FS_EmptySet
    <3> QED BY <2>1, <3>1, <3>2, RecordSizes DEF Owed, Kept
  <2> QED BY <2>1, <2>2 DEF RecordInv
<1>2. TypeInv /\ RecordInv /\ [Next]_vars => (TypeInv /\ RecordInv)'
  BY NextMoves, RecordStep
<1>3. TypeInv /\ RecordInv => RepairIsRecorded
  <2> SUFFICES ASSUME TypeInv, RecordInv, NEW p \in Piece, asset[p].status = "UNDER_REPAIR"
               PROVE  InProgress(p) # {} \/ \E q \in Proc : At(q, "openRecord") /\ op[q].p = p
    BY DEF RepairIsRecorded
  <2>1. Cardinality(InProgress(p)) + Cardinality(Openers(p)) >= 1
    BY RecordSizes DEF RecordInv, Owed, Kept
  <2>2. InProgress(p) # {} \/ Openers(p) # {}
    BY <2>1, FS_EmptySet
  <2> QED BY <2>2 DEF Openers, At
<1> QED BY <1>1, <1>2, <1>3, PTL DEF Spec

(***************************************************************************)
(* Stock.  The gap between what the catalog counts of an item and what     *)
(* there is of it stays closed, as long as the item is not unsure.  While  *)
(* a change of type is between its check and its write the item may come   *)
(* to hold units, but only more than none; so an item that again has no    *)
(* stock when the type is written has no units either.                     *)
(***************************************************************************)
\* The process that changes types is the only one that creates pieces or corrects stock.
RetypeAlone ==
  \A p, q \in Proc : "retype" \in Runs[p] /\ {"create", "adjust"} \cap Runs[q] # {} => p = q

Gap(i) == (stock[i] + Cardinality(Uncounted(i))) - (Cardinality(Available(i)) + units[i])

HandlerOK(q) ==
  /\ op[q].step \in {"insert", "count"} => "create" \in Runs[q]
  /\ op[q].step = "adjust" => "adjust" \in Runs[q] /\ op[q].i \in Item /\ kind[op[q].i] # None
  /\ op[q].step = "retype" =>
       /\ "retype" \in Runs[q] /\ op[q].i \in Item /\ op[q].had = 0 /\ op[q].to \in CatalogItemType
       /\ ~unsure[op[q].i] => units[op[q].i] >= 0

StockInv ==
  /\ \A i \in Item : ~unsure[i] => Gap(i) = 0 /\ (kind[i] \in {"ASSET", None} => units[i] = 0)
  /\ \A q \in Proc : HandlerOK(q)

LEMMA FinitePieces == IsFiniteSet(Piece) /\ IsFiniteSet(Proc)
BY FS_Interval, LedgerConstantsOK DEF Piece

LEMMA StockSizes ==
  ASSUME TypeInv, NEW i \in Item
  PROVE  /\ IsFiniteSet(Available(i)) /\ Cardinality(Available(i)) \in Nat
         /\ IsFiniteSet(Uncounted(i)) /\ Cardinality(Uncounted(i)) \in Nat
         /\ stock[i] \in Nat /\ units[i] \in Int
<1>1. Available(i) \subseteq Piece /\ Uncounted(i) \subseteq Proc
  BY DEF Available, Uncounted
<1>2. stock[i] \in Nat /\ units[i] \in Int
  BY DEF TypeInv, TypeOK
<1> QED BY <1>1, <1>2, FinitePieces, FS_Subset, FS_CardinalityType

LEMMA StockSizesAfter ==
  ASSUME TypeInv', NEW i \in Item
  PROVE  /\ IsFiniteSet(Available(i)') /\ Cardinality(Available(i)') \in Nat
         /\ IsFiniteSet(Uncounted(i)') /\ Cardinality(Uncounted(i)') \in Nat
         /\ stock'[i] \in Nat /\ units'[i] \in Int
         /\ Gap(i)' = (stock'[i] + Cardinality(Uncounted(i)')) - (Cardinality(Available(i)') + units'[i])
<1>1. Available(i)' \subseteq Piece /\ Uncounted(i)' \subseteq Proc
  BY DEF Available, Uncounted
<1>2. stock'[i] \in Nat /\ units'[i] \in Int
  BY DEF TypeInv, TypeOK
<1>3. Gap(i)' = (stock'[i] + Cardinality(Uncounted(i)')) - (Cardinality(Available(i)') + units'[i])
  BY DEF Gap
<1> QED BY <1>1, <1>2, <1>3, FinitePieces, FS_Subset, FS_CardinalityType

\* What a step has to show of the items and of the handlers.
Grows(i) == ~unsure'[i] => units'[i] = 0 \/ (~unsure[i] /\ units'[i] >= units[i])

LEMMA StockStep ==
  ASSUME TypeInv, TypeInv', StockInv,
         \A i \in Item : kind[i] # None => kind'[i] # None,
         \A i \in Item : ~unsure'[i] => Gap(i)' = 0 /\ (kind'[i] \in {"ASSET", None} => units'[i] = 0),
         \A q \in Proc : HandlerOK(q)' \/ (op'[q] = op[q] /\ (op[q].step = "retype" => Grows(op[q].i)))
  PROVE  StockInv'
<1>1. ASSUME NEW q \in Proc, op'[q] = op[q], op[q].step = "retype" => Grows(op[q].i) PROVE HandlerOK(q)'
  <2>1. PICK o \in Op : o = op[q] /\ op'[q] = o
    BY <1>1 DEF TypeInv, TypeOK
  <2>2. HandlerOK(q)
    BY DEF StockInv
  <2>3. o.step = "retype" => (~unsure'[o.i] => units'[o.i] >= 0)
    <3> SUFFICES ASSUME o.step = "retype", ~unsure'[o.i] PROVE units'[o.i] >= 0
      OBVIOUS
    <3>1. o.i \in Item /\ Grows(o.i) /\ (~unsure[o.i] => units[o.i] >= 0)
      BY <1>1, <2>1, <2>2 DEF HandlerOK
    <3>2. units'[o.i] \in Int /\ units[o.i] \in Int
      BY <3>1 DEF TypeInv, TypeOK
    <3> QED BY <3>1, <3>2 DEF Grows
  <2>4. o.step = "adjust" => kind'[o.i] # None
    BY <2>1, <2>2 DEF HandlerOK
  <2> QED BY <2>1, <2>2, <2>3, <2>4 DEF HandlerOK
<1>2. \A q \in Proc : HandlerOK(q)'
  BY <1>1
<1>3. \A i \in Item : (~unsure[i] => Gap(i) = 0 /\ (kind[i] \in {"ASSET", None} => units[i] = 0))'
  OBVIOUS
<1> QED BY <1>2, <1>3 DEF StockInv

\* Pieces come and go: no type and no units change.
Even(i) == ~unsure'[i] => ~unsure[i] /\ Gap(i)' = Gap(i)

LEMMA PiecesStep ==
  ASSUME TypeInv, TypeInv', StockInv, UNCHANGED catalog, \A i \in Item : Even(i),
         \A q \in Proc : op'[q] = op[q] \/ HandlerOK(q)'
  PROVE  StockInv'
<1>1. kind' = kind /\ units' = units
  BY DEF catalog
<1>2. \A i \in Item : ~unsure'[i] => Gap(i)' = 0 /\ (kind'[i] \in {"ASSET", None} => units'[i] = 0)
  BY <1>1 DEF Even, StockInv
<1>3. ASSUME NEW q \in Proc, op[q].step = "retype" PROVE Grows(op[q].i)
  <2>1. PICK i \in Item : i = op[q].i
    BY <1>3 DEF StockInv, HandlerOK
  <2>2. units'[i] = units[i] /\ units[i] \in Int /\ Even(i)
    BY <1>1 DEF TypeInv, TypeOK
  <2>3. Grows(i)
    BY <2>2 DEF Grows, Even
  <2> QED BY <2>1, <2>3
<1> QED BY <1>1, <1>2, <1>3, StockStep

\* The pieces in store when one row changes
In(p, i) == IF asset[p].status = "AVAILABLE" /\ asset[p].item = i THEN 1 ELSE 0

LEMMA AvailableMoves ==
  ASSUME TypeInv, NEW p \in Piece, \A r \in Piece \ {p} : asset'[r] = asset[r], NEW i \in Item
  PROVE  /\ Cardinality(Available(i)') = Cardinality(Available(i)) + In(p, i)' - In(p, i)
         /\ In(p, i) \in 0..1 /\ In(p, i)' \in 0..1
<1>1. IsFiniteSet(Available(i)) /\ Cardinality(Available(i)) \in Nat
  BY StockSizes
<1>2. p \in Available(i) <=> In(p, i) = 1
  BY DEF Available, In
<1>3. p \in Available(i)' <=> In(p, i)' = 1
  BY DEF Available, In
<1>4. In(p, i) \in 0..1 /\ In(p, i)' \in 0..1
  BY DEF In
<1>5. \A r \in Piece \ {p} : r \in Available(i)' <=> r \in Available(i)
  BY DEF Available
<1>6. Available(i)' \subseteq Piece /\ Available(i) \subseteq Piece
  BY DEF Available
<1>7. CASE p \in Available(i) /\ p \in Available(i)'
  <2>1. Available(i)' = Available(i)
    BY <1>5, <1>6, <1>7
  <2> QED BY <1>1, <1>2, <1>3, <1>7, <2>1
<1>8. CASE p \notin Available(i) /\ p \notin Available(i)'
  <2>1. Available(i)' = Available(i)
    BY <1>5, <1>6, <1>8
  <2>2. In(p, i) = 0 /\ In(p, i)' = 0
    BY <1>2, <1>3, <1>4, <1>8
  <2> QED BY <1>1, <1>4, <2>1, <2>2
<1>9. CASE p \notin Available(i) /\ p \in Available(i)'
  <2>1. Available(i)' = Available(i) \cup {p}
    BY <1>5, <1>6, <1>9
  <2>2. In(p, i) = 0 /\ In(p, i)' = 1
    BY <1>2, <1>3, <1>4, <1>9
  <2>3. Cardinality(Available(i)') = Cardinality(Available(i)) + 1
    BY <1>1, <1>9, <2>1, AddOne
  <2> QED BY <1>1, <1>4, <2>2, <2>3
<1>10. CASE p \in Available(i) /\ p \notin Available(i)'
  <2>1. Available(i)' = Available(i) \ {p}
    BY <1>5, <1>6, <1>10
  <2>2. In(p, i) = 1 /\ In(p, i)' = 0
    BY <1>2, <1>3, <1>4, <1>10
  <2>3. Cardinality(Available(i)') = Cardinality(Available(i)) - 1
    BY <1>1, <1>10, <2>1, TakeOne
  <2> QED BY <1>1, <1>4, <2>2, <2>3
<1> QED BY <1>7, <1>8, <1>9, <1>10

\* syncStock follows the piece.
LEMMA SyncedEven ==
  ASSUME TypeInv, TypeInv', NEW p \in Piece, \A r \in Piece \ {p} : asset'[r] = asset[r], NEW to,
         SyncStock(asset[p].item, asset[p].status, to), units' = units,
         NEW i \in Item, In(p, i)' = IF i = asset[p].item THEN Contribution(to) ELSE 0,
         Uncounted(i)' = Uncounted(i)
  PROVE  Even(i)
<1> SUFFICES ASSUME ~unsure'[i] PROVE ~unsure[i] /\ Gap(i)' = Gap(i)
  BY DEF Even
<1> DEFINE from == asset[p].status
           j == asset[p].item
<1>1. In(p, i) = IF i = j THEN Contribution(from) ELSE 0
  BY DEF In, Contribution
<1>2. ~unsure[i] /\ stock'[i] = stock[i] + In(p, i)' - In(p, i)
  <2>0. stock \in [Item -> Nat] /\ unsure \in [Item -> BOOLEAN] /\ stock[i] \in Nat /\ j \in Item \cup {None}
    BY ItemOfPiece DEF TypeInv, TypeOK
  <2>1. CASE i # j
    <3>1. In(p, i)' = 0 /\ In(p, i) = 0
      BY <1>1, <2>1
    <3>2. stock'[i] = stock[i] /\ unsure'[i] = unsure[i]
      <4>1. CASE j = None
        BY <4>1 DEF SyncStock
      <4>2. CASE j # None
        BY <2>0, <2>1, <4>2 DEF SyncStock
      <4> QED BY <4>1, <4>2
    <3> QED BY <2>0, <3>1, <3>2
  <2>2. CASE i = j
    <3>1. j # None
      BY <2>2, LedgerConstantsOK
    <3> DEFINE want == stock[i] + Delta(from, to)
    <3>2. stock'[i] = Clamped(want) /\ (unsure'[i] <=> (unsure[i] \/ want < 0))
      BY <2>0, <2>2, <3>1 DEF SyncStock
    <3>3. ~(want < 0) /\ ~unsure[i]
      BY <3>2
    <3>4. Clamped(want) = want
      BY <3>3 DEF Clamped
    <3>5. Delta(from, to) = In(p, i)' - In(p, i)
      BY <1>1, <2>2 DEF Delta
    <3>6. In(p, i)' \in Int /\ In(p, i) \in Int
      BY DEF In
    <3> QED BY <2>0, <3>2, <3>3, <3>4, <3>5, <3>6
  <2> QED BY <2>1, <2>2
<1>3. Cardinality(Available(i)') = Cardinality(Available(i)) + In(p, i)' - In(p, i)
      /\ In(p, i) \in 0..1 /\ In(p, i)' \in 0..1
  BY AvailableMoves
<1>4. Gap(i)' = Gap(i)
  BY <1>2, <1>3, StockSizes, StockSizesAfter DEF Gap
<1> QED BY <1>2, <1>4

\* A handler goes on, and counts no piece.
LEMMA HandlerSwap ==
  ASSUME TypeInv, NEW q \in Proc, NEW o, op' = [op EXCEPT ![q] = o], op[q].step # "count", o.step # "count"
  PROVE  /\ op'[q] = o /\ \A r \in Proc \ {q} : op'[r] = op[r]
         /\ \A i \in Item : Uncounted(i)' = Uncounted(i)
<1>1. op'[q] = o /\ \A r \in Proc \ {q} : op'[r] = op[r]
  BY DEF TypeInv, TypeOK
<1> QED BY <1>1 DEF Uncounted, At

LEMMA HandlersSame == ASSUME op' = op PROVE \A i \in Item : Uncounted(i)' = Uncounted(i)
BY DEF Uncounted, At

\* A row changes, and the piece is in store as before; or no row changes.
LEMMA EvenRow ==
  ASSUME TypeInv, TypeInv', NEW p \in Piece, \A r \in Piece \ {p} : asset'[r] = asset[r],
         stock' = stock, units' = units, NEW i \in Item, Uncounted(i)' = Uncounted(i),
         ~unsure'[i] => ~unsure[i] /\ In(p, i)' = In(p, i)
  PROVE  Even(i)
<1> SUFFICES ASSUME ~unsure'[i] PROVE Gap(i)' = Gap(i)
  BY DEF Even
<1>1. Cardinality(Available(i)') = Cardinality(Available(i)) + In(p, i)' - In(p, i)
      /\ In(p, i) \in 0..1 /\ In(p, i)' \in 0..1
  BY AvailableMoves
<1>2. Cardinality(Available(i)') = Cardinality(Available(i))
  BY <1>1, StockSizes
<1> QED BY <1>2, StockSizesAfter DEF Gap

LEMMA EvenSame ==
  ASSUME asset' = asset, stock' = stock, units' = units, unsure' = unsure,
         NEW i \in Item, Uncounted(i)' = Uncounted(i)
  PROVE  Even(i)
<1>1. Available(i)' = Available(i)
  BY DEF Available
<1> QED BY <1>1 DEF Even, Gap

LEMMA CustodyStock ==
  ASSUME TypeInv, TypeInv', StockInv, NEW p \in Piece, Custody(p) PROVE StockInv'
<1>1. op' = op /\ UNCHANGED catalog /\ units' = units
  BY DEF Custody, AssignPerson, AssignDepartment, Claim, Reserve, Return, Remove, catalog
<1>2. \A r \in Piece \ {p} : asset'[r] = asset[r]
  BY DEF Custody, AssignPerson, AssignDepartment, Claim, Reserve, Return, Remove, Assign, TypeInv, TypeOK
<1>3. asset[p] \in AssetDoc /\ asset \in [Piece -> AssetDoc]
  BY DEF TypeInv, TypeOK
<1>4. ASSUME NEW u, NEW v, NEW d, NEW r, Assign(p, u, v, d, r), NEW i \in Item PROVE Even(i)
  <2>1. asset[p].status = "AVAILABLE" /\ SyncStock(asset[p].item, asset[p].status, "ASSIGNED")
    BY <1>4 DEF Assign, Free
  <2>2. asset'[p].status = "ASSIGNED"
    BY <1>3, <1>4 DEF Assign, AssetDoc
  <2>3. In(p, i)' = 0 /\ Contribution("ASSIGNED") = 0
    BY <2>2 DEF In, Contribution
  <2> QED BY <1>1, <1>2, <2>1, <2>3, HandlersSame, SyncedEven
<1>5. ASSUME NEW r, Reserve(p, r), NEW i \in Item PROVE Even(i)
  <2>1. asset'[p].status = asset[p].status /\ asset'[p].item = asset[p].item
    BY <1>3, <1>5 DEF Reserve, AssetDoc
  <2>2. In(p, i)' = In(p, i)
    BY <2>1 DEF In
  <2> QED BY <1>1, <1>2, <1>5, <2>2, HandlersSame, EvenRow DEF Reserve
<1>6. ASSUME Return(p), NEW i \in Item PROVE Even(i)
  <2>1. asset'[p].status = "AVAILABLE" /\ asset'[p].item = asset[p].item
    BY <1>3, <1>6 DEF Return, InStore, AssetDoc
  <2>2. In(p, i)' = IF i = asset[p].item THEN Contribution("AVAILABLE") ELSE 0
    BY <2>1 DEF In, Contribution
  <2> QED BY <1>1, <1>2, <1>6, <2>2, HandlersSame, SyncedEven DEF Return
<1>7. ASSUME Remove(p), NEW i \in Item PROVE Even(i)
  <2>1. asset'[p].status = "GONE"
    BY <1>3, <1>7 DEF Remove, NoPiece, NewPiece
  <2>2. In(p, i)' = 0 /\ Contribution("GONE") = 0
    BY <2>1 DEF In, Contribution
  <2> QED BY <1>1, <1>2, <1>7, <2>2, HandlersSame, SyncedEven DEF Remove
<1>8. \A i \in Item : Even(i)
  BY <1>4, <1>5, <1>6, <1>7 DEF Custody, AssignPerson, AssignDepartment, Claim
<1> QED BY <1>1, <1>8, PiecesStep

LEMMA SetStatusStock ==
  ASSUME TypeInv, TypeInv', StockInv, NEW q \in Proc, NEW p \in Piece, NEW s \in SettableStatus, SetStatus(q, p, s)
  PROVE  StockInv'
<1> DEFINE x == IF asset[p].status = "ASSIGNED" THEN InStore(asset[p], s) ELSE [asset[p] EXCEPT !.status = s]
<1>1. asset[p] \in AssetDoc /\ asset \in [Piece -> AssetDoc]
  BY DEF TypeInv, TypeOK
<1>2. asset' = [asset EXCEPT ![p] = x] /\ UNCHANGED catalog /\ units' = units
      /\ SyncStock(asset[p].item, asset[p].status, s)
  BY DEF SetStatus, catalog
<1>3. x.status = s /\ x.item = asset[p].item
  BY <1>1 DEF InStore, AssetDoc
<1> HIDE DEF x
<1>4. asset'[p] = x /\ \A r \in Piece \ {p} : asset'[r] = asset[r]
  BY <1>1, <1>2
<1>5. op' = op \/ \E o : op' = [op EXCEPT ![q] = o] /\ o.step \in {"openRecord", "findRecord"}
  <2> DEFINE o(step) == [Idle EXCEPT !.step = step, !.p = p]
  <2>1. o("openRecord").step = "openRecord" /\ o("findRecord").step = "findRecord"
    BY DEF Idle
  <2>2. op' = op \/ op' = [op EXCEPT ![q] = o("openRecord")] \/ op' = [op EXCEPT ![q] = o("findRecord")]
    BY DEF SetStatus
  <2> HIDE DEF o
  <2> QED BY <2>1, <2>2
<1>6. /\ \A r \in Proc : op'[r] = op[r] \/ HandlerOK(r)'
      /\ \A i \in Item : Uncounted(i)' = Uncounted(i)
  <2>1. CASE op' = op
    BY <2>1, HandlersSame
  <2>2. ASSUME NEW o, op' = [op EXCEPT ![q] = o], o.step \in {"openRecord", "findRecord"}
        PROVE  /\ \A r \in Proc : op'[r] = op[r] \/ HandlerOK(r)'
               /\ \A i \in Item : Uncounted(i)' = Uncounted(i)
    <3>1. op[q].step # "count"
      BY DEF SetStatus, Begin, At
    <3>2. /\ op'[q] = o /\ \A r \in Proc \ {q} : op'[r] = op[r]
          /\ \A i \in Item : Uncounted(i)' = Uncounted(i)
      BY <2>2, <3>1, HandlerSwap
    <3>3. HandlerOK(q)'
      BY <2>2, <3>2 DEF HandlerOK
    <3> QED BY <3>2, <3>3
  <2> QED BY <1>5, <2>1, <2>2
<1>7. ASSUME NEW i \in Item PROVE Even(i)
  <2>1. In(p, i)' = IF i = asset[p].item THEN Contribution(s) ELSE 0
    BY <1>3, <1>4 DEF In, Contribution
  <2> QED BY <1>2, <1>4, <1>6, <2>1, SyncedEven
<1> QED BY <1>2, <1>6, <1>7, PiecesStep

LEMMA RelabelStock ==
  ASSUME TypeInv, TypeInv', StockInv, NEW p \in Piece, NEW j \in Item, Relabel(p, j) PROVE StockInv'
<1>1. asset[p] \in AssetDoc /\ asset \in [Piece -> AssetDoc]
  BY DEF TypeInv, TypeOK
<1>2. op' = op /\ UNCHANGED catalog /\ units' = units /\ stock' = stock
  BY DEF Relabel, catalog
<1>3. /\ \A r \in Piece \ {p} : asset'[r] = asset[r]
      /\ asset'[p].status = asset[p].status /\ asset'[p].item = j
  BY <1>1 DEF Relabel, AssetDoc
<1>4. ASSUME NEW i \in Item PROVE Even(i)
  <2>1. unsure'[i] <=> (unsure[i] \/ (asset[p].status = "AVAILABLE" /\ i \in {j, asset[p].item}))
    BY DEF Relabel
  <2>2. ~unsure'[i] => ~unsure[i] /\ In(p, i)' = In(p, i)
    BY <1>3, <2>1 DEF In
  <2> QED BY <1>2, <1>3, <2>2, HandlersSame, EvenRow
<1> QED BY <1>2, <1>4, PiecesStep

\* A request reaches a handler, or the handler goes on, and nothing else happens.
LEMMA HandlerStock ==
  ASSUME TypeInv, TypeInv', StockInv, UNCHANGED <<asset, catalog, stock, unsure>>, NEW q \in Proc, NEW o,
         op' = [op EXCEPT ![q] = o], op[q].step # "count", o.step # "count",
         op'[q] = o => HandlerOK(q)'
  PROVE  StockInv'
<1>1. /\ op'[q] = o /\ \A r \in Proc \ {q} : op'[r] = op[r]
      /\ \A i \in Item : Uncounted(i)' = Uncounted(i)
  BY HandlerSwap
<1>2. units' = units
  BY DEF catalog
<1>3. \A i \in Item : Even(i)
  BY <1>1, <1>2, EvenSame
<1> QED BY <1>1, <1>3, PiecesStep

LEMMA CreateBeginStock ==
  ASSUME TypeInv, TypeInv', StockInv, NEW q \in Proc, NEW i \in Item \cup {None}, CreateBegin(q, i)
  PROVE  StockInv'
<1> DEFINE o == [Idle EXCEPT !.step = "insert", !.p = NextNumber, !.i = i]
<1>1. op' = [op EXCEPT ![q] = o] /\ op[q].step = "idle" /\ "create" \in Runs[q]
      /\ UNCHANGED <<asset, catalog, stock, unsure>>
  BY DEF CreateBegin, Begin, At
<1>2. o.step = "insert"
  BY DEF Idle
<1> HIDE DEF o
<1>3. op'[q] = o => HandlerOK(q)'
  BY <1>1, <1>2 DEF HandlerOK
<1> QED BY <1>1, <1>2, <1>3, HandlerStock

LEMMA RecalculateBeginStock ==
  ASSUME TypeInv, TypeInv', StockInv, NEW q \in Proc, NEW i \in Item, RecalculateBegin(q, i)
  PROVE  StockInv'
<1> DEFINE o == [Idle EXCEPT !.step = "recount", !.i = i, !.had = stock[i]]
<1>1. op' = [op EXCEPT ![q] = o] /\ op[q].step = "idle"
      /\ UNCHANGED <<asset, catalog, stock, unsure>>
  BY DEF RecalculateBegin, Begin, At
<1>2. o.step = "recount"
  BY DEF Idle
<1> HIDE DEF o
<1>3. op'[q] = o => HandlerOK(q)'
  BY <1>1, <1>2 DEF HandlerOK
<1> QED BY <1>1, <1>2, <1>3, HandlerStock

LEMMA RecalculateCountStock ==
  ASSUME TypeInv, TypeInv', StockInv, NEW q \in Proc, RecalculateCount(q) PROVE StockInv'
<1> DEFINE o == [op[q] EXCEPT !.step = "restock", !.n = Cardinality(Available(op[q].i))]
<1>1. op[q] \in Op
  BY DEF TypeInv, TypeOK
<1>2. op' = [op EXCEPT ![q] = o] /\ op[q].step = "recount"
      /\ UNCHANGED <<asset, catalog, stock, unsure>>
  BY DEF RecalculateCount, At
<1>3. o.step = "restock"
  BY <1>1 DEF Op
<1> HIDE DEF o
<1>4. op'[q] = o => HandlerOK(q)'
  BY <1>3 DEF HandlerOK
<1> QED BY <1>2, <1>3, <1>4, HandlerStock

LEMMA RecordStock ==
  ASSUME TypeInv, TypeInv', StockInv, NEW q \in Proc, OpenRecord(q) \/ FindRecord(q) \/ CloseRecord(q)
  PROVE  StockInv'
<1>1. PICK o : op' = [op EXCEPT ![q] = o] /\ o.step \in {"idle", "closeRecord"}
  <2>1. CASE Done(q)
    BY <2>1, IdleOp DEF Done
  <2>2. CASE \E k : op' = [op EXCEPT ![q].step = "closeRecord", ![q].n = k]
    <3>1. PICK k : op' = [op EXCEPT ![q].step = "closeRecord", ![q].n = k]
      BY <2>2
    <3> DEFINE o == [op[q] EXCEPT !.step = "closeRecord", !.n = k]
    <3>2. op' = [op EXCEPT ![q] = o]
      BY <3>1
    <3>3. o.step = "closeRecord"
      BY DEF TypeInv, TypeOK, Op
    <3> HIDE DEF o
    <3> QED BY <3>2, <3>3
  <2> QED BY <2>1, <2>2 DEF OpenRecord, FindRecord, CloseRecord
<1>2. op[q].step # "count" /\ UNCHANGED <<asset, catalog, stock, unsure>>
  BY DEF OpenRecord, FindRecord, CloseRecord, At
<1>3. op'[q] = o => HandlerOK(q)'
  BY <1>1 DEF HandlerOK
<1> QED BY <1>1, <1>2, <1>3, HandlerStock

\* A piece is inserted, and is still to be counted.
LEMMA CreateInsertStock ==
  ASSUME TypeInv, TypeInv', StockInv, NEW q \in Proc, CreateInsert(q) PROVE StockInv'
<1>0. op[q] \in Op /\ op[q].step = "insert" /\ op[q].p \in Piece /\ op[q].i \in Item \cup {None}
  BY DEF CreateInsert, At, TypeInv, TypeOK, NumbersGiven, Op
<1>p. PICK p \in Piece : p = op[q].p
  BY <1>0
<1>i. PICK i \in Item \cup {None} : i = op[q].i
  BY <1>0
<1>1. op[q] \in Op /\ op[q].step = "insert" /\ p \in Piece /\ asset[p].status = "NONE" /\ "create" \in Runs[q]
      /\ i \in Item \cup {None}
  BY <1>0, <1>p, <1>i DEF CreateInsert, At, TypeInv, NumbersGiven, StockInv, HandlerOK
<1>2. UNCHANGED catalog /\ stock' = stock /\ units' = units /\ unsure' = unsure
  BY DEF CreateInsert, catalog
<1>3. asset'[p] = NewPiece(i) /\ \A r \in Piece \ {p} : asset'[r] = asset[r]
  BY <1>1, <1>p, <1>i DEF CreateInsert, TypeInv, TypeOK
<1>4. \A j \in Item : In(p, j) = 0 /\ In(p, j)' = IF j = i THEN 1 ELSE 0
  <2>1. NewPiece(i).status = "AVAILABLE" /\ NewPiece(i).item = i
    BY DEF NewPiece
  <2> QED BY <1>1, <1>3, <2>1 DEF In
<1>5. CASE i = None
  <2>1. op' = [op EXCEPT ![q] = Idle] /\ op[q].step # "count" /\ Idle.step # "count"
    BY <1>1, <1>i, <1>5, IdleOp DEF CreateInsert, Done
  <2>2. /\ op'[q] = Idle /\ \A r \in Proc \ {q} : op'[r] = op[r]
        /\ \A j \in Item : Uncounted(j)' = Uncounted(j)
    BY <2>1, HandlerSwap
  <2>3. \A j \in Item : j # i
    BY <1>5, LedgerConstantsOK
  <2>4. ASSUME NEW j \in Item PROVE Even(j)
    BY <1>1, <1>2, <1>3, <1>4, <2>2, <2>3, EvenRow
  <2>5. HandlerOK(q)'
    BY <2>2, IdleOp DEF HandlerOK
  <2> QED BY <1>2, <2>2, <2>4, <2>5, PiecesStep
<1>6. CASE i # None
  <2> DEFINE o == [op[q] EXCEPT !.step = "count"]
  <2>1. op' = [op EXCEPT ![q] = o] /\ o.step = "count" /\ o.i = i
    BY <1>1, <1>i, <1>6 DEF CreateInsert, Op
  <2> HIDE DEF o
  <2>2. op'[q] = o /\ \A r \in Proc \ {q} : op'[r] = op[r]
    BY <2>1 DEF TypeInv, TypeOK
  <2>3. Uncounted(i)' = Uncounted(i) \cup {q} /\ q \notin Uncounted(i)
    BY <1>1, <1>i, <2>1, <2>2 DEF Uncounted, At
  <2>4. ASSUME NEW j \in Item, j # i PROVE Even(j)
    <3>1. Uncounted(j)' = Uncounted(j)
      BY <1>1, <1>i, <2>1, <2>2, <2>4 DEF Uncounted, At
    <3> QED BY <1>1, <1>2, <1>3, <1>4, <2>4, <3>1, EvenRow
  <2>5. ASSUME i \in Item PROVE Even(i)
    <3>1. Cardinality(Uncounted(i)') = Cardinality(Uncounted(i)) + 1
      BY <2>3, <2>5, StockSizes, AddOne
    <3>2. Cardinality(Available(i)') = Cardinality(Available(i)) + 1
      <4>1. Cardinality(Available(i)') = Cardinality(Available(i)) + In(p, i)' - In(p, i)
        BY <1>1, <1>3, <2>5, AvailableMoves
      <4>2. In(p, i)' = 1 /\ In(p, i) = 0
        BY <1>4, <2>5
      <4>3. Cardinality(Available(i)) \in Nat
        BY <2>5, StockSizes
      <4> QED BY <4>1, <4>2, <4>3
    <3>3. PICK j \in Item : j = i
      BY <2>5
    <3>4. Gap(j)' = Gap(j)
      BY <1>2, <3>1, <3>2, <3>3, StockSizes, StockSizesAfter DEF Gap
    <3> QED BY <1>2, <3>3, <3>4 DEF Even
  <2>6. HandlerOK(q)'
    BY <1>1, <2>1, <2>2 DEF HandlerOK
  <2> QED BY <1>2, <2>2, <2>4, <2>5, <2>6, PiecesStep
<1> QED BY <1>5, <1>6

LEMMA CreateCountStock ==
  ASSUME TypeInv, TypeInv', StockInv, NEW q \in Proc, CreateCount(q) PROVE StockInv'
<1>1. op[q].step = "count" /\ op[q].i \in Item \cup {None}
  BY DEF CreateCount, At, TypeInv, TypeOK, Op
<1>2. PICK i \in Item \cup {None} : i = op[q].i
  BY <1>1
<1>3. UNCHANGED catalog /\ units' = units /\ unsure' = unsure /\ asset' = asset
      /\ stock' = [stock EXCEPT ![i] = stock[i] + 1]
  BY <1>2 DEF CreateCount, catalog
<1>4. op'[q] = Idle /\ Idle.step = "idle" /\ \A r \in Proc \ {q} : op'[r] = op[r]
  BY IdleOp DEF CreateCount, Done, TypeInv, TypeOK
<1>5. ASSUME NEW j \in Item PROVE Even(j)
  <2>1. Available(j)' = Available(j)
    BY <1>3 DEF Available
  <2>2. CASE j # i
    <3>1. Uncounted(j)' = Uncounted(j)
      BY <1>2, <1>4, <2>2 DEF Uncounted, At
    <3>2. stock'[j] = stock[j]
      BY <1>3, <2>2 DEF TypeInv, TypeOK
    <3>3. Gap(j)' = Gap(j)
      BY <1>3, <2>1, <3>1, <3>2 DEF Gap
    <3> QED BY <1>3, <3>3 DEF Even
  <2>3. CASE j = i
    <3>1. Uncounted(j)' = Uncounted(j) \ {q} /\ q \in Uncounted(j)
      BY <1>1, <1>2, <1>4, <2>3 DEF Uncounted, At
    <3>2. Cardinality(Uncounted(j)') = Cardinality(Uncounted(j)) - 1
      BY <3>1, StockSizes, TakeOne
    <3>3. stock'[j] = stock[j] + 1
      BY <1>3, <2>3 DEF TypeInv, TypeOK
    <3>4. Gap(j)' = Gap(j)
      BY <1>3, <2>1, <3>2, <3>3, StockSizes, StockSizesAfter DEF Gap
    <3> QED BY <1>3, <3>4 DEF Even
  <2> QED BY <2>2, <2>3
<1>6. HandlerOK(q)'
  BY <1>4 DEF HandlerOK
<1> QED BY <1>3, <1>4, <1>5, <1>6, PiecesStep

\* What the items keep keeps the handlers at a change of type.
LEMMA ItemsKept ==
  ASSUME TypeInv, TypeInv', StockInv, NEW i \in Item, Even(i), units'[i] = units[i], kind'[i] = kind[i]
  PROVE  Grows(i) /\ (~unsure'[i] => Gap(i)' = 0 /\ (kind'[i] \in {"ASSET", None} => units'[i] = 0))
<1>1. units[i] \in Int
  BY DEF TypeInv, TypeOK
<1> QED BY <1>1 DEF Even, Grows, StockInv

LEMMA RecalculateWriteStock ==
  ASSUME TypeInv, TypeInv', StockInv, NEW q \in Proc, RecalculateWrite(q) PROVE StockInv'
<1>1. op' = [op EXCEPT ![q] = Idle] /\ op[q].step = "restock" /\ Idle.step = "idle"
      /\ asset' = asset /\ kind' = kind
  BY IdleOp DEF RecalculateWrite, Done, At
<1>2. /\ op'[q] = Idle /\ \A r \in Proc \ {q} : op'[r] = op[r]
      /\ \A i \in Item : Uncounted(i)' = Uncounted(i)
  BY <1>1, HandlerSwap
<1>3. \A i \in Item : Available(i)' = Available(i)
  BY <1>1 DEF Available
<1>4. PICK i \in Item \cup {None} : i = op[q].i
  BY DEF TypeInv, TypeOK, Op
<1>5. PICK n \in Nat : n = op[q].n
  BY <1>1 DEF TypeInv, OpsFit, At
<1>6. ASSUME NEW j \in Item, stock'[j] = stock[j], units'[j] = units[j], unsure'[j] = unsure[j] PROVE Even(j)
  BY <1>2, <1>3, <1>6 DEF Even, Gap
<1>7. ASSUME NEW j \in Item
      PROVE  Grows(j) /\ (~unsure'[j] => Gap(j)' = 0 /\ (kind'[j] \in {"ASSET", None} => units'[j] = 0))
  <2>1. CASE op[q].n = op[q].had
    <3>1. stock' = stock /\ units' = units /\ unsure' = unsure
      BY <2>1 DEF RecalculateWrite
    <3> QED BY <1>1, <1>6, <3>1, ItemsKept
  <2>2. CASE op[q].n # op[q].had
    <3>1. /\ stock' = [stock EXCEPT ![i] = n] /\ units' = [units EXCEPT ![i] = 0]
          /\ unsure' = [unsure EXCEPT ![i] = n # Cardinality(Available(i)) \/ Uncounted(i) # {}]
      BY <1>4, <1>5, <2>2 DEF RecalculateWrite
    <3>2. CASE j # i
      <4>1. stock'[j] = stock[j] /\ units'[j] = units[j] /\ unsure'[j] = unsure[j]
        BY <3>1, <3>2 DEF TypeInv, TypeOK
      <4> QED BY <1>1, <1>6, <4>1, ItemsKept
    <3>3. CASE j = i
      <4>1. stock'[j] = n /\ units'[j] = 0
            /\ (~unsure'[j] => n = Cardinality(Available(j)) /\ Uncounted(j) = {})
        BY <3>1, <3>3 DEF TypeInv, TypeOK
      <4>2. ASSUME ~unsure'[j] PROVE Gap(j)' = 0
        <5>1. Cardinality(Uncounted(j)') = 0
          BY <1>2, <4>1, <4>2, FS_EmptySet
        <5>2. Cardinality(Available(j)') = n
          BY <1>3, <4>1, <4>2
        <5> QED BY <4>1, <5>1, <5>2, StockSizesAfter
      <4> QED BY <4>1, <4>2 DEF Grows
    <3> QED BY <3>2, <3>3
  <2> QED BY <2>1, <2>2
<1>8. HandlerOK(q)'
  BY <1>1, <1>2 DEF HandlerOK
<1>9. \A r \in Proc : op[r].step = "retype" => op[r].i \in Item
  BY DEF StockInv, HandlerOK
<1> QED BY <1>1, <1>2, <1>7, <1>8, <1>9, StockStep

LEMMA AdjustStock ==
  ASSUME TypeInv, TypeInv', StockInv, RetypeAlone, NEW q \in Proc, AdjustWrite(q) PROVE StockInv'
<1>1. op' = [op EXCEPT ![q] = Idle] /\ op[q].step = "adjust" /\ Idle.step = "idle"
      /\ asset' = asset /\ kind' = kind
  BY IdleOp DEF AdjustWrite, Done, At
<1>2. /\ op'[q] = Idle /\ \A r \in Proc \ {q} : op'[r] = op[r]
      /\ \A i \in Item : Uncounted(i)' = Uncounted(i)
  BY <1>1, HandlerSwap
<1>3. \A i \in Item : Available(i)' = Available(i)
  BY <1>1 DEF Available
<1>4. "adjust" \in Runs[q] /\ op[q].i \in Item /\ kind[op[q].i] # None /\ op[q].n \in Int
  BY <1>1 DEF StockInv, HandlerOK, TypeInv, TypeOK, Op
<1>5. PICK i \in Item, n \in Int : i = op[q].i /\ n = op[q].n
  BY <1>4
<1>6. ASSUME NEW j \in Item, stock'[j] = stock[j], units'[j] = units[j], unsure'[j] = unsure[j] PROVE Even(j)
  BY <1>2, <1>3, <1>6 DEF Even, Gap
<1>7. ASSUME NEW j \in Item
      PROVE  ~unsure'[j] => Gap(j)' = 0 /\ (kind'[j] \in {"ASSET", None} => units'[j] = 0)
  <2>1. CASE ~(stock[i] + n \in 0..MaxStock)
    <3>1. stock' = stock /\ units' = units /\ unsure' = unsure
      BY <1>5, <2>1 DEF AdjustWrite
    <3> QED BY <1>1, <1>6, <3>1, ItemsKept
  <2>2. CASE stock[i] + n \in 0..MaxStock
    <3>1. Count(i, n) /\ unsure' = [unsure EXCEPT ![i] = @ \/ kind[i] = "ASSET"]
      BY <1>5, <2>2 DEF AdjustWrite
    <3>2. CASE j # i
      <4>1. stock'[j] = stock[j] /\ units'[j] = units[j] /\ unsure'[j] = unsure[j]
        BY <3>1, <3>2 DEF Count, TypeInv, TypeOK
      <4> QED BY <1>1, <1>6, <4>1, ItemsKept
    <3>3. CASE j = i
      <4> SUFFICES ASSUME ~unsure'[j] PROVE Gap(j)' = 0 /\ kind'[j] \notin {"ASSET", None}
        OBVIOUS
      <4>1. ~unsure[j] /\ kind[j] # "ASSET"
        BY <3>1, <3>3 DEF TypeInv, TypeOK
      <4>2. stock'[j] = stock[j] + n /\ units'[j] = units[j] + n
        BY <3>1, <3>3, <4>1 DEF Count, TypeInv, TypeOK
      <4>3. Gap(j)' = Gap(j)
        BY <1>2, <1>3, <4>2, StockSizes, StockSizesAfter DEF Gap
      <4> QED BY <1>1, <1>4, <1>5, <3>3, <4>1, <4>3 DEF StockInv
    <3> QED BY <3>2, <3>3
  <2> QED BY <2>1, <2>2
<1>8. HandlerOK(q)'
  BY <1>1, <1>2 DEF HandlerOK
<1>9. ASSUME NEW r \in Proc, op[r].step = "retype" PROVE r = q
  <2>1. "retype" \in Runs[r]
    BY <1>9 DEF StockInv, HandlerOK
  <2> QED BY <1>4, <2>1 DEF RetypeAlone
<1> QED BY <1>1, <1>2, <1>7, <1>8, <1>9, StockStep

LEMMA AdjustBeginStock ==
  ASSUME TypeInv, TypeInv', StockInv, NEW q \in Proc, NEW i \in Item, NEW d \in {-1, 1}, AdjustBegin(q, i, d)
  PROVE  StockInv'
<1> DEFINE o == [Idle EXCEPT !.step = "adjust", !.i = i, !.n = d]
<1>1. op' = [op EXCEPT ![q] = o] /\ op[q].step = "idle" /\ "adjust" \in Runs[q] /\ kind[i] = "CONSUMABLE"
      /\ UNCHANGED <<asset, catalog, stock, unsure>>
  BY DEF AdjustBegin, Begin, At
<1>2. o.step = "adjust" /\ o.i = i
  BY DEF Idle
<1> HIDE DEF o
<1>3. kind'[i] # None
  BY <1>1, LedgerConstantsOK DEF catalog
<1>4. op'[q] = o => HandlerOK(q)'
  BY <1>1, <1>2, <1>3 DEF HandlerOK
<1> QED BY <1>1, <1>2, <1>4, HandlerStock

\* An item with no stock and no piece in store holds no units, or more than none.
LEMMA RetypeBeginStock ==
  ASSUME TypeInv, TypeInv', StockInv, NEW q \in Proc, NEW i \in Item, NEW k \in CatalogItemType, RetypeBegin(q, i, k)
  PROVE  StockInv'
<1> DEFINE o == [Idle EXCEPT !.step = "retype", !.i = i, !.had = stock[i], !.to = k]
<1>1. op' = [op EXCEPT ![q] = o] /\ op[q].step = "idle" /\ "retype" \in Runs[q]
      /\ UNCHANGED <<asset, catalog, stock, unsure>> /\ ~HasAssets(i) /\ stock[i] = 0
  BY DEF RetypeBegin, Retypable, Begin, At
<1>2. o.step = "retype" /\ o.i = i /\ o.had = stock[i] /\ o.to = k
  BY DEF Idle
<1> HIDE DEF o
<1>3. Available(i) = {}
  BY <1>1 DEF HasAssets, Exists, Available, AssetStatus
<1>4. ~unsure[i] => units[i] >= 0
  <2>1. Cardinality(Available(i)) = 0
    BY <1>3, FS_EmptySet
  <2>2. ~unsure[i] => Gap(i) = 0
    BY DEF StockInv
  <2>3. stock[i] = 0 /\ Cardinality(Uncounted(i)) \in Nat /\ units[i] \in Int
    BY <1>1, StockSizes
  <2> QED BY <2>1, <2>2, <2>3 DEF Gap
<1>5. unsure'[i] = unsure[i] /\ units'[i] = units[i]
  BY <1>1 DEF catalog
<1>6. op'[q] = o => HandlerOK(q)'
  BY <1>1, <1>2, <1>4, <1>5 DEF HandlerOK
<1> QED BY <1>1, <1>2, <1>6, HandlerStock

\* Nobody else creates pieces, so nobody has a piece still to count.
LEMMA RetypeWriteStock ==
  ASSUME TypeInv, TypeInv', StockInv, RetypeAlone, NEW q \in Proc, RetypeWrite(q) PROVE StockInv'
<1>1. op' = [op EXCEPT ![q] = Idle] /\ op[q].step = "retype" /\ Idle.step = "idle"
      /\ asset' = asset /\ stock' = stock /\ units' = units
  BY IdleOp DEF RetypeWrite, Done, At
<1>2. /\ op'[q] = Idle /\ \A r \in Proc \ {q} : op'[r] = op[r]
      /\ \A i \in Item : Uncounted(i)' = Uncounted(i)
  BY <1>1, HandlerSwap
<1>3. \A i \in Item : Available(i)' = Available(i)
  BY <1>1 DEF Available
<1>4. /\ "retype" \in Runs[q] /\ op[q].i \in Item /\ op[q].had = 0 /\ op[q].to \in CatalogItemType
      /\ ~unsure[op[q].i] => units[op[q].i] >= 0
  BY <1>1 DEF StockInv, HandlerOK
<1>5. PICK i \in Item, k \in CatalogItemType : i = op[q].i /\ k = op[q].to
  BY <1>4
<1>6. kind' = [kind EXCEPT ![i] = k] /\ unsure' = [unsure EXCEPT ![i] = @ \/ stock[i] # 0]
  BY <1>4, <1>5 DEF RetypeWrite
<1>7. kind'[i] = k /\ k # None /\ (~unsure'[i] => ~unsure[i] /\ stock[i] = 0)
      /\ \A j \in Item \ {i} : kind'[j] = kind[j] /\ unsure'[j] = unsure[j]
  BY <1>6, LedgerConstantsOK DEF TypeInv, TypeOK, CatalogItemType
<1>8. ASSUME NEW j \in Item PROVE Even(j) /\ units'[j] = units[j]
  <2>1. ~unsure'[j] => ~unsure[j]
    BY <1>7
  <2> QED BY <1>1, <1>2, <1>3, <2>1 DEF Even, Gap
<1>9. Uncounted(i) = {}
  <2>1. ASSUME NEW r \in Uncounted(i) PROVE FALSE
    <3>1. r \in Proc /\ op[r].step = "count" /\ "create" \in Runs[r]
      BY <2>1 DEF Uncounted, At, StockInv, HandlerOK
    <3> QED BY <1>1, <1>4, <3>1 DEF RetypeAlone
  <2> QED BY <2>1
<1>10. ASSUME ~unsure'[i] PROVE units[i] = 0
  <2>1. Gap(i) = 0 /\ stock[i] = 0 /\ units[i] >= 0
    BY <1>4, <1>5, <1>7, <1>10 DEF StockInv
  <2>2. Cardinality(Uncounted(i)) = 0
    BY <1>9, FS_EmptySet
  <2>3. Cardinality(Available(i)) \in Nat /\ units[i] \in Int
    BY StockSizes
  <2> QED BY <2>1, <2>2, <2>3 DEF Gap
<1>11. ASSUME NEW j \in Item
       PROVE  ~unsure'[j] => Gap(j)' = 0 /\ (kind'[j] \in {"ASSET", None} => units'[j] = 0)
  <2>1. CASE j # i
    BY <1>7, <1>8, <2>1, ItemsKept
  <2>2. CASE j = i
    BY <1>1, <1>8, <1>10, <2>2 DEF Even, StockInv
  <2> QED BY <2>1, <2>2
<1>12. HandlerOK(q)'
  BY <1>1, <1>2 DEF HandlerOK
<1>13. \A r \in Proc : op[r].step = "retype" => op[r].i \in Item
  BY DEF StockInv, HandlerOK
<1>14. \A j \in Item : Grows(j)
  BY <1>8, StockSizes DEF Grows, Even
<1> QED BY <1>2, <1>7, <1>11, <1>12, <1>13, <1>14, StockStep

\* What is received raises the stock by as much as it adds pieces or units.
LEMMA ReceivedStock ==
  ASSUME TypeInv, TypeInv', StockInv, NEW i \in Item, NEW n \in Nat, NEW k \in CatalogItemType,
         kind[i] \in {None, k}, kind' = [kind EXCEPT ![i] = k], op' = op, unsure' = unsure,
         \/ k = "ASSET" /\ n >= 1 /\ Register(i, n)
         \/ k = "ASSET" /\ UNCHANGED <<asset, stock, units>>
         \/ k # "ASSET" /\ CountIn(i, n)
  PROVE  StockInv'
<1>1. kind'[i] = k /\ k # None /\ \A j \in Item \ {i} : kind'[j] = kind[j]
  BY LedgerConstantsOK DEF TypeInv, TypeOK, CatalogItemType
<1>2. \A j \in Item : Uncounted(j)' = Uncounted(j)
  BY HandlersSame
<1> DEFINE Fine(j) == Grows(j) /\ (~unsure'[j] => Gap(j)' = 0 /\ (kind'[j] \in {"ASSET", None} => units'[j] = 0))
<1>3. ASSUME NEW j \in Item, k = "ASSET", units'[j] = units[j], Gap(j)' = Gap(j) PROVE Fine(j)
  <2>1. ~unsure[j] => Gap(j) = 0 /\ (kind[j] \in {"ASSET", None} => units[j] = 0)
    BY DEF StockInv
  <2>2. kind'[j] \in {"ASSET", None} => kind[j] \in {"ASSET", None}
    BY <1>1, <1>3
  <2> QED BY <1>3, <2>1, <2>2, StockSizes DEF Grows
<1>4. ASSUME k = "ASSET", UNCHANGED <<asset, stock, units>>, NEW j \in Item PROVE Fine(j)
  <2>1. Available(j)' = Available(j)
    BY <1>4 DEF Available
  <2>2. Gap(j)' = Gap(j)
    BY <1>2, <1>4, <2>1 DEF Gap
  <2> QED BY <1>3, <1>4, <2>2
<1>5. ASSUME k # "ASSET", CountIn(i, n), NEW j \in Item PROVE Fine(j)
  <2>1. Available(j)' = Available(j)
    BY <1>5 DEF CountIn, Available
  <2>2. CASE j # i
    <3>1. stock'[j] = stock[j] /\ units'[j] = units[j]
      BY <1>5, <2>2 DEF CountIn, Count, TypeInv, TypeOK
    <3>2. Gap(j)' = Gap(j) /\ kind'[j] = kind[j]
      BY <1>1, <1>2, <2>1, <2>2, <3>1 DEF Gap
    <3> QED BY <3>1, <3>2, StockSizes DEF Grows, StockInv
  <2>3. CASE j = i
    <3>1. stock'[j] = stock[j] + n /\ (~unsure[j] => units'[j] = units[j] + n)
      BY <1>5, <2>3 DEF CountIn, Count, TypeInv, TypeOK
    <3>2. ~unsure[j] => Gap(j)' = Gap(j)
      BY <1>2, <2>1, <3>1, StockSizes, StockSizesAfter DEF Gap
    <3>3. kind'[j] \notin {"ASSET", None}
      BY <1>1, <1>5, <2>3
    <3>4. ~unsure[j] => Gap(j) = 0
      BY DEF StockInv
    <3> QED BY <3>1, <3>2, <3>3, <3>4, StockSizes DEF Grows
  <2> QED BY <2>2, <2>3
<1>6. ASSUME k = "ASSET", n >= 1, Register(i, n), NEW j \in Item PROVE Fine(j)
  <2> DEFINE fresh == (seq + 1) .. (seq + n)
  <2>1. seq \in Nat /\ fresh \subseteq Piece /\ asset' = Registered(fresh, i) /\ units' = units
        /\ stock' = [stock EXCEPT ![i] = @ + n * Delta("NONE", "AVAILABLE")]
    <3>1. NextNumber = seq + 1 /\ seq \in Nat
      BY NextIsAfterSeq
    <3>2. NextNumber + n - 1 = seq + n
      BY <3>1
    <3> QED BY <1>6, <3>1, <3>2 DEF Register
  <2>2. \A p \in fresh : asset[p].status = "NONE"
    BY <2>1, PieceNumbers DEF TypeInv, NumbersGiven
  <2>3. IsFiniteSet(fresh) /\ Cardinality(fresh) = n
    <3>1. seq + n - (seq + 1) + 1 = n
      BY <2>1
    <3> QED BY <1>6, <2>1, <3>1, FS_Interval
  <2>4. \A p \in Piece : asset'[p] = IF p \in fresh THEN NewPiece(i) ELSE asset[p]
    BY <2>1 DEF Registered
  <2> HIDE DEF fresh
  <2>5. NewPiece(i).status = "AVAILABLE" /\ NewPiece(i).item = i
    BY DEF NewPiece
  <2>6. CASE j # i
    <3>1. Available(j)' = Available(j)
      BY <2>2, <2>4, <2>5, <2>6 DEF Available
    <3>2. stock'[j] = stock[j]
      BY <2>1, <2>6 DEF TypeInv, TypeOK
    <3>3. Gap(j)' = Gap(j)
      BY <1>2, <2>1, <3>1, <3>2 DEF Gap
    <3> QED BY <1>3, <1>6, <2>1, <3>3
  <2>7. CASE j = i
    <3>1. Available(j)' = Available(j) \cup fresh /\ Available(j) \cap fresh = {}
      BY <2>1, <2>2, <2>4, <2>5, <2>7 DEF Available
    <3>2. Cardinality(Available(j)') = Cardinality(Available(j)) + n
      <4>1. Cardinality(Available(j) \cup fresh)
              = Cardinality(Available(j)) + Cardinality(fresh) - Cardinality(Available(j) \cap fresh)
        BY <2>3, StockSizes, FS_Union
      <4>2. Cardinality(Available(j) \cap fresh) = 0
        BY <3>1, FS_EmptySet
      <4> QED BY <2>3, <3>1, <4>1, <4>2, StockSizes
    <3>3. n * Delta("NONE", "AVAILABLE") = n
      <4>1. Delta("NONE", "AVAILABLE") = 1
        BY DEF Delta, Contribution
      <4>2. n * 1 = n
        OBVIOUS
      <4> QED BY <4>1, <4>2
    <3>4. stock'[j] = stock[j] + n
      BY <2>1, <2>7, <3>3 DEF TypeInv, TypeOK
    <3>5. Gap(j)' = Gap(j)
      BY <1>2, <2>1, <3>2, <3>4, StockSizes, StockSizesAfter DEF Gap
    <3> QED BY <1>3, <1>6, <2>1, <3>5
  <2> QED BY <2>6, <2>7
<1>7. \A j \in Item : Fine(j)
  BY <1>4, <1>5, <1>6
<1>8. \A j \in Item : kind[j] # None => kind'[j] # None
  BY <1>1
<1>9. \A r \in Proc : op'[r] = op[r] /\ (op[r].step = "retype" => op[r].i \in Item)
  BY DEF StockInv, HandlerOK
<1> QED BY <1>7, <1>8, <1>9, StockStep

LEMMA CreateItemStock ==
  ASSUME TypeInv, TypeInv', StockInv, NEW i \in Item, NEW k \in CatalogItemType, NEW n \in Nat, CreateItem(i, k, n)
  PROVE  StockInv'
<1>1. kind[i] = None /\ kind' = [kind EXCEPT ![i] = k] /\ op' = op /\ unsure' = unsure
  BY DEF CreateItem, NewItem
<1>2. (k = "ASSET" /\ UNCHANGED <<asset, stock, units>>) \/ (k # "ASSET" /\ CountIn(i, n))
  BY DEF CreateItem
<1> QED BY <1>1, <1>2, ReceivedStock

LEMMA ReceiptStock ==
  ASSUME TypeInv, TypeInv', StockInv, NEW i \in Item, NEW k \in CatalogItemType, NEW n \in 1..MaxPiece,
         Restock(i, n) \/ ReceiveNewItem(i, k, n)
  PROVE  StockInv'
<1>1. n \in Nat /\ n >= 1
  BY LedgerConstantsOK
<1>2. CASE ReceiveNewItem(i, k, n)
  <2>1. kind[i] = None /\ kind' = [kind EXCEPT ![i] = k] /\ op' = op /\ unsure' = unsure
    BY <1>2 DEF ReceiveNewItem, NewItem
  <2>2. (k = "ASSET" /\ n >= 1 /\ Register(i, n)) \/ (k # "ASSET" /\ CountIn(i, n))
    BY <1>1, <1>2 DEF ReceiveNewItem, Receive
  <2> QED BY <1>1, <2>1, <2>2, ReceivedStock
<1>3. CASE Restock(i, n)
  <2>1. PICK h \in CatalogItemType : h = kind[i]
    BY <1>3 DEF Restock, Found, TypeInv, TypeOK
  <2>2. kind' = [kind EXCEPT ![i] = h] /\ op' = op /\ unsure' = unsure
    BY <1>3, <2>1 DEF Restock, TypeInv, TypeOK
  <2>3. (h = "ASSET" /\ n >= 1 /\ Register(i, n)) \/ (h # "ASSET" /\ CountIn(i, n))
    BY <1>1, <1>3, <2>1 DEF Restock, Receive
  <2> QED BY <1>1, <2>1, <2>2, <2>3, ReceivedStock
<1> QED BY <1>2, <1>3

LEMMA StockingStock ==
  ASSUME TypeInv, TypeInv', StockInv, RetypeAlone, Stocking PROVE StockInv'
<1>1. ASSUME NEW i \in Item, NEW k \in CatalogItemType, NEW n \in 0..MaxStock,
             CreateItem(i, k, n) \/ ImportItem(i, k, n)
      PROVE  StockInv'
  <2>1. n \in Nat
    BY LedgerConstantsOK
  <2> QED BY <1>1, <2>1, CreateItemStock DEF ImportItem
<1>2. ASSUME NEW i \in Item, NEW n \in 1..MaxPiece, Restock(i, n) PROVE StockInv'
  <2>1. "ASSET" \in CatalogItemType
    BY DEF CatalogItemType
  <2> QED BY <1>2, <2>1, ReceiptStock
<1>3. ASSUME NEW i \in Item, NEW k \in CatalogItemType, NEW n \in 1..MaxPiece, ReceiveNewItem(i, k, n) PROVE StockInv'
  BY <1>3, ReceiptStock
<1> QED BY <1>1, <1>2, <1>3, AdjustBeginStock, RetypeBeginStock, AdjustStock, RetypeWriteStock DEF Stocking

LEMMA RegisteringStock ==
  ASSUME TypeInv, TypeInv', StockInv, Registering PROVE StockInv'
<1>1. ASSUME NEW q \in Proc, NEW i \in Item \cup {None}, CreateBegin(q, i) \/ ImportRow(q, i) PROVE StockInv'
  BY <1>1, CreateBeginStock DEF ImportRow
<1> QED BY <1>1, RelabelStock, RecalculateBeginStock, CreateInsertStock, CreateCountStock,
           RecalculateCountStock, RecalculateWriteStock DEF Registering

LEMMA NextStock ==
  ASSUME TypeInv, StockInv, RetypeAlone, [Next]_vars PROVE StockInv'
<1>1. TypeInv'
  BY NextMoves
<1>2. CASE UNCHANGED vars
  <2>1. UNCHANGED catalog /\ (\A q \in Proc : op'[q] = op[q]) /\ op' = op
    BY <1>2 DEF vars, catalog
  <2>2. \A i \in Item : Even(i)
    BY <1>2, <2>1, HandlersSame, EvenSame DEF vars, catalog
  <2> QED BY <1>1, <2>1, <2>2, PiecesStep
<1>3. CASE Repairing
  BY <1>1, <1>3, SetStatusStock, RecordStock DEF Repairing, SettableStatus
<1> QED BY <1>1, <1>2, <1>3, CustodyStock, RegisteringStock, StockingStock DEF Next

LEMMA InitStock == Init => StockInv
<1> SUFFICES ASSUME Init PROVE StockInv
  OBVIOUS
<1>1. ASSUME NEW i \in Item PROVE Gap(i) = 0 /\ units[i] = 0
  <2>1. Available(i) = {}
    BY DEF Init, NoPiece, NewPiece, Available
  <2>2. Uncounted(i) = {}
    BY IdleOp DEF Init, Uncounted, At
  <2>3. stock[i] = 0 /\ units[i] = 0
    BY DEF Init
  <2> QED BY <2>1, <2>2, <2>3, FS_EmptySet DEF Gap
<1>2. \A q \in Proc : HandlerOK(q)
  BY IdleOp DEF Init, HandlerOK
<1> QED BY <1>1, <1>2 DEF StockInv

\* The stock of an item is the number of its pieces in store and of the units
\* counted into it, creations under way apart, for as long as the item is not
\* unsure, for any number of items, pieces and handlers: no path that gives,
\* takes back, repairs, removes, receives, corrects or recounts (src/assets,
\* src/supply-catalog, src/goods-receipt) leaves a difference.  Types change
\* while nobody else creates pieces or corrects stock.
THEOREM StockSafe ==
  ASSUME RetypeAlone PROVE Spec => []StockMatchesPieces
<1>1. Init => TypeInv /\ StockInv
  BY InitType, InitStock
<1>2. TypeInv /\ StockInv /\ [Next]_vars => (TypeInv /\ StockInv)'
  BY NextMoves, NextStock
<1>3. TypeInv /\ StockInv => StockMatchesPieces
  <2> SUFFICES ASSUME TypeInv, StockInv, NEW i \in Item, ~unsure[i]
               PROVE  /\ stock[i] + Cardinality(Uncounted(i)) = Cardinality(Available(i)) + units[i]
                      /\ kind[i] = "ASSET" => units[i] = 0
    BY DEF StockMatchesPieces
  <2>1. Gap(i) = 0 /\ (kind[i] = "ASSET" => units[i] = 0)
    BY DEF StockInv
  <2> QED BY <2>1, StockSizes DEF Gap
<1> QED BY <1>1, <1>2, <1>3, PTL DEF Spec
=============================================================================
