--------------------------- MODULE Lifecycle_proofs ---------------------------
(***************************************************************************)
(* Procurement implements LineLifecycle as long as no request goes through *)
(* a department manager: two managers who decide at the same time can send *)
(* a request back for revision after the warehouse has settled its lines.  *)
(*                                                                         *)
(* The step that needs an invariant is the save of a review, which writes  *)
(* lines computed from a copy: a copy that passes the version check still  *)
(* differs from the row only by decisions on lines open to one.            *)
(*                                                                         *)
(* Below: what requests keep while their handlers come one at a time.      *)
(***************************************************************************)
EXTENDS Procurement_proofs

NoManagerStage == "manager" \notin Handlers /\ "resubmit" \notin Handlers

Open(l) == l \notin {"READY", "COLLECTED"}

\* A line may go from l to m in one review.
Decides(l, m) == m = l \/ (Open(l) /\ m \notin {"WAITING", "COLLECTED"})

Waiting(items) == \A k \in Line : items[k].line = "WAITING"

NewIsWaiting == \A r \in Request : sr[r].status = "NONE" => Waiting(sr[r].items)

Carries(o, rows) ==
  /\ o.step \notin {"manager", "resubmit"}
  /\ o.step = "create" => Waiting(o.doc.items) /\ o.doc.status # "NONE"
  /\ o.step = "approve" => o.to # "NONE"
  /\ o.step \in {"approve", "reject", "fulfill"} => rows[o.r].status # "NONE"
  /\ o.step = "reserve" => Open(o.doc.items[o.k].line)
  /\ o.step \in {"review", "reserve"} /\ ~o.stale =>
       /\ rows[o.r].status # "NONE"
       /\ \A k \in Line : Decides(rows[o.r].items[k].line, o.doc.items[k].line)

CopiesCurrent == \A q \in Proc : Carries(op[q], sr)

LifeInv == TypeInv /\ NewIsWaiting /\ CopiesCurrent

LEMMA DerivedNotNone == ASSUME NEW items PROVE Derive(items) # "NONE"
BY DEF Derive, DeriveSupplyStatus

LEMMA IdleCarries == ASSUME NEW rows PROVE Carries(Idle, rows)
BY DEF Carries, Idle

\* The rows differ in nothing the copies depend on.
SameLines == \A r \in Request : /\ sr'[r].status = "NONE" <=> sr[r].status = "NONE"
                                /\ \A k \in Line : sr'[r].items[k].line = sr[r].items[k].line

LEMMA CarriesKept ==
  ASSUME TypeInv, SameLines, NEW o \in Op, Fits(o), Carries(o, sr) PROVE Carries(o, sr')
BY DEF SameLines, Carries, Fits

LEMMA NewKept == ASSUME NewIsWaiting, SameLines PROVE NewIsWaiting'
BY DEF NewIsWaiting, SameLines, Waiting

\* A step of q that leaves the lines alone: only its own copy is to be looked at.
LEMMA LifeKept ==
  ASSUME LifeInv, SameLines, NEW q \in Proc, NEW o, Carries(o, sr'), op' = [op EXCEPT ![q] = o]
  PROVE  NewIsWaiting' /\ CopiesCurrent'
<1>1. ASSUME NEW x \in Proc, x # q PROVE Carries(op'[x], sr')
  <2>1. op'[x] = op[x] /\ op[x] \in Op /\ Fits(op[x])
    BY <1>1 DEF LifeInv, TypeInv, TypeOK, OpsOK
  <2>2. QED BY <2>1, CarriesKept DEF LifeInv, CopiesCurrent
<1>2. op'[q] = o
  BY DEF LifeInv, TypeInv, TypeOK
<1>3. QED BY <1>1, <1>2, NewKept DEF LifeInv, CopiesCurrent

LEMMA LifeDone ==
  ASSUME LifeInv, SameLines, NEW q \in Proc, Done(q) PROVE NewIsWaiting' /\ CopiesCurrent'
BY LifeKept, IdleCarries DEF Done

LEMMA LifeGoto ==
  ASSUME LifeInv, SameLines, NEW q \in Proc, NEW h \in {"release", "unlink", "prLinked", "prRevert"}, Goto(q, h)
  PROVE  NewIsWaiting' /\ CopiesCurrent'
<1> DEFINE o == [op[q] EXCEPT !.step = h]
<1>1. Carries(o, sr')
  BY DEF Carries, LifeInv, TypeInv, TypeOK, Op
<1>2. QED BY <1>1, LifeKept DEF Goto

\* A change of the lines of r that outdates every copy of r.
LEMMA LifeOutdated ==
  ASSUME LifeInv, NEW r \in Request, NEW d \in RequestDoc, d.status # "NONE", sr' = [sr EXCEPT ![r] = d],
         \A q \in Proc : op'[q] = Idle \/ op'[q] = Outdate(op, r)[q]
  PROVE  NewIsWaiting' /\ CopiesCurrent'
<1>1. NewIsWaiting'
  BY DEF LifeInv, NewIsWaiting, TypeInv, TypeOK
<1>2. ASSUME NEW q \in Proc PROVE Carries(op'[q], sr')
  <2>1. CASE op'[q] = Idle
    BY <2>1, IdleCarries
  <2>2. CASE op'[q] = Outdate(op, r)[q]
    <3>1. op[q] \in Op /\ Fits(op[q]) /\ Carries(op[q], sr)
      BY DEF LifeInv, TypeInv, OpsOK, CopiesCurrent
    <3>2. CASE op[q].r = r
      <4>1. op'[q] = [op[q] EXCEPT !.stale = TRUE]
        BY <2>2, <3>2 DEF Outdate
      <4>2. /\ op'[q].stale /\ op'[q].step = op[q].step /\ op'[q].doc = op[q].doc
            /\ op'[q].to = op[q].to /\ op'[q].k = op[q].k /\ op'[q].r = r
        BY <3>1, <3>2, <4>1 DEF Op
      <4>3. sr'[r] = d
        BY DEF LifeInv, TypeInv, TypeOK
      <4>4. QED BY <3>1, <3>2, <4>2, <4>3 DEF Carries
    <3>3. CASE op[q].r # r
      <4>1. op'[q] = op[q]
        BY <2>2, <3>3 DEF Outdate
      <4>2. sr'[op[q].r] = sr[op[q].r]
        BY <3>3 DEF LifeInv, TypeInv, TypeOK
      <4>3. QED BY <3>1, <4>1, <4>2 DEF Carries
    <3>4. QED BY <3>2, <3>3
  <2>3. QED BY <2>1, <2>2
<1>3. QED BY <1>1, <1>2 DEF CopiesCurrent

LEMMA LifeCreate ==
  ASSUME LifeInv, NEW q \in Proc, CreateStep(q)
  PROVE  NewIsWaiting' /\ CopiesCurrent' /\ \A r \in Request, k \in Line : sr'[r].items[k].line = sr[r].items[k].line
<1>1. ASSUME NEW r \in Request, CreateBegin(q, r) PROVE SameLines /\ NewIsWaiting' /\ CopiesCurrent'
  <2>1. PICK links \in [Line -> PR \cup {None}] :
          op' = [op EXCEPT ![q] = [Idle EXCEPT !.step = "create", !.r = r,
                         !.todo = {k \in Line : links[k] # None},
                         !.doc = [Blank EXCEPT !.status = InitialStatus(r), !.items = NewItems(links)]]]
    BY <1>1 DEF CreateBegin
  <2> DEFINE d == [Blank EXCEPT !.status = InitialStatus(r), !.items = NewItems(links)]
             o == [Idle EXCEPT !.step = "create", !.r = r, !.todo = {k \in Line : links[k] # None}, !.doc = d]
  <2>2. o.step = "create" /\ o.doc.items = NewItems(links) /\ o.doc.status = InitialStatus(r)
    BY DEF Idle, Blank
  <2>3. Waiting(NewItems(links)) /\ InitialStatus(r) # "NONE"
    BY DEF Waiting, NewItems, InitialStatus
  <2>4. Carries(o, sr')
    <3> HIDE DEF o
    <3>1. QED BY <2>2, <2>3 DEF Carries
  <2>5. SameLines
    BY <1>1 DEF CreateBegin, SameLines
  <2>6. QED BY <2>1, <2>4, <2>5, LifeKept
<1>2. ASSUME NEW k \in Line, CreateClaim(q, k) PROVE SameLines /\ NewIsWaiting' /\ CopiesCurrent'
  <2> DEFINE o == [op[q] EXCEPT !.todo = @ \ {k}]
  <2>1. o.step = op[q].step /\ o.doc = op[q].doc
    BY DEF LifeInv, TypeInv, TypeOK, Op
  <2>2. op[q].step = "create" /\ op' = [op EXCEPT ![q] = o]
    BY <1>2 DEF CreateClaim, At
  <2>3. Carries(o, sr')
    BY <2>1, <2>2 DEF Carries, LifeInv, CopiesCurrent
  <2>4. SameLines
    BY <1>2 DEF CreateClaim, SameLines
  <2>5. QED BY <2>2, <2>3, <2>4, LifeKept
<1>3. ASSUME CreateSave(q)
      PROVE  NewIsWaiting' /\ CopiesCurrent' /\ \A r \in Request, k \in Line : sr'[r].items[k].line = sr[r].items[k].line
  <2> DEFINE r == op[q].r
             d == op[q].doc
  <2>1. r \in Request /\ Waiting(d.items) /\ d.status # "NONE" /\ sr[r].status = "NONE"
    BY <1>3 DEF CreateSave, At, LifeInv, TypeInv, OpsOK, Fits, CopiesCurrent, Carries
  <2>2. sr' = [sr EXCEPT ![r] = d] /\ op' = [op EXCEPT ![q] = Idle]
    BY <1>3 DEF CreateSave, Done
  <2>3. Waiting(sr[r].items)
    BY <2>1 DEF LifeInv, NewIsWaiting
  <2> HIDE DEF r, d
  <2>4. \A x \in Request, k \in Line : sr'[x].items[k].line = sr[x].items[k].line
    BY <2>1, <2>2, <2>3 DEF Waiting, LifeInv, TypeInv, TypeOK
  <2>5. \A x \in Request : sr[x].status # "NONE" => sr'[x].status # "NONE"
    BY <2>1, <2>2 DEF LifeInv, TypeInv, TypeOK
  <2>6. NewIsWaiting'
    BY <2>4, <2>1, <2>2 DEF NewIsWaiting, Waiting, LifeInv, TypeInv, TypeOK
  <2>7. ASSUME NEW x \in Proc PROVE Carries(op'[x], sr')
    <3>1. CASE x = q
      BY <2>2, <3>1, IdleCarries DEF LifeInv, TypeInv, TypeOK
    <3>2. CASE x # q
      <4>1. op'[x] = op[x] /\ Fits(op[x]) /\ Carries(op[x], sr)
        BY <2>2, <3>2 DEF LifeInv, TypeInv, TypeOK, OpsOK, CopiesCurrent
      <4>2. QED BY <2>4, <2>5, <4>1 DEF Carries, Fits
    <3>3. QED BY <3>1, <3>2
  <2>8. QED BY <2>4, <2>6, <2>7 DEF CopiesCurrent
<1>4. ASSUME CreateFail(q) PROVE SameLines /\ NewIsWaiting' /\ CopiesCurrent'
  <2>1. SameLines
    BY <1>4 DEF CreateFail, SameLines
  <2>2. QED BY <1>4, <2>1, LifeDone DEF CreateFail
<1>5. QED BY <1>1, <1>2, <1>3, <1>4 DEF CreateStep, SameLines

\* One settled line: what the copy may carry for it depends on the copy's own.
LEMMA LifeSettled ==
  ASSUME LifeInv, SameLines, NEW q \in Proc, NEW k \in Line, NEW item, Settled(q, k, item), Reviewing(q, k),
         Decides(op[q].doc.items[k].line, item.line)
  PROVE  NewIsWaiting' /\ CopiesCurrent'
<1> DEFINE o == [op[q] EXCEPT !.doc.items[k] = item, !.todo = @ \ {k}]
<1>1. op[q].doc.items \in [Line -> Item] /\ op[q].doc \in RequestDoc /\ op[q] \in Op
  BY DEF LifeInv, TypeInv, TypeOK, Op, RequestDoc
<1>2. o.doc.items = [op[q].doc.items EXCEPT ![k] = item]
  BY <1>1 DEF Op, RequestDoc
<1>3. o.step = "review" /\ o.r = op[q].r /\ o.stale = op[q].stale /\ op[q].step = "review"
  BY <1>1 DEF Op, Reviewing, At
<1>4. op' = [op EXCEPT ![q] = o]
  BY DEF Settled
<1> HIDE DEF o
<1>5. Carries(op[q], sr) /\ op[q].r \in Request
  BY <1>3 DEF LifeInv, TypeInv, OpsOK, Fits, CopiesCurrent
<1>6. ASSUME ~o.stale PROVE sr'[o.r].status # "NONE"
  BY <1>3, <1>5, <1>6 DEF Carries, SameLines
<1>7. ASSUME ~o.stale, NEW j \in Line PROVE Decides(sr'[o.r].items[j].line, o.doc.items[j].line)
  <2>1. Decides(sr'[o.r].items[j].line, op[q].doc.items[j].line)
    BY <1>3, <1>5, <1>7 DEF Carries, SameLines
  <2>2. CASE j # k
    BY <1>1, <1>2, <2>1, <2>2
  <2>3. CASE j = k
    BY <1>1, <1>2, <2>1, <2>3 DEF Decides, Open
  <2>4. QED BY <2>2, <2>3
<1>8. Carries(o, sr')
  BY <1>3, <1>6, <1>7 DEF Carries
<1>9. QED BY <1>4, <1>8, LifeKept

LEMMA LifeReview ==
  ASSUME LifeInv, NEW q \in Proc, ReviewStep(q), ~ReviewSave(q) PROVE SameLines /\ NewIsWaiting' /\ CopiesCurrent'
<1>0. SameLines
  BY DEF SameLines, ReviewStep, ReviewBegin, ReviewLink, ReviewConsumable, ReviewPick, ReviewOrder, ReviewReject,
         ReviewOrderLinked, ReviewReserve, ReviewFail
<1> SUFFICES NewIsWaiting' /\ CopiesCurrent'
  BY <1>0
<1> USE <1>0
<1>1. ASSUME NEW r \in Request, NEW u \in User, ReviewBegin(q, r, u) PROVE NewIsWaiting' /\ CopiesCurrent'
  <2>1. PICK lines \in SUBSET Line :
          op' = [op EXCEPT ![q] = [Idle EXCEPT !.step = "review", !.r = r, !.u = u,
                                               !.doc = sr[r], !.todo = lines]]
    BY <1>1 DEF ReviewBegin
  <2> DEFINE o == [Idle EXCEPT !.step = "review", !.r = r, !.u = u, !.doc = sr[r], !.todo = lines]
  <2>2. o.step = "review" /\ o.r = r /\ o.doc = sr[r]
    BY DEF Idle
  <2>3. sr' = sr /\ sr[r].status # "NONE"
    BY <1>1 DEF ReviewBegin, HandoverStatus, OpenStatus
  <2> HIDE DEF o
  <2>4. Carries(o, sr')
    BY <2>2, <2>3 DEF Carries, Decides
  <2>5. op' = [op EXCEPT ![q] = o]
    BY <2>1 DEF o
  <2>6. QED BY <2>4, <2>5, LifeKept
<1>2. ASSUME NEW k \in Line, ReviewLink(q, k) PROVE NewIsWaiting' /\ CopiesCurrent'
  <2>1. PICK c \in Choices(q, k) \ {None} : Settled(q, k, [op[q].doc.items[k] EXCEPT !.cat = c])
    BY <1>2 DEF ReviewLink
  <2>2. [op[q].doc.items[k] EXCEPT !.cat = c].line = op[q].doc.items[k].line
    BY DocItemType DEF LifeInv, Item
  <2>3. QED BY <1>2, <2>1, <2>2, LifeSettled DEF ReviewLink, Decides
<1>3. ASSUME NEW k \in Line, ReviewConsumable(q, k) PROVE NewIsWaiting' /\ CopiesCurrent'
  <2>1. PICK c \in Consumable : Settled(q, k, [op[q].doc.items[k] EXCEPT !.cat = c, !.line = "READY"])
    BY <1>3 DEF ReviewConsumable
  <2>2. [op[q].doc.items[k] EXCEPT !.cat = c, !.line = "READY"].line = "READY"
    BY DocItemType DEF LifeInv, Item
  <2>3. QED BY <1>3, <2>1, <2>2, LifeSettled DEF ReviewConsumable, Undecided, Decides, Open
<1>4. ASSUME NEW k \in Line, ReviewPick(q, k) PROVE NewIsWaiting' /\ CopiesCurrent'
  <2>1. PICK c \in AssetCat, S \in SUBSET Asset :
          op' = [op EXCEPT ![q] = [op[q] EXCEPT !.step = "reserve", !.k = k, !.pick = S,
                                                !.doc = Linked(@, k, c)]]
    BY <1>4 DEF ReviewPick, FreeAssets
  <2> DEFINE d == Linked(op[q].doc, k, c)
             o == [op[q] EXCEPT !.step = "reserve", !.k = k, !.pick = S, !.doc = d]
  <2>2. op[q].doc \in RequestDoc /\ op[q].doc.items \in [Line -> Item] /\ op[q] \in Op
    BY DEF LifeInv, TypeInv, TypeOK, Op, RequestDoc
  <2>3. d.items = [op[q].doc.items EXCEPT ![k] = [op[q].doc.items[k] EXCEPT !.cat = c]]
    BY <2>2 DEF Linked, RequestDoc
  <2>4. \A x \in Line : d.items[x].line = op[q].doc.items[x].line
    BY <2>2, <2>3 DEF Item
  <2>5. o.step = "reserve" /\ o.r = op[q].r /\ o.k = k /\ o.doc = d /\ o.stale = op[q].stale
    BY <2>2 DEF Op
  <2>6. op' = [op EXCEPT ![q] = o]
    BY <2>1
  <2>7. op[q].step = "review" /\ Open(op[q].doc.items[k].line) /\ op[q].r \in Request /\ Carries(op[q], sr)
    BY <1>4 DEF ReviewPick, Reviewing, At, Undecided, Open, LifeInv, TypeInv, OpsOK, Fits, CopiesCurrent
  <2> HIDE DEF d, o
  <2>8. Carries(o, sr')
    BY <2>4, <2>5, <2>7 DEF Carries, SameLines
  <2>9. QED BY <2>6, <2>8, LifeKept
<1>5. ASSUME NEW k \in Line, ReviewOrder(q, k) PROVE NewIsWaiting' /\ CopiesCurrent'
  <2>1. PICK c \in Choices(q, k) : Settled(q, k, [op[q].doc.items[k] EXCEPT !.cat = c, !.line = "ON_ORDER"])
    BY <1>5 DEF ReviewOrder
  <2>2. [op[q].doc.items[k] EXCEPT !.cat = c, !.line = "ON_ORDER"].line = "ON_ORDER"
    BY DocItemType DEF LifeInv, Item
  <2>3. QED BY <1>5, <2>1, <2>2, LifeSettled DEF ReviewOrder, Undecided, Decides, Open
<1>6. ASSUME NEW k \in Line, ReviewReject(q, k) PROVE NewIsWaiting' /\ CopiesCurrent'
  <2>1. PICK c \in Choices(q, k) :
          Settled(q, k, [op[q].doc.items[k] EXCEPT !.cat = c, !.line = "REJECTED", !.pr = None])
    BY <1>6 DEF ReviewReject
  <2>2. [op[q].doc.items[k] EXCEPT !.cat = c, !.line = "REJECTED", !.pr = None].line = "REJECTED"
    BY DocItemType DEF LifeInv, Item
  <2>3. QED BY <1>6, <2>1, <2>2, LifeSettled DEF ReviewReject, Undecided, Decides, Open
<1>7. ASSUME NEW k \in Line, NEW p \in PR, ReviewOrderLinked(q, k, p) PROVE NewIsWaiting' /\ CopiesCurrent'
  <2>1. OrderedThrough(op[q].doc.items[k], p).line = "ON_ORDER"
    BY DEF OrderedThrough
  <2>2. QED BY <1>7, <2>1, LifeSettled DEF ReviewOrderLinked, Undecided, Decides, Open
<1>8. CASE ReviewReserve(q)
  <2> DEFINE d == Marked(op[q].doc, op[q].k, "READY")
             o == [op[q] EXCEPT !.step = "review", !.k = None, !.pick = {}, !.todo = @ \ {op[q].k}, !.doc = d]
  <2>1. op[q].doc \in RequestDoc /\ op[q].doc.items \in [Line -> Item] /\ op[q] \in Op
    BY DEF LifeInv, TypeInv, TypeOK, Op, RequestDoc
  <2>2. d.items = [op[q].doc.items EXCEPT ![op[q].k] = [op[q].doc.items[op[q].k] EXCEPT !.line = "READY"]]
    BY <2>1 DEF Marked, RequestDoc
  <2>3. \A x \in Line : d.items[x].line = IF x = op[q].k THEN "READY" ELSE op[q].doc.items[x].line
    BY <2>1, <2>2 DEF Item
  <2>4. o.step = "review" /\ o.r = op[q].r /\ o.doc = d /\ o.stale = op[q].stale
    BY <2>1 DEF Op
  <2>5. op' = [op EXCEPT ![q] = o] \/ Done(q)
    BY <1>8 DEF ReviewReserve
  <2>6. op[q].step = "reserve" /\ Open(op[q].doc.items[op[q].k].line) /\ op[q].r \in Request /\ Carries(op[q], sr)
    BY <1>8 DEF ReviewReserve, At, LifeInv, TypeInv, OpsOK, Fits, CopiesCurrent, Carries
  <2> HIDE DEF d, o
  <2>7. Carries(o, sr')
    BY SMTT(30), <2>3, <2>4, <2>6 DEF Carries, SameLines, Decides, Open
  <2>8. QED BY <2>5, <2>7, LifeKept, LifeDone
<1>9. CASE ReviewFail(q)
  BY <1>9, LifeDone DEF ReviewFail
<1>10. QED BY <1>1, <1>2, <1>3, <1>4, <1>5, <1>6, <1>7, <1>8, <1>9 DEF ReviewStep

LEMMA ApprovingCarries ==
  ASSUME NEW p, NEW r, NEW u, NEW rows, rows[r].status # "NONE" PROVE Carries(Approving(p, r, u), rows)
<1>1. /\ Approving(p, r, u).step = "approve" /\ Approving(p, r, u).to \in {"ORDERED", "APPROVED"}
      /\ Approving(p, r, u).r = r
  BY DEF Approving, Idle
<1>2. QED BY <1>1 DEF Carries

LEMMA LifeDecide ==
  ASSUME LifeInv, NEW q \in Proc, DecideStep(q) PROVE SameLines /\ NewIsWaiting' /\ CopiesCurrent'
<1>1. ASSUME NEW r \in Request, NEW u \in User, ApproveBegin(q, r, u) PROVE SameLines /\ NewIsWaiting' /\ CopiesCurrent'
  <2>1. sr' = sr /\ sr[r].status # "NONE"
    BY <1>1 DEF ApproveBegin, Approvable
  <2>2. Carries(Approving(None, r, u), sr')
    BY <2>1, ApprovingCarries
  <2>3. QED BY <1>1, <2>1, <2>2, LifeKept DEF ApproveBegin, SameLines
<1>2. ASSUME NEW r \in Request, NEW u \in User, RejectBegin(q, r, u) PROVE SameLines /\ NewIsWaiting' /\ CopiesCurrent'
  <2> DEFINE o == [Idle EXCEPT !.step = "reject", !.r = r, !.u = u]
  <2>1. o.step = "reject" /\ o.r = r
    BY DEF Idle
  <2>2. sr' = sr /\ sr[r].status # "NONE" /\ op' = [op EXCEPT ![q] = o]
    BY <1>2 DEF RejectBegin
  <2> HIDE DEF o
  <2>3. Carries(o, sr')
    BY <2>1, <2>2 DEF Carries
  <2>4. QED BY <2>2, <2>3, LifeKept DEF SameLines
<1>3. CASE ApproveSave(q)
  <2> DEFINE d == [sr[op[q].r] EXCEPT !.status = op[q].to, !.approver = op[q].u, !.items = Linking(@, op[q].todo)]
  <2>1. sr' = [sr EXCEPT ![op[q].r] = d] /\ op[q].to # "NONE" /\ sr[op[q].r].status # "NONE"
    BY <1>3 DEF ApproveSave, At, LifeInv, CopiesCurrent, Carries
  <2>2. ASSUME op[q].r \in Request
        PROVE  d.status = op[q].to /\ \A k \in Line : d.items[k].line = sr[op[q].r].items[k].line
    <3>1. sr[op[q].r] \in RequestDoc
      BY <2>2 DEF LifeInv, TypeInv, TypeOK
    <3>2. d.status = op[q].to /\ d.items = Linking(sr[op[q].r].items, op[q].todo)
      BY <3>1 DEF RequestDoc
    <3>3. \A k \in Line : sr[op[q].r].items[k] \in Item
      BY <3>1 DEF RequestDoc
    <3>4. QED BY <3>2, <3>3 DEF Linking, Item
  <2> HIDE DEF d
  <2>3. SameLines
    BY <2>1, <2>2 DEF SameLines, LifeInv, TypeInv, TypeOK
  <2>4. QED BY <1>3, <2>3, LifeDone DEF ApproveSave
<1>4. CASE ApproveConflict(q)
  BY <1>4, LifeDone, LifeGoto DEF ApproveConflict, SameLines
<1>5. CASE RejectSave(q)
  <2> DEFINE d == [sr[op[q].r] EXCEPT !.status = "REJECTED", !.approver = op[q].u]
  <2>1. sr' = [sr EXCEPT ![op[q].r] = d] /\ Goto(q, "release") /\ sr[op[q].r].status # "NONE"
    BY <1>5 DEF RejectSave, At, LifeInv, CopiesCurrent, Carries
  <2>2. op[q].r \in Request => d.items = sr[op[q].r].items /\ d.status = "REJECTED"
    BY DEF LifeInv, TypeInv, TypeOK, RequestDoc
  <2> HIDE DEF d
  <2>3. SameLines
    BY <2>1, <2>2 DEF SameLines, LifeInv, TypeInv, TypeOK
  <2>4. QED BY <2>1, <2>3, LifeGoto
<1>6. CASE RejectRelease(q)
  BY <1>6, LifeGoto DEF RejectRelease, SameLines
<1>7. CASE RejectUnlink(q)
  BY <1>7, LifeDone DEF RejectUnlink, SameLines
<1>8. QED BY <1>1, <1>2, <1>3, <1>4, <1>5, <1>6, <1>7 DEF DecideStep

LEMMA LifeFulfill ==
  ASSUME LifeInv, NEW q \in Proc, FulfillStep(q) PROVE SameLines /\ NewIsWaiting' /\ CopiesCurrent'
<1>1. ASSUME NEW r \in Request, FulfillBegin(q, r) PROVE SameLines /\ NewIsWaiting' /\ CopiesCurrent'
  <2> DEFINE o == [Idle EXCEPT !.step = "fulfill", !.r = r, !.doc = sr[r],
                               !.todo = {k \in Line : sr[r].items[k].cat # None}]
  <2>1. o.step = "fulfill" /\ o.r = r
    BY DEF Idle
  <2>2. sr' = sr /\ sr[r].status # "NONE" /\ op' = [op EXCEPT ![q] = o]
    BY <1>1 DEF FulfillBegin, OpenStatus
  <2> HIDE DEF o
  <2>3. Carries(o, sr')
    BY <2>1, <2>2 DEF Carries
  <2>4. QED BY <2>2, <2>3, LifeKept DEF SameLines
<1>2. ASSUME NEW k \in Line, FulfillDeduct(q, k) PROVE SameLines /\ NewIsWaiting' /\ CopiesCurrent'
  <2> DEFINE o == [op[q] EXCEPT !.todo = @ \ {k}]
  <2>1. o.step = op[q].step /\ o.r = op[q].r /\ op[q].step = "fulfill"
    BY <1>2 DEF FulfillDeduct, At, LifeInv, TypeInv, TypeOK, Op
  <2>2. sr' = sr /\ op' = [op EXCEPT ![q] = o]
    BY <1>2 DEF FulfillDeduct
  <2> HIDE DEF o
  <2>3. Carries(o, sr')
    BY <2>1, <2>2 DEF Carries, LifeInv, CopiesCurrent
  <2>4. QED BY <2>2, <2>3, LifeKept DEF SameLines
<1>3. ASSUME NEW k \in Line, FulfillFail(q, k) PROVE SameLines /\ NewIsWaiting' /\ CopiesCurrent'
  BY <1>3, LifeDone DEF FulfillFail, SameLines
<1>4. CASE FulfillSave(q)
  <2>1. sr' = [sr EXCEPT ![op[q].r].status = "CLOSED"] /\ Done(q) /\ sr[op[q].r].status # "NONE"
    BY <1>4 DEF FulfillSave, At, LifeInv, CopiesCurrent, Carries
  <2>2. SameLines
    BY <2>1 DEF SameLines, LifeInv, TypeInv, TypeOK, RequestDoc
  <2>3. QED BY <2>1, <2>2, LifeDone
<1>5. QED BY <1>1, <1>2, <1>3, <1>4 DEF FulfillStep

LEMMA LifePurchase ==
  ASSUME LifeInv, NEW q \in Proc, PurchaseStep(q) PROVE SameLines /\ NewIsWaiting' /\ CopiesCurrent'
<1>0. SameLines /\ sr' = sr
  BY DEF SameLines, PurchaseStep, PrApproveBegin, PrDecideBegin, PrApproveSave, PrApproveLinked, PrRevert, PrDecideSave
<1>1. ASSUME NEW p \in PR, NEW u \in User, PrApproveBegin(q, p, u) PROVE NewIsWaiting' /\ CopiesCurrent'
  <2> DEFINE o == [Idle EXCEPT !.step = "prSave", !.p = p, !.u = u, !.r = PendingLinked(p)]
  <2>1. o.step = "prSave"
    BY DEF Idle
  <2>2. op' = [op EXCEPT ![q] = o]
    BY <1>1 DEF PrApproveBegin
  <2> HIDE DEF o
  <2>3. Carries(o, sr')
    BY <2>1 DEF Carries
  <2>4. QED BY <1>0, <2>2, <2>3, LifeKept
<1>2. ASSUME NEW p \in PR, NEW u \in User, NEW to \in PrStatus, PrDecideBegin(q, p, u, to)
      PROVE  NewIsWaiting' /\ CopiesCurrent'
  <2> DEFINE o == [Idle EXCEPT !.step = "prDecide", !.p = p, !.u = u, !.to = to]
  <2>1. o.step = "prDecide"
    BY DEF Idle
  <2>2. op' = [op EXCEPT ![q] = o]
    BY <1>2 DEF PrDecideBegin
  <2> HIDE DEF o
  <2>3. Carries(o, sr')
    BY <2>1 DEF Carries
  <2>4. QED BY <1>0, <2>2, <2>3, LifeKept
<1>3. CASE PrApproveSave(q)
  BY <1>0, <1>3, LifeDone, LifeGoto DEF PrApproveSave
<1>4. CASE PrApproveLinked(q)
  <2>1. CASE Approvable(op[q].r, op[q].u)
    <3>1. Carries(Approving(op[q].p, op[q].r, op[q].u), sr')
      BY <1>0, <2>1, ApprovingCarries DEF Approvable
    <3>2. QED BY <1>0, <1>4, <2>1, <3>1, LifeKept DEF PrApproveLinked
  <2>2. CASE ~Approvable(op[q].r, op[q].u)
    BY <1>0, <1>4, <2>2, LifeGoto DEF PrApproveLinked
  <2>3. QED BY <2>1, <2>2
<1>5. CASE PrRevert(q)
  BY <1>0, <1>5, LifeDone DEF PrRevert
<1>6. CASE PrDecideSave(q)
  BY <1>0, <1>6, LifeDone DEF PrDecideSave
<1>7. QED BY <1>0, <1>1, <1>2, <1>3, <1>4, <1>5, <1>6 DEF PurchaseStep

-----------------------------------------------------------------------------
(* The steps that change lines, as steps of LineLifecycle.                 *)

LEMMA SameLinesStutter ==
  ASSUME \A r \in Request, k \in Line : sr'[r].items[k].line = sr[r].items[k].line PROVE Lines' = Lines
BY DEF Lines

\* New lines d for request r, each reached by one decision.
LEMMA DecideStepOf ==
  ASSUME TypeInv, NEW r \in Request, NEW d \in RequestDoc, sr' = [sr EXCEPT ![r] = d],
         \A k \in Line : Decides(sr[r].items[k].line, d.items[k].line)
  PROVE  Lifecycle!Decide(r)
<1> DEFINE K == {k \in Line : d.items[k].line # sr[r].items[k].line}
           f == [k \in Line |-> IF k \in K THEN d.items[k].line ELSE "READY"]
<1>1. \A k \in Line : d.items[k].line \in LineStatus /\ sr[r].items[k].line \in LineStatus
  BY DEF TypeInv, TypeOK, RequestDoc, Item
<1>2. f \in [Line -> LineStatus \ {"WAITING", "COLLECTED"}]
  BY <1>1 DEF Decides, LineStatus
<1>3. \A k \in K : Lines[r][k] \in {"WAITING", "ON_ORDER", "REJECTED"}
  BY <1>1 DEF Lines, Decides, Open, LineStatus
<1>4. Lines' = [Lines EXCEPT ![r] = [k \in Line |-> IF k \in K THEN f[k] ELSE Lines[r][k]]]
  BY DEF Lines, TypeInv, TypeOK
<1> HIDE DEF K, f
<1>5. K \in SUBSET Line
  BY DEF K
<1>6. f \in [Line -> Lifecycle!LineStatus \ {"WAITING", "COLLECTED"}]
  BY <1>2 DEF Lifecycle!LineStatus, LineStatus
<1>7. QED BY <1>3, <1>4, <1>5, <1>6 DEF Lifecycle!Decide

LEMMA LifeReviewSave ==
  ASSUME LifeInv, NEW q \in Proc, ReviewSave(q)
  PROVE  NewIsWaiting' /\ CopiesCurrent' /\ \E r \in Request : Lifecycle!Decide(r)
<1> DEFINE r == op[q].r
           d == ReviewedDoc(q)
<1>1. /\ r \in Request /\ sr[r].status # "NONE"
      /\ \A k \in Line : Decides(sr[r].items[k].line, op[q].doc.items[k].line)
  BY DEF ReviewSave, At, VersionHolds, LifeInv, TypeInv, OpsOK, Fits, CopiesCurrent, Carries
<1>2. sr[r] \in RequestDoc /\ op[q].doc \in RequestDoc /\ op[q].u \in User \cup {None}
  BY <1>1 DEF LifeInv, TypeInv, TypeOK, Op
<1>3. d \in RequestDoc /\ d.items = op[q].doc.items /\ d.status # "NONE"
  BY <1>1, <1>2, DeriveType, DerivedNotNone DEF ReviewedDoc, RequestDoc
<1>4. sr' = [sr EXCEPT ![r] = d] /\ op' = [Outdate(op, r) EXCEPT ![q] = Idle]
  BY DEF ReviewSave
<1> HIDE DEF r, d
<1>5. \A x \in Proc : op'[x] = Idle \/ op'[x] = Outdate(op, r)[x]
  BY <1>4 DEF Outdate
<1>6. QED BY <1>1, <1>3, <1>4, <1>5, LifeOutdated, DecideStepOf DEF LifeInv

LEMMA LifeReceive ==
  ASSUME LifeInv, NEW r \in Request, NEW u \in User, NEW K \in SUBSET Line, NEW S \in SUBSET Asset,
         Receive(r, u, K, S)
  PROVE  NewIsWaiting' /\ CopiesCurrent' /\ (Lifecycle!Collect(r) \/ Lines' = Lines)
<1> DEFINE d == CollectedDoc(r, K, S)
<1>1. sr[r] \in RequestDoc /\ \A k \in Line : sr[r].items[k] \in Item
  BY DEF LifeInv, TypeInv, TypeOK, RequestDoc
<1>2. sr' = [sr EXCEPT ![r] = d] /\ op' = IF Tracked(sr[r].items) \/ S # {} THEN Outdate(op, r) ELSE op
  BY DEF Receive
<1>3. d \in RequestDoc
  BY CollectedDocType DEF LifeInv
<1>4. d.status # "NONE"
  BY <1>1, DerivedNotNone DEF CollectedDoc, RequestDoc
<1>5. NewIsWaiting' /\ CopiesCurrent'
  <2>1. CASE op' = Outdate(op, r)
    <3> HIDE DEF d
    <3> QED BY <1>2, <1>3, <1>4, <2>1, LifeOutdated
  <2>2. CASE op' = op /\ ~Tracked(sr[r].items)
    <3>1. d.items = sr[r].items
      BY <1>1, <2>2 DEF CollectedDoc, RequestDoc
    <3> HIDE DEF d
    <3>2. \A x \in Request : sr'[x].items = sr[x].items /\ (sr[x].status # "NONE" => sr'[x].status # "NONE")
      BY <1>2, <1>4, <3>1 DEF LifeInv, TypeInv, TypeOK
    <3>3. NewIsWaiting'
      BY <1>2, <1>4, <3>2 DEF LifeInv, NewIsWaiting, Waiting, TypeInv, TypeOK
    <3>4. ASSUME NEW q \in Proc PROVE Carries(op[q], sr')
      BY <3>2 DEF LifeInv, CopiesCurrent, Carries, TypeInv, OpsOK, Fits
    <3> QED BY <2>2, <3>3, <3>4 DEF CopiesCurrent
  <2> QED BY <1>2, <2>1, <2>2
<1>6. CASE Tracked(sr[r].items)
  <2>1. \A k \in K : Lines[r][k] = "READY"
    BY <1>6 DEF Receive, Collectable, Lines
  <2>2. \A k \in Line : d.items[k].line = IF k \in K THEN "COLLECTED" ELSE sr[r].items[k].line
    BY <1>1, <1>6 DEF CollectedDoc, Collected, RequestDoc, Item
  <2> HIDE DEF d
  <2>3. Lines' = [Lines EXCEPT ![r] = [k \in Line |-> IF k \in K THEN "COLLECTED" ELSE Lines[r][k]]]
    BY <1>2, <2>2 DEF Lines, LifeInv, TypeInv, TypeOK
  <2>4. QED BY <1>5, <2>1, <2>3 DEF Lifecycle!Collect
<1>7. CASE ~Tracked(sr[r].items)
  <2>1. d.items = sr[r].items
    BY <1>1, <1>7 DEF CollectedDoc, RequestDoc
  <2> HIDE DEF d
  <2>2. \A x \in Request, k \in Line : sr'[x].items[k].line = sr[x].items[k].line
    BY <1>2, <2>1 DEF LifeInv, TypeInv, TypeOK
  <2>3. QED BY <1>5, <2>2, SameLinesStutter
<1>8. QED BY <1>6, <1>7

LEMMA LifeGoodsReceipt ==
  ASSUME LifeInv, NEW p \in PR, NEW u \in User, NEW n \in 1..PrQty[p], NEW S \in SUBSET Asset,
         NEW R \in SUBSET Asset, GoodsReceipt(p, u, n, S, R)
  PROVE  NewIsWaiting' /\ CopiesCurrent' /\ ((\E r \in Request : Lifecycle!Decide(r)) \/ Lines' = Lines)
<1> DEFINE m == Arriving(p, n)
           r == pr[p].link[1]
           k == pr[p].link[2]
<1>1. CASE m > 0
  <2>1. HandsOver(p)
    BY <1>1 DEF Arriving
  <2>2. r \in Request /\ k \in Line /\ sr[r].status # "NONE"
    BY <2>1 DEF HandsOver, HandoverStatus, OpenStatus, LifeInv, TypeInv, TypeOK, PurchaseDoc
  <2> DEFINE it == sr[r].items[k]
             d == AfterArrival(sr[r], k, m)
  <2>3. sr[r] \in RequestDoc /\ it \in Item /\ sr[r].items \in [Line -> Item]
    BY <2>2 DEF LifeInv, TypeInv, TypeOK, RequestDoc
  <2>4. m \in Nat
    <3>1. n \in Nat /\ PurchaseQty(k, p) \in Nat /\ it.arrived \in Nat
      BY <2>2, <2>3, ConstantsOK, PurchaseQtyNat DEF Item
    <3>2. QED BY <1>1, <2>1, <3>1 DEF Arriving, Lesser
  <2>5. d \in RequestDoc
    BY <2>2, <2>3, <2>4, AfterArrivalType DEF LifeInv
  <2>6. d.status # "NONE"
    BY <2>2, <2>3, DerivedNotNone DEF AfterArrival, RequestDoc
  <2>7. d.items = [sr[r].items EXCEPT ![k] = WithArrival(it, k, m)]
    BY <2>3 DEF AfterArrival, RequestDoc
  <2>8. Decides(it.line, WithArrival(it, k, m).line)
    BY <2>3 DEF WithArrival, Completes, Decides, Open, Item
  <2>9. \A x \in Line : Decides(sr[r].items[x].line, d.items[x].line)
    <3> HIDE DEF d
    <3>1. QED BY <2>3, <2>7, <2>8 DEF Decides
  <2>10. sr' = [sr EXCEPT ![r] = d] /\ op' = Outdate(op, r)
    BY <1>1 DEF GoodsReceipt
  <2> HIDE DEF m, r, k, it, d
  <2>11. QED BY <2>2, <2>5, <2>6, <2>9, <2>10, LifeOutdated, DecideStepOf DEF LifeInv
<1>2. CASE ~(m > 0)
  <2>1. UNCHANGED <<sr, op>>
    BY <1>2 DEF GoodsReceipt
  <2>2. QED BY <2>1, SameLinesStutter DEF LifeInv, NewIsWaiting, CopiesCurrent
<1>3. QED BY <1>1, <1>2

LEMMA LifeStep ==
  ASSUME NoManagerStage, LifeInv, [Next]_vars
  PROVE  NewIsWaiting' /\ CopiesCurrent' /\ ((\E r \in Request : Lifecycle!Decide(r) \/ Lifecycle!Collect(r)) \/ Lines' = Lines)
<1> USE SameLinesStutter
<1>1. ASSUME NEW q \in Proc, ManagerStep(q) PROVE FALSE
  BY <1>1 DEF ManagerStep, ManagerBegin, ManagerSave, ResubmitBegin, ResubmitSave, Begin, At, NoManagerStage,
              LifeInv, CopiesCurrent, Carries
<1>2. ASSUME NEW q \in Proc, SaveConflict(q) \/ Crash(q) PROVE SameLines /\ NewIsWaiting' /\ CopiesCurrent'
  BY <1>2, LifeDone DEF SaveConflict, Crash, SameLines
<1>3. ASSUME NEW a \in Asset, RegisterStep(a) PROVE UNCHANGED <<sr, op>>
  BY <1>3 DEF RegisterStep, AssignDirectly, ReturnAsset, SetStatus, RemoveAsset
<1>4. CASE UNCHANGED <<sr, op>>
  BY <1>4 DEF LifeInv, NewIsWaiting, CopiesCurrent
<1>5. ASSUME SameLines PROVE Lines' = Lines
  BY <1>5 DEF SameLines
<1>6. ASSUME NEW q \in Proc, CreateStep(q) \/ ReviewStep(q) \/ DecideStep(q) \/ FulfillStep(q) \/ PurchaseStep(q) \/ SaveConflict(q) \/ Crash(q)
      PROVE  NewIsWaiting' /\ CopiesCurrent' /\ ((\E r \in Request : Lifecycle!Decide(r)) \/ Lines' = Lines)
  BY <1>2, <1>5, <1>6, LifeCreate, LifeReview, LifeReviewSave, LifeDecide, LifeFulfill, LifePurchase
<1>7. QED BY <1>1, <1>3, <1>4, <1>6, LifeReceive, LifeGoodsReceipt DEF Next, Transaction, vars

\* Without a manager's stage, the lines of every request live the life that
\* LineLifecycle promises, whatever else races, fails or crashes.
THEOREM LifecycleImplemented == ASSUME NoManagerStage PROVE Spec => LinesFollowLifecycle
<1>1. Init => LifeInv /\ Lifecycle!Init
  <2> SUFFICES ASSUME Init PROVE LifeInv /\ Lifecycle!Init
    OBVIOUS
  <2>1. \A r \in Request : sr[r] = Blank
    BY DEF Init
  <2>2. Waiting(Blank.items)
    BY DEF Waiting, Blank
  <2>3. \A q \in Proc : Carries(op[q], sr)
    BY IdleCarries DEF Init
  <2>4. QED BY <2>1, <2>2, <2>3, TypeInit DEF LifeInv, NewIsWaiting, CopiesCurrent, Lifecycle!Init, Waiting, Lines
<1>2. LifeInv /\ [Next]_vars => LifeInv' /\ [Lifecycle!Next]_Lines
  BY LifeStep, TypeStep DEF LifeInv, Lifecycle!Next
<1>3. Lifecycle!Init /\ [][Lifecycle!Next]_Lines => LinesFollowLifecycle
  BY PTL DEF LinesFollowLifecycle, Lifecycle!Spec
<1>4. QED BY <1>1, <1>2, <1>3, PTL DEF Spec

(***************************************************************************)
(* One handler at a time.  The transactions, which run between the steps   *)
(* of the handler, leave a request alone unless it is open to goods; what  *)
(* the handler saw of the others still holds when it writes.               *)
(***************************************************************************)
OneHandler == \A p, q \in Proc : p = q

Early == {"NONE", "PENDING_MANAGER", "NEEDS_REVISION", "REQUESTED"}

\* The manager's stage: passed by what reached the warehouse, not yet by what waits for it.
PassedManager(d, r) == r \in ManagerStage =>
  /\ d.status \in HandoverStatus \cup {"CLOSED"} => d.manager \notin {None, Requester[r]}
  /\ d.status \in {"PENDING_MANAGER", "NEEDS_REVISION"} => d.manager = None

\* A request is not worked on before it is approved, and not approved by its requester.
RowFine(d, r) ==
  /\ PassedManager(d, r)
  /\ d.status \in Early => Waiting(d.items)
  /\ d.status \in OpenStatus \cup {"CLOSED"} => d.approver \notin {None, Requester[r]}

\* What a step may make of a request
Passes(d, e) ==
  /\ d.status \in {"CLOSED", "REJECTED"} => e.status = d.status
  /\ \A k \in Line : d.items[k].line = "COLLECTED" => e.items[k].line = "COLLECTED"

RowsPass == \A r \in Request : Passes(sr[r], sr'[r])

\* What a handler knows of the request it serves
Serves(o, rows) ==
  /\ o.step = "create" => /\ Waiting(o.doc.items) /\ o.doc.status = InitialStatus(o.r)
                          /\ o.doc.manager = None
  /\ o.step = "manager" => /\ o.r \in Request /\ o.u \in User \ {Requester[o.r]} /\ rows[o.r].status = "PENDING_MANAGER"
                           /\ o.to \in {"REQUESTED", "REJECTED", "NEEDS_REVISION"}
  /\ o.step = "resubmit" => o.r \in Request /\ rows[o.r].status = "NEEDS_REVISION"
  /\ o.step \in {"review", "reserve"} =>
       /\ o.u \in User \ {Requester[o.r]}
       /\ ~o.stale =>
            /\ o.doc.status = rows[o.r].status /\ o.doc.status \in HandoverStatus
            /\ o.doc.status = "REQUESTED" \/ Tracked(rows[o.r].items)
            /\ \A k \in Line : rows[o.r].items[k].line = "COLLECTED" => o.doc.items[k].line = "COLLECTED"
  /\ o.step = "reserve" => o.doc.items[o.k].line # "COLLECTED"
  /\ o.step = "approve" => /\ rows[o.r].status = "REQUESTED" /\ o.u \in User \ {Requester[o.r]}
                           /\ o.to \in {"ORDERED", "APPROVED"}
  /\ o.step = "reject" => rows[o.r].status = "REQUESTED"
  /\ o.step = "fulfill" => "fulfill" \in Handlers /\ rows[o.r].status \in OpenStatus \cup {"CLOSED"}
  /\ o.step \in {"prSave", "prLinked"} => o.u \in User

SerialInv == (\A r \in Request : RowFine(sr[r], r)) /\ \A q \in Proc : Serves(op[q], sr)

LEMMA IdleServes == ASSUME NEW rows PROVE Serves(Idle, rows)
BY DEF Serves, Idle

\* Past the manager's stage a request stays past it.
LEMMA StageKept ==
  ASSUME NEW r \in Request, NEW c, NEW d, RowFine(c, r), d.manager = c.manager,
         \/ d.status = c.status
         \/ c.status \in HandoverStatus \cup {"CLOSED"} /\ d.status \notin {"PENDING_MANAGER", "NEEDS_REVISION"}
  PROVE  PassedManager(d, r)
BY DEF RowFine, PassedManager, HandoverStatus, OpenStatus

LEMMA RowPasses == ASSUME NEW d PROVE Passes(d, d)
BY DEF Passes, OpenStatus

\* A step of the handler
LEMMA SerialPut ==
  ASSUME TypeInv, SerialInv, OneHandler, NEW q \in Proc, NEW o, op' = [op EXCEPT ![q] = o], Serves(o, sr'),
         \A r \in Request : sr'[r] = sr[r] \/ (Passes(sr[r], sr'[r]) /\ RowFine(sr'[r], r))
  PROVE  SerialInv' /\ RowsPass
<1>1. op'[q] = o /\ \A x \in Proc : x = q
  BY DEF OneHandler, TypeInv, TypeOK
<1>2. \A r \in Request : RowFine(sr'[r], r) /\ Passes(sr[r], sr'[r])
  BY RowPasses DEF SerialInv
<1>3. (\A r \in Request : RowFine(sr[r], r))'
  BY <1>2
<1> QED BY <1>1, <1>2, <1>3 DEF SerialInv, RowsPass

LEMMA SerialRead ==
  ASSUME TypeInv, SerialInv, OneHandler, NEW q \in Proc, NEW o, op' = [op EXCEPT ![q] = o], Serves(o, sr), sr' = sr
  PROVE  SerialInv' /\ RowsPass
BY SerialPut

LEMMA SerialDone ==
  ASSUME TypeInv, SerialInv, OneHandler, NEW q \in Proc, Done(q), sr' = sr
  PROVE  SerialInv' /\ RowsPass
BY IdleServes, SerialRead DEF Done

LEMMA GotoServes ==
  ASSUME TypeInv, NEW q \in Proc, NEW h \in {"release", "unlink", "prRevert"}, NEW rows
  PROVE  Serves([op[q] EXCEPT !.step = h], rows)
BY DEF TypeInv, TypeOK, Op, Serves

LEMMA SerialGoto ==
  ASSUME TypeInv, SerialInv, OneHandler, NEW q \in Proc, NEW h \in {"release", "unlink", "prRevert"},
         Goto(q, h), sr' = sr
  PROVE  SerialInv' /\ RowsPass
<1> DEFINE o == [op[q] EXCEPT !.step = h]
<1>1. op' = [op EXCEPT ![q] = o]
  BY DEF Goto
<1>2. Serves(o, sr)
  BY GotoServes
<1> HIDE DEF o
<1> QED BY <1>1, <1>2, SerialRead

\* The handler of q writes the request d, and ends or goes on with what follows a rejection.
LEMMA SerialSave ==
  ASSUME TypeInv, SerialInv, OneHandler, NEW q \in Proc, NEW r \in Request, NEW d, sr' = [sr EXCEPT ![r] = d],
         Done(q) \/ Goto(q, "release"), Passes(sr[r], d), RowFine(d, r)
  PROVE  SerialInv' /\ RowsPass
<1>1. \A x \in Request : sr'[x] = sr[x] \/ (Passes(sr[x], sr'[x]) /\ RowFine(sr'[x], x))
  BY DEF TypeInv, TypeOK
<1>2. CASE Done(q)
  BY <1>1, <1>2, IdleServes, SerialPut DEF Done
<1>3. CASE Goto(q, "release")
  <2> DEFINE o == [op[q] EXCEPT !.step = "release"]
  <2>1. op' = [op EXCEPT ![q] = o]
    BY <1>3 DEF Goto
  <2>2. Serves(o, sr')
    BY GotoServes
  <2> HIDE DEF o
  <2> QED BY <1>1, <2>1, <2>2, SerialPut
<1> QED BY <1>2, <1>3

LEMMA CreateSerial ==
  ASSUME TypeInv, SerialInv, OneHandler, NEW q \in Proc, CreateStep(q) PROVE SerialInv' /\ RowsPass
<1>1. ASSUME NEW r \in Request, CreateBegin(q, r) PROVE SerialInv' /\ RowsPass
  <2>1. PICK links \in [Line -> PR \cup {None}] :
          op' = [op EXCEPT ![q] = [Idle EXCEPT !.step = "create", !.r = r,
                         !.todo = {k \in Line : links[k] # None},
                         !.doc = [Blank EXCEPT !.status = InitialStatus(r), !.items = NewItems(links)]]]
    BY <1>1 DEF CreateBegin
  <2> DEFINE d == [Blank EXCEPT !.status = InitialStatus(r), !.items = NewItems(links)]
             o == [Idle EXCEPT !.step = "create", !.r = r, !.todo = {k \in Line : links[k] # None}, !.doc = d]
  <2>2. o.step = "create" /\ o.r = r /\ o.doc.items = NewItems(links) /\ o.doc.status = InitialStatus(r)
        /\ o.doc.manager = None
    BY DEF Idle, Blank
  <2>3. Waiting(NewItems(links))
    BY DEF Waiting, NewItems
  <2>4. op' = [op EXCEPT ![q] = o] /\ sr' = sr
    BY <1>1, <2>1 DEF CreateBegin
  <2> HIDE DEF o, d
  <2>5. Serves(o, sr)
    BY <2>2, <2>3 DEF Serves
  <2> QED BY <2>4, <2>5, SerialRead
<1>2. ASSUME NEW k \in Line, CreateClaim(q, k) PROVE SerialInv' /\ RowsPass
  <2> DEFINE o == [op[q] EXCEPT !.todo = @ \ {k}]
  <2>1. o.step = "create" /\ o.doc = op[q].doc /\ o.r = op[q].r
    BY <1>2 DEF CreateClaim, At, TypeInv, TypeOK, Op
  <2>2. op' = [op EXCEPT ![q] = o] /\ sr' = sr /\ op[q].step = "create"
    BY <1>2 DEF CreateClaim, At
  <2> HIDE DEF o
  <2>3. Serves(o, sr)
    BY <2>1, <2>2 DEF Serves, SerialInv
  <2> QED BY <2>2, <2>3, SerialRead
<1>3. CASE CreateSave(q)
  <2>1. PICK r \in Request : r = op[q].r
    BY <1>3 DEF CreateSave, At, TypeInv, OpsOK, Fits
  <2>2. PICK d \in RequestDoc : d = op[q].doc
    BY DEF TypeInv, TypeOK, Op
  <2>3. Waiting(d.items) /\ d.status = InitialStatus(r) /\ d.manager = None /\ sr[r].status = "NONE"
        /\ sr' = [sr EXCEPT ![r] = d] /\ Done(q)
    BY <1>3, <2>1, <2>2 DEF CreateSave, At, SerialInv, Serves
  <2>4. Waiting(sr[r].items)
    BY <2>3 DEF SerialInv, RowFine, Early
  <2>5. Passes(sr[r], d) /\ RowFine(d, r)
    BY <2>3, <2>4 DEF Passes, RowFine, PassedManager, InitialStatus, Waiting, Early, OpenStatus, HandoverStatus
  <2> QED BY <2>3, <2>5, SerialSave
<1>4. CASE CreateFail(q)
  BY <1>4, SerialDone DEF CreateFail
<1> QED BY <1>1, <1>2, <1>3, <1>4 DEF CreateStep

LEMMA ManagerSerial ==
  ASSUME TypeInv, SerialInv, OneHandler, NEW q \in Proc, ManagerStep(q) PROVE SerialInv' /\ RowsPass
<1>1. ASSUME NEW r \in Request, NEW u \in User, NEW to \in RequestStatus, ManagerBegin(q, r, u, to)
      PROVE  SerialInv' /\ RowsPass
  <2> DEFINE o == [Idle EXCEPT !.step = "manager", !.r = r, !.u = u, !.to = to]
  <2>1. o.step = "manager" /\ o.r = r /\ o.to = to /\ o.u = u
    BY DEF Idle
  <2>2. op' = [op EXCEPT ![q] = o] /\ sr' = sr /\ sr[r].status = "PENDING_MANAGER"
        /\ to \in {"REQUESTED", "REJECTED", "NEEDS_REVISION"} /\ u # Requester[r]
    BY <1>1 DEF ManagerBegin
  <2> HIDE DEF o
  <2>3. Serves(o, sr)
    BY <2>1, <2>2 DEF Serves
  <2> QED BY <2>2, <2>3, SerialRead
<1>2. CASE ManagerSave(q)
  <2>1. op[q].r \in Request /\ sr[op[q].r].status = "PENDING_MANAGER"
        /\ op[q].to \in {"REQUESTED", "REJECTED", "NEEDS_REVISION"} /\ op[q].u \in User \ {Requester[op[q].r]}
    BY <1>2 DEF ManagerSave, At, SerialInv, Serves
  <2>2. PICK r \in Request : r = op[q].r
    BY <2>1
  <2> DEFINE d == DecidedByManager(sr[r], op[q].u, op[q].to)
  <2>3. d.status = op[q].to /\ d.items = sr[r].items
        /\ d.manager = IF op[q].to = "REQUESTED" THEN op[q].u ELSE sr[r].manager
    BY DEF DecidedByManager, TypeInv, TypeOK, RequestDoc
  <2>4. sr' = [sr EXCEPT ![r] = d] /\ (Done(q) \/ Goto(q, "release"))
    BY <1>2, <2>2 DEF ManagerSave
  <2> HIDE DEF d
  <2>5. Passes(sr[r], d) /\ RowFine(d, r)
    BY <2>1, <2>2, <2>3, ConstantsOK
       DEF Passes, RowFine, PassedManager, SerialInv, Early, OpenStatus, HandoverStatus
  <2> QED BY <2>4, <2>5, SerialSave
<1>3. ASSUME NEW r \in Request, ResubmitBegin(q, r) PROVE SerialInv' /\ RowsPass
  <2> DEFINE o == [Idle EXCEPT !.step = "resubmit", !.r = r, !.doc = sr[r]]
  <2>1. o.step = "resubmit" /\ o.r = r
    BY DEF Idle
  <2>2. op' = [op EXCEPT ![q] = o] /\ sr' = sr /\ sr[r].status = "NEEDS_REVISION"
    BY <1>3 DEF ResubmitBegin
  <2> HIDE DEF o
  <2>3. Serves(o, sr)
    BY <2>1, <2>2 DEF Serves
  <2> QED BY <2>2, <2>3, SerialRead
<1>4. CASE ResubmitSave(q)
  <2>1. op[q].r \in Request /\ sr[op[q].r].status = "NEEDS_REVISION"
    BY <1>4 DEF ResubmitSave, At, SerialInv, Serves
  <2>2. PICK r \in Request : r = op[q].r
    BY <2>1
  <2> DEFINE d == Resubmitted(sr[r], r)
  <2>3. d.status = InitialStatus(r) /\ d.items = Blank.items /\ d.manager = sr[r].manager
    BY DEF Resubmitted, TypeInv, TypeOK, RequestDoc
  <2>4. sr' = [sr EXCEPT ![r] = d]
    BY <1>4, <2>2 DEF ResubmitSave, TypeInv, TypeOK
  <2>5. op' = [op EXCEPT ![q] = Idle]
    <3>1. op' = [Outdate(op, r) EXCEPT ![q] = Idle]
      BY <1>4, <2>2 DEF ResubmitSave
    <3>2. \A x \in Proc : x = q
      BY DEF OneHandler
    <3> QED BY <3>1, <3>2 DEF Outdate, TypeInv, TypeOK
  <2>6. Waiting(Blank.items) /\ InitialStatus(r) = (IF r \in ManagerStage THEN "PENDING_MANAGER" ELSE "REQUESTED")
        /\ Waiting(sr[r].items) /\ (r \in ManagerStage => sr[r].manager = None)
    BY <2>1, <2>2 DEF Waiting, Blank, InitialStatus, SerialInv, RowFine, PassedManager, Early
  <2> HIDE DEF d
  <2>7. Passes(sr[r], d) /\ RowFine(d, r)
    BY <2>1, <2>2, <2>3, <2>6 DEF Passes, RowFine, PassedManager, Waiting, Early, OpenStatus, HandoverStatus
  <2> QED BY <2>4, <2>5, <2>7, SerialSave DEF Done
<1> QED BY <1>1, <1>2, <1>3, <1>4 DEF ManagerStep

\* One settled line, which was not collected
LEMMA SerialSettled ==
  ASSUME TypeInv, SerialInv, OneHandler, NEW q \in Proc, NEW k \in Line, NEW item, Settled(q, k, item),
         Reviewing(q, k), op[q].doc.items[k].line # "COLLECTED", sr' = sr
  PROVE  SerialInv' /\ RowsPass
<1> DEFINE o == [op[q] EXCEPT !.doc.items[k] = item, !.todo = @ \ {k}]
<1>1. op[q].doc.items \in [Line -> Item] /\ op[q].doc \in RequestDoc /\ op[q] \in Op
  BY DEF TypeInv, TypeOK, Op, RequestDoc
<1>2. o.doc.items = [op[q].doc.items EXCEPT ![k] = item] /\ o.doc.status = op[q].doc.status
  BY <1>1 DEF Op, RequestDoc
<1>3. o.step = "review" /\ o.r = op[q].r /\ o.u = op[q].u /\ o.stale = op[q].stale /\ op[q].step = "review"
  BY <1>1 DEF Op, Reviewing, At
<1>4. op' = [op EXCEPT ![q] = o]
  BY DEF Settled
<1> HIDE DEF o
<1>5. Serves(op[q], sr)
  BY DEF SerialInv
<1>6. ASSUME ~o.stale, NEW j \in Line, sr[o.r].items[j].line = "COLLECTED" PROVE o.doc.items[j].line = "COLLECTED"
  <2>1. op[q].doc.items[j].line = "COLLECTED"
    BY <1>3, <1>5, <1>6 DEF Serves
  <2> QED BY <1>1, <1>2, <2>1
<1>7. Serves(o, sr)
  BY <1>2, <1>3, <1>5, <1>6 DEF Serves
<1> QED BY <1>4, <1>7, SerialRead

LEMMA ReviewSerial ==
  ASSUME TypeInv, SerialInv, OneHandler, NEW q \in Proc, ReviewStep(q), ~ReviewSave(q) PROVE SerialInv' /\ RowsPass
<1>0. sr' = sr
  BY DEF ReviewStep, ReviewBegin, ReviewLink, ReviewConsumable, ReviewPick, ReviewOrder, ReviewReject,
         ReviewOrderLinked, ReviewReserve, ReviewFail
<1>1. ASSUME NEW r \in Request, NEW u \in User, ReviewBegin(q, r, u) PROVE SerialInv' /\ RowsPass
  <2>1. PICK lines \in SUBSET Line :
          op' = [op EXCEPT ![q] = [Idle EXCEPT !.step = "review", !.r = r, !.u = u,
                                               !.doc = sr[r], !.todo = lines]]
    BY <1>1 DEF ReviewBegin
  <2> DEFINE o == [Idle EXCEPT !.step = "review", !.r = r, !.u = u, !.doc = sr[r], !.todo = lines]
  <2>2. o.step = "review" /\ o.r = r /\ o.doc = sr[r] /\ o.u = u
    BY DEF Idle
  <2>3. sr[r].status \in HandoverStatus /\ u # Requester[r] /\ op' = [op EXCEPT ![q] = o]
        /\ (sr[r].status = "REQUESTED" \/ Tracked(sr[r].items))
    BY <1>1, <2>1 DEF ReviewBegin
  <2> HIDE DEF o
  <2>4. Serves(o, sr)
    BY <2>2, <2>3 DEF Serves
  <2> QED BY <1>0, <2>3, <2>4, SerialRead
<1>2. ASSUME NEW k \in Line, ReviewLink(q, k) \/ ReviewConsumable(q, k) \/ ReviewOrder(q, k) \/ ReviewReject(q, k)
      PROVE  SerialInv' /\ RowsPass
  <2>1. PICK item : Settled(q, k, item)
    BY <1>2 DEF ReviewLink, ReviewConsumable, ReviewOrder, ReviewReject
  <2>2. Reviewing(q, k) /\ op[q].doc.items[k].line # "COLLECTED"
    BY <1>2 DEF ReviewLink, ReviewConsumable, ReviewOrder, ReviewReject, Undecided
  <2> QED BY <1>0, <2>1, <2>2, SerialSettled
<1>3. ASSUME NEW k \in Line, NEW p \in PR, ReviewOrderLinked(q, k, p) PROVE SerialInv' /\ RowsPass
  BY <1>0, <1>3, SerialSettled DEF ReviewOrderLinked, Undecided
<1>4. ASSUME NEW k \in Line, ReviewPick(q, k) PROVE SerialInv' /\ RowsPass
  <2>1. PICK c \in AssetCat, S \in SUBSET Asset :
          op' = [op EXCEPT ![q] = [op[q] EXCEPT !.step = "reserve", !.k = k, !.pick = S,
                                                !.doc = Linked(@, k, c)]]
    BY <1>4 DEF ReviewPick, FreeAssets
  <2> DEFINE d == Linked(op[q].doc, k, c)
             o == [op[q] EXCEPT !.step = "reserve", !.k = k, !.pick = S, !.doc = d]
  <2>2. op[q].doc \in RequestDoc /\ op[q].doc.items \in [Line -> Item] /\ op[q] \in Op
    BY DEF TypeInv, TypeOK, Op, RequestDoc
  <2>3. d.items = [op[q].doc.items EXCEPT ![k] = [op[q].doc.items[k] EXCEPT !.cat = c]]
        /\ d.status = op[q].doc.status
    BY <2>2 DEF Linked, RequestDoc
  <2>4. \A x \in Line : d.items[x].line = op[q].doc.items[x].line
    BY <2>2, <2>3 DEF Item
  <2>5. o.step = "reserve" /\ o.r = op[q].r /\ o.k = k /\ o.doc = d /\ o.stale = op[q].stale /\ o.u = op[q].u
    BY <2>2 DEF Op
  <2>6. op' = [op EXCEPT ![q] = o]
    BY <2>1
  <2>7. op[q].step = "review" /\ op[q].doc.items[k].line # "COLLECTED" /\ Serves(op[q], sr)
    BY <1>4 DEF ReviewPick, Reviewing, At, Undecided, SerialInv
  <2> HIDE DEF d, o
  <2>8. Serves(o, sr)
    BY <2>3, <2>4, <2>5, <2>7 DEF Serves
  <2> QED BY <1>0, <2>6, <2>8, SerialRead
<1>5. CASE ReviewReserve(q)
  <2> DEFINE d == Marked(op[q].doc, op[q].k, "READY")
             o == [op[q] EXCEPT !.step = "review", !.k = None, !.pick = {}, !.todo = @ \ {op[q].k}, !.doc = d]
  <2>1. op[q].doc \in RequestDoc /\ op[q].doc.items \in [Line -> Item] /\ op[q] \in Op
    BY DEF TypeInv, TypeOK, Op, RequestDoc
  <2>2. d.items = [op[q].doc.items EXCEPT ![op[q].k] = [op[q].doc.items[op[q].k] EXCEPT !.line = "READY"]]
        /\ d.status = op[q].doc.status
    BY <2>1 DEF Marked, RequestDoc
  <2>3. \A x \in Line : d.items[x].line = IF x = op[q].k THEN "READY" ELSE op[q].doc.items[x].line
    BY <2>1, <2>2 DEF Item
  <2>4. o.step = "review" /\ o.r = op[q].r /\ o.doc = d /\ o.stale = op[q].stale /\ o.u = op[q].u
    BY <2>1 DEF Op
  <2>5. op' = [op EXCEPT ![q] = o] \/ Done(q)
    BY <1>5 DEF ReviewReserve
  <2>6. op[q].step = "reserve" /\ op[q].doc.items[op[q].k].line # "COLLECTED" /\ Serves(op[q], sr)
    BY <1>5 DEF ReviewReserve, At, SerialInv, Serves
  <2> HIDE DEF d, o
  <2>7. ASSUME ~o.stale, NEW x \in Line, sr[o.r].items[x].line = "COLLECTED" PROVE d.items[x].line = "COLLECTED"
    <3>1. op[q].doc.items[x].line = "COLLECTED"
      BY <2>4, <2>6, <2>7 DEF Serves
    <3> QED BY <2>3, <2>6, <3>1
  <2>8. Serves(o, sr)
    <3>1. /\ op[q].u \in User \ {Requester[op[q].r]}
          /\ ~op[q].stale => /\ op[q].doc.status = sr[op[q].r].status /\ op[q].doc.status \in HandoverStatus
                             /\ op[q].doc.status = "REQUESTED" \/ Tracked(sr[op[q].r].items)
      BY <2>6 DEF Serves
    <3> QED BY <2>2, <2>4, <2>7, <3>1 DEF Serves
  <2> QED BY <1>0, <2>5, <2>8, SerialRead, SerialDone
<1>6. CASE ReviewFail(q)
  BY <1>6, SerialDone DEF ReviewFail
<1> QED BY <1>1, <1>2, <1>3, <1>4, <1>5, <1>6 DEF ReviewStep

\* A copy that passes the version check has the status and the collected lines of the row.
LEMMA ReviewSaveSerial ==
  ASSUME TypeInv, SerialInv, OneHandler, NEW q \in Proc, ReviewSave(q) PROVE SerialInv' /\ RowsPass
<1>1. PICK r \in Request : r = op[q].r
  BY DEF ReviewSave, At, TypeInv, OpsOK, Fits
<1>2. PICK c \in RequestDoc : c = op[q].doc
  BY DEF TypeInv, TypeOK, Op
<1>3. /\ op[q].u \in User \ {Requester[r]} /\ c.status = sr[r].status /\ c.status \in HandoverStatus
      /\ \A k \in Line : sr[r].items[k].line = "COLLECTED" => c.items[k].line = "COLLECTED"
  BY <1>1, <1>2 DEF ReviewSave, At, VersionHolds, SerialInv, Serves
<1> DEFINE d == ReviewedDoc(q)
<1>4. d.items = c.items /\ d.status = Derive(c.items)
      /\ d.approver = (IF c.status = "REQUESTED" /\ Derive(c.items) # "REQUESTED" THEN op[q].u ELSE sr[r].approver)
      /\ d.manager = sr[r].manager
  BY <1>1, <1>2, <1>3 DEF ReviewedDoc, TypeInv, TypeOK, RequestDoc
<1>5. sr' = [sr EXCEPT ![r] = d]
  BY <1>1 DEF ReviewSave
<1> HIDE DEF d
<1>6. op' = [op EXCEPT ![q] = Idle]
  <2>1. op' = [Outdate(op, r) EXCEPT ![q] = Idle]
    BY <1>1 DEF ReviewSave
  <2>2. \A x \in Proc : x = q
    BY DEF OneHandler
  <2> QED BY <2>1, <2>2 DEF Outdate, TypeInv, TypeOK
<1>7. Derive(c.items) \in Early => Waiting(c.items)
  <2>1. Derive(c.items) \in Early => Present(c.items) = {"WAITING"}
    BY DEF Derive, DeriveSupplyStatus, Early
  <2>2. Present(c.items) = {"WAITING"} => Waiting(c.items)
    BY DEF Present, Waiting
  <2> QED BY <2>1, <2>2
<1>8. sr[r].status \in OpenStatus => sr[r].approver \notin {None, Requester[r]}
  BY DEF SerialInv, RowFine
<1>9. RowFine(d, r)
  <2>0. PassedManager(d, r)
    <3>1. Derive(c.items) \notin {"PENDING_MANAGER", "NEEDS_REVISION"}
      BY DEF Derive, DeriveSupplyStatus
    <3> QED BY <1>3, <1>4, <3>1, StageKept DEF SerialInv
  <2>1. op[q].u \notin {None, Requester[r]}
    BY <1>3, ConstantsOK
  <2>2. CASE c.status = "REQUESTED" /\ Derive(c.items) # "REQUESTED"
    BY <1>4, <1>7, <2>0, <2>1, <2>2 DEF RowFine
  <2>3. CASE c.status = "REQUESTED" /\ Derive(c.items) = "REQUESTED"
    BY <1>4, <1>7, <2>0, <2>3 DEF RowFine, OpenStatus
  <2>4. CASE c.status # "REQUESTED"
    BY <1>3, <1>4, <1>7, <1>8, <2>0, <2>4 DEF RowFine, HandoverStatus
  <2> QED BY <2>2, <2>3, <2>4
<1>10. Passes(sr[r], d)
  BY <1>3, <1>4 DEF Passes, HandoverStatus, OpenStatus
<1> QED BY <1>5, <1>6, <1>9, <1>10, SerialSave DEF Done

LEMMA ApprovingServes ==
  ASSUME NEW p, NEW r \in Request, NEW u \in User, Approvable(r, u) PROVE Serves(Approving(p, r, u), sr)
<1>1. /\ Approving(p, r, u).step = "approve" /\ Approving(p, r, u).to \in {"ORDERED", "APPROVED"}
      /\ Approving(p, r, u).r = r /\ Approving(p, r, u).u = u
  BY DEF Approving, Idle
<1> QED BY <1>1 DEF Serves, Approvable

LEMMA DecideSerial ==
  ASSUME TypeInv, SerialInv, OneHandler, NEW q \in Proc, DecideStep(q) PROVE SerialInv' /\ RowsPass
<1>1. ASSUME NEW r \in Request, NEW u \in User, ApproveBegin(q, r, u) PROVE SerialInv' /\ RowsPass
  BY <1>1, ApprovingServes, SerialRead DEF ApproveBegin
<1>2. ASSUME NEW r \in Request, NEW u \in User, RejectBegin(q, r, u) PROVE SerialInv' /\ RowsPass
  <2> DEFINE o == [Idle EXCEPT !.step = "reject", !.r = r, !.u = u]
  <2>1. o.step = "reject" /\ o.r = r
    BY DEF Idle
  <2>2. op' = [op EXCEPT ![q] = o] /\ sr' = sr /\ sr[r].status = "REQUESTED"
    BY <1>2 DEF RejectBegin
  <2> HIDE DEF o
  <2>3. Serves(o, sr)
    BY <2>1, <2>2 DEF Serves
  <2> QED BY <2>2, <2>3, SerialRead
<1>3. CASE ApproveSave(q)
  <2>1. PICK r \in Request : r = op[q].r
    BY <1>3 DEF ApproveSave, At, TypeInv, OpsOK, Fits
  <2>2. sr[r].status = "REQUESTED" /\ op[q].u \in User \ {Requester[r]} /\ op[q].to \in {"ORDERED", "APPROVED"}
    BY <1>3, <2>1 DEF ApproveSave, At, SerialInv, Serves
  <2> DEFINE d == [sr[r] EXCEPT !.status = op[q].to, !.approver = op[q].u, !.items = Linking(sr[r].items, op[q].todo)]
  <2>3. d.status = op[q].to /\ d.approver = op[q].u /\ d.manager = sr[r].manager
    BY DEF TypeInv, TypeOK, RequestDoc
  <2>4. sr' = [sr EXCEPT ![r] = d] /\ Done(q)
    BY <1>3, <2>1 DEF ApproveSave
  <2> HIDE DEF d
  <2>5. \A k \in Line : sr[r].items[k].line # "COLLECTED"
    BY <2>2 DEF SerialInv, RowFine, Early, Waiting
  <2>6. PassedManager(d, r)
    BY <2>2, <2>3, StageKept DEF SerialInv, HandoverStatus
  <2>7. Passes(sr[r], d) /\ RowFine(d, r)
    BY <2>2, <2>3, <2>5, <2>6, ConstantsOK DEF Passes, RowFine, Early
  <2> QED BY <2>4, <2>7, SerialSave
<1>4. CASE ApproveConflict(q)
  BY <1>4, SerialDone, SerialGoto DEF ApproveConflict
<1>5. CASE RejectSave(q)
  <2>1. PICK r \in Request : r = op[q].r
    BY <1>5 DEF RejectSave, At, TypeInv, OpsOK, Fits
  <2>2. sr[r].status = "REQUESTED"
    BY <1>5, <2>1 DEF RejectSave, At, SerialInv, Serves
  <2> DEFINE d == [sr[r] EXCEPT !.status = "REJECTED", !.approver = op[q].u]
  <2>3. d.status = "REJECTED" /\ d.items = sr[r].items
    BY DEF TypeInv, TypeOK, RequestDoc
  <2>4. sr' = [sr EXCEPT ![r] = d] /\ Goto(q, "release")
    BY <1>5, <2>1 DEF RejectSave
  <2> HIDE DEF d
  <2>5. Passes(sr[r], d) /\ RowFine(d, r)
    BY <2>2, <2>3 DEF Passes, RowFine, PassedManager, Early, OpenStatus, HandoverStatus
  <2> QED BY <2>4, <2>5, SerialSave
<1>6. CASE RejectRelease(q)
  BY <1>6, SerialGoto DEF RejectRelease
<1>7. CASE RejectUnlink(q)
  BY <1>7, SerialDone DEF RejectUnlink
<1> QED BY <1>1, <1>2, <1>3, <1>4, <1>5, <1>6, <1>7 DEF DecideStep

LEMMA FulfillSerial ==
  ASSUME TypeInv, SerialInv, OneHandler, NEW q \in Proc, FulfillStep(q) PROVE SerialInv' /\ RowsPass
<1>1. ASSUME NEW r \in Request, FulfillBegin(q, r) PROVE SerialInv' /\ RowsPass
  <2> DEFINE o == [Idle EXCEPT !.step = "fulfill", !.r = r, !.doc = sr[r],
                               !.todo = {k \in Line : sr[r].items[k].cat # None}]
  <2>1. o.step = "fulfill" /\ o.r = r
    BY DEF Idle
  <2>2. op' = [op EXCEPT ![q] = o] /\ sr' = sr /\ sr[r].status \in OpenStatus /\ "fulfill" \in Handlers
    BY <1>1 DEF FulfillBegin, Begin
  <2> HIDE DEF o
  <2>3. Serves(o, sr)
    BY <2>1, <2>2 DEF Serves
  <2> QED BY <2>2, <2>3, SerialRead
<1>2. ASSUME NEW k \in Line, FulfillDeduct(q, k) PROVE SerialInv' /\ RowsPass
  <2> DEFINE o == [op[q] EXCEPT !.todo = @ \ {k}]
  <2>1. o.step = "fulfill" /\ o.r = op[q].r
    BY <1>2 DEF FulfillDeduct, At, TypeInv, TypeOK, Op
  <2>2. op' = [op EXCEPT ![q] = o] /\ sr' = sr /\ op[q].step = "fulfill"
    BY <1>2 DEF FulfillDeduct, At
  <2> HIDE DEF o
  <2>3. Serves(o, sr)
    BY <2>1, <2>2 DEF Serves, SerialInv
  <2> QED BY <2>2, <2>3, SerialRead
<1>3. ASSUME NEW k \in Line, FulfillFail(q, k) PROVE SerialInv' /\ RowsPass
  BY <1>3, SerialDone DEF FulfillFail
<1>4. CASE FulfillSave(q)
  <2>1. PICK r \in Request : r = op[q].r
    BY <1>4 DEF FulfillSave, At, TypeInv, OpsOK, Fits
  <2>2. sr[r].status \in OpenStatus \cup {"CLOSED"}
    BY <1>4, <2>1 DEF FulfillSave, At, SerialInv, Serves
  <2> DEFINE d == [sr[r] EXCEPT !.status = "CLOSED"]
  <2>3. d.status = "CLOSED" /\ d.items = sr[r].items /\ d.approver = sr[r].approver /\ d.manager = sr[r].manager
    BY DEF TypeInv, TypeOK, RequestDoc
  <2>4. sr' = [sr EXCEPT ![r] = d] /\ Done(q)
    BY <1>4, <2>1 DEF FulfillSave
  <2> HIDE DEF d
  <2>5. PassedManager(d, r)
    BY <2>2, <2>3, StageKept DEF SerialInv, HandoverStatus
  <2>6. Passes(sr[r], d) /\ RowFine(d, r)
    BY <2>2, <2>3, <2>5 DEF Passes, RowFine, Early, OpenStatus, SerialInv
  <2> QED BY <2>4, <2>6, SerialSave
<1> QED BY <1>1, <1>2, <1>3, <1>4 DEF FulfillStep

LEMMA PurchaseSerial ==
  ASSUME TypeInv, SerialInv, OneHandler, NEW q \in Proc, PurchaseStep(q) PROVE SerialInv' /\ RowsPass
<1>0. sr' = sr
  BY PurchaseFrame
<1>1. ASSUME NEW p \in PR, NEW u \in User, PrApproveBegin(q, p, u) PROVE SerialInv' /\ RowsPass
  <2> DEFINE o == [Idle EXCEPT !.step = "prSave", !.p = p, !.u = u, !.r = PendingLinked(p)]
  <2>1. o.step = "prSave" /\ o.u = u
    BY DEF Idle
  <2>2. op' = [op EXCEPT ![q] = o]
    BY <1>1 DEF PrApproveBegin
  <2> HIDE DEF o
  <2>3. Serves(o, sr)
    BY <2>1 DEF Serves
  <2> QED BY <1>0, <2>2, <2>3, SerialRead
<1>2. ASSUME NEW p \in PR, NEW u \in User, NEW to \in PrStatus, PrDecideBegin(q, p, u, to) PROVE SerialInv' /\ RowsPass
  <2> DEFINE o == [Idle EXCEPT !.step = "prDecide", !.p = p, !.u = u, !.to = to]
  <2>1. o.step = "prDecide"
    BY DEF Idle
  <2>2. op' = [op EXCEPT ![q] = o]
    BY <1>2 DEF PrDecideBegin
  <2> HIDE DEF o
  <2>3. Serves(o, sr)
    BY <2>1 DEF Serves
  <2> QED BY <1>0, <2>2, <2>3, SerialRead
<1>3. CASE PrApproveSave(q)
  <2>1. CASE Done(q)
    BY <1>0, <2>1, SerialDone
  <2>2. CASE Goto(q, "prLinked")
    <3> DEFINE o == [op[q] EXCEPT !.step = "prLinked"]
    <3>1. o.step = "prLinked" /\ o.u = op[q].u
      BY DEF TypeInv, TypeOK, Op
    <3>2. op' = [op EXCEPT ![q] = o]
      BY <2>2 DEF Goto
    <3>3. op[q].u \in User
      BY <1>3 DEF PrApproveSave, At, SerialInv, Serves
    <3> HIDE DEF o
    <3>4. Serves(o, sr)
      BY <3>1, <3>3 DEF Serves
    <3> QED BY <1>0, <3>2, <3>4, SerialRead
  <2> QED BY <1>3, <2>1, <2>2 DEF PrApproveSave
<1>4. CASE PrApproveLinked(q)
  <2>1. op[q].r \in Request /\ op[q].u \in User
    BY <1>4 DEF PrApproveLinked, At, TypeInv, OpsOK, Fits, SerialInv, Serves
  <2>2. CASE Approvable(op[q].r, op[q].u)
    BY <1>0, <1>4, <2>1, <2>2, ApprovingServes, SerialRead DEF PrApproveLinked
  <2>3. CASE ~Approvable(op[q].r, op[q].u)
    BY <1>0, <1>4, <2>3, SerialGoto DEF PrApproveLinked
  <2> QED BY <2>2, <2>3
<1>5. CASE PrRevert(q)
  BY <1>0, <1>5, SerialDone DEF PrRevert
<1>6. CASE PrDecideSave(q)
  BY <1>0, <1>6, SerialDone DEF PrDecideSave
<1> QED BY <1>1, <1>2, <1>3, <1>4, <1>5, <1>6 DEF PurchaseStep

\* A transaction rewrites the lines of a request that is open to goods.
LEMMA SerialOutdated ==
  ASSUME TypeInv, SerialInv, NEW r \in Request, NEW d, sr' = [sr EXCEPT ![r] = d], op' = Outdate(op, r),
         Passes(sr[r], d), RowFine(d, r),
         d.status = sr[r].status \/ (sr[r].status \in OpenStatus /\ d.status \in OpenStatus \cup {"CLOSED"})
  PROVE  SerialInv' /\ RowsPass
<1>1. sr'[r] = d /\ \A x \in Request \ {r} : sr'[x] = sr[x]
  BY DEF TypeInv, TypeOK
<1>2. \A x \in Request : RowFine(sr'[x], x) /\ Passes(sr[x], sr'[x])
  BY <1>1, RowPasses DEF SerialInv
<1>3. ASSUME NEW x \in Proc PROVE Serves(op'[x], sr')
  <2>1. op[x] \in Op /\ Fits(op[x]) /\ Serves(op[x], sr)
    BY DEF TypeInv, OpsOK, SerialInv
  <2>2. CASE op[x].r = r
    <3>1. op'[x] = [op[x] EXCEPT !.stale = TRUE]
      BY <2>2 DEF Outdate
    <3>2. /\ op'[x].stale /\ op'[x].step = op[x].step /\ op'[x].doc = op[x].doc /\ op'[x].u = op[x].u
          /\ op'[x].to = op[x].to /\ op'[x].k = op[x].k /\ op'[x].r = r
      BY <2>1, <2>2, <3>1 DEF Op
    <3>3. op[x].step = "fulfill" => d.status \in OpenStatus \cup {"CLOSED"}
      BY <2>1, <2>2 DEF Serves
    <3>4. op[x].step \in {"manager", "resubmit", "approve", "reject"} => d.status = sr[r].status
      BY <2>1, <2>2 DEF Serves, OpenStatus
    <3> QED BY <1>1, <2>1, <2>2, <3>2, <3>3, <3>4 DEF Serves
  <2>3. CASE op[x].r # r
    <3>1. op'[x] = op[x]
      BY <2>3 DEF Outdate
    <3>2. op[x].r \in Request => sr'[op[x].r] = sr[op[x].r]
      BY <1>1, <2>3
    <3> QED BY <2>1, <3>1, <3>2 DEF Serves, Fits
  <2> QED BY <2>2, <2>3
<1>4. (\A x \in Request : RowFine(sr[x], x))' /\ (\A x \in Proc : Serves(op[x], sr))'
  BY <1>2, <1>3
<1> QED BY <1>2, <1>4 DEF SerialInv, RowsPass

LEMMA ReceiveSerial ==
  ASSUME TypeInv, SerialInv, NEW r \in Request, NEW u \in User, NEW K \in SUBSET Line, NEW S \in SUBSET Asset,
         Receive(r, u, K, S)
  PROVE  SerialInv' /\ RowsPass
<1> DEFINE d == CollectedDoc(r, K, S)
<1>1. sr[r] \in RequestDoc /\ \A k \in Line : sr[r].items[k] \in Item
  BY DEF TypeInv, TypeOK, RequestDoc
<1>2. /\ sr' = [sr EXCEPT ![r] = d] /\ sr[r].status \in OpenStatus
      /\ op' = IF Tracked(sr[r].items) \/ S # {} THEN Outdate(op, r) ELSE op
  BY DEF Receive
<1>3. d.approver = sr[r].approver /\ sr[r].approver \notin {None, Requester[r]} /\ d.manager = sr[r].manager
  BY <1>1, <1>2 DEF CollectedDoc, RequestDoc, SerialInv, RowFine
<1>4. CASE Tracked(sr[r].items)
  <2>1. \A k \in Line : d.items[k].line = IF k \in K THEN "COLLECTED" ELSE sr[r].items[k].line
    BY <1>1, <1>4 DEF CollectedDoc, Collected, RequestDoc, Item
  <2>2. d.status = Derive(d.items)
    BY <1>1, <1>4 DEF CollectedDoc, RequestDoc
  <2>3. PICK k \in Line : k \in K
    BY <1>4 DEF Receive, Collectable
  <2>4. "COLLECTED" \in Present(d.items)
    <3> HIDE DEF d
    <3> QED BY <2>1, <2>3 DEF Present
  <2> HIDE DEF d
  <2>5. d.status \in {"CLOSED", "PARTIALLY_RECEIVED"}
    BY <2>2, <2>4 DEF Derive, DeriveSupplyStatus
  <2>6. PassedManager(d, r)
    BY <1>2, <1>3, <2>5, StageKept DEF SerialInv, HandoverStatus
  <2>7. Passes(sr[r], d) /\ RowFine(d, r)
    BY <1>2, <1>3, <2>1, <2>5, <2>6 DEF Passes, RowFine, Early, OpenStatus
  <2> QED BY <1>2, <1>4, <2>5, <2>7, SerialOutdated DEF OpenStatus
<1>5. CASE ~Tracked(sr[r].items)
  <2>1. d.items = sr[r].items /\ d.status = "CLOSED"
    BY <1>1, <1>5 DEF CollectedDoc, RequestDoc
  <2> HIDE DEF d
  <2>2. PassedManager(d, r)
    BY <1>2, <1>3, <2>1, StageKept DEF SerialInv, HandoverStatus
  <2>3. Passes(sr[r], d) /\ RowFine(d, r)
    BY <1>2, <1>3, <2>1, <2>2 DEF Passes, RowFine, Early, OpenStatus
  <2>4. CASE op' = Outdate(op, r)
    BY <1>2, <2>1, <2>3, <2>4, SerialOutdated
  <2>5. CASE op' = op
    <3>1. sr'[r] = d /\ \A x \in Request \ {r} : sr'[x] = sr[x]
      BY <1>2 DEF TypeInv, TypeOK
    <3>2. \A x \in Request : RowFine(sr'[x], x) /\ Passes(sr[x], sr'[x])
      BY <2>3, <3>1, RowPasses DEF SerialInv
    <3>3. ASSUME NEW x \in Proc PROVE Serves(op[x], sr')
      <4>1. op[x] \in Op /\ Fits(op[x]) /\ Serves(op[x], sr)
        BY DEF TypeInv, OpsOK, SerialInv
      <4>2. CASE op[x].r = r
        BY <1>2, <1>5, <2>1, <3>1, <4>1, <4>2 DEF Serves, OpenStatus
      <4>3. CASE op[x].r # r
        BY <3>1, <4>1, <4>3 DEF Serves, Fits
      <4> QED BY <4>2, <4>3
    <3>4. (\A x \in Request : RowFine(sr[x], x))' /\ (\A x \in Proc : Serves(op[x], sr))'
      BY <2>5, <3>2, <3>3
    <3> QED BY <3>2, <3>4 DEF SerialInv, RowsPass
  <2> QED BY <1>2, <2>4, <2>5
<1> QED BY <1>4, <1>5

LEMMA GoodsReceiptSerial ==
  ASSUME TypeInv, SerialInv, NEW p \in PR, NEW u \in User, NEW n \in 1..PrQty[p], NEW S \in SUBSET Asset,
         NEW R \in SUBSET Asset, GoodsReceipt(p, u, n, S, R)
  PROVE  SerialInv' /\ RowsPass
<1> DEFINE m == Arriving(p, n)
           r == pr[p].link[1]
           k == pr[p].link[2]
<1>1. CASE m > 0
  <2>1. HandsOver(p)
    BY <1>1 DEF Arriving
  <2>2. r \in Request /\ k \in Line /\ sr[r].status \in HandoverStatus
    BY <2>1 DEF HandsOver, TypeInv, TypeOK, PurchaseDoc
  <2> DEFINE it == sr[r].items[k]
             d == AfterArrival(sr[r], k, m)
  <2>3. sr[r] \in RequestDoc /\ it \in Item /\ sr[r].items \in [Line -> Item]
    BY <2>2 DEF TypeInv, TypeOK, RequestDoc
  <2>4. d.items = [sr[r].items EXCEPT ![k] = WithArrival(it, k, m)] /\ d.approver = sr[r].approver
        /\ d.manager = sr[r].manager
        /\ d.status = IF Completes(it, k, m) THEN Derive(d.items)
                      ELSE IF sr[r].status = "ORDERED" /\ ~HasPendingPurchase(d.items) THEN "APPROVED"
                      ELSE sr[r].status
    BY <2>3 DEF AfterArrival, RequestDoc
  <2>5. WithArrival(it, k, m).line = IF Completes(it, k, m) THEN "READY" ELSE it.line
    BY <2>3 DEF WithArrival, Item
  <2>6. sr' = [sr EXCEPT ![r] = d] /\ op' = Outdate(op, r)
    BY <1>1 DEF GoodsReceipt
  <2>7. Completes(it, k, m) => it.line = "ON_ORDER"
    BY DEF Completes
  <2>8. sr[r].status = "REQUESTED" => Waiting(sr[r].items)
    BY <2>2 DEF SerialInv, RowFine, Early
  <2>9. sr[r].status \in OpenStatus => sr[r].approver \notin {None, Requester[r]}
    BY <2>2 DEF SerialInv, RowFine
  <2>10. PICK x \in Request, y \in Line : x = r /\ y = k
    BY <2>2
  <2> DEFINE done == Completes(it, k, m)
  <2> HIDE DEF m, r, k, it, d, done
  <2>11. \A z \in Line : d.items[z].line = IF z = k /\ done THEN "READY" ELSE sr[r].items[z].line
    BY <2>2, <2>3, <2>4, <2>5 DEF done, it
  <2>12. CASE done
    <3>1. it.line = "ON_ORDER" /\ sr[r].status \in OpenStatus
      BY <2>2, <2>7, <2>8, <2>12 DEF done, it, Waiting, HandoverStatus
    <3>2. "READY" \in Present(d.items)
      BY <2>2, <2>11, <2>12 DEF Present
    <3>3. d.status \in OpenStatus
      <4>1. d.status = Derive(d.items)
        BY <2>4, <2>12 DEF done
      <4> QED BY <3>2, <4>1 DEF Derive, DeriveSupplyStatus, OpenStatus
    <3>4. Passes(sr[r], d)
      BY <2>11, <3>1 DEF Passes, OpenStatus, it
    <3>5. PassedManager(d, r)
      BY <2>2, <2>4, <3>3, StageKept DEF SerialInv, OpenStatus
    <3>6. RowFine(d, r)
      BY <2>4, <2>9, <3>1, <3>3, <3>5 DEF RowFine, Early, OpenStatus
    <3> QED BY <2>2, <2>6, <3>1, <3>3, <3>4, <3>6, SerialOutdated
  <2>13. CASE ~done
    <3>1. \A z \in Line : d.items[z].line = sr[r].items[z].line
      BY <2>11, <2>13
    <3>2. d.status = sr[r].status \/ (sr[r].status = "ORDERED" /\ d.status = "APPROVED")
      BY <2>4, <2>13 DEF done
    <3>3. PassedManager(d, r)
      BY <2>2, <2>4, <3>2, StageKept DEF SerialInv
    <3>4. Passes(sr[r], d) /\ RowFine(d, r)
      BY <2>2, <2>4, <2>8, <2>9, <3>1, <3>2, <3>3 DEF Passes, RowFine, Early, OpenStatus, HandoverStatus, Waiting
    <3> QED BY <2>2, <2>6, <3>2, <3>4, SerialOutdated DEF OpenStatus
  <2> QED BY <2>12, <2>13
<1>2. CASE ~(m > 0)
  <2>1. sr' = sr /\ op' = op
    BY <1>2 DEF GoodsReceipt
  <2> QED BY <2>1, RowPasses DEF SerialInv, RowsPass
<1> QED BY <1>1, <1>2

LEMMA SerialStep ==
  ASSUME TypeInv, SerialInv, OneHandler, [Next]_vars PROVE SerialInv' /\ RowsPass
<1>1. ASSUME NEW q \in Proc, SaveConflict(q) \/ Crash(q) PROVE SerialInv' /\ RowsPass
  BY <1>1, SerialDone DEF SaveConflict, Crash
<1>2. ASSUME UNCHANGED <<sr, op>> PROVE SerialInv' /\ RowsPass
  BY <1>2, RowPasses DEF SerialInv, RowsPass
<1>3. ASSUME NEW a \in Asset, RegisterStep(a) PROVE SerialInv' /\ RowsPass
  BY <1>2, <1>3 DEF RegisterStep, AssignDirectly, ReturnAsset, SetStatus, RemoveAsset
<1>4. ASSUME NEW q \in Proc, CreateStep(q) \/ ManagerStep(q) \/ ReviewStep(q) \/ DecideStep(q) \/ FulfillStep(q)
                             \/ PurchaseStep(q)
      PROVE  SerialInv' /\ RowsPass
  BY <1>4, CreateSerial, ManagerSerial, ReviewSerial, ReviewSaveSerial, DecideSerial, FulfillSerial, PurchaseSerial
<1>5. CASE Transaction
  BY <1>3, <1>5, ReceiveSerial, GoodsReceiptSerial DEF Transaction
<1>6. CASE UNCHANGED vars
  BY <1>2, <1>6 DEF vars
<1> QED BY <1>1, <1>4, <1>5, <1>6 DEF Next

LEMMA SerialInit == Init => TypeInv /\ SerialInv
<1> SUFFICES ASSUME Init PROVE SerialInv
  BY TypeInit
<1>1. \A r \in Request : sr[r] = Blank
  BY DEF Init
<1>2. Waiting(Blank.items) /\ Blank.status = "NONE"
  BY DEF Waiting, Blank
<1>3. \A q \in Proc : Serves(op[q], sr)
  BY IdleServes DEF Init
<1> QED BY <1>1, <1>2, <1>3 DEF SerialInv, RowFine, PassedManager, OpenStatus, HandoverStatus

LEMMA SerialAlways == ASSUME OneHandler PROVE Spec => [](TypeInv /\ SerialInv) /\ [][RowsPass]_vars
<1>1. TypeInv /\ SerialInv /\ [Next]_vars => (TypeInv /\ SerialInv)' /\ RowsPass
  BY SerialStep, TypeStep
<1> QED BY <1>1, SerialInit, PTL DEF Spec

\* With one handler at a time, whoever approved a request that is open or closed
\* is not its requester, by whichever path it was approved (applyApproval, reviewLines).
THEOREM ApproverSafe == ASSUME OneHandler PROVE Spec => []ApproverIsNotRequester
<1>1. SerialInv => ApproverIsNotRequester
  BY DEF SerialInv, RowFine, ApproverIsNotRequester
<1> QED BY <1>1, SerialAlways, PTL

\* With one handler at a time, a closed or rejected request is not opened again.
THEOREM ClosedSafe == ASSUME OneHandler PROVE Spec => ClosedIsFinal
<1>1. RowsPass => \A r \in Request : sr[r].status \in {"CLOSED", "REJECTED"} => sr'[r].status = sr[r].status
  BY DEF RowsPass, Passes
<1> QED BY <1>1, SerialAlways, PTL DEF ClosedIsFinal

\* With one handler at a time, no request reaches the warehouse before a manager
\* who did not ask for it has let its present lines pass, be it resubmitted or not.
THEOREM ManagerStageSafe == ASSUME OneHandler PROVE Spec => []ManagerStageIsNotBypassed
<1>1. SerialInv => ManagerStageIsNotBypassed
  BY ConstantsOK DEF SerialInv, RowFine, PassedManager, ManagerStageIsNotBypassed
<1> QED BY <1>1, SerialAlways, PTL

\* What was issued is collected, or its request is closed.
IssuedIsDone ==
  \A r \in Request, k \in Line :
    issued[r][k] # 0 => sr[r].items[k].line = "COLLECTED" \/ sr[r].status = "CLOSED"

LEMMA IssuedStep ==
  ASSUME TypeInv, SerialInv, RowsPass, "fulfill" \notin Handlers, IssuedOnce, IssuedIsDone, [Next]_vars
  PROVE  IssuedOnce' /\ IssuedIsDone'
<1>1. CASE issued' = issued
  BY <1>1 DEF IssuedOnce, IssuedIsDone, RowsPass, Passes
<1>2. ASSUME NEW r \in Request, NEW u \in User, NEW K \in SUBSET Line, NEW S \in SUBSET Asset, Receive(r, u, K, S)
      PROVE  IssuedOnce' /\ IssuedIsDone'
  <2> DEFINE d == CollectedDoc(r, K, S)
  <2>1. sr[r] \in RequestDoc /\ sr[r].status \in OpenStatus /\ sr' = [sr EXCEPT ![r] = d]
        /\ \A k \in Line : sr[r].items[k] \in Item
    BY <1>2 DEF Receive, TypeInv, TypeOK, RequestDoc
  <2>2. \A k \in K : sr[r].items[k].line # "COLLECTED"
    BY <1>2 DEF Receive, Collectable, Tracked, IsLineTracked, Present
  <2>3. \A k \in K : issued[r][k] = 0
    BY <2>1, <2>2 DEF IssuedIsDone, OpenStatus
  <2>4. \A x \in Request, k \in Line :
          issued'[x][k] = IF x = r /\ k \in K /\ sr[r].items[k].cat \in Consumable THEN issued[x][k] + 1 ELSE issued[x][k]
    BY <1>2 DEF Receive, TypeInv, TypeOK
  <2>5. \A k \in K : d.items[k].line = "COLLECTED" \/ d.status = "CLOSED"
    BY <2>1 DEF CollectedDoc, Collected, RequestDoc, Item
  <2>6. sr'[r] = d
    BY <2>1 DEF TypeInv, TypeOK
  <2> HIDE DEF d
  <2>7. ASSUME NEW x \in Request, NEW k \in Line
        PROVE  issued'[x][k] <= 1 /\ (issued'[x][k] # 0 => sr'[x].items[k].line = "COLLECTED" \/ sr'[x].status = "CLOSED")
    <3>1. CASE x = r /\ k \in K
      BY <2>3, <2>4, <2>5, <2>6, <3>1
    <3>2. CASE ~(x = r /\ k \in K)
      BY <2>4, <3>2 DEF IssuedOnce, IssuedIsDone, RowsPass, Passes
    <3> QED BY <3>1, <3>2
  <2> QED BY <2>7 DEF IssuedOnce, IssuedIsDone
<1>3. ASSUME NEW q \in Proc, NEW k \in Line, FulfillDeduct(q, k) PROVE FALSE
  BY <1>3 DEF FulfillDeduct, At, SerialInv, Serves
<1>4. ASSUME NEW q \in Proc, FulfillStep(q) PROVE issued' = issued
  BY <1>3, <1>4 DEF FulfillStep, FulfillBegin, FulfillFail, FulfillSave
<1>5. ASSUME NEW q \in Proc, CreateStep(q) \/ ManagerStep(q) \/ ReviewStep(q) PROVE issued' = issued
  BY <1>5 DEF CreateStep, CreateBegin, CreateClaim, CreateSave, CreateFail,
              ManagerStep, ManagerBegin, ManagerSave, ResubmitBegin, ResubmitSave,
              ReviewStep, ReviewBegin, ReviewLink, ReviewConsumable, ReviewPick, ReviewOrder, ReviewReject,
              ReviewOrderLinked, ReviewReserve, ReviewSave, ReviewFail
<1>6. ASSUME NEW q \in Proc, DecideStep(q) \/ PurchaseStep(q) PROVE issued' = issued
  BY <1>6 DEF DecideStep, ApproveBegin, RejectBegin, ApproveSave, ApproveConflict, RejectSave, RejectRelease,
              RejectUnlink, PurchaseStep, PrApproveBegin, PrDecideBegin, PrApproveSave, PrApproveLinked,
              PrRevert, PrDecideSave
<1>7. CASE Transaction
  BY <1>1, <1>2, <1>7 DEF Transaction, GoodsReceipt, RegisterStep, AssignDirectly, ReturnAsset, SetStatus, RemoveAsset
<1> QED BY <1>1, <1>4, <1>5, <1>6, <1>7 DEF Next, SaveConflict, Crash, vars

\* With one handler at a time and nothing fulfilled without a scan, the stock of
\* a line is deducted once, whatever crashes and whatever is received between.
THEOREM IssuedSafe == ASSUME OneHandler, "fulfill" \notin Handlers PROVE Spec => []IssuedOnce
<1>1. Init => IssuedOnce /\ IssuedIsDone
  BY DEF Init, IssuedOnce, IssuedIsDone
<1>2. TypeInv /\ SerialInv /\ IssuedOnce /\ IssuedIsDone /\ [Next]_vars /\ RowsPass => (IssuedOnce /\ IssuedIsDone)'
  BY IssuedStep
<1>3. TypeInv /\ SerialInv /\ [Next]_vars => (TypeInv /\ SerialInv)' /\ RowsPass
  BY SerialStep, TypeStep
<1> QED BY <1>1, <1>2, <1>3, SerialInit, PTL DEF Spec
===============================================================================
