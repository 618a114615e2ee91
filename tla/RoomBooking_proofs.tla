-------------------------- MODULE RoomBooking_proofs --------------------------
(***************************************************************************)
(* Theorems about RoomBooking, for every value of its constants.           *)
(***************************************************************************)
EXTENDS RoomBooking, SequenceTheorems, TLAPS

(***************************************************************************)
(* Type correctness.  TypeOK is not inductive: what a handler carries has  *)
(* to fit the step it is at.                                               *)
(***************************************************************************)
Fits(o) ==
  /\ o.step \in Section \cup {"lockCreate", "lockMove"} => o.room \in Room
  /\ o.step \in {"lockCreate", "lockMove", "create", "insert", "reschedule", "rescheduleSave"} => o.todo # <<>>
  /\ o.step = "insert" => Len(o.ids) = Len(o.todo)
  /\ o.step \in Step \ {"idle", "lockCreate", "create", "insert", "unlock"} => o.b \in Id
  /\ o.step \in {"move", "moveSave"} => o.doc.pend # None

OpsOK(ops) == ops \in [Proc -> Op] /\ \A q \in Proc : Fits(ops[q])

TypeInv == TypeOK /\ OpsOK(op)

LEMMA BlankType == Blank \in Row
BY RoomConstantsOK DEF Blank, Row, BookingStatus, Time

LEMMA IdleType == Idle \in Op /\ Fits(Idle)
BY BlankType, RoomConstantsOK DEF Idle, Fits, Op, Step, Section

LEMMA IdBound == Id \subseteq 0..MaxId
BY RoomConstantsOK DEF Id

LEMMA SlotType == ASSUME NEW s \in Slot PROVE s.from \in Time /\ s.till \in Time
BY RoomConstantsOK

\* The operation of one process is replaced by one that fits.
LEMMA PutType ==
  ASSUME NEW ops, OpsOK(ops), NEW q \in Proc, NEW o \in Op, Fits(o)
  PROVE  OpsOK([ops EXCEPT ![q] = o])
BY DEF OpsOK

LEMMA RowPut ==
  ASSUME TypeInv, NEW b, NEW x, b \in Id => x \in Row
  PROVE  [booking EXCEPT ![b] = x] \in [Id -> Row]
BY DEF TypeInv, TypeOK

LEMMA DoneType == ASSUME TypeInv, NEW q \in Proc, Done(q) PROVE OpsOK(op')
BY IdleType, PutType DEF Done, TypeInv

LEMMA OnType ==
  ASSUME TypeInv, NEW q \in Proc, NEW b \in Id,
         NEW h \in {"ask", "cancel", "checkIn", "checkOut"}, On(q, h, b)
  PROVE  OpsOK(op')
<1> DEFINE o == [Idle EXCEPT !.step = h, !.b = b]
<1>1. o \in Op
  BY IdleType, IdBound DEF Op, Step
<1>2. o.step = h /\ o.b = b
  BY DEF Idle
<1>3. Fits(o)
  BY <1>2 DEF Fits, Section
<1>4. QED BY <1>1, <1>3, PutType DEF On, TypeInv

LEMMA ReadType ==
  ASSUME TypeInv, NEW q \in Proc, NEW b \in Id, NEW h \in {"approve", "move", "reject"}, Read(q, h, b),
         h = "move" => booking[b].pend # None
  PROVE  OpsOK(op')
<1> DEFINE o == [Idle EXCEPT !.step = h, !.b = b, !.doc = booking[b]]
<1>1. booking[b] \in Row BY DEF TypeInv, TypeOK
<1>2. o \in Op BY <1>1, IdleType, IdBound DEF Op, Step
<1>3. o.step = h /\ o.b = b /\ o.doc = booking[b] BY DEF Idle
<1>4. Fits(o) BY <1>3 DEF Fits, Section
<1>5. QED BY <1>2, <1>4, PutType DEF Read, TypeInv

\* A handler goes on to a step that asks for no more than it carries.
LEMMA GotoType ==
  ASSUME TypeInv, NEW q \in Proc, NEW h \in Step, Goto(q, h), Fits([op[q] EXCEPT !.step = h])
  PROVE  OpsOK(op')
<1> DEFINE o == [op[q] EXCEPT !.step = h]
<1>1. o \in Op BY DEF TypeInv, OpsOK, Op
<1>2. op' = [op EXCEPT ![q] = o] BY DEF Goto, TypeInv, OpsOK
<1>3. QED BY <1>1, <1>2, PutType DEF TypeInv

LEMMA OpOf ==
  ASSUME TypeInv, NEW q \in Proc PROVE op[q] \in Op /\ Fits(op[q])
BY DEF TypeInv, OpsOK

LEMMA RowOf == ASSUME TypeInv, NEW b \in Id PROVE booking[b] \in Row
BY DEF TypeInv, TypeOK

LEMMA MovedType ==
  ASSUME NEW x \in Row, NEW to, to.room \in Room \cup {None}, to.from \in Time, to.till \in Time
  PROVE  Moved(x, to) \in Row
BY DEF Moved, Row

LEMMA TargetType ==
  ASSUME NEW x \in Row, x.pend # None
  PROVE  Target(x).room \in Room \cup {None} /\ Target(x).from \in Time /\ Target(x).till \in Time
BY DEF Row, Pending, Target

LEMMA CancelledType == ASSUME NEW x \in Row PROVE Cancelled(x) \in Row
BY DEF Cancelled, Row, BookingStatus

LEMMA NonEmpty ==
  ASSUME NEW S, NEW s \in Seq(S) PROVE s # <<>> <=> Len(s) # 0
BY EmptySeq

\* The handlers' way through the lock.
LEMMA LockType ==
  ASSUME TypeInv, NEW q \in Proc, Acquire(q) \/ Retry(q) \/ GiveUp(q) \/ Unlock(q)
  PROVE  TypeInv'
<1>1. op[q] \in Op /\ Fits(op[q]) BY OpOf
<1>2. CASE Acquire(q)
  <2> DEFINE h == IF At(q, "lockCreate") THEN "create" ELSE "reschedule"
  <2>1. Fits([op[q] EXCEPT !.step = h])
    BY <1>1, <1>2 DEF Fits, Acquire, Locking, At, Step, Section, Op
  <2>2. OpsOK(op') BY <1>2, <2>1, GotoType DEF Acquire, Step
  <2>3. QED BY <1>2, <2>2 DEF Acquire, TypeInv, TypeOK, OpsOK
<1>3. CASE Retry(q)
  <2> DEFINE o == [op[q] EXCEPT !.tries = Attempt(@)]
  <2>1. Attempt(op[q].tries) \in 0..MaxTries
    BY <1>1, <1>3, RoomConstantsOK DEF Op, Retry, Attempt
  <2>2. o \in Op BY <1>1, <2>1 DEF Op
  <2>3. o.step = op[q].step /\ o.room = op[q].room /\ o.todo = op[q].todo /\ o.ids = op[q].ids
        /\ o.b = op[q].b /\ o.doc = op[q].doc
    BY <1>1 DEF Op
  <2>4. Fits(o) BY <1>1, <2>3 DEF Fits
  <2>5. OpsOK(op') BY <1>3, <2>2, <2>4, PutType DEF Retry, TypeInv
  <2>6. QED BY <1>3, <2>5 DEF Retry, TypeInv, TypeOK, OpsOK
<1>4. CASE GiveUp(q)
  BY <1>4, DoneType DEF GiveUp, TypeInv, TypeOK, OpsOK
<1>5. CASE Unlock(q)
  BY <1>5, DoneType DEF Unlock, TypeInv, TypeOK, OpsOK
<1>6. QED BY <1>2, <1>3, <1>4, <1>5

LEMMA CreateType ==
  ASSUME TypeInv, NEW q \in Proc, CreateCheck(q) \/ CreateRefuse(q) \/ CreateInsert(q)
  PROVE  TypeInv'
<1>1. op[q] \in Op /\ Fits(op[q]) BY OpOf
<1>2. CASE CreateCheck(q)
  <2>1. PICK ids \in [DOMAIN op[q].todo -> Id] :
          op' = [op EXCEPT ![q] = [@ EXCEPT !.step = "insert", !.ids = ids,
                                            !.b = IF Len(op[q].todo) > 1 THEN ids[1] ELSE 0]]
    BY <1>2 DEF CreateCheck
  <2> DEFINE n == IF Len(op[q].todo) > 1 THEN ids[1] ELSE 0
             o == [op[q] EXCEPT !.step = "insert", !.ids = ids, !.b = n]
  <2>2. op[q].todo \in Seq(Slot) BY <1>1 DEF Op
  <2>3. ids \in Seq(Id) /\ Len(ids) = Len(op[q].todo) BY <2>2
  <2>4. n \in 0..MaxId
    <3>1. Len(op[q].todo) > 1 => ids[1] \in Id BY <2>2
    <3>2. 0 \in 0..MaxId BY RoomConstantsOK
    <3>3. QED BY <3>1, <3>2, IdBound
  <2>5. o \in Op BY <1>1, <2>3, <2>4 DEF Op, Step
  <2>6. op[q].room \in Room /\ op[q].todo # <<>>
    BY <1>1, <1>2 DEF CreateCheck, At, Fits, Section
  <2>7. o.step = "insert" /\ o.ids = ids /\ o.todo = op[q].todo /\ o.room = op[q].room
    BY <1>1 DEF Op
  <2>8. Fits(o) BY <2>3, <2>6, <2>7 DEF Fits
  <2>9. OpsOK(op') BY <2>1, <2>5, <2>8, PutType DEF TypeInv
  <2>10. QED BY <1>2, <2>9 DEF CreateCheck, TypeInv, TypeOK, OpsOK
<1>3. CASE CreateRefuse(q)
  <2>1. Fits([op[q] EXCEPT !.step = "unlock"])
    BY <1>1, <1>3 DEF Fits, CreateRefuse, At, Section, Op
  <2>2. OpsOK(op') BY <1>3, <2>1, GotoType DEF CreateRefuse, Step
  <2>3. QED BY <1>3, <2>2 DEF CreateRefuse, TypeInv, TypeOK, OpsOK
<1>4. CASE CreateInsert(q)
  <2> DEFINE i == Head(op[q].ids)
             h == IF Len(op[q].todo) = 1 THEN "unlock" ELSE "insert"
             o == [op[q] EXCEPT !.step = h, !.todo = Tail(op[q].todo), !.ids = Tail(op[q].ids)]
             u == [op[q] EXCEPT !.step = "unlock"]
  <2>1. /\ op[q].step = "insert" /\ op[q].room \in Room
        /\ op[q].todo \in Seq(Slot) /\ op[q].todo # <<>>
        /\ op[q].ids \in Seq(Id) /\ Len(op[q].ids) = Len(op[q].todo)
        /\ op[q].b \in 0..MaxId
    BY <1>1, <1>4 DEF CreateInsert, At, Fits, Section, Op
  <2>2. Head(op[q].todo) \in Slot /\ i \in Id BY <2>1
  <2>3. CASE booking[i].status = "NONE"
    <3>1. NewBooking(op[q].room, Head(op[q].todo), op[q].b) \in Row
      BY <2>1, <2>2, BlankType, SlotType DEF NewBooking, Row, BookingStatus
    <3>2. booking' \in [Id -> Row]
      BY <1>4, <2>3, <3>1, RowPut DEF CreateInsert
    <3>3. Tail(op[q].todo) \in Seq(Slot) /\ Tail(op[q].ids) \in Seq(Id)
          /\ Len(Tail(op[q].ids)) = Len(Tail(op[q].todo))
          /\ (Len(op[q].todo) # 1 => Tail(op[q].todo) # <<>>)
      <4>1. Tail(op[q].todo) \in Seq(Slot) /\ Len(Tail(op[q].todo)) = Len(op[q].todo) - 1
        BY <2>1, HeadTailProperties
      <4>2. op[q].ids # <<>> BY <2>1, NonEmpty
      <4>3. Tail(op[q].ids) \in Seq(Id) /\ Len(Tail(op[q].ids)) = Len(op[q].ids) - 1
        BY <2>1, <4>2, HeadTailProperties
      <4>4. Len(op[q].todo) \in Nat BY <2>1, LenProperties
      <4>5. Tail(op[q].todo) # <<>> <=> Len(Tail(op[q].todo)) # 0 BY <4>1, NonEmpty
      <4>6. QED BY <2>1, <4>1, <4>3, <4>4, <4>5
    <3>4. o \in Op
      <4>1. h \in Step BY DEF Step
      <4>2. QED BY <1>1, <3>3, <4>1 DEF Op
    <3>5. o.step = h /\ o.room = op[q].room /\ o.todo = Tail(op[q].todo) /\ o.ids = Tail(op[q].ids)
      BY <1>1 DEF Op
    <3>6. Fits(o) BY <2>1, <3>3, <3>5 DEF Fits, Section
    <3>7. op' = [op EXCEPT ![q] = o] BY <1>4, <2>3 DEF CreateInsert
    <3>8. OpsOK(op') BY <3>4, <3>6, <3>7, PutType DEF TypeInv
    <3>9. QED BY <1>4, <3>2, <3>8 DEF CreateInsert, TypeInv, TypeOK, OpsOK
  <2>4. CASE booking[i].status # "NONE"
    <3>1. Fits(u) BY <1>1, <2>1 DEF Fits, Section, Op
    <3>2. OpsOK(op') BY <1>4, <2>4, <3>1, GotoType DEF CreateInsert, Step
    <3>3. QED BY <1>4, <2>4, <3>2 DEF CreateInsert, TypeInv, TypeOK, OpsOK
  <2>5. QED BY <2>3, <2>4
<1>5. QED BY <1>2, <1>3, <1>4

LEMMA CreateBeginType ==
  ASSUME TypeInv, NEW q \in Proc, NEW r \in Room, NEW occ \in Occurrences, CreateBegin(q, r, occ)
  PROVE  TypeInv'
<1> DEFINE o == [Idle EXCEPT !.step = "lockCreate", !.room = r, !.todo = occ]
<1>1. occ \in Seq(Slot) /\ occ # <<>> BY RoomConstantsOK
<1>2. o \in Op BY <1>1, IdleType DEF Op, Step
<1>3. o.step = "lockCreate" /\ o.room = r /\ o.todo = occ BY DEF Idle
<1>4. Fits(o) BY <1>1, <1>3 DEF Fits, Section
<1>5. OpsOK(op') BY <1>2, <1>4, PutType DEF CreateBegin, TypeInv
<1>6. QED BY <1>5 DEF CreateBegin, TypeInv, TypeOK, OpsOK

LEMMA ReviewType ==
  ASSUME TypeInv, NEW q \in Proc,
         \/ \E b \in Id : ApproveBegin(q, b) \/ RejectBegin(q, b)
         \/ ApproveCheck(q) \/ ApproveSave(q) \/ MoveCheck(q) \/ MoveSave(q) \/ RejectSave(q)
  PROVE  TypeInv'
<1>1. op[q] \in Op /\ Fits(op[q]) BY OpOf
<1>2. ASSUME NEW b \in Id, ApproveBegin(q, b) PROVE TypeInv'
  <2> DEFINE h == IF booking[b].pend # None THEN "move" ELSE "approve"
  <2>1. Read(q, h, b) /\ h \in {"approve", "move", "reject"} /\ (h = "move" => booking[b].pend # None)
    BY <1>2 DEF ApproveBegin
  <2>2. OpsOK(op') BY <2>1, ReadType
  <2>3. QED BY <1>2, <2>2 DEF ApproveBegin, TypeInv, TypeOK, OpsOK
<1>3. ASSUME NEW b \in Id, RejectBegin(q, b) PROVE TypeInv'
  <2>1. OpsOK(op') BY <1>3, ReadType DEF RejectBegin
  <2>2. QED BY <1>3, <2>1 DEF RejectBegin, TypeInv, TypeOK, OpsOK
<1>4. CASE ApproveCheck(q)
  <2>1. Fits([op[q] EXCEPT !.step = "approveSave"])
    BY <1>1, <1>4 DEF ApproveCheck, At, Fits, Section, Step, Op
  <2>2. OpsOK(op') BY <1>4, <2>1, GotoType, DoneType DEF ApproveCheck, Step
  <2>3. QED BY <1>4, <2>2 DEF ApproveCheck, TypeInv, TypeOK, OpsOK
<1>5. CASE ApproveSave(q)
  <2> DEFINE x == [booking[op[q].b] EXCEPT !.status = "CONFIRMED", !.reviewed = now]
  <2>1. op[q].b \in Id BY <1>1, <1>5 DEF ApproveSave, At, Fits, Section, Step
  <2>2. x \in Row BY <2>1, RowOf DEF Row, BookingStatus, TypeInv, TypeOK
  <2>3. [booking EXCEPT ![op[q].b] = x] \in [Id -> Row] BY <2>2, RowPut
  <2>4. booking' \in {booking, [booking EXCEPT ![op[q].b] = x]}
    BY <1>5, <2>1 DEF ApproveSave, TypeInv, TypeOK
  <2>5. OpsOK(op') BY <1>5, DoneType DEF ApproveSave
  <2>6. QED BY <1>5, <2>3, <2>4, <2>5 DEF ApproveSave, TypeInv, TypeOK, OpsOK
<1>6. CASE MoveCheck(q)
  <2>1. Fits([op[q] EXCEPT !.step = "moveSave"])
    BY <1>1, <1>6 DEF MoveCheck, At, Fits, Section, Step, Op
  <2>2. OpsOK(op') BY <1>6, <2>1, GotoType, DoneType DEF MoveCheck, Step
  <2>3. QED BY <1>6, <2>2 DEF MoveCheck, TypeInv, TypeOK, OpsOK
<1>7. CASE MoveSave(q)
  <2> DEFINE m == Moved(booking[op[q].b], Target(op[q].doc))
             x == [m EXCEPT !.reviewed = now, !.pend = None]
  <2>1. op[q].b \in Id /\ op[q].doc \in Row /\ op[q].doc.pend # None
    BY <1>1, <1>7 DEF MoveSave, At, Fits, Section, Step, Op
  <2>2. m \in Row BY <2>1, RowOf, MovedType, TargetType
  <2>3. x \in Row BY <2>2 DEF Row, TypeInv, TypeOK
  <2>4. [booking EXCEPT ![op[q].b] = x] \in [Id -> Row] BY <2>3, RowPut
  <2>5. booking' \in {booking, [booking EXCEPT ![op[q].b] = x]} BY <1>7 DEF MoveSave
  <2>6. OpsOK(op') BY <1>7, DoneType DEF MoveSave
  <2>7. QED BY <1>7, <2>4, <2>5, <2>6 DEF MoveSave, TypeInv, TypeOK, OpsOK
<1>8. CASE RejectSave(q)
  <2> DEFINE b == op[q].b
             x == [booking[b] EXCEPT !.pend = None]
             y == [booking[b] EXCEPT !.status = "REJECTED", !.reviewed = now]
  <2>1. b \in Id BY <1>1, <1>8 DEF RejectSave, At, Fits, Section, Step
  <2>2. x \in Row BY <2>1, RowOf DEF Row
  <2>3. y \in Row BY <2>1, RowOf DEF Row, BookingStatus, TypeInv, TypeOK
  <2>4. [booking EXCEPT ![b] = x] \in [Id -> Row] /\ [booking EXCEPT ![b] = y] \in [Id -> Row]
    BY <2>2, <2>3, RowPut
  <2>5. booking' \in {booking, [booking EXCEPT ![b] = x], [booking EXCEPT ![b] = y]}
    BY <1>8, <2>1 DEF RejectSave, TypeInv, TypeOK
  <2>6. OpsOK(op') BY <1>8, DoneType DEF RejectSave
  <2>7. QED BY <1>8, <2>4, <2>5, <2>6 DEF RejectSave, TypeInv, TypeOK, OpsOK
<1>9. QED BY <1>2, <1>3, <1>4, <1>5, <1>6, <1>7, <1>8

LEMMA RescheduledType ==
  ASSUME NEW x \in Row, NEW doc, NEW r \in Room, NEW s \in Slot
  PROVE  Rescheduled(x, doc, r, s) \in Row
<1>1. s.from \in Time /\ s.till \in Time BY SlotType
<1> DEFINE m == Moved(x, [room |-> r, from |-> s.from, till |-> s.till])
           p == [room |-> IF r = doc.room THEN None ELSE r, from |-> s.from, till |-> s.till]
<1>2. m \in Row BY <1>1, MovedType
<1>3. [m EXCEPT !.asked = FALSE] \in Row BY <1>2 DEF Row
<1>4. p \in Pending BY <1>1 DEF Pending
<1>5. [x EXCEPT !.pend = p, !.asked = FALSE] \in Row BY <1>4 DEF Row
<1>6. QED BY <1>3, <1>5 DEF Rescheduled

LEMMA RescheduleType ==
  ASSUME TypeInv, NEW q \in Proc,
         \/ \E b \in Id, r \in Room, s \in Slot : RescheduleBegin(q, b, r, s)
         \/ RescheduleCheck(q) \/ RescheduleSave(q)
  PROVE  TypeInv'
<1>1. op[q] \in Op /\ Fits(op[q]) BY OpOf
<1>2. ASSUME NEW b \in Id, NEW r \in Room, NEW s \in Slot, RescheduleBegin(q, b, r, s) PROVE TypeInv'
  <2> DEFINE o == [Idle EXCEPT !.step = "lockMove", !.b = b, !.room = r, !.todo = <<s>>, !.doc = booking[b]]
  <2>1. <<s>> \in Seq(Slot) /\ <<s>> # <<>> OBVIOUS
  <2>2. o \in Op BY <2>1, RowOf, IdleType, IdBound DEF Op, Step
  <2>3. o.step = "lockMove" /\ o.b = b /\ o.room = r /\ o.todo = <<s>> BY DEF Idle
  <2>4. Fits(o) BY <2>1, <2>3 DEF Fits, Section
  <2>5. OpsOK(op') BY <1>2, <2>2, <2>4, PutType DEF RescheduleBegin, TypeInv
  <2>6. QED BY <1>2, <2>5 DEF RescheduleBegin, TypeInv, TypeOK, OpsOK
<1>3. CASE RescheduleCheck(q)
  <2>1. op[q].step = "reschedule" BY <1>3 DEF RescheduleCheck, At
  <2>2. Fits([op[q] EXCEPT !.step = "rescheduleSave"]) /\ Fits([op[q] EXCEPT !.step = "unlock"])
    BY <1>1, <2>1 DEF Fits, Section, Step, Op
  <2>3. OpsOK(op') BY <1>3, <2>2, GotoType DEF RescheduleCheck, Step
  <2>4. QED BY <1>3, <2>3 DEF RescheduleCheck, TypeInv, TypeOK, OpsOK
<1>4. CASE RescheduleSave(q)
  <2> DEFINE x == Rescheduled(booking[op[q].b], op[q].doc, op[q].room, Head(op[q].todo))
  <2>1. /\ op[q].step = "rescheduleSave" /\ op[q].b \in Id /\ op[q].room \in Room
        /\ op[q].todo \in Seq(Slot) /\ op[q].todo # <<>>
    BY <1>1, <1>4 DEF RescheduleSave, At, Fits, Section, Step, Op
  <2>2. x \in Row BY <2>1, RowOf, RescheduledType, HeadTailProperties
  <2>3. booking' \in [Id -> Row] BY <1>4, <2>2, RowPut DEF RescheduleSave
  <2>4. Fits([op[q] EXCEPT !.step = "unlock"]) BY <1>1, <2>1 DEF Fits, Section, Op
  <2>5. OpsOK(op') BY <1>4, <2>4, GotoType DEF RescheduleSave, Step
  <2>6. QED BY <1>4, <2>3, <2>5 DEF RescheduleSave, TypeInv, TypeOK, OpsOK
<1>5. QED BY <1>2, <1>3, <1>4

LEMMA BookerType ==
  ASSUME TypeInv, NEW q \in Proc,
         \/ \E b \in Id : AskBegin(q, b) \/ AskForMaintenance(q, b) \/ CancelBegin(q, b) \/ CheckInBegin(q, b) \/ CheckOutBegin(q, b)
         \/ AskSave(q) \/ CancelSave(q) \/ CheckInSave(q) \/ CheckOutSave(q)
  PROVE  TypeInv'
<1>1. ASSUME NEW b \in Id, AskBegin(q, b) \/ AskForMaintenance(q, b) \/ CancelBegin(q, b) \/ CheckInBegin(q, b) \/ CheckOutBegin(q, b)
      PROVE  TypeInv'
  <2>1. OpsOK(op') BY <1>1, OnType DEF AskBegin, AskForMaintenance, CancelBegin, CheckInBegin, CheckOutBegin
  <2>2. QED BY <1>1, <2>1 DEF AskBegin, AskForMaintenance, CancelBegin, CheckInBegin, CheckOutBegin, TypeInv, TypeOK, OpsOK
<1>2. ASSUME AskSave(q) \/ CancelSave(q) \/ CheckInSave(q) \/ CheckOutSave(q) PROVE TypeInv'
  <2> DEFINE b == op[q].b
  <2>1. op[q].step \in {"ask", "cancel", "checkIn", "checkOut"}
    BY <1>2 DEF AskSave, CancelSave, CheckInSave, CheckOutSave, At
  <2>2. b \in Id BY <2>1, OpOf DEF Fits, Section, Step
  <2>3. /\ [booking[b] EXCEPT !.asked = TRUE] \in Row /\ Cancelled(booking[b]) \in Row
        /\ [booking[b] EXCEPT !.in = TRUE] \in Row /\ [booking[b] EXCEPT !.out = now] \in Row
    <3>1. booking[b] \in Row /\ now \in Time BY <2>2, RowOf DEF TypeInv, TypeOK
    <3>2. Cancelled(booking[b]) \in Row BY <3>1, CancelledType
    <3>3. [booking[b] EXCEPT !.out = now] \in Row BY <3>1 DEF Row
    <3>4. QED BY <3>1, <3>2, <3>3 DEF Row
  <2>4. booking' \in [Id -> Row]
    BY <1>2, <2>2, <2>3 DEF AskSave, CancelSave, CheckInSave, CheckOutSave, TypeInv, TypeOK
  <2>5. OpsOK(op') BY <1>2, DoneType DEF AskSave, CancelSave, CheckInSave, CheckOutSave
  <2>6. QED BY <1>2, <2>4, <2>5 DEF AskSave, CancelSave, CheckInSave, CheckOutSave, TypeInv, TypeOK, OpsOK
<1>3. QED BY <1>1, <1>2

LEMMA AdministrationType ==
  ASSUME TypeInv, Administration PROVE TypeInv'
<1>1. ASSUME NEW s \in Id, CancelSeries(s) PROVE TypeInv'
  <2>1. booking' \in [Id -> Row] BY <1>1, RowOf, CancelledType DEF CancelSeries
  <2>2. QED BY <1>1, <2>1 DEF CancelSeries, TypeInv, TypeOK, OpsOK
<1>2. ASSUME NEW b \in Id, CancelForMaintenance(b) PROVE TypeInv'
  <2>1. booking' \in [Id -> Row]
    BY <1>2, RowOf, CancelledType DEF CancelForMaintenance, TypeInv, TypeOK
  <2>2. QED BY <1>2, <2>1 DEF CancelForMaintenance, TypeInv, TypeOK, OpsOK
<1>3. ASSUME NEW r \in Room, ReleaseNoShows(r) PROVE TypeInv'
  <2>1. \A b \in Id : [booking[b] EXCEPT !.status = "CANCELLED"] \in Row
    BY RowOf DEF Row, BookingStatus
  <2>2. booking' \in [Id -> Row] BY <1>3, <2>1, RowOf DEF ReleaseNoShows
  <2>3. QED BY <1>3, <2>2 DEF ReleaseNoShows, TypeInv, TypeOK, OpsOK
<1>4. ASSUME NEW r \in Room, SetRoom(r) \/ RemoveRoom(r) PROVE TypeInv'
  <2>1. open' \in [Room -> BOOLEAN] BY <1>4 DEF SetRoom, RemoveRoom, TypeInv, TypeOK
  <2>2. window' \subseteq Window BY <1>4 DEF SetRoom, RemoveRoom, TypeInv, TypeOK
  <2>3. QED BY <1>4, <2>1, <2>2 DEF SetRoom, RemoveRoom, TypeInv, TypeOK, OpsOK
<1>5. ASSUME NEW s \in Slot, NEW r \in Room, CreateMaintenance(r, s) PROVE TypeInv'
  <2>1. PeriodOf(r, s) \in Window BY SlotType DEF PeriodOf, Window
  <2>2. QED BY <1>5, <2>1 DEF CreateMaintenance, TypeInv, TypeOK, OpsOK
<1>6. ASSUME NEW w \in window, NEW s \in Slot, UpdateMaintenance(w, s) PROVE TypeInv'
  <2>1. PeriodOf(w.room, s) \in Window BY SlotType DEF PeriodOf, Window, TypeInv, TypeOK
  <2>2. QED BY <1>6, <2>1 DEF UpdateMaintenance, TypeInv, TypeOK, OpsOK
<1>7. ASSUME NEW w \in window, RemoveMaintenance(w) PROVE TypeInv'
  BY <1>7 DEF RemoveMaintenance, TypeInv, TypeOK, OpsOK
<1>8. QED BY <1>1, <1>2, <1>3, <1>4, <1>5, <1>6, <1>7 DEF Administration

LEMMA RequestType == ASSUME TypeInv, NEW q \in Proc, Request(q) PROVE TypeInv'
BY CreateBeginType, RescheduleType, ReviewType, BookerType DEF Request, ImportRow

LEMMA ContinueType == ASSUME TypeInv, NEW q \in Proc, Continue(q) PROVE TypeInv'
BY LockType, CreateType, RescheduleType, ReviewType, BookerType DEF Continue

LEMMA NextType == ASSUME TypeInv, [Next]_vars PROVE TypeInv'
<1>1. ASSUME NEW q \in Proc, Crash(q) PROVE TypeInv'
  BY <1>1, DoneType DEF Crash, TypeInv, TypeOK, OpsOK
<1>2. ASSUME NEW r \in Room, ExpireLock(r) PROVE TypeInv'
  BY <1>2 DEF ExpireLock, TypeInv, TypeOK, OpsOK
<1>3. CASE Tick
  <2>1. now' \in Time BY <1>3, RoomConstantsOK DEF Tick, TypeInv, TypeOK, Time
  <2>2. QED BY <1>3, <2>1 DEF Tick, TypeInv, TypeOK, OpsOK
<1>4. CASE UNCHANGED vars
  BY <1>4 DEF vars, TypeInv, TypeOK, OpsOK
<1>5. QED BY <1>1, <1>2, <1>3, <1>4, RequestType, ContinueType, AdministrationType DEF Next

LEMMA InitType == ASSUME Init PROVE TypeInv
BY BlankType, IdleType, RoomConstantsOK DEF Init, TypeInv, TypeOK, OpsOK, Time

\* Rows, and the copies of rows that handlers carry, stay within their schema, and
\* a handler carries what its step needs (all of room-bookings.service.ts).
THEOREM RoomTypeCorrect == Spec => [](TypeOK /\ OpsOK(op))
<1>1. Init => TypeInv BY InitType
<1>2. TypeInv /\ [Next]_vars => TypeInv' BY NextType
<1>3. QED BY <1>1, <1>2, PTL DEF Spec, TypeInv

-----------------------------------------------------------------------------
(***************************************************************************)
(* Decisions stand, and what steps leave alone.                            *)
(***************************************************************************)

SameSlot(x, y) == x.room = y.room /\ x.from = y.from /\ x.till = y.till

\* A step that neither approves nor moves a booking.
Calm(x, y) ==
  /\ x.status # "NONE" => y.status # "NONE"
  /\ y.status = "CONFIRMED" => x.status = "CONFIRMED" /\ SameSlot(x, y) /\ (x.out = None \/ y.out = x.out)
  /\ x.status # "NONE" /\ y.status = "PENDING" => x.status = "PENDING" /\ SameSlot(x, y)
  /\ x.status \notin {"NONE", "PENDING"} => y.status \in {x.status, "CANCELLED"}

AllCalm == \A b \in Id : Calm(booking[b], booking'[b])

Mover(q) == ApproveSave(q) \/ MoveSave(q) \/ RescheduleSave(q)

LEMMA CalmRow ==
  ASSUME TypeInv, NEW b, NEW y, b \in Id => Calm(booking[b], y), booking' = [booking EXCEPT ![b] = y]
  PROVE  AllCalm
BY DEF AllCalm, Calm, SameSlot, TypeInv, TypeOK

LEMMA CalmSame == ASSUME booking' = booking PROVE AllCalm
BY DEF AllCalm, Calm, SameSlot

LEMMA CalmCancelled == ASSUME NEW x \in Row PROVE Calm(x, Cancelled(x))
BY DEF Calm, Cancelled, Row

LEMMA OutOnlyOnce ==
  ASSUME TypeInv, NEW q \in Proc, CheckOutSave(q), booking[op[q].b].out = None PROVE AllCalm
<1> DEFINE b == op[q].b
           y == [booking[b] EXCEPT !.out = now]
<1>1. b \in Id => Calm(booking[b], y) BY RowOf DEF Calm, SameSlot, Row
<1>2. booking' = [booking EXCEPT ![b] = y]
  BY DEF CheckOutSave, TypeInv, TypeOK
<1>3. QED BY <1>1, <1>2, CalmRow

LEMMA DecideCalm ==
  ASSUME TypeInv, NEW q \in Proc, RejectSave(q) PROVE AllCalm
<1> DEFINE b == op[q].b
           x == [booking[b] EXCEPT !.pend = None]
           y == [booking[b] EXCEPT !.status = "REJECTED", !.reviewed = now]
<1>1. b \in Id BY OpOf DEF RejectSave, At, Fits, Section, Step
<1>2. booking[b] \in Row BY <1>1, RowOf
<1>3. CASE booking' = booking BY <1>3, CalmSame
<1>4. CASE booking' = [booking EXCEPT ![b] = x]
  <2>1. Calm(booking[b], x) BY <1>2 DEF Calm, SameSlot, Row
  <2>2. QED BY <1>4, <2>1, CalmRow
<1>5. CASE Reviewable(b) /\ booking' = [booking EXCEPT ![b] = y]
  <2>1. Calm(booking[b], y) BY <1>2, <1>5 DEF Calm, SameSlot, Row, Reviewable
  <2>2. QED BY <1>5, <2>1, CalmRow
<1>6. QED BY <1>1, <1>3, <1>4, <1>5 DEF RejectSave, TypeInv, TypeOK

LEMMA InsertCalm ==
  ASSUME TypeInv, NEW q \in Proc, CreateInsert(q) PROVE AllCalm
<1> DEFINE i == Head(op[q].ids)
           y == NewBooking(op[q].room, Head(op[q].todo), op[q].b)
<1>1. CASE booking' = booking BY <1>1, CalmSame
<1>2. CASE booking[i].status = "NONE" /\ booking' = [booking EXCEPT ![i] = y]
  <2>1. y.status = "PENDING" BY DEF NewBooking, Blank
  <2>2. Calm(booking[i], y) BY <1>2, <2>1 DEF Calm
  <2>3. QED BY <1>2, <2>2, CalmRow
<1>3. QED BY <1>1, <1>2 DEF CreateInsert

LEMMA BookerCalm ==
  ASSUME TypeInv, NEW q \in Proc, AskSave(q) \/ CheckInSave(q) PROVE AllCalm
<1> DEFINE b == op[q].b
<1>1. b \in Id BY OpOf DEF AskSave, CheckInSave, At, Fits, Section, Step
<1>2. booking[b] \in Row BY <1>1, RowOf
<1>3. Calm(booking[b], [booking[b] EXCEPT !.asked = TRUE]) BY <1>2 DEF Calm, SameSlot, Row
<1>4. Calm(booking[b], [booking[b] EXCEPT !.in = TRUE]) BY <1>2 DEF Calm, SameSlot, Row
<1>5. booking' \in {[booking EXCEPT ![b] = [booking[b] EXCEPT !.asked = TRUE]],
                    [booking EXCEPT ![b] = [booking[b] EXCEPT !.in = TRUE]]}
  BY <1>1 DEF AskSave, CheckInSave, TypeInv, TypeOK
<1>6. QED BY <1>3, <1>4, <1>5, CalmRow

LEMMA CancelCalm ==
  ASSUME TypeInv, NEW q \in Proc, CancelSave(q) PROVE AllCalm
<1>1. op[q].b \in Id BY OpOf DEF CancelSave, At, Fits, Section, Step
<1>2. Calm(booking[op[q].b], Cancelled(booking[op[q].b])) BY <1>1, RowOf, CalmCancelled
<1>3. booking' = [booking EXCEPT ![op[q].b] = Cancelled(booking[op[q].b])]
  BY <1>1 DEF CancelSave, TypeInv, TypeOK
<1>4. QED BY <1>2, <1>3, CalmRow

LEMMA AdministrationCalm ==
  ASSUME TypeInv, Administration PROVE AllCalm
<1>1. \A b \in Id : Calm(booking[b], booking[b]) BY DEF Calm, SameSlot
<1>2. \A b \in Id : Calm(booking[b], Cancelled(booking[b])) BY RowOf, CalmCancelled
<1>3. \A b \in Id : Calm(booking[b], [booking[b] EXCEPT !.status = "CANCELLED"])
  <2>1. ASSUME NEW b \in Id PROVE Calm(booking[b], [booking[b] EXCEPT !.status = "CANCELLED"])
    <3>1. booking[b] \in Row BY RowOf
    <3>2. [booking[b] EXCEPT !.status = "CANCELLED"].status = "CANCELLED" BY <3>1 DEF Row
    <3>3. QED BY <3>2 DEF Calm
  <2>2. QED BY <2>1
<1>4. ASSUME NEW s \in Id, CancelSeries(s) PROVE AllCalm
  BY <1>1, <1>2, <1>4 DEF CancelSeries, AllCalm
<1>5. ASSUME NEW b \in Id, CancelForMaintenance(b) PROVE AllCalm
  BY <1>1, <1>2, <1>5 DEF CancelForMaintenance, AllCalm, TypeInv, TypeOK
<1>6. ASSUME NEW r \in Room, ReleaseNoShows(r) PROVE AllCalm
  BY <1>1, <1>3, <1>6 DEF ReleaseNoShows, AllCalm
<1>7. CASE booking' = booking BY <1>7, CalmSame
<1>8. QED
  BY <1>4, <1>5, <1>6, <1>7
  DEF Administration, SetRoom, RemoveRoom, CreateMaintenance, UpdateMaintenance, RemoveMaintenance

LEMMA ContinueCalm ==
  ASSUME TypeInv, NEW q \in Proc, Continue(q), ~Mover(q), ~CheckOutSave(q) PROVE AllCalm
<1>1. CASE booking' = booking BY <1>1, CalmSame
<1>2. QED
  BY <1>1, InsertCalm, DecideCalm, BookerCalm, CancelCalm
  DEF Continue, Mover, Acquire, Retry, GiveUp, Unlock, CreateCheck, CreateRefuse, RescheduleCheck,
      ApproveCheck, MoveCheck

\* Every step is calm but for the three that decide or move, and check-out.
LEMMA CalmUnless ==
  ASSUME TypeInv, [Next]_vars PROVE AllCalm \/ \E q \in Proc : Mover(q) \/ CheckOutSave(q)
<1>1. ASSUME NEW q \in Proc, Request(q) PROVE booking' = booking
  BY <1>1 DEF Request, ImportRow, CreateBegin, RescheduleBegin, ApproveBegin, RejectBegin, AskBegin, AskForMaintenance, CancelBegin,
     CheckInBegin, CheckOutBegin
<1>2. ASSUME NEW q \in Proc, Crash(q) PROVE booking' = booking BY <1>2 DEF Crash
<1>3. ASSUME NEW r \in Room, ExpireLock(r) PROVE booking' = booking BY <1>3 DEF ExpireLock
<1>4. CASE Tick \/ UNCHANGED vars BY <1>4, CalmSame DEF Tick, vars
<1>5. QED BY <1>1, <1>2, <1>3, <1>4, ContinueCalm, AdministrationCalm, CalmSame DEF Next

\* A booking turned down or cancelled is never taken up again, and an approved one
\* is at most cancelled, whatever handlers race (reviewPending, cancelForMaintenance,
\* releaseNoShowBookings).
THEOREM DecisionsSafe == Spec => DecisionsStand
<1> DEFINE Stands == \A b \in Id : booking'[b].status # booking[b].status =>
                       booking[b].status \in {"NONE", "PENDING"} \/ booking'[b].status = "CANCELLED"
<1>1. ASSUME TypeInv, [Next]_vars PROVE Stands
  <2>1. CASE AllCalm BY <2>1 DEF AllCalm, Calm
  <2>2. ASSUME NEW q \in Proc, ApproveSave(q) PROVE Stands
    BY <1>1, <2>2 DEF ApproveSave, Reviewable, TypeInv, TypeOK, Row
  <2>3. ASSUME NEW q \in Proc, MoveSave(q) PROVE Stands
    <3>1. \A x \in Row : [Moved(x, Target(op[q].doc)) EXCEPT !.reviewed = now, !.pend = None].status = x.status
      BY DEF Moved, Row
    <3>2. QED BY <1>1, <2>3, <3>1, RowOf DEF MoveSave, TypeInv, TypeOK
  <2>4. ASSUME NEW q \in Proc, RescheduleSave(q) PROVE Stands
    <3>1. \A x \in Row : Rescheduled(x, op[q].doc, op[q].room, Head(op[q].todo)).status = x.status
      BY DEF Rescheduled, Moved, Row
    <3>2. QED BY <1>1, <2>4, <3>1, RowOf DEF RescheduleSave, TypeInv, TypeOK
  <2>5. ASSUME NEW q \in Proc, CheckOutSave(q) PROVE Stands
    BY <1>1, <2>5 DEF CheckOutSave, TypeInv, TypeOK, Row
  <2>6. QED BY <1>1, <2>1, <2>2, <2>3, <2>4, <2>5, CalmUnless DEF Mover
<1>2. TypeInv /\ [Next]_vars => [Stands]_vars BY <1>1
<1>3. QED BY <1>2, RoomTypeCorrect, PTL DEF Spec, DecisionsStand, TypeInv

-----------------------------------------------------------------------------
(***************************************************************************)
(* The lock of a room.  While no handler outlives its lock document, a     *)
(* handler in its section means that the document exists.                  *)
(***************************************************************************)
LockInv ==
  /\ \A q \in Proc, r \in Room : InSection(q, r) => lock[r]
  /\ SectionExclusive

\* Process q neither takes nor frees a lock, and enters no section.
Outside(q) ==
  /\ lock' = lock
  /\ \A p \in Proc \ {q} : op'[p] = op[p]
  /\ op'[q].step \in Section => op[q].step \in Section /\ op'[q].room = op[q].room

LEMMA OutsideLock == ASSUME LockInv, NEW q \in Proc, Outside(q) PROVE LockInv'
BY DEF LockInv, SectionExclusive, InSection, Outside

LEMMA SameLock == ASSUME LockInv, op' = op, lock' = lock PROVE LockInv'
BY DEF LockInv, SectionExclusive, InSection

LEMMA GotoFrame ==
  ASSUME TypeInv, NEW q \in Proc, NEW h, Goto(q, h)
  PROVE  /\ \A p \in Proc \ {q} : op'[p] = op[p]
         /\ op'[q] = [op[q] EXCEPT !.step = h]
         /\ op'[q].step = h /\ op'[q].room = op[q].room /\ op'[q].b = op[q].b /\ op'[q].doc = op[q].doc
<1>1. op[q] \in Op /\ op \in [Proc -> Op] BY DEF TypeInv, OpsOK
<1>2. QED BY <1>1 DEF Goto, Op

LEMMA DoneFrame ==
  ASSUME TypeInv, NEW q \in Proc, Done(q)
  PROVE  (\A p \in Proc \ {q} : op'[p] = op[p]) /\ op'[q].step = "idle"
BY DEF Done, Idle, TypeInv, OpsOK

LEMMA OnFrame ==
  ASSUME TypeInv, NEW q \in Proc, NEW h, NEW b, On(q, h, b)
  PROVE  (\A p \in Proc \ {q} : op'[p] = op[p]) /\ op'[q].step = h /\ op'[q].b = b
BY DEF On, Idle, TypeInv, OpsOK

LEMMA ReadFrame ==
  ASSUME TypeInv, NEW q \in Proc, NEW h, NEW b, Read(q, h, b)
  PROVE  /\ \A p \in Proc \ {q} : op'[p] = op[p]
         /\ op'[q].step = h /\ op'[q].b = b /\ op'[q].doc = booking[b]
BY DEF Read, Idle, TypeInv, OpsOK

LEMMA RequestLock ==
  ASSUME TypeInv, LockInv, NEW q \in Proc, Request(q) PROVE LockInv'
<1>1. ASSUME NEW r \in Room, NEW occ \in Occurrences, CreateBegin(q, r, occ) PROVE Outside(q)
  BY <1>1 DEF CreateBegin, Outside, Idle, Section, TypeInv, OpsOK
<1>2. ASSUME NEW b \in Id, NEW r \in Room, NEW s \in Slot, RescheduleBegin(q, b, r, s) PROVE Outside(q)
  BY <1>2 DEF RescheduleBegin, Outside, Idle, Section, TypeInv, OpsOK
<1>3. ASSUME NEW b \in Id, ApproveBegin(q, b) PROVE Outside(q)
  BY <1>3, ReadFrame DEF ApproveBegin, Outside, Section
<1>4. ASSUME NEW b \in Id, RejectBegin(q, b) PROVE Outside(q)
  BY <1>4, ReadFrame DEF RejectBegin, Outside, Section
<1>5. ASSUME NEW b \in Id, AskBegin(q, b) \/ AskForMaintenance(q, b) \/ CancelBegin(q, b) \/ CheckInBegin(q, b) \/ CheckOutBegin(q, b)
      PROVE  Outside(q)
  <2>1. PICK h \in {"ask", "cancel", "checkIn", "checkOut"} : On(q, h, b)
    BY <1>5 DEF AskBegin, AskForMaintenance, CancelBegin, CheckInBegin, CheckOutBegin
  <2>2. lock' = lock BY <1>5 DEF AskBegin, AskForMaintenance, CancelBegin, CheckInBegin, CheckOutBegin
  <2>3. QED BY <2>1, <2>2, OnFrame DEF Outside, Section
<1>6. Outside(q) BY <1>1, <1>2, <1>3, <1>4, <1>5 DEF Request, ImportRow
<1>7. QED BY <1>6, OutsideLock

LEMMA ContinueLock ==
  ASSUME TypeInv, LockInv, NEW q \in Proc, Continue(q) PROVE LockInv'
<1>0. op \in [Proc -> Op] /\ lock \in [Room -> BOOLEAN] BY DEF TypeInv, TypeOK, OpsOK
<1>1. CASE Acquire(q)
  <2> DEFINE r == op[q].room
             h == IF At(q, "lockCreate") THEN "create" ELSE "reschedule"
  <2>1. r \in Room BY <1>1, OpOf DEF Acquire, Locking, Fits
  <2>2. ~lock[r] /\ lock' = [lock EXCEPT ![r] = TRUE] BY <1>1 DEF Acquire, Lockable
  <2>3. /\ \A p \in Proc \ {q} : op'[p] = op[p]
        /\ op'[q].room = r
    BY <1>1, GotoFrame DEF Acquire
  <2>4. \A p \in Proc : ~InSection(p, r) BY <2>1, <2>2 DEF LockInv
  <2>5. ASSUME NEW p \in Proc, NEW t \in Room, InSection(p, t)' PROVE lock'[t]
    BY <1>0, <2>1, <2>2, <2>3, <2>5 DEF InSection, LockInv
  <2>6. ASSUME NEW p1 \in Proc, NEW p2 \in Proc, NEW t \in Room, InSection(p1, t)', InSection(p2, t)'
        PROVE p1 = p2
    BY <2>3, <2>4, <2>6 DEF InSection, LockInv, SectionExclusive
  <2>7. QED BY <2>5, <2>6 DEF LockInv, SectionExclusive
<1>2. CASE Unlock(q)
  <2> DEFINE r == op[q].room
  <2>1. r \in Room /\ InSection(q, r) BY <1>2, OpOf DEF Unlock, At, Fits, Section, InSection
  <2>2. lock' = [lock EXCEPT ![r] = FALSE] BY <1>2 DEF Unlock
  <2>3. (\A p \in Proc \ {q} : op'[p] = op[p]) /\ op'[q].step = "idle" BY <1>2, DoneFrame DEF Unlock
  <2>4. ASSUME NEW p \in Proc, NEW t \in Room, InSection(p, t)' PROVE p # q /\ InSection(p, t) /\ t # r
    BY <2>1, <2>3, <2>4 DEF InSection, Section, LockInv, SectionExclusive
  <2>5. ASSUME NEW p \in Proc, NEW t \in Room, InSection(p, t)' PROVE lock'[t]
    BY <1>0, <2>2, <2>4, <2>5 DEF LockInv
  <2>6. QED BY <2>4, <2>5 DEF LockInv, SectionExclusive
<1>3. CASE CreateCheck(q) \/ CreateInsert(q)
  <2>1. op[q].step \in Section /\ op[q] \in Op BY <1>0, <1>3 DEF CreateCheck, CreateInsert, At, Section
  <2>2. lock' = lock BY <1>3 DEF CreateCheck, CreateInsert
  <2>3. (\A p \in Proc \ {q} : op'[p] = op[p]) /\ op'[q].room = op[q].room
    <3>1. CASE CreateCheck(q) BY <1>0, <2>1, <3>1 DEF CreateCheck, Op
    <3>2. CASE CreateInsert(q) BY <1>0, <2>1, <3>2 DEF CreateInsert, Goto, Op
    <3>3. QED BY <1>3, <3>1, <3>2
  <2>4. QED BY <2>1, <2>2, <2>3, OutsideLock DEF Outside
<1>4. CASE CreateRefuse(q) \/ RescheduleCheck(q) \/ RescheduleSave(q)
  <2>1. op[q].step \in Section BY <1>4 DEF CreateRefuse, RescheduleCheck, RescheduleSave, At, Section
  <2>2. lock' = lock BY <1>4 DEF CreateRefuse, RescheduleCheck, RescheduleSave
  <2>3. \E h : Goto(q, h) BY <1>4 DEF CreateRefuse, RescheduleCheck, RescheduleSave
  <2>4. QED BY <2>1, <2>2, <2>3, GotoFrame, OutsideLock DEF Outside
<1>5. CASE Retry(q)
  <2>1. op' = [op EXCEPT ![q] = [op[q] EXCEPT !.tries = Attempt(op[q].tries)]] /\ lock' = lock
    BY <1>0, <1>5 DEF Retry
  <2>2. op'[q].step = op[q].step /\ op'[q].room = op[q].room BY <1>0, <2>1 DEF Op
  <2>3. QED BY <1>0, <2>1, <2>2, OutsideLock DEF Outside
<1>6. CASE ApproveCheck(q) \/ MoveCheck(q)
  <2>1. lock' = lock /\ (Done(q) \/ Goto(q, "approveSave") \/ Goto(q, "moveSave"))
    BY <1>6 DEF ApproveCheck, MoveCheck
  <2>2. QED BY <2>1, DoneFrame, GotoFrame, OutsideLock DEF Outside, Section
<1>7. CASE \/ GiveUp(q) \/ ApproveSave(q) \/ MoveSave(q) \/ RejectSave(q) \/ AskSave(q) \/ CancelSave(q)
           \/ CheckInSave(q) \/ CheckOutSave(q)
  <2>1. lock' = lock /\ Done(q)
    BY <1>7 DEF GiveUp, ApproveSave, MoveSave, RejectSave, AskSave, CancelSave, CheckInSave, CheckOutSave
  <2>2. QED BY <2>1, DoneFrame, OutsideLock DEF Outside, Section
<1>8. QED BY <1>1, <1>2, <1>3, <1>4, <1>5, <1>6, <1>7 DEF Continue

LEMMA NextLock ==
  ASSUME TypeInv, LockInv, [Next]_vars, "slow" \notin Events PROVE LockInv'
<1>1. ASSUME NEW q \in Proc, Crash(q) PROVE LockInv'
  BY <1>1, DoneFrame, OutsideLock DEF Crash, Outside, Section
<1>2. ASSUME NEW r \in Room, ExpireLock(r) PROVE LockInv'
  <2>1. op' = op /\ lock' = [lock EXCEPT ![r] = FALSE] BY <1>2 DEF ExpireLock
  <2>2. \A q \in Proc : ~InSection(q, r) BY <1>2 DEF ExpireLock, TooOld
  <2>3. \A q \in Proc, t \in Room : InSection(q, t)' <=> InSection(q, t) BY <2>1 DEF InSection
  <2>4. \A t \in Room : t # r => lock'[t] = lock[t] BY <2>1 DEF TypeInv, TypeOK
  <2>5. QED BY <2>2, <2>3, <2>4 DEF LockInv, SectionExclusive
<1>3. CASE Administration
  BY <1>3, SameLock DEF Administration, CancelSeries, CancelForMaintenance, ReleaseNoShows, SetRoom,
     RemoveRoom, CreateMaintenance, UpdateMaintenance, RemoveMaintenance
<1>4. CASE Tick \/ UNCHANGED vars BY <1>4, SameLock DEF Tick, vars
<1>5. QED BY <1>1, <1>2, <1>3, <1>4, RequestLock, ContinueLock DEF Next

\* As long as no handler takes longer than its lock document lives, one handler at
\* a time checks and writes in a room, though the lock has no owner and crashes leave
\* it behind (withRoomLock).
THEOREM LockExcludes == ASSUME "slow" \notin Events PROVE Spec => []SectionExclusive
<1>1. Init => LockInv
  BY DEF Init, Idle, LockInv, SectionExclusive, InSection, Section
<1>2. TypeInv /\ LockInv /\ [Next]_vars => LockInv' BY NextLock
<1>3. LockInv => SectionExclusive BY DEF LockInv
<1>4. QED BY <1>1, <1>2, <1>3, RoomTypeCorrect, PTL DEF Spec, TypeInv

-----------------------------------------------------------------------------
(***************************************************************************)
(* No double booking.  Approval checks and writes without the lock, so two *)
(* processes that approve or reschedule can double-book (run room_overlap).*)
(* With one such process, what it has checked holds until it writes: all   *)
(* other handlers only give time back.                                     *)
(***************************************************************************)
Moves(q) == {"approve", "reschedule"} \cap Runs[q] # {}
OneMover == \A p, q \in Proc : Moves(p) /\ Moves(q) => p = q
OneCheckOut == \A p, q \in Proc : "checkOut" \in Runs[p] /\ "checkOut" \in Runs[q] => p = q

MoveSteps == {"approve", "approveSave", "move", "moveSave", "lockMove", "reschedule", "rescheduleSave"}

\* No booking but b uses the slot s of room r.
Free(r, s, b) ==
  \A c \in Id \ {b}, t \in Time :
    s.from <= t /\ t < s.till /\ booking[c].room = r => ~InUse(booking[c], t)

Good(q) ==
  LET step == op[q].step
      b == op[q].b
      doc == op[q].doc
  IN  /\ step \in MoveSteps => Moves(q)
      /\ step = "checkOut" => "checkOut" \in Runs[q] /\ booking[b].out = None
      /\ step \in {"approve", "approveSave"} =>
           booking[b].status # "NONE" /\ (booking[b].status = "PENDING" => SameSlot(booking[b], doc))
      /\ step = "approveSave" => Free(doc.room, doc, b)
      /\ step = "moveSave" => Free(Target(doc).room, Target(doc), b)
      /\ step \in {"lockMove", "reschedule", "rescheduleSave"} /\ doc.status = "PENDING" =>
           booking[b].status # "CONFIRMED"

MoveInv == NoDoubleBooking /\ \A q \in Proc : Good(q)

LEMMA TimeInt == Time \subseteq Int
BY RoomConstantsOK DEF Time

LEMMA InUseCalm ==
  ASSUME NEW x, NEW y, NEW t, Calm(x, y), InUse(y, t) PROVE InUse(x, t) /\ x.room = y.room
BY DEF Calm, SameSlot, InUse

LEMMA FreeCalm ==
  ASSUME AllCalm, NEW r, NEW s, NEW b, Free(r, s, b) PROVE Free(r, s, b)'
<1> SUFFICES ASSUME NEW c \in Id \ {b}, NEW t \in Time, s.from <= t, t < s.till, booking'[c].room = r,
                    InUse(booking'[c], t)
             PROVE  FALSE
  BY DEF Free
<1>1. InUse(booking[c], t) /\ booking[c].room = r BY InUseCalm DEF AllCalm
<1>2. QED BY <1>1 DEF Free

LEMMA DoubleCalm == ASSUME NoDoubleBooking, AllCalm PROVE NoDoubleBooking'
<1> SUFFICES ASSUME NEW a \in Id, NEW b \in Id, NEW t \in Time,
                    InUse(booking'[a], t), InUse(booking'[b], t), booking'[a].room = booking'[b].room
             PROVE  a = b
  BY DEF NoDoubleBooking
<1>1. InUse(booking[a], t) /\ booking[a].room = booking'[a].room BY InUseCalm DEF AllCalm
<1>2. InUse(booking[b], t) /\ booking[b].room = booking'[b].room BY InUseCalm DEF AllCalm
<1>3. QED BY <1>1, <1>2 DEF NoDoubleBooking

\* A booking is written into a slot that is free.
LEMMA PlaceSafe ==
  ASSUME TypeInv, NoDoubleBooking, NEW b, NEW y, booking' = [booking EXCEPT ![b] = y],
         b \in Id /\ y.status = "CONFIRMED" => Free(y.room, y, b)
  PROVE  NoDoubleBooking'
<1> SUFFICES ASSUME NEW c \in Id, NEW d \in Id, NEW t \in Time, c # d,
                    InUse(booking'[c], t), InUse(booking'[d], t), booking'[c].room = booking'[d].room
             PROVE  FALSE
  BY DEF NoDoubleBooking
<1>1. \A e \in Id : booking'[e] = IF e = b THEN y ELSE booking[e] BY DEF TypeInv, TypeOK
<1>2. CASE c # b /\ d # b BY <1>1, <1>2 DEF NoDoubleBooking
<1>3. CASE c = b
  <2>1. y.status = "CONFIRMED" /\ y.from <= t /\ t < y.till BY <1>1, <1>3 DEF InUse
  <2>2. InUse(booking[d], t) /\ booking[d].room = y.room /\ d \in Id \ {b} BY <1>1, <1>3
  <2>3. QED BY <1>3, <2>1, <2>2 DEF Free
<1>4. CASE d = b
  <2>1. y.status = "CONFIRMED" /\ y.from <= t /\ t < y.till BY <1>1, <1>4 DEF InUse
  <2>2. InUse(booking[c], t) /\ booking[c].room = y.room /\ c \in Id \ {b} BY <1>1, <1>4
  <2>3. QED BY <1>4, <2>1, <2>2 DEF Free
<1>5. QED BY <1>2, <1>3, <1>4

\* What the check finds.
LEMMA CheckedFree ==
  ASSUME TypeInv, NEW r, NEW s, s.from \in Time, s.till \in Time, NEW b, NoOverlap(r, s, b)
  PROVE  Free(r, s, b)
<1> SUFFICES ASSUME NEW c \in Id \ {b}, NEW t \in Time, s.from <= t, t < s.till, booking[c].room = r,
                    InUse(booking[c], t)
             PROVE  FALSE
  BY DEF Free
<1> DEFINE x == booking[c]
<1>1. x.from \in Int /\ x.till \in Int /\ x.out \in Time \cup {None} BY RowOf, TimeInt DEF Row
<1>2. t \in Int /\ s.from \in Int /\ s.till \in Int BY TimeInt
<1>3. x.from < s.till BY <1>1, <1>2 DEF InUse
<1>4. StillCovers(x, s.from)
  <2>1. CASE x.out = None BY <1>1, <1>2, <2>1 DEF InUse, StillCovers
  <2>2. CASE x.out # None
    <3>1. x.out \in Int BY <1>1, <2>2, TimeInt
    <3>2. x.from <= t /\ t < x.out BY <2>2 DEF InUse
    <3>3. QED BY <1>1, <1>2, <2>2, <3>1, <3>2 DEF StillCovers
  <2>3. QED BY <2>1, <2>2
<1>5. QED BY <1>3, <1>4 DEF NoOverlap, Clashes, InUse

-----------------------------------------------------------------------------
(* A handler that does not move keeps its invariant. *)

LEMMA GoodStays ==
  ASSUME NEW p \in Proc, Good(p), op'[p] = op[p], op[p].b \in Id \/ op[p].step \notin MoveSteps,
         AllCalm \/ ~Moves(p),
         op[p].step = "checkOut" /\ booking[op[p].b].out = None => booking'[op[p].b].out = None
  PROVE  Good(p)'
<1> DEFINE step == op[p].step
           b == op[p].b
           doc == op[p].doc
<1>1. CASE step \notin MoveSteps BY <1>1 DEF Good, MoveSteps
<1>2. CASE step \in MoveSteps
  <2>1. Moves(p) /\ AllCalm /\ b \in Id /\ step # "checkOut" BY <1>2 DEF Good, MoveSteps
  <2>2. Calm(booking[b], booking'[b]) BY <2>1 DEF AllCalm
  <2>3. step \in {"approve", "approveSave"} =>
          booking'[b].status # "NONE" /\ (booking'[b].status = "PENDING" => SameSlot(booking'[b], doc))
    BY <2>2 DEF Good, Calm, SameSlot
  <2>4. step = "approveSave" => Free(doc.room, doc, b)' BY <2>1, FreeCalm DEF Good
  <2>5. step = "moveSave" => Free(Target(doc).room, Target(doc), b)' BY <2>1, FreeCalm DEF Good
  <2>6. step \in {"lockMove", "reschedule", "rescheduleSave"} /\ doc.status = "PENDING" =>
          booking'[b].status # "CONFIRMED"
    BY <2>2 DEF Good, Calm
  <2>7. QED BY <2>1, <2>3, <2>4, <2>5, <2>6 DEF Good
<1>3. QED BY <1>1, <1>2

LEMMA GoodElsewhere ==
  ASSUME NEW p \in Proc, op'[p].step \notin MoveSteps \cup {"checkOut"} PROVE Good(p)'
BY DEF Good, MoveSteps

LEMMA CarriesId == ASSUME TypeInv, NEW p \in Proc PROVE op[p].b \in Id \/ op[p].step \notin MoveSteps
BY OpOf DEF Fits, MoveSteps, Step, Section

\* A time that is out once stays so, but for check-out.
LEMMA OutKept ==
  ASSUME TypeInv, [Next]_vars, \A q \in Proc : ~CheckOutSave(q), NEW b \in Id, booking[b].out = None
  PROVE  booking'[b].out = None
<1>0. booking \in [Id -> Row] /\ \A x \in Row : x.out = None \/ x.out # None BY DEF TypeInv, TypeOK
<1>1. ASSUME NEW q \in Proc, CreateInsert(q) PROVE booking'[b].out = None
  <2>1. \A r, s, n : NewBooking(r, s, n).out = None BY DEF NewBooking, Blank
  <2>2. QED BY <1>0, <1>1, <2>1 DEF CreateInsert
<1>2. ASSUME NEW q \in Proc, ApproveSave(q) \/ RejectSave(q) PROVE booking'[b].out = None
  BY <1>0, <1>2 DEF ApproveSave, RejectSave, Row
<1>3. ASSUME NEW q \in Proc, MoveSave(q) PROVE booking'[b].out = None
  <2>1. \A x \in Row : [Moved(x, Target(op[q].doc)) EXCEPT !.reviewed = now, !.pend = None].out = x.out
    BY DEF Moved, Row
  <2>2. QED BY <1>0, <1>3, <2>1 DEF MoveSave
<1>4. ASSUME NEW q \in Proc, RescheduleSave(q) PROVE booking'[b].out = None
  <2>1. \A x \in Row : Rescheduled(x, op[q].doc, op[q].room, Head(op[q].todo)).out = x.out
    BY DEF Rescheduled, Moved, Row
  <2>2. QED BY <1>0, <1>4, <2>1 DEF RescheduleSave
<1>5. \A x \in Row : Cancelled(x).out = x.out BY DEF Cancelled, Row
<1>6. ASSUME NEW q \in Proc, AskSave(q) \/ CancelSave(q) \/ CheckInSave(q) PROVE booking'[b].out = None
  BY <1>0, <1>5, <1>6 DEF AskSave, CancelSave, CheckInSave, Row
<1>7. CASE Administration
  <2>1. \A x \in Row : [x EXCEPT !.status = "CANCELLED"].out = x.out BY DEF Row
  <2>2. ASSUME NEW s \in Id, CancelSeries(s) PROVE booking'[b].out = None
    BY <1>0, <1>5, <2>2 DEF CancelSeries
  <2>3. ASSUME NEW c \in Id, CancelForMaintenance(c) PROVE booking'[b].out = None
    BY <1>0, <1>5, <2>3 DEF CancelForMaintenance
  <2>4. ASSUME NEW r \in Room, ReleaseNoShows(r) PROVE booking'[b].out = None
    BY <1>0, <2>1, <2>4 DEF ReleaseNoShows
  <2>5. QED
    BY <1>7, <2>2, <2>3, <2>4
    DEF Administration, SetRoom, RemoveRoom, CreateMaintenance, UpdateMaintenance, RemoveMaintenance
<1>8. CASE booking' = booking BY <1>8
<1>9. ASSUME NEW q \in Proc, Request(q) PROVE booking' = booking
  BY <1>9 DEF Request, ImportRow, CreateBegin, RescheduleBegin, ApproveBegin, RejectBegin, AskBegin, AskForMaintenance, CancelBegin,
     CheckInBegin, CheckOutBegin
<1>10. ASSUME NEW q \in Proc, Continue(q) PROVE booking'[b].out = None
  BY <1>1, <1>2, <1>3, <1>4, <1>6, <1>8, <1>10
  DEF Continue, Acquire, Retry, GiveUp, Unlock, CreateCheck, CreateRefuse, RescheduleCheck, ApproveCheck, MoveCheck
<1>11. QED BY <1>7, <1>8, <1>9, <1>10 DEF Next, Crash, ExpireLock, Tick, vars

\* What a step of process q leaves of the others.
LEMMA OthersGood ==
  ASSUME TypeInv, MoveInv, OneMover, OneCheckOut, [Next]_vars, NEW q \in Proc,
         \A p \in Proc \ {q} : op'[p] = op[p],
         AllCalm \/ Moves(q)
  PROVE  \A p \in Proc \ {q} : Good(p)'
<1> SUFFICES ASSUME NEW p \in Proc \ {q} PROVE Good(p)' OBVIOUS
<1>1. Good(p) /\ (AllCalm \/ ~Moves(p)) BY DEF MoveInv, OneMover
<1>2. ASSUME op[p].step = "checkOut", booking[op[p].b].out = None PROVE booking'[op[p].b].out = None
  <2>1. op[p].b \in Id BY <1>2, OpOf DEF Fits, Step, Section
  <2>2. ~CheckOutSave(q)
    <3>1. SUFFICES ASSUME CheckOutSave(q) PROVE FALSE OBVIOUS
    <3>2. "checkOut" \in Runs[q] /\ "checkOut" \in Runs[p]
      BY <1>2, <3>1 DEF CheckOutSave, At, MoveInv, Good
    <3>3. QED BY <3>2 DEF OneCheckOut
  <2>3. \A r \in Proc \ {q} : ~CheckOutSave(r)
    BY DoneFrame DEF CheckOutSave, At
  <2>4. QED BY <1>2, <2>1, <2>2, <2>3, OutKept
<1>3. QED BY <1>1, <1>2, GoodStays, CarriesId

\* The steps of process q that begin a handler.
LEMMA RequestGood ==
  ASSUME TypeInv, MoveInv, NEW q \in Proc, Request(q)
  PROVE  Good(q)' /\ booking' = booking /\ \A p \in Proc \ {q} : op'[p] = op[p]
<1>0. op \in [Proc -> Op] BY DEF TypeInv, OpsOK
<1>1. ASSUME NEW r \in Room, NEW occ \in Occurrences, CreateBegin(q, r, occ)
      PROVE  Good(q)' /\ booking' = booking /\ \A p \in Proc \ {q} : op'[p] = op[p]
  <2>1. op'[q].step = "lockCreate" BY <1>0, <1>1 DEF CreateBegin, Idle
  <2>2. QED BY <1>0, <1>1, <2>1, GoodElsewhere DEF CreateBegin, MoveSteps
<1>2. ASSUME NEW b \in Id, NEW r \in Room, NEW s \in Slot, RescheduleBegin(q, b, r, s)
      PROVE  Good(q)' /\ booking' = booking /\ \A p \in Proc \ {q} : op'[p] = op[p]
  <2>1. op'[q].step = "lockMove" /\ op'[q].b = b /\ op'[q].doc = booking[b]
    BY <1>0, <1>2 DEF RescheduleBegin, Idle
  <2>2. Moves(q) /\ booking' = booking BY <1>2 DEF RescheduleBegin, Begin, Moves
  <2>3. Good(q)' BY <2>1, <2>2 DEF Good, MoveSteps
  <2>4. QED BY <1>0, <1>2, <2>2, <2>3 DEF RescheduleBegin
<1>3. ASSUME NEW b \in Id, ApproveBegin(q, b)
      PROVE  Good(q)' /\ booking' = booking /\ \A p \in Proc \ {q} : op'[p] = op[p]
  <2> DEFINE h == IF booking[b].pend # None THEN "move" ELSE "approve"
  <2>1. Read(q, h, b) /\ booking' = booking BY <1>3 DEF ApproveBegin
  <2>2. op'[q].step = h /\ op'[q].b = b /\ op'[q].doc = booking[b] /\ \A p \in Proc \ {q} : op'[p] = op[p]
    BY <2>1, ReadFrame
  <2>3. Moves(q) /\ booking[b].status # "NONE" BY <1>3 DEF ApproveBegin, Begin, Moves, Exists
  <2>4. Good(q)' BY <2>1, <2>2, <2>3 DEF Good, MoveSteps, SameSlot
  <2>5. QED BY <2>1, <2>2, <2>4
<1>4. ASSUME NEW b \in Id, RejectBegin(q, b)
      PROVE  Good(q)' /\ booking' = booking /\ \A p \in Proc \ {q} : op'[p] = op[p]
  BY <1>4, ReadFrame, GoodElsewhere DEF RejectBegin, MoveSteps
<1>5. ASSUME NEW b \in Id, AskBegin(q, b) \/ AskForMaintenance(q, b) \/ CancelBegin(q, b) \/ CheckInBegin(q, b)
      PROVE  Good(q)' /\ booking' = booking /\ \A p \in Proc \ {q} : op'[p] = op[p]
  <2>1. PICK h \in {"ask", "cancel", "checkIn"} : On(q, h, b)
    BY <1>5 DEF AskBegin, AskForMaintenance, CancelBegin, CheckInBegin
  <2>2. booking' = booking BY <1>5 DEF AskBegin, AskForMaintenance, CancelBegin, CheckInBegin
  <2>3. QED BY <2>1, <2>2, OnFrame, GoodElsewhere DEF MoveSteps
<1>6. ASSUME NEW b \in Id, CheckOutBegin(q, b)
      PROVE  Good(q)' /\ booking' = booking /\ \A p \in Proc \ {q} : op'[p] = op[p]
  <2>1. op'[q].step = "checkOut" /\ op'[q].b = b /\ \A p \in Proc \ {q} : op'[p] = op[p]
    BY <1>6, OnFrame DEF CheckOutBegin
  <2>2. booking' = booking /\ booking[b].out = None /\ "checkOut" \in Runs[q]
    BY <1>6 DEF CheckOutBegin, Begin
  <2>3. Good(q)' BY <2>1, <2>2 DEF Good, MoveSteps
  <2>4. QED BY <2>1, <2>2, <2>3
<1>7. QED BY <1>1, <1>2, <1>3, <1>4, <1>5, <1>6 DEF Request, ImportRow

\* The steps of process q that go on with one: q's own invariant.
LEMMA ContinueGood ==
  ASSUME TypeInv, MoveInv, NEW q \in Proc, Continue(q)
  PROVE  Good(q)' /\ \A p \in Proc \ {q} : op'[p] = op[p]
<1> DEFINE Own == Good(q)' /\ \A p \in Proc \ {q} : op'[p] = op[p]
<1>0. op \in [Proc -> Op] /\ Good(q) BY DEF TypeInv, OpsOK, MoveInv
<1>1. CASE Acquire(q)
  <2> DEFINE h == IF At(q, "lockCreate") THEN "create" ELSE "reschedule"
  <2>1. Goto(q, h) /\ booking' = booking BY <1>1 DEF Acquire
  <2>2. CASE op[q].step = "lockCreate"
    <3>1. op'[q].step = "create" /\ \A p \in Proc \ {q} : op'[p] = op[p]
      BY <2>1, <2>2, GotoFrame DEF At
    <3>2. QED BY <3>1, GoodElsewhere DEF MoveSteps
  <2>3. CASE op[q].step = "lockMove"
    <3>1. op'[q].step = "reschedule" /\ op'[q].b = op[q].b /\ op'[q].doc = op[q].doc
          /\ \A p \in Proc \ {q} : op'[p] = op[p]
      BY <2>1, <2>3, GotoFrame DEF At
    <3>2. Good(q)' BY <1>0, <2>1, <2>3, <3>1 DEF Good, MoveSteps
    <3>3. QED BY <3>1, <3>2
  <2>4. QED BY <1>1, <2>2, <2>3 DEF Acquire, Locking
<1>2. CASE Retry(q)
  <2> DEFINE o == [op[q] EXCEPT !.tries = Attempt(op[q].tries)]
  <2>1. op' = [op EXCEPT ![q] = o] /\ booking' = booking BY <1>0, <1>2 DEF Retry
  <2>2. o.step = op[q].step /\ o.b = op[q].b /\ o.doc = op[q].doc BY <1>0 DEF Op
  <2>3. op'[q] = o /\ \A p \in Proc \ {q} : op'[p] = op[p] BY <1>0, <2>1
  <2>4. op[q].step \in {"lockCreate", "lockMove"} BY <1>2 DEF Retry, Locking
  <2>5. Good(q)' BY <1>0, <2>1, <2>2, <2>3, <2>4 DEF Good, MoveSteps
  <2>6. QED BY <2>3, <2>5
<1>3. CASE CreateCheck(q) \/ CreateInsert(q)
  <2>1. \A p \in Proc \ {q} : op'[p] = op[p]
    BY <1>0, <1>3 DEF CreateCheck, CreateInsert, Goto
  <2>2. op'[q].step \in {"insert", "unlock"}
    <3>1. CASE CreateCheck(q) BY <1>0, <3>1 DEF CreateCheck, Op
    <3>2. CASE CreateInsert(q) BY <1>0, <3>2 DEF CreateInsert, Goto, Op
    <3>3. QED BY <1>3, <3>1, <3>2
  <2>3. QED BY <2>1, <2>2, GoodElsewhere DEF MoveSteps
<1>4. CASE CreateRefuse(q) \/ RescheduleSave(q)
  <2>1. Goto(q, "unlock") BY <1>4 DEF CreateRefuse, RescheduleSave
  <2>2. op'[q].step = "unlock" /\ \A p \in Proc \ {q} : op'[p] = op[p] BY <2>1, GotoFrame
  <2>3. QED BY <2>2, GoodElsewhere DEF MoveSteps
<1>5. CASE RescheduleCheck(q)
  <2>1. PICK h \in {"rescheduleSave", "unlock"} : Goto(q, h)
    BY <1>5 DEF RescheduleCheck
  <2>2. booking' = booking /\ op[q].step = "reschedule" BY <1>5 DEF RescheduleCheck, At
  <2>3. op'[q].step = h /\ op'[q].b = op[q].b /\ op'[q].doc = op[q].doc /\ \A p \in Proc \ {q} : op'[p] = op[p]
    BY <2>1, GotoFrame
  <2>4. Good(q)' BY <1>0, <2>2, <2>3 DEF Good, MoveSteps
  <2>5. QED BY <2>3, <2>4
<1>6. CASE ApproveCheck(q)
  <2> DEFINE doc == op[q].doc
  <2>1. booking' = booking /\ op[q].step = "approve" BY <1>6 DEF ApproveCheck, At
  <2>2. CASE Done(q) BY <2>2, DoneFrame, GoodElsewhere DEF MoveSteps
  <2>3. CASE NoOverlap(doc.room, doc, op[q].b) /\ Goto(q, "approveSave")
    <3>1. op'[q].step = "approveSave" /\ op'[q].b = op[q].b /\ op'[q].doc = doc
          /\ \A p \in Proc \ {q} : op'[p] = op[p]
      BY <2>3, GotoFrame
    <3>2. doc.from \in Time /\ doc.till \in Time BY <1>0 DEF Op, Row
    <3>3. Free(doc.room, doc, op[q].b) BY <2>3, <3>2, CheckedFree
    <3>4. Free(doc.room, doc, op[q].b)' BY <2>1, <3>1, <3>3 DEF Free
    <3>5. Good(q)' BY <1>0, <2>1, <3>1, <3>4 DEF Good, MoveSteps
    <3>6. QED BY <3>1, <3>5
  <2>4. QED BY <1>6, <2>2, <2>3 DEF ApproveCheck
<1>7. CASE MoveCheck(q)
  <2> DEFINE doc == op[q].doc
             to == Target(doc)
  <2>1. booking' = booking /\ op[q].step = "move" BY <1>7 DEF MoveCheck, At
  <2>2. CASE Done(q) BY <2>2, DoneFrame, GoodElsewhere DEF MoveSteps
  <2>3. CASE NoOverlap(to.room, to, op[q].b) /\ Goto(q, "moveSave")
    <3>1. op'[q].step = "moveSave" /\ op'[q].b = op[q].b /\ op'[q].doc = doc
          /\ \A p \in Proc \ {q} : op'[p] = op[p]
      BY <2>3, GotoFrame
    <3>2. doc \in Row /\ doc.pend # None BY <1>0, <2>1, OpOf DEF Op, Fits
    <3>3. to.from \in Time /\ to.till \in Time BY <3>2, TargetType
    <3>4. Free(to.room, to, op[q].b) BY <2>3, <3>3, CheckedFree
    <3>5. Free(to.room, to, op[q].b)' BY <2>1, <3>1, <3>4 DEF Free
    <3>6. Good(q)' BY <1>0, <2>1, <3>1, <3>5 DEF Good, MoveSteps
    <3>7. QED BY <3>1, <3>6
  <2>4. QED BY <1>7, <2>2, <2>3 DEF MoveCheck
<1>8. CASE \/ Unlock(q) \/ GiveUp(q) \/ ApproveSave(q) \/ MoveSave(q) \/ RejectSave(q) \/ AskSave(q)
           \/ CancelSave(q) \/ CheckInSave(q) \/ CheckOutSave(q)
  <2>1. Done(q)
    BY <1>8 DEF Unlock, GiveUp, ApproveSave, MoveSave, RejectSave, AskSave, CancelSave, CheckInSave, CheckOutSave
  <2>2. QED BY <2>1, DoneFrame, GoodElsewhere DEF MoveSteps
<1>9. QED BY <1>1, <1>2, <1>3, <1>4, <1>5, <1>6, <1>7, <1>8 DEF Continue

\* The steps that approve or move: into a slot that is free.
LEMMA MoverDouble ==
  ASSUME TypeInv, MoveInv, NEW q \in Proc, Mover(q)
  PROVE  NoDoubleBooking' /\ Moves(q)
<1> DEFINE b == op[q].b
           doc == op[q].doc
<1>0. op[q] \in Op /\ Fits(op[q]) /\ Good(q) /\ NoDoubleBooking BY OpOf DEF MoveInv
<1>1. op[q].step \in {"approveSave", "moveSave", "rescheduleSave"}
  BY DEF Mover, ApproveSave, MoveSave, RescheduleSave, At
<1>2. b \in Id /\ Moves(q) BY <1>0, <1>1 DEF Fits, Good, MoveSteps, Step, Section
<1>3. booking[b] \in Row /\ booking \in [Id -> Row] BY <1>2 DEF TypeInv, TypeOK
<1>4. CASE booking' = booking BY <1>0, <1>2, <1>4, CalmSame, DoubleCalm
<1>5. CASE ApproveSave(q) /\ Reviewable(b)
  <2> DEFINE y == [booking[b] EXCEPT !.status = "CONFIRMED", !.reviewed = now]
  <2>1. booking' = [booking EXCEPT ![b] = y] BY <1>2, <1>3, <1>5 DEF ApproveSave
  <2>2. SameSlot(booking[b], doc) /\ Free(doc.room, doc, b)
    BY <1>0, <1>5 DEF ApproveSave, At, Good, Reviewable
  <2>3. y.room = doc.room /\ y.from = doc.from /\ y.till = doc.till BY <1>3, <2>2 DEF SameSlot, Row
  <2>4. Free(y.room, y, b) BY <2>2, <2>3 DEF Free
  <2>5. NoDoubleBooking' BY <1>0, <2>1, <2>4, PlaceSafe
  <2>6. QED BY <1>2, <2>5
<1>6. CASE MoveSave(q) /\ booking[b].pend # None
  <2> DEFINE to == Target(doc)
             y == [Moved(booking[b], to) EXCEPT !.reviewed = now, !.pend = None]
  <2>1. booking' = [booking EXCEPT ![b] = y] BY <1>3, <1>6 DEF MoveSave
  <2>2. Free(to.room, to, b) BY <1>0, <1>6 DEF MoveSave, At, Good
  <2>3. y.room = to.room /\ y.from = to.from /\ y.till = to.till BY <1>3 DEF Moved, Row
  <2>4. Free(y.room, y, b) BY <2>2, <2>3 DEF Free
  <2>5. NoDoubleBooking' BY <1>0, <2>1, <2>4, PlaceSafe
  <2>6. QED BY <1>2, <2>5
<1>7. CASE RescheduleSave(q)
  <2> DEFINE y == Rescheduled(booking[b], doc, op[q].room, Head(op[q].todo))
  <2>1. booking' = [booking EXCEPT ![b] = y] BY <1>7 DEF RescheduleSave
  <2>2. CASE doc.status = "PENDING"
    <3>1. booking[b].status # "CONFIRMED" BY <1>0, <1>7, <2>2 DEF RescheduleSave, At, Good
    <3>2. y.status = booking[b].status BY <1>3 DEF Rescheduled, Moved, Row
    <3>3. NoDoubleBooking' BY <1>0, <2>1, <3>1, <3>2, PlaceSafe
    <3>4. QED BY <1>2, <3>3
  <2>3. CASE doc.status # "PENDING"
    <3>1. Calm(booking[b], y) BY <1>3, <2>3 DEF Rescheduled, Calm, SameSlot, Row
    <3>2. AllCalm BY <2>1, <3>1, CalmRow
    <3>3. QED BY <1>0, <1>2, <3>2, DoubleCalm
  <2>4. QED BY <2>2, <2>3
<1>8. QED BY <1>2, <1>4, <1>5, <1>6, <1>7 DEF Mover, ApproveSave, MoveSave

LEMMA NextMove ==
  ASSUME TypeInv, MoveInv, OneMover, OneCheckOut, [Next]_vars PROVE MoveInv'
<1>0. NoDoubleBooking BY DEF MoveInv
<1>1. ASSUME NEW q \in Proc, Request(q) PROVE MoveInv'
  <2>1. Good(q)' /\ booking' = booking /\ \A p \in Proc \ {q} : op'[p] = op[p] BY <1>1, RequestGood
  <2>2. AllCalm BY <2>1, CalmSame
  <2>3. \A p \in Proc \ {q} : Good(p)' BY <2>1, <2>2, OthersGood
  <2>4. QED BY <1>0, <2>1, <2>2, <2>3, DoubleCalm DEF MoveInv
<1>2. ASSUME NEW q \in Proc, Continue(q) PROVE MoveInv'
  <2>1. Good(q)' /\ \A p \in Proc \ {q} : op'[p] = op[p] BY <1>2, ContinueGood
  <2>2. (AllCalm \/ Moves(q)) /\ NoDoubleBooking'
    <3>1. CASE Mover(q) BY <3>1, MoverDouble
    <3>2. CASE CheckOutSave(q)
      <4>1. booking[op[q].b].out = None BY <3>2 DEF CheckOutSave, At, MoveInv, Good
      <4>2. QED BY <1>0, <3>2, <4>1, OutOnlyOnce, DoubleCalm
    <3>3. CASE ~Mover(q) /\ ~CheckOutSave(q)
      <4>1. AllCalm BY <1>2, <3>3, ContinueCalm
      <4>2. QED BY <1>0, <4>1, DoubleCalm
    <3>4. QED BY <3>1, <3>2, <3>3
  <2>3. \A p \in Proc \ {q} : Good(p)' BY <2>1, <2>2, OthersGood
  <2>4. QED BY <2>1, <2>2, <2>3 DEF MoveInv
<1>3. ASSUME NEW q \in Proc, Crash(q) PROVE MoveInv'
  <2>1. booking' = booking /\ op'[q].step = "idle" /\ \A p \in Proc \ {q} : op'[p] = op[p]
    BY <1>3, DoneFrame DEF Crash
  <2>2. AllCalm BY <2>1, CalmSame
  <2>3. Good(q)' BY <2>1, GoodElsewhere DEF MoveSteps
  <2>4. \A p \in Proc \ {q} : Good(p)' BY <2>1, <2>2, OthersGood
  <2>5. QED BY <1>0, <2>2, <2>3, <2>4, DoubleCalm DEF MoveInv
<1>4. ASSUME AllCalm, op' = op, \A q \in Proc : ~CheckOutSave(q) PROVE MoveInv'
  <2>1. ASSUME NEW p \in Proc PROVE Good(p)'
    <3>1. op[p].step = "checkOut" => op[p].b \in Id BY OpOf DEF Fits, Step, Section
    <3>2. QED BY <1>4, <3>1, OutKept, GoodStays, CarriesId DEF MoveInv
  <2>2. QED BY <1>0, <1>4, <2>1, DoubleCalm DEF MoveInv
<1>5. CASE Administration
  <2>1. AllCalm /\ op' = op
    BY <1>5, AdministrationCalm
    DEF Administration, CancelSeries, CancelForMaintenance, ReleaseNoShows, SetRoom, RemoveRoom,
        CreateMaintenance, UpdateMaintenance, RemoveMaintenance
  <2>2. QED BY <1>4, <2>1, DoneFrame DEF CheckOutSave, At
<1>6. CASE UNCHANGED vars \/ Tick \/ \E r \in Room : ExpireLock(r)
  <2>1. AllCalm /\ op' = op BY <1>6, CalmSame DEF vars, Tick, ExpireLock
  <2>2. QED BY <1>4, <2>1, DoneFrame DEF CheckOutSave, At
<1>7. QED BY <1>1, <1>2, <1>3, <1>5, <1>6 DEF Next

LEMMA InitMove == ASSUME Init PROVE MoveInv
<1>1. NoDoubleBooking BY DEF Init, NoDoubleBooking, InUse, Blank
<1>2. \A q \in Proc : Good(q) BY DEF Init, Good, Idle, MoveSteps
<1>3. QED BY <1>1, <1>2 DEF MoveInv

\* No two approved bookings have one room at the same time, as long as one process
\* approves and reschedules and one checks out (approve, reschedule, assertNoOverlap).
THEOREM NoDoubleBookingSafe ==
  ASSUME OneMover, OneCheckOut PROVE Spec => []NoDoubleBooking
<1>1. Init => MoveInv BY InitMove
<1>2. TypeInv /\ MoveInv /\ [Next]_vars => MoveInv' BY NextMove
<1>3. MoveInv => NoDoubleBooking BY DEF MoveInv
<1>4. QED BY <1>1, <1>2, <1>3, RoomTypeCorrect, PTL DEF Spec, TypeInv

\* Under the same condition an approved booking changes its room or time only by
\* approving the rescheduling that waits for it (RoomBooking.pendingStartAt).
THEOREM ApprovedTimeSafe ==
  ASSUME OneMover, OneCheckOut PROVE Spec => ApprovedTimeStands
<1> DEFINE Stands == \A b \in Id :
             /\ booking[b].status = "CONFIRMED" /\ booking'[b].status = "CONFIRMED"
             /\ [r |-> booking[b].room, f |-> booking[b].from, t |-> booking[b].till]
                  # [r |-> booking'[b].room, f |-> booking'[b].from, t |-> booking'[b].till]
             => booking[b].pend # None
<1>1. ASSUME TypeInv, MoveInv, [Next]_vars PROVE Stands
  <2>0. booking \in [Id -> Row] BY <1>1 DEF TypeInv, TypeOK
  <2>1. CASE AllCalm BY <2>1 DEF AllCalm, Calm, SameSlot
  <2>2. ASSUME NEW q \in Proc, ApproveSave(q) PROVE Stands
    BY <2>0, <2>2 DEF ApproveSave, Reviewable
  <2>3. ASSUME NEW q \in Proc, MoveSave(q) PROVE Stands
    BY <2>0, <2>3 DEF MoveSave
  <2>4. ASSUME NEW q \in Proc, RescheduleSave(q) PROVE Stands
    <3> DEFINE b == op[q].b
               y == Rescheduled(booking[b], op[q].doc, op[q].room, Head(op[q].todo))
    <3>1. booking' = [booking EXCEPT ![b] = y] BY <2>4 DEF RescheduleSave
    <3>2. CASE op[q].doc.status = "PENDING"
      <4>1. booking[b].status # "CONFIRMED" BY <1>1, <2>4, <3>2 DEF RescheduleSave, At, MoveInv, Good
      <4>2. QED BY <2>0, <3>1, <4>1
    <3>3. CASE op[q].doc.status # "PENDING"
      <4>1. b \in Id => y.room = booking[b].room /\ y.from = booking[b].from /\ y.till = booking[b].till
        BY <2>0, <3>3 DEF Rescheduled, Row
      <4>2. QED BY <2>0, <3>1, <4>1
    <3>4. QED BY <3>2, <3>3
  <2>5. ASSUME NEW q \in Proc, CheckOutSave(q) PROVE Stands
    <3>1. booking[op[q].b].out = None BY <1>1, <2>5 DEF CheckOutSave, At, MoveInv, Good
    <3>2. AllCalm BY <1>1, <2>5, <3>1, OutOnlyOnce
    <3>3. QED BY <2>1, <3>2
  <2>6. QED BY <1>1, <2>1, <2>2, <2>3, <2>4, <2>5, CalmUnless DEF Mover
<1>2. TypeInv /\ MoveInv /\ [Next]_vars => [Stands]_vars BY <1>1
<1>3. Init => MoveInv BY InitMove
<1>4. TypeInv /\ MoveInv /\ [Next]_vars => MoveInv' BY NextMove
<1>5. QED BY <1>2, <1>3, <1>4, RoomTypeCorrect, PTL DEF Spec, ApprovedTimeStands, TypeInv

-----------------------------------------------------------------------------
(***************************************************************************)
(* Booking numbers.  With one room, whose lock covers every insertion, and *)
(* numbers that generateIdBatch recognises, the numbers that a creation    *)
(* has found free stay free until it uses them: only an insertion takes a  *)
(* number, and only the holder of the lock inserts.                        *)
(***************************************************************************)
OneRoom == \A r, s \in Room : r = s

NumbersInv ==
  \A q \in Proc :
    /\ At(q, "insert") =>
         \A k \in DOMAIN op[q].ids :
           /\ booking[op[q].ids[k]].status = "NONE"
           /\ \A j \in DOMAIN op[q].ids : j < k => op[q].ids[j] < op[q].ids[k]
    /\ At(q, "cancel") => Exists(op[q].b)

\* No number is taken or given back.
UseSame == \A i \in Id : booking'[i].status = "NONE" <=> booking[i].status = "NONE"

LEMMA UseRow ==
  ASSUME TypeInv, NEW b, NEW y, b \in Id => (y.status = "NONE" <=> booking[b].status = "NONE"),
         booking' = [booking EXCEPT ![b] = y]
  PROVE  UseSame
BY DEF UseSame, TypeInv, TypeOK

LEMMA CarriedIds ==
  ASSUME TypeInv, NEW q \in Proc
  PROVE  /\ op[q].ids \in Seq(Id)
         /\ \A k \in DOMAIN op[q].ids : op[q].ids[k] \in Id
         /\ At(q, "insert") => op[q].room \in Room /\ op[q].ids # <<>>
         /\ At(q, "cancel") => op[q].b \in Id
<1>1. op[q] \in Op /\ Fits(op[q]) BY OpOf
<1>2. op[q].ids \in Seq(Id) /\ op[q].todo \in Seq(Slot) BY <1>1 DEF Op
<1>3. \A k \in DOMAIN op[q].ids : op[q].ids[k] \in Id BY <1>2, ElementOfSeq, LenProperties
<1>4. At(q, "cancel") => op[q].b \in Id BY <1>1 DEF At, Fits, Step
<1>5. At(q, "insert") => op[q].room \in Room /\ op[q].todo # <<>> /\ Len(op[q].ids) = Len(op[q].todo)
  BY <1>1 DEF At, Fits, Section
<1>6. At(q, "insert") => op[q].ids # <<>> BY <1>2, <1>5, NonEmpty
<1>7. QED BY <1>2, <1>3, <1>4, <1>5, <1>6

\* No number is taken, and nobody comes to an insertion or to a cancellation.
LEMMA NumbersKept ==
  ASSUME TypeInv, NumbersInv, UseSame,
         \A p \in Proc : op'[p] = op[p] \/ op'[p].step \notin {"insert", "cancel"}
  PROVE  NumbersInv'
<1> SUFFICES ASSUME NEW q \in Proc
             PROVE  (/\ At(q, "insert") =>
                         \A k \in DOMAIN op[q].ids :
                           /\ booking[op[q].ids[k]].status = "NONE"
                           /\ \A j \in DOMAIN op[q].ids : j < k => op[q].ids[j] < op[q].ids[k]
                     /\ At(q, "cancel") => Exists(op[q].b))'
  BY DEF NumbersInv
<1>1. CASE op'[q].step \notin {"insert", "cancel"} BY <1>1 DEF At
<1>2. CASE op'[q] = op[q]
  <2>1. At(q, "cancel") => Exists(op[q].b) /\ booking'[op[q].b].status # "NONE"
    BY CarriedIds DEF NumbersInv, Exists, UseSame
  <2>2. At(q, "insert") => \A k \in DOMAIN op[q].ids :
           /\ booking'[op[q].ids[k]].status = "NONE"
           /\ \A j \in DOMAIN op[q].ids : j < k => op[q].ids[j] < op[q].ids[k]
    BY CarriedIds DEF NumbersInv, UseSame
  <2>3. QED BY <1>2, <2>1, <2>2 DEF At, Exists
<1>3. QED BY <1>1, <1>2

\* Every write but an insertion leaves the numbers as they are.
LEMMA WriteUse ==
  ASSUME TypeInv, NumbersInv, NEW q \in Proc, Continue(q), ~CreateInsert(q) PROVE UseSame
<1>0. booking \in [Id -> Row] /\ op[q] \in Op BY OpOf DEF TypeInv, TypeOK
<1>1. CASE booking' = booking BY <1>1 DEF UseSame
<1> DEFINE b == op[q].b
<1>2. CASE ApproveSave(q) \/ RejectSave(q)
  BY <1>0, <1>2 DEF ApproveSave, RejectSave, Reviewable, UseSame, Row
<1>3. CASE MoveSave(q) \/ RescheduleSave(q)
  <2>1. PICK y : booking' = [booking EXCEPT ![b] = y] /\ (b \in Id => y.status = booking[b].status)
    <3>1. CASE RescheduleSave(q)
      <4> DEFINE y == Rescheduled(booking[b], op[q].doc, op[q].room, Head(op[q].todo))
      <4>1. b \in Id => y.status = booking[b].status BY <1>0 DEF Rescheduled, Moved, Row
      <4>2. booking' = [booking EXCEPT ![b] = y] BY <1>0, <3>1 DEF RescheduleSave
      <4>3. QED BY <4>1, <4>2
    <3>2. CASE MoveSave(q) /\ booking[b].pend # None
      <4> DEFINE y == [Moved(booking[b], Target(op[q].doc)) EXCEPT !.reviewed = now, !.pend = None]
      <4>1. b \in Id => y.status = booking[b].status BY <1>0 DEF Moved, Row
      <4>2. booking' = [booking EXCEPT ![b] = y] BY <1>0, <3>2 DEF MoveSave
      <4>3. QED BY <4>1, <4>2
    <3>3. CASE MoveSave(q) /\ booking[b].pend = None
      <4>1. booking' = [booking EXCEPT ![b] = booking[b]] BY <1>0, <3>3 DEF MoveSave
      <4>2. QED BY <4>1
    <3>4. QED BY <1>3, <3>1, <3>2, <3>3
  <2>2. QED BY <2>1, UseRow
<1>4. CASE AskSave(q) \/ CheckInSave(q) \/ CheckOutSave(q)
  BY <1>0, <1>4 DEF AskSave, CheckInSave, CheckOutSave, UseSame, Row
<1>5. CASE CancelSave(q)
  <2>1. b \in Id /\ booking[b].status # "NONE" BY <1>5, CarriedIds DEF CancelSave, NumbersInv, Exists
  <2>2. Cancelled(booking[b]).status # "NONE" BY <1>0, <2>1 DEF Cancelled, Row
  <2>3. booking' = [booking EXCEPT ![b] = Cancelled(booking[b])] BY <1>0, <1>5 DEF CancelSave
  <2>4. QED BY <2>1, <2>2, <2>3, UseRow
<1>6. QED
  BY <1>1, <1>2, <1>3, <1>4, <1>5
  DEF Continue, Acquire, Retry, GiveUp, Unlock, CreateCheck, CreateRefuse, RescheduleCheck, ApproveCheck, MoveCheck

LEMMA AdministrationUse == ASSUME TypeInv, Administration PROVE UseSame
<1>0. booking \in [Id -> Row] BY DEF TypeInv, TypeOK
<1>1. \A b \in Id : booking[b].status \in Active \/ NoShow(booking[b])
                      => /\ booking[b].status # "NONE" /\ Cancelled(booking[b]).status # "NONE"
                         /\ [booking[b] EXCEPT !.status = "CANCELLED"].status # "NONE"
  BY <1>0 DEF Active, NoShow, Cancelled, Row
<1>2. ASSUME NEW s \in Id, CancelSeries(s) PROVE UseSame
  BY <1>1, <1>2 DEF CancelSeries, UseSame
<1>3. ASSUME NEW b \in Id, CancelForMaintenance(b) PROVE UseSame
  BY <1>0, <1>1, <1>3 DEF CancelForMaintenance, UseSame
<1>4. ASSUME NEW r \in Room, ReleaseNoShows(r) PROVE UseSame
  BY <1>1, <1>4 DEF ReleaseNoShows, UseSame
<1>5. CASE booking' = booking BY <1>5 DEF UseSame
<1>6. QED
  BY <1>2, <1>3, <1>4, <1>5
  DEF Administration, SetRoom, RemoveRoom, CreateMaintenance, UpdateMaintenance, RemoveMaintenance

LEMMA RequestNumbers ==
  ASSUME TypeInv, NumbersInv, NEW q \in Proc, Request(q) PROVE NumbersInv'
<1>1. UseSame
  BY DEF UseSame, Request, ImportRow, CreateBegin, RescheduleBegin, ApproveBegin, RejectBegin, AskBegin,
         AskForMaintenance, CancelBegin, CheckInBegin, CheckOutBegin
<1>2. ASSUME NEW b \in Id, CancelBegin(q, b) PROVE NumbersInv'
  <2>1. (\A p \in Proc \ {q} : op'[p] = op[p]) /\ op'[q].step = "cancel" /\ op'[q].b = b /\ booking' = booking
    BY <1>2, OnFrame DEF CancelBegin
  <2>2. Exists(b) BY <1>2 DEF CancelBegin
  <2>3. QED BY <2>1, <2>2 DEF NumbersInv, At, Exists
<1>3. ASSUME NEW h, h \notin {"insert", "cancel"}, \A p \in Proc \ {q} : op'[p] = op[p], op'[q].step = h
      PROVE  NumbersInv'
  BY <1>1, <1>3, NumbersKept
<1>4. ASSUME NEW r \in Room, NEW occ \in Occurrences, CreateBegin(q, r, occ) PROVE NumbersInv'
  BY <1>3, <1>4 DEF CreateBegin, Idle, TypeInv, OpsOK
<1>5. ASSUME NEW b \in Id, NEW r \in Room, NEW s \in Slot, RescheduleBegin(q, b, r, s) PROVE NumbersInv'
  BY <1>3, <1>5 DEF RescheduleBegin, Idle, TypeInv, OpsOK
<1>6. ASSUME NEW b \in Id, ApproveBegin(q, b) PROVE NumbersInv'
  BY <1>3, <1>6, ReadFrame DEF ApproveBegin
<1>7. ASSUME NEW b \in Id, RejectBegin(q, b) PROVE NumbersInv'
  BY <1>3, <1>7, ReadFrame DEF RejectBegin
<1>8. ASSUME NEW b \in Id, AskBegin(q, b) \/ AskForMaintenance(q, b) \/ CheckInBegin(q, b) \/ CheckOutBegin(q, b)
      PROVE  NumbersInv'
  <2>1. PICK h \in {"ask", "checkIn", "checkOut"} : On(q, h, b)
    BY <1>8 DEF AskBegin, AskForMaintenance, CheckInBegin, CheckOutBegin
  <2>2. QED BY <1>3, <2>1, OnFrame
<1>9. QED BY <1>2, <1>4, <1>5, <1>6, <1>7, <1>8 DEF Request, ImportRow

LEMMA CheckNumbers ==
  ASSUME TypeInv, NumbersInv, MaxId <= IdLimit, NEW q \in Proc, CreateCheck(q) PROVE NumbersInv'
<1>1. PICK ids \in [DOMAIN op[q].todo -> Id] :
        /\ NewIds(ids)
        /\ op' = [op EXCEPT ![q] = [op[q] EXCEPT !.step = "insert", !.ids = ids,
                                                 !.b = IF Len(op[q].todo) > 1 THEN ids[1] ELSE 0]]
  BY DEF CreateCheck, TypeInv, OpsOK
<1>2. op[q] \in Op BY OpOf
<1>3. (\A p \in Proc \ {q} : op'[p] = op[p]) /\ op'[q].step = "insert" /\ op'[q].ids = ids
  BY <1>1, <1>2 DEF Op, TypeInv, OpsOK
<1>4. \A k \in DOMAIN ids : booking[ids[k]].status = "NONE"
  <2>1. \A i \in Id : i <= IdLimit BY RoomConstantsOK DEF Id
  <2>2. QED BY <1>1, <2>1 DEF NewIds, UsedNumbers
<1>5. \A j, k \in DOMAIN ids : j < k => ids[j] < ids[k] BY <1>1 DEF NewIds
<1>6. booking' = booking BY DEF CreateCheck
<1>7. QED BY <1>3, <1>4, <1>5, <1>6 DEF NumbersInv, At, Exists

LEMMA InsertNumbers ==
  ASSUME TypeInv, NumbersInv, LockInv, OneRoom, NEW q \in Proc, CreateInsert(q) PROVE NumbersInv'
<1>1. /\ op[q].ids \in Seq(Id) /\ op[q].ids # <<>> /\ op[q].room \in Room
      /\ op[q].ids[1] = Head(op[q].ids) /\ Len(op[q].ids) \in Nat \ {0} /\ DOMAIN op[q].ids = 1..Len(op[q].ids)
  <2>1. op[q].ids \in Seq(Id) /\ op[q].ids # <<>> /\ op[q].room \in Room BY CarriedIds DEF CreateInsert
  <2>2. QED BY <2>1, NonEmpty, LenProperties
<1> DEFINE i == Head(op[q].ids)
           y == NewBooking(op[q].room, Head(op[q].todo), op[q].b)
<1>2. op[q] \in Op /\ op \in [Proc -> Op] /\ booking \in [Id -> Row] BY OpOf DEF TypeInv, TypeOK, OpsOK
<1>3. booking[i].status = "NONE"
  BY <1>1 DEF CreateInsert, NumbersInv
<1>4. booking' = [booking EXCEPT ![i] = y] /\ y.status = "PENDING"
  BY <1>3 DEF CreateInsert, NewBooking, Blank
<1>5. /\ \A p \in Proc \ {q} : op'[p] = op[p]
      /\ op'[q].step \in {"insert", "unlock"} /\ op'[q].ids = Tail(op[q].ids)
  BY <1>2, <1>3 DEF CreateInsert, Op
<1>6. \A p \in Proc \ {q} : ~At(p, "insert")
  <2>1. ASSUME NEW p \in Proc, At(p, "insert") PROVE p = q
    <3>1. op[p].room = op[q].room BY <1>1, <2>1, CarriedIds DEF OneRoom
    <3>2. InSection(p, op[q].room) /\ InSection(q, op[q].room)
      BY <2>1, <3>1 DEF InSection, Section, At, CreateInsert
    <3>3. QED BY <1>1, <3>2 DEF LockInv, SectionExclusive
  <2>2. QED BY <2>1
<1>7. ASSUME NEW p \in Proc, op'[p].step = "cancel" PROVE booking'[op'[p].b].status # "NONE"
  <2>1. p # q /\ op'[p] = op[p] /\ At(p, "cancel") BY <1>5, <1>7 DEF At
  <2>2. op[p].b \in Id /\ booking[op[p].b].status # "NONE" BY <2>1, CarriedIds DEF NumbersInv, Exists
  <2>3. QED BY <1>2, <1>4, <2>1, <2>2
<1>8. ASSUME NEW p \in Proc, op'[p].step = "insert", NEW k \in DOMAIN op'[p].ids
      PROVE  /\ booking'[op'[p].ids[k]].status = "NONE"
             /\ \A j \in DOMAIN op'[p].ids : j < k => op'[p].ids[j] < op'[p].ids[k]
  <2>1. p = q BY <1>5, <1>6, <1>8 DEF At
  <2>2. /\ Tail(op[q].ids) \in Seq(Id) /\ Len(Tail(op[q].ids)) = Len(op[q].ids) - 1
        /\ \A j \in 1..(Len(op[q].ids) - 1) : Tail(op[q].ids)[j] = op[q].ids[j + 1]
    BY <1>1, HeadTailProperties
  <2>3. DOMAIN op'[p].ids = 1..(Len(op[q].ids) - 1)
    BY <1>5, <2>1, <2>2, LenProperties
  <2>4. \A j \in DOMAIN op'[p].ids : op'[p].ids[j] = op[q].ids[j + 1] /\ j + 1 \in DOMAIN op[q].ids
    <3>1. ASSUME NEW j \in DOMAIN op'[p].ids
          PROVE  j \in 1..(Len(op[q].ids) - 1) /\ j + 1 \in 1..Len(op[q].ids)
      BY <1>1, <2>3
    <3>2. op'[p].ids = Tail(op[q].ids) BY <1>5, <2>1
    <3>3. QED BY <1>1, <2>2, <3>1, <3>2
  <2>5. \A j, l \in DOMAIN op[q].ids : j < l => op[q].ids[j] < op[q].ids[l]
    BY DEF CreateInsert, NumbersInv
  <2>6. \A j \in DOMAIN op'[p].ids : j < k => op'[p].ids[j] < op'[p].ids[k]
    <3>1. \A j \in DOMAIN op'[p].ids : j < k => j + 1 < k + 1 BY <2>3
    <3>2. QED BY <2>4, <2>5, <3>1
  <2>7. k + 1 \in DOMAIN op[q].ids /\ 1 < k + 1 /\ 1 \in DOMAIN op[q].ids
    BY <1>1, <2>3, <2>4
  <2>8. op[q].ids[1] < op[q].ids[k + 1] /\ op[q].ids[1] \in Id /\ op[q].ids[k + 1] \in Id
    BY <2>5, <2>7, CarriedIds
  <2>9. op[q].ids[k + 1] # i
    BY <1>1, <2>8, RoomConstantsOK DEF Id
  <2>10. booking[op[q].ids[k + 1]].status = "NONE"
    BY <2>7 DEF CreateInsert, NumbersInv
  <2>11. booking'[op'[p].ids[k]].status = "NONE"
    BY <1>2, <1>4, <2>4, <2>8, <2>9, <2>10
  <2>12. QED BY <2>6, <2>11
<1>9. QED BY <1>7, <1>8 DEF NumbersInv, At, Exists

LEMMA ContinueNumbers ==
  ASSUME TypeInv, NumbersInv, LockInv, OneRoom, MaxId <= IdLimit, NEW q \in Proc, Continue(q) PROVE NumbersInv'
<1>1. CASE CreateCheck(q) BY <1>1, CheckNumbers
<1>2. CASE CreateInsert(q) BY <1>2, InsertNumbers
<1>3. CASE Retry(q)
  <2>1. op' = [op EXCEPT ![q] = [op[q] EXCEPT !.tries = Attempt(op[q].tries)]] /\ op[q] \in Op
    BY <1>3, OpOf DEF Retry, TypeInv, OpsOK
  <2>2. op'[q].step = op[q].step /\ \A p \in Proc \ {q} : op'[p] = op[p]
    BY <2>1 DEF Op, TypeInv, OpsOK
  <2>3. op'[q].step \notin {"insert", "cancel"} BY <1>3, <2>2 DEF Retry, Locking
  <2>4. UseSame BY <1>3 DEF Retry, UseSame
  <2>5. QED BY <2>2, <2>3, <2>4, NumbersKept
<1>4. CASE ~CreateCheck(q) /\ ~CreateInsert(q) /\ ~Retry(q)
  <2>1. UseSame BY <1>4, WriteUse
  <2>2. PICK h : (Goto(q, h) \/ Done(q)) /\ h \notin {"insert", "cancel"}
    <3>1. CASE Acquire(q)
      BY <3>1 DEF Acquire
    <3>2. CASE CreateRefuse(q) \/ RescheduleCheck(q) \/ RescheduleSave(q) \/ ApproveCheck(q) \/ MoveCheck(q)
      BY <3>2 DEF CreateRefuse, RescheduleCheck, RescheduleSave, ApproveCheck, MoveCheck
    <3>3. CASE Done(q)
      BY <3>3
    <3>4. QED
      BY <1>4, <3>1, <3>2, <3>3
      DEF Continue, GiveUp, Unlock, ApproveSave, MoveSave, RejectSave, AskSave, CancelSave, CheckInSave, CheckOutSave
  <2>3. QED BY <2>1, <2>2, GotoFrame, DoneFrame, NumbersKept
<1>5. QED BY <1>1, <1>2, <1>3, <1>4

LEMMA NextNumbers ==
  ASSUME TypeInv, NumbersInv, LockInv, OneRoom, MaxId <= IdLimit, [Next]_vars PROVE NumbersInv'
<1>1. ASSUME NEW q \in Proc, Crash(q) PROVE NumbersInv'
  <2>1. UseSame BY <1>1 DEF Crash, UseSame
  <2>2. QED BY <1>1, <2>1, DoneFrame, NumbersKept DEF Crash
<1>2. ASSUME NEW r \in Room, ExpireLock(r) PROVE NumbersInv'
  BY <1>2, NumbersKept DEF ExpireLock, UseSame
<1>3. CASE Administration
  <2>1. op' = op
    BY <1>3 DEF Administration, CancelSeries, CancelForMaintenance, ReleaseNoShows, SetRoom,
       RemoveRoom, CreateMaintenance, UpdateMaintenance, RemoveMaintenance
  <2>2. QED BY <1>3, <2>1, AdministrationUse, NumbersKept
<1>4. CASE Tick \/ UNCHANGED vars BY <1>4, NumbersKept DEF Tick, vars, UseSame
<1>5. QED BY <1>1, <1>2, <1>3, <1>4, RequestNumbers, ContinueNumbers DEF Next

\* A number found free under the lock is still free when its booking is inserted: with one
\* room and no handler that outlives its lock, as long as the numbers stay within those that
\* /^RB\d{3}$/ finds (generateIdBatch, createLocked).
THEOREM NumbersFree ==
  ASSUME OneRoom, MaxId <= IdLimit, "slow" \notin Events PROVE Spec => []NumbersStayFree
<1>1. Init => LockInv
  BY DEF Init, Idle, LockInv, SectionExclusive, InSection, Section
<1>2. TypeInv /\ LockInv /\ [Next]_vars => LockInv' BY NextLock
<1>3. Init => NumbersInv
  BY DEF Init, Idle, NumbersInv, At
<1>4. TypeInv /\ NumbersInv /\ LockInv /\ [Next]_vars => NumbersInv' BY NextNumbers
<1>5. NumbersInv => NumbersStayFree
  BY DEF NumbersInv, NumbersStayFree
<1>6. QED BY <1>1, <1>2, <1>3, <1>4, <1>5, RoomTypeCorrect, PTL DEF Spec, TypeInv
=============================================================================
