----------------------------- MODULE RoomBooking -----------------------------
(***************************************************************************)
(* Meeting rooms: bookings, their approval and rescheduling, the lock of a *)
(* room, check-in and no-shows, and the maintenance of rooms               *)
(* (src/room-bookings/room-bookings.service.ts, src/rooms).                *)
(*                                                                         *)
(* A booking is a row; `op[q]' is the handler that process q runs, with    *)
(* the copy of the booking it has read.  A handler is one action per query *)
(* or write that other handlers can fall between: reading the booking,     *)
(* checking the room is free (bookings, maintenance and, to create, the    *)
(* numbers in use, as one step), writing.  Creation and rescheduling check *)
(* and write under the lock of the room, a document that a holder deletes  *)
(* and that the database drops when it is too old; approval takes no lock. *)
(***************************************************************************)
EXTENDS Integers, Sequences

CONSTANTS
  Room, Proc, None,
  MaxTime,       \* bound: the clock stops there
  Slot,          \* the times asked for
  Occurrences,   \* the series asked for: sequences of slots, of length 1 for a single booking
  MaxId,         \* bound: booking numbers in use
  IdLimit,       \* the largest booking number generateIdBatch recognises (999)
  Early,         \* EARLY_CHECKIN_GRACE_MINUTES
  Grace,         \* NO_SHOW_GRACE_MINUTES
  MaxTries,      \* attempts to take the lock of a room (20)
  Runs,          \* [Proc -> handlers that the process runs]
  Events         \* what else happens: "series", "maintain", "noShow", "crash", "slow"

Time == 0..MaxTime
Id == 1..MaxId

ASSUME RoomConstantsOK ==
  /\ MaxTime \in Nat /\ MaxId \in Nat /\ IdLimit \in Nat
  /\ Early \in Nat /\ Grace \in Nat /\ MaxTries \in Nat
  /\ None \notin Room \cup Time \cup [room : Room \cup {None}, from : Time, till : Time]
  /\ Slot \subseteq {s \in [from : Time, till : Time] : s.from < s.till}
  /\ Occurrences \subseteq Seq(Slot) \ {<<>>}

VARIABLES
  now,       \* the clock
  booking,   \* bookings by number
  lock,      \* [Room -> BOOLEAN]: the room's lock document exists
  open,      \* [Room -> BOOLEAN]: the room exists, is active and not under MAINTENANCE
  window,    \* maintenance periods
  op         \* the handler each process runs

vars == <<now, booking, lock, open, window, op>>

-----------------------------------------------------------------------------
(* Rows *)

BookingStatus == {"NONE", "PENDING", "CONFIRMED", "REJECTED", "CANCELLED"}
Active == {"PENDING", "CONFIRMED"}

\* A rescheduling that waits for approval; room None keeps the room.
Pending == [room : Room \cup {None}, from : Time, till : Time]

Row == [status : BookingStatus, room : Room \cup {None}, from : Time, till : Time,
        in : BOOLEAN, out : Time \cup {None}, reviewed : Time \cup {None},
        pend : Pending \cup {None}, asked : BOOLEAN, series : 0..MaxId]

Blank == [status |-> "NONE", room |-> None, from |-> 0, till |-> 0, in |-> FALSE, out |-> None,
          reviewed |-> None, pend |-> None, asked |-> FALSE, series |-> 0]

Window == [room : Room, from : Time, till : Time]

Step == {"idle", "lockCreate", "lockMove", "create", "insert", "reschedule", "rescheduleSave", "unlock",
         "approve", "approveSave", "move", "moveSave", "reject", "ask", "cancel", "checkIn", "checkOut"}

\* The steps at which a handler holds the lock of its room.
Section == {"create", "insert", "reschedule", "rescheduleSave", "unlock"}

Op == [step : Step, b : 0..MaxId, room : Room \cup {None}, doc : Row, todo : Seq(Slot),
       ids : Seq(Id), tries : 0..MaxTries]

Idle == [step |-> "idle", b |-> 0, room |-> None, doc |-> Blank, todo |-> <<>>, ids |-> <<>>, tries |-> 0]

Begin(q, h) == op[q].step = "idle" /\ h \in Runs[q]
At(q, h) == op[q].step = h
Goto(q, h) == op' = [op EXCEPT ![q].step = h]
Done(q) == op' = [op EXCEPT ![q] = Idle]
On(q, h, b) == op' = [op EXCEPT ![q] = [Idle EXCEPT !.step = h, !.b = b]]
Read(q, h, b) == op' = [op EXCEPT ![q] = [Idle EXCEPT !.step = h, !.b = b, !.doc = booking[b]]]

-----------------------------------------------------------------------------
(* Helpers *)

\* (Mutant: a booking that has begun before t is forgotten.)
StartsAfter(x, t) == x.out = None /\ x.from >= t

\* spanStillCovers: the booking's time reaches beyond t.
StillCovers(x, t) ==
  \/ x.out = None /\ x.till > t
  \/ x.out # None /\ x.out > t /\ x.out > x.from

Clashes(x, r, s) == x.status = "CONFIRMED" /\ x.room = r /\ x.from < s.till /\ StillCovers(x, s.from)

UnderMaintenance(r, s) == \E w \in window : w.room = r /\ w.from < s.till /\ w.till > s.from

\* assertNoOverlap for a time s in room r, the booking b left aside.
NoOverlap(r, s, b) ==
  /\ \A c \in Id \ {b} : ~Clashes(booking[c], r, s)
  /\ ~UnderMaintenance(r, s)

\* (Mutant: the numbers of bookings that are over are used again.)
ActiveNumbers == {i \in Id : booking[i].status \in Active /\ i <= IdLimit}

\* Numbers the query /^RB\d{3}$/ finds in use.
UsedNumbers == {i \in Id : booking[i].status # "NONE" /\ i <= IdLimit}

\* generateIdBatch: the least numbers not found in use.
NewIds(ids) ==
  /\ \A k \in DOMAIN ids : ids[k] \notin UsedNumbers
  /\ \A i \in Id \ UsedNumbers : (\E k \in DOMAIN ids : i <= ids[k]) => \E k \in DOMAIN ids : ids[k] = i
  /\ \A j, k \in DOMAIN ids : j < k => ids[j] < ids[k]

-----------------------------------------------------------------------------
(* withRoomLock *)

\* (Mutant: a lock document that exists does not stop the next handler.)
LockableAlways(r) == TRUE

\* The insertion of the lock document succeeds.
Lockable(r) == ~lock[r]

Locking(q) == op[q].step \in {"lockCreate", "lockMove"}

Acquire(q) ==
  /\ Locking(q) /\ op[q].tries < MaxTries /\ Lockable(op[q].room)
  /\ lock' = [lock EXCEPT ![op[q].room] = TRUE]
  /\ Goto(q, IF At(q, "lockCreate") THEN "create" ELSE "reschedule")
  /\ UNCHANGED <<now, booking, open, window>>

\* (Mutant: attempts are not counted.)
RetryForever(n) == 0

\* (Mutant: an attempt is counted twice.)
AttemptTwice(n) == n + 2

Attempt(n) == n + 1

\* The insertion fails on the room's document: wait before the next attempt.
Retry(q) ==
  /\ Locking(q) /\ op[q].tries < MaxTries /\ ~Lockable(op[q].room)
  /\ op' = [op EXCEPT ![q].tries = Attempt(@)]
  /\ UNCHANGED <<now, booking, lock, open, window>>

\* No attempt is left: the room is busy.
GiveUp(q) ==
  /\ Locking(q) /\ op[q].tries >= MaxTries /\ Done(q)
  /\ UNCHANGED <<now, booking, lock, open, window>>

\* The finally clause, whether the work under the lock succeeded or threw.
Unlock(q) ==
  /\ At(q, "unlock")
  /\ lock' = [lock EXCEPT ![op[q].room] = FALSE]
  /\ Done(q)
  /\ UNCHANGED <<now, booking, open, window>>

InSection(q, r) == op[q].step \in Section /\ op[q].room = r

\* (Mutant: lock documents carry no expiry.)
NeverTooOld(r) == FALSE

\* The lock document is older than its 30 seconds.  Without "slow", no handler
\* is that long about its work: only a crash leaves a lock behind.
TooOld(r) == "slow" \in Events \/ \A q \in Proc : ~InSection(q, r)

ExpireLock(r) ==
  /\ lock[r] /\ TooOld(r)
  /\ lock' = [lock EXCEPT ![r] = FALSE]
  /\ UNCHANGED <<now, booking, open, window, op>>

-----------------------------------------------------------------------------
(* create *)

CreateBegin(q, r, occ) ==
  /\ Begin(q, "create") /\ open[r]
  /\ op' = [op EXCEPT ![q] = [Idle EXCEPT !.step = "lockCreate", !.room = r, !.todo = occ]]
  /\ UNCHANGED <<now, booking, lock, open, window>>

\* A row of bulkImport is created like a single booking.
ImportRow(q, r, occ) == Len(occ) = 1 /\ CreateBegin(q, r, occ)

\* All occurrences are free, and there are numbers for them (within the bound).
CreateCheck(q) ==
  /\ At(q, "create")
  /\ \A k \in DOMAIN op[q].todo : NoOverlap(op[q].room, op[q].todo[k], 0)
  /\ \E ids \in [DOMAIN op[q].todo -> Id] :
       /\ NewIds(ids)
       /\ op' = [op EXCEPT ![q] = [@ EXCEPT !.step = "insert", !.ids = ids,
                                            !.b = IF Len(op[q].todo) > 1 THEN ids[1] ELSE 0]]
  /\ UNCHANGED <<now, booking, lock, open, window>>

CreateRefuse(q) ==
  /\ At(q, "create")
  /\ \/ \E k \in DOMAIN op[q].todo : ~NoOverlap(op[q].room, op[q].todo[k], 0)
     \/ ~\E ids \in [DOMAIN op[q].todo -> Id] : NewIds(ids)
  /\ Goto(q, "unlock")
  /\ UNCHANGED <<now, booking, lock, open, window>>

NewBooking(r, s, series) ==
  [Blank EXCEPT !.status = "PENDING", !.room = r, !.from = s.from, !.till = s.till, !.series = series]

\* The occurrences are inserted one by one; a number used meanwhile ends it.
CreateInsert(q) ==
  /\ At(q, "insert")
  /\ LET i == Head(op[q].ids)
     IN  IF booking[i].status = "NONE"
           THEN /\ booking' = [booking EXCEPT ![i] = NewBooking(op[q].room, Head(op[q].todo), op[q].b)]
                /\ op' = [op EXCEPT ![q] = [@ EXCEPT !.step = IF Len(op[q].todo) = 1 THEN "unlock" ELSE "insert",
                                                     !.todo = Tail(op[q].todo), !.ids = Tail(op[q].ids)]]
           ELSE Goto(q, "unlock") /\ UNCHANGED booking
  /\ UNCHANGED <<now, lock, open, window>>

-----------------------------------------------------------------------------
(* approve and reject *)

Exists(b) == booking[b].status # "NONE"

\* The room and time that approving the copy x gives its booking.
Target(x) == [room |-> IF x.pend.room = None THEN x.room ELSE x.pend.room,
              from |-> x.pend.from, till |-> x.pend.till]

ApproveBegin(q, b) ==
  /\ Begin(q, "approve") /\ Exists(b)
  /\ booking[b].pend # None \/ booking[b].status = "PENDING"
  /\ Read(q, IF booking[b].pend # None THEN "move" ELSE "approve", b)
  /\ UNCHANGED <<now, booking, lock, open, window>>

\* The check that the room is free, or the refusal.
ApproveCheck(q) ==
  /\ At(q, "approve")
  /\ IF NoOverlap(op[q].doc.room, op[q].doc, op[q].b) THEN Goto(q, "approveSave") ELSE Done(q)
  /\ UNCHANGED <<now, booking, lock, open, window>>

\* (Mutant: the update is made whatever the status has become.)
ReviewableAnyStatus(b) == Exists(b)

\* reviewPending: the update's condition on the status.
Reviewable(b) == booking[b].status = "PENDING"

ApproveSave(q) ==
  /\ At(q, "approveSave")
  /\ IF Reviewable(op[q].b)
       THEN booking' = [booking EXCEPT ![op[q].b].status = "CONFIRMED", ![op[q].b].reviewed = now]
       ELSE UNCHANGED booking
  /\ Done(q)
  /\ UNCHANGED <<now, lock, open, window>>

\* A rescheduling: the room asked for is checked when it is another one.
MoveCheck(q) ==
  /\ At(q, "move")
  /\ LET to == Target(op[q].doc)
     IN  IF (to.room = op[q].doc.room \/ open[to.room]) /\ NoOverlap(to.room, to, op[q].b)
           THEN Goto(q, "moveSave") ELSE Done(q)
  /\ UNCHANGED <<now, booking, lock, open, window>>

Moved(x, to) == [x EXCEPT !.room = to.room, !.from = to.from, !.till = to.till]

MoveSave(q) ==
  /\ At(q, "moveSave")
  /\ IF booking[op[q].b].pend # None
       THEN booking' = [booking EXCEPT ![op[q].b] =
                          [Moved(@, Target(op[q].doc)) EXCEPT !.reviewed = now, !.pend = None]]
       ELSE UNCHANGED booking
  /\ Done(q)
  /\ UNCHANGED <<now, lock, open, window>>

RejectBegin(q, b) ==
  /\ Begin(q, "reject") /\ Exists(b) /\ Read(q, "reject", b)
  /\ UNCHANGED <<now, booking, lock, open, window>>

\* A rescheduling in the copy read is turned down; otherwise the booking is.
RejectSave(q) ==
  /\ At(q, "reject")
  /\ LET b == op[q].b
     IN  booking' =
           IF op[q].doc.pend # None
             THEN [booking EXCEPT ![b].pend = None]
             ELSE IF Reviewable(b)
                    THEN [booking EXCEPT ![b].status = "REJECTED", ![b].reviewed = now]
                    ELSE booking
  /\ Done(q)
  /\ UNCHANGED <<now, lock, open, window>>

-----------------------------------------------------------------------------
(* reschedule, and the approver's request to do so *)

Reschedulable(x) == x.status \in Active /\ x.out = None /\ x.till > now

RescheduleBegin(q, b, r, s) ==
  /\ Begin(q, "reschedule") /\ Reschedulable(booking[b]) /\ open[r]
  /\ op' = [op EXCEPT ![q] = [Idle EXCEPT !.step = "lockMove", !.b = b, !.room = r, !.todo = <<s>>,
                                          !.doc = booking[b]]]
  /\ UNCHANGED <<now, booking, lock, open, window>>

RescheduleCheck(q) ==
  /\ At(q, "reschedule")
  /\ Goto(q, IF NoOverlap(op[q].room, Head(op[q].todo), op[q].b) THEN "rescheduleSave" ELSE "unlock")
  /\ UNCHANGED <<now, booking, lock, open, window>>

\* (Mutant: an approved booking is moved at once too.)
RescheduledAtOnce(x, doc, r, s) ==
  [Moved(x, [room |-> r, from |-> s.from, till |-> s.till]) EXCEPT !.asked = FALSE]

\* A booking that was still to be approved is moved at once; the time of an
\* approved one stands until the rescheduling is approved.
Rescheduled(x, doc, r, s) ==
  IF doc.status = "PENDING"
    THEN [Moved(x, [room |-> r, from |-> s.from, till |-> s.till]) EXCEPT !.asked = FALSE]
    ELSE [x EXCEPT !.pend = [room |-> IF r = doc.room THEN None ELSE r, from |-> s.from, till |-> s.till],
                   !.asked = FALSE]

RescheduleSave(q) ==
  /\ At(q, "rescheduleSave")
  /\ booking' = [booking EXCEPT ![op[q].b] = Rescheduled(@, op[q].doc, op[q].room, Head(op[q].todo))]
  /\ Goto(q, "unlock")
  /\ UNCHANGED <<now, lock, open, window>>

\* requestChange, of a booking that waits for approval.
AskBegin(q, b) ==
  /\ Begin(q, "ask")
  /\ booking[b].status \in Active /\ (booking[b].status = "PENDING" \/ booking[b].pend # None)
  /\ On(q, "ask", b)
  /\ UNCHANGED <<now, booking, lock, open, window>>

\* requestChangeForMaintenance, of a booking in its period.
AskForMaintenance(q, b) ==
  /\ Begin(q, "ask") /\ booking[b].status \in Active /\ booking[b].out = None
  /\ On(q, "ask", b)
  /\ UNCHANGED <<now, booking, lock, open, window>>

AskSave(q) ==
  /\ At(q, "ask")
  /\ booking' = [booking EXCEPT ![op[q].b].asked = TRUE]
  /\ Done(q)
  /\ UNCHANGED <<now, lock, open, window>>

-----------------------------------------------------------------------------
(* cancel, check-in and check-out, no-shows *)

Cancelled(x) == [x EXCEPT !.status = "CANCELLED", !.pend = None]

CancelBegin(q, b) ==
  /\ Begin(q, "cancel") /\ Exists(b) /\ booking[b].out = None /\ booking[b].till > now
  /\ On(q, "cancel", b)
  /\ UNCHANGED <<now, booking, lock, open, window>>

CancelSave(q) ==
  /\ At(q, "cancel")
  /\ booking' = [booking EXCEPT ![op[q].b] = Cancelled(@)]
  /\ Done(q)
  /\ UNCHANGED <<now, lock, open, window>>

\* cancelSeries: one update of the series' bookings that are not over.
CancelSeries(s) ==
  LET rest == {b \in Id : booking[b].series = s /\ booking[b].status \in Active /\ booking[b].till > now}
  IN  /\ "series" \in Events /\ rest # {}
      /\ booking' = [b \in Id |-> IF b \in rest THEN Cancelled(booking[b]) ELSE booking[b]]
      /\ UNCHANGED <<now, lock, open, window, op>>

CancelForMaintenance(b) ==
  /\ "maintain" \in Events /\ booking[b].status \in Active
  /\ booking' = [booking EXCEPT ![b] = Cancelled(@)]
  /\ UNCHANGED <<now, lock, open, window, op>>

CheckInBegin(q, b) ==
  /\ Begin(q, "checkIn") /\ booking[b].status = "CONFIRMED" /\ ~booking[b].in
  /\ now + Early >= booking[b].from /\ now < booking[b].till
  /\ On(q, "checkIn", b)
  /\ UNCHANGED <<now, booking, lock, open, window>>

CheckInSave(q) ==
  /\ At(q, "checkIn")
  /\ booking' = [booking EXCEPT ![op[q].b].in = TRUE]
  /\ Done(q)
  /\ UNCHANGED <<now, lock, open, window>>

CheckOutBegin(q, b) ==
  /\ Begin(q, "checkOut") /\ booking[b].in /\ booking[b].out = None
  /\ On(q, "checkOut", b)
  /\ UNCHANGED <<now, booking, lock, open, window>>

CheckOutSave(q) ==
  /\ At(q, "checkOut")
  /\ booking' = [booking EXCEPT ![op[q].b].out = now]
  /\ Done(q)
  /\ UNCHANGED <<now, lock, open, window>>

\* releaseNoShowBookings: nobody checked in in time, and the approval was not
\* later than the start.
NoShow(x) ==
  /\ x.status = "CONFIRMED" /\ ~x.in /\ x.from + Grace <= now /\ x.till > now
  /\ x.reviewed = None \/ x.reviewed <= x.from

\* One update, whenever somebody looks at whether room r is in use.
ReleaseNoShows(r) ==
  LET gone == {b \in Id : booking[b].room = r /\ NoShow(booking[b])}
  IN  /\ "noShow" \in Events /\ gone # {}
      /\ booking' = [b \in Id |-> IF b \in gone THEN [booking[b] EXCEPT !.status = "CANCELLED"] ELSE booking[b]]
      /\ UNCHANGED <<now, lock, open, window, op>>

-----------------------------------------------------------------------------
(* Rooms and their maintenance *)

\* setStatus, update, or the creation of a room under the number of one removed.
SetRoom(r) ==
  /\ "maintain" \in Events
  /\ open' = [open EXCEPT ![r] = ~@]
  /\ UNCHANGED <<now, booking, lock, window, op>>

RemoveRoom(r) ==
  /\ "maintain" \in Events
  /\ open' = [open EXCEPT ![r] = FALSE]
  /\ window' = {w \in window : w.room # r}
  /\ UNCHANGED <<now, booking, lock, op>>

PeriodOf(r, s) == [room |-> r, from |-> s.from, till |-> s.till]

CreateMaintenance(r, s) ==
  /\ "maintain" \in Events /\ s.till > now
  /\ window' = window \cup {PeriodOf(r, s)}
  /\ UNCHANGED <<now, booking, lock, open, op>>

UpdateMaintenance(w, s) ==
  /\ "maintain" \in Events /\ s.till > now
  /\ window' = (window \ {w}) \cup {PeriodOf(w.room, s)}
  /\ UNCHANGED <<now, booking, lock, open, op>>

RemoveMaintenance(w) ==
  /\ "maintain" \in Events
  /\ window' = window \ {w}
  /\ UNCHANGED <<now, booking, lock, open, op>>

-----------------------------------------------------------------------------
\* The server stops: what its handlers held stays as it is.
Crash(q) ==
  /\ "crash" \in Events /\ op[q].step # "idle" /\ Done(q)
  /\ UNCHANGED <<now, booking, lock, open, window>>

Tick ==
  /\ now < MaxTime /\ now' = now + 1
  /\ UNCHANGED <<booking, lock, open, window, op>>

Init ==
  /\ now = 0
  /\ booking = [b \in Id |-> Blank]
  /\ lock = [r \in Room |-> FALSE]
  /\ open = [r \in Room |-> TRUE]
  /\ window = {}
  /\ op = [q \in Proc |-> Idle]

\* A request reaches process q.
Request(q) ==
  \/ \E r \in Room, occ \in Occurrences : CreateBegin(q, r, occ) \/ ImportRow(q, r, occ)
  \/ \E b \in Id, r \in Room, s \in Slot : RescheduleBegin(q, b, r, s)
  \/ \E b \in Id : \/ ApproveBegin(q, b) \/ RejectBegin(q, b) \/ AskBegin(q, b) \/ AskForMaintenance(q, b)
                   \/ CancelBegin(q, b) \/ CheckInBegin(q, b) \/ CheckOutBegin(q, b)

\* Process q goes on with its handler.
Continue(q) ==
  \/ Acquire(q) \/ Retry(q) \/ GiveUp(q) \/ Unlock(q)
  \/ CreateCheck(q) \/ CreateRefuse(q) \/ CreateInsert(q)
  \/ RescheduleCheck(q) \/ RescheduleSave(q)
  \/ ApproveCheck(q) \/ ApproveSave(q) \/ MoveCheck(q) \/ MoveSave(q)
  \/ RejectSave(q) \/ AskSave(q) \/ CancelSave(q) \/ CheckInSave(q) \/ CheckOutSave(q)

Administration ==
  \/ \E s \in Id : CancelSeries(s)
  \/ \E b \in Id : CancelForMaintenance(b)
  \/ \E r \in Room : ReleaseNoShows(r) \/ SetRoom(r) \/ RemoveRoom(r)
  \/ \E r \in Room, s \in Slot : CreateMaintenance(r, s)
  \/ \E w \in window, s \in Slot : UpdateMaintenance(w, s)
  \/ \E w \in window : RemoveMaintenance(w)

Next ==
  \/ \E q \in Proc : Request(q) \/ Continue(q) \/ Crash(q)
  \/ \E r \in Room : ExpireLock(r)
  \/ Administration \/ Tick

Spec == Init /\ [][Next]_vars

\* Handlers run on unless their server stops, and the database drops what is too
\* old; requests, the clock and administration are not owed anything.
FairSpec ==
  /\ Spec
  /\ \A q \in Proc : WF_vars(Continue(q))
  /\ \A r \in Room : WF_vars(ExpireLock(r))

-----------------------------------------------------------------------------
(* Properties *)

\* Every row and every handler's copy of one stays within its schema.
TypeOK ==
  /\ now \in Time
  /\ booking \in [Id -> Row]
  /\ lock \in [Room -> BOOLEAN]
  /\ open \in [Room -> BOOLEAN]
  /\ window \subseteq Window
  /\ op \in [Proc -> Op]

\* The booking keeps its room at time t: until its end, or until it checked out.
InUse(x, t) ==
  x.status = "CONFIRMED" /\ x.from <= t /\ t < x.till /\ (x.out = None \/ t < x.out)

\* No two approved bookings have one room at the same time (assertNoOverlap, on
\* which approval, rescheduling and creation rely).
NoDoubleBooking ==
  \A a, b \in Id : \A t \in Time :
    InUse(booking[a], t) /\ InUse(booking[b], t) /\ booking[a].room = booking[b].room => a = b

\* The room and time of an approved booking change only by approving a
\* rescheduling that waits (RoomBooking.pendingStartAt: kept apart so as not to
\* touch the approved time).
ApprovedTimeStands ==
  [][\A b \in Id :
       /\ booking[b].status = "CONFIRMED" /\ booking'[b].status = "CONFIRMED"
       /\ [r |-> booking[b].room, f |-> booking[b].from, t |-> booking[b].till]
            # [r |-> booking'[b].room, f |-> booking'[b].from, t |-> booking'[b].till]
       => booking[b].pend # None]_vars

\* Decisions stand whatever handlers race: a booking that was turned down or
\* cancelled is never taken up again, and an approved one is at most cancelled
\* (the condition on the status in reviewPending, cancelForMaintenance and
\* releaseNoShowBookings).
DecisionsStand ==
  [][\A b \in Id : booking'[b].status # booking[b].status =>
       booking[b].status \in {"NONE", "PENDING"} \/ booking'[b].status = "CANCELLED"]_vars

\* Unless a handler outlives its lock, one handler at a time checks and writes
\* under the lock of a room, although the lock has no owner and whoever deletes it
\* deletes it (withRoomLock).
SectionExclusive ==
  \A p, q \in Proc, r \in Room : InSection(p, r) /\ InSection(q, r) => p = q

\* A number found free under the lock is still free when the booking is inserted
\* (generateIdBatch; with one room, whose lock then covers all bookings).
NumbersStayFree ==
  \A q \in Proc : At(q, "insert") =>
    \A k \in DOMAIN op[q].ids : booking[op[q].ids[k]].status = "NONE"

\* Every handler comes to its end, also one that never gets the lock: it gives up
\* after its last attempt (withRoomLock, maxAttempts).
HandlersEnd == \A q \in Proc : op[q].step # "idle" ~> op[q].step = "idle"

\* The lock of a room becomes free again and again, also when its holder crashes
\* (RoomBookingLockSchema: expireAfterSeconds).
LocksAreFreed == \A r \in Room : []<>(~lock[r])
=============================================================================
