---------------------------- MODULE Tickets_proofs ----------------------------
(***************************************************************************)
(* Theorems about Tickets, for every value of its constants.               *)
(***************************************************************************)
EXTENDS Tickets, FiniteSetTheorems, SequenceTheorems, WellFoundedInduction, TLAPS

(***************************************************************************)
(* Types.  TypeOK says nothing of what a handler carries from its read to  *)
(* its save, nor of the copies of the job.                                 *)
(***************************************************************************)
Pausing == [status : TicketStatus, paused : Nat, open : Seq(Nat)]

CreateOp == [do : {"create"}, policy : Policy]
AssignOp == [do : {"assign"}, t : Ticket, untaken : BOOLEAN]
StatusOp == [do : {"status"}, t : Ticket, to : TicketStatus, copy : Pausing]
Op == {Idle} \cup CreateOp \cup AssignOp \cup StatusOp

Copy == [marked : BOOLEAN, fire : SUBSET Kind, policy : Policy]

ScanOK(s) ==
  /\ s = [todo |-> s.todo, copy |-> s.copy, step |-> s.step]
  /\ s.todo \subseteq Ticket /\ s.todo # {} /\ s.step \in {"tell", "escalate", "save"}
  /\ \A t \in s.todo : s.copy[t] \in Copy

ScansOK(S) == DOMAIN S = Run /\ \A j \in Run : S[j] = NoScan \/ ScanOK(S[j])

TypeInv ==
  /\ row \in [Ticket -> Row \cup {None}]
  /\ created \in 0..MaxTicket /\ policies \in [Policy -> PolicyStatus] /\ departments \subseteq Dept
  /\ op \in [Proc -> Op] /\ now \in 0..MaxTime
  /\ ScansOK(scan)
  /\ waited \in [Ticket -> Nat] /\ told \in [Ticket -> [Kind -> Nat]]

(***************************************************************************)
(* Pauses.  A handler that will write a status works on a copy of the      *)
(* fields it writes, and the copy is up to date: no other request writes   *)
(* them meanwhile, and the job never does.                                 *)
(***************************************************************************)
Waiting(s) == s = "WAITING_ON_USER"

PausesFit(r, waits, at) ==
  IF Waiting(r.status) THEN Len(r.open) = 1 /\ r.paused + (at - Head(r.open)) = waits
                       ELSE r.open = <<>> /\ r.paused = waits

UpToDate(o) ==
  /\ o.do \in Writes => o.t <= created
  /\ o.do = "assign" /\ row[o.t] # None /\ o.untaken => row[o.t].status = "OPEN"
  /\ o.do = "status" /\ Waiting(o.to) => ~Waiting(o.copy.status)
  /\ o.do = "status" /\ row[o.t] # None =>
       /\ o.copy.status = row[o.t].status
       /\ o.copy.paused = row[o.t].paused
       /\ o.copy.open = row[o.t].open

Numbered == \A t \in Ticket : t > created => row[t] = None
OpsUpToDate == \A q \in Proc : UpToDate(op[q])
OpsRun == \A q \in Proc : op[q] # Idle => op[q].do \in Runs[q]

PauseInv == PausesMatchWaits /\ Numbered /\ OpsUpToDate /\ OpsRun

Inv == TypeInv /\ PauseInv

LEMMA Constants ==
  /\ MaxTicket \in Nat /\ MaxTime \in Nat /\ MaxPaused \in Nat /\ MaxRun \in Nat
  /\ MaxDept \in Nat /\ Limit \in Nat
  /\ Rules \in [Policy -> SUBSET Nat] /\ Asks \in [Ticket -> Policy]
  /\ Breach \in Kind /\ Breach \notin Nat
  /\ \A p \in Policy : Rules[p] \subseteq Kind /\ Breach \notin Rules[p]
BY TicketConstantsOK DEF Kind, Breach

LEMMA RowsOfPresent == ASSUME TypeInv, NEW t \in Present PROVE t \in Ticket /\ row[t] \in Row /\ row[t] # None
BY DEF TypeInv, Present

LEMMA RowIsSomething == ASSUME NEW r \in Row PROVE r # None
BY NoneIsNoRow

LEMMA OpShapes ==
  ASSUME NEW o \in Op
  PROVE  /\ o.do = "create" => o \in CreateOp
         /\ o.do = "assign" => o \in AssignOp
         /\ o.do = "status" => o \in StatusOp
         /\ o.do \in {"create", "assign", "status"} => o # Idle
         /\ o.do \notin {"create", "assign", "status"} => o = Idle
BY DEF Op, Idle, CreateOp, AssignOp, StatusOp

LEMMA IdleFits == Idle \in Op /\ UpToDate(Idle) /\ Idle.do = "idle"
BY DEF Idle, Op, UpToDate, Writes

LEMMA NoScanSteps == NoScan.todo = {} /\ NoScan.step = "idle"
BY DEF NoScan

LEMMA ScanFields ==
  ASSUME TypeInv, NEW j \in Run
  PROVE  /\ scan[j].step # "idle" => ScanOK(scan[j])
         /\ ScanOK(scan[j]) => scan[j] # NoScan
         /\ scan[j].todo \subseteq Ticket /\ scan[j].step \in Steps
BY NoScanSteps DEF TypeInv, ScansOK, ScanOK, Steps

LEMMA RunMoves ==
  ASSUME ScansOK(scan), NEW j \in Run, NEW s, s = NoScan \/ ScanOK(s), RunBecomes(j, s)
  PROVE  ScansOK(scan') /\ scan'[j] = s /\ \A i \in Run \ {j} : scan'[i] = scan[i]
BY DEF ScansOK, RunBecomes

LEMMA TypesFollow == TypeInv => TypeOK
BY ScanFields DEF TypeInv, TypeOK, ScansOK

\* What the pauses of PausesMatchWaits are
LEMMA PausesAre ==
  /\ PausesMatchWaits <=> \A t \in Present : PausesFit(row[t], waited[t], now)
  /\ PausesMatchWaits' <=> \A t \in Present' : PausesFit(row'[t], waited'[t], now')
BY DEF PausesMatchWaits, PausesFit, Waiting

LEMMA PauseTimes ==
  ASSUME Inv, NEW t \in Present
  PROVE  PausesFit(row[t], waited[t], now)
BY PausesAre DEF Inv, PauseInv

-----------------------------------------------------------------------------
(* Steps that write no ticket *)

LEMMA Frame ==
  ASSUME Inv, UNCHANGED <<row, created, op, waited, now>>,
         policies' \in [Policy -> PolicyStatus], departments' \subseteq Dept,
         ScansOK(scan'), told' \in [Ticket -> [Kind -> Nat]]
  PROVE  Inv'
<1>1. TypeInv'
  BY DEF Inv, TypeInv
<1>2. PauseInv'
  BY DEF Inv, PauseInv, PausesMatchWaits, Present, Numbered, OpsUpToDate, UpToDate, OpsRun
<1> QED BY <1>1, <1>2 DEF Inv

\* A handler goes on with what it read, or ends.
LEMMA HandlerGoesOn ==
  ASSUME Inv, NEW q \in Proc, NEW o \in Op, UpToDate(o), o = Idle \/ o.do \in Runs[q],
         op' = [op EXCEPT ![q] = o], UNCHANGED <<row, created, waited>>, UnchangedConfig, UnchangedJobs
  PROVE  Inv'
<1>1. op' \in [Proc -> Op] /\ op'[q] = o /\ \A p \in Proc \ {q} : op'[p] = op[p]
  BY DEF Inv, TypeInv
<1>2. TypeInv'
  BY <1>1 DEF Inv, TypeInv, UnchangedConfig, UnchangedJobs, ScansOK, ScanOK
<1>3. PausesMatchWaits' /\ Numbered'
  BY DEF Inv, PauseInv, PausesMatchWaits, Present, Numbered, UnchangedJobs
<1>4. ASSUME NEW p \in Proc PROVE UpToDate(op[p])'
  <2>1. UpToDate(op'[p])
    BY <1>1 DEF Inv, PauseInv, OpsUpToDate
  <2> QED BY <2>1 DEF UpToDate
<1>5. OpsRun'
  BY <1>1 DEF Inv, PauseInv, OpsRun
<1> QED BY <1>2, <1>3, <1>4, <1>5 DEF Inv, PauseInv, OpsUpToDate

LEMMA CreateBeginStep == ASSUME Inv, NEW q \in Proc, CreateBegin(q) PROVE Inv'
<1> DEFINE o == [do |-> "create", policy |-> Asks[created + 1]]
<1>1. created + 1 \in Ticket
  BY Constants DEF CreateBegin, Inv, TypeInv, Ticket
<1>2. o \in Op /\ UpToDate(o) /\ o.do \in Runs[q]
  BY <1>1, Constants DEF Op, CreateOp, UpToDate, Writes, CreateBegin, Start
<1>3. op' = [op EXCEPT ![q] = o]
  BY DEF CreateBegin
<1> HIDE DEF o
<1> QED BY <1>2, <1>3, HandlerGoesOn DEF CreateBegin

LEMMA AssignReadStep == ASSUME Inv, NEW q \in Proc, NEW t \in Ticket, AssignRead(q, t) PROVE Inv'
<1> DEFINE o == [do |-> "assign", t |-> t, untaken |-> row[t].status = "OPEN"]
<1>1. t <= created
  BY DEF AssignRead, Present, Inv, PauseInv, TypeInv, Numbered, Ticket
<1>2. o \in Op
  BY DEF Op, AssignOp
<1>3. UpToDate(o) /\ o.do \in Runs[q]
  BY <1>1 DEF UpToDate, Writes, AssignRead, Start
<1>4. op' = [op EXCEPT ![q] = o]
  BY DEF AssignRead
<1> HIDE DEF o
<1> QED BY <1>2, <1>3, <1>4, HandlerGoesOn DEF AssignRead

LEMMA NoWaitAgain ==
  ASSUME NEW s \in TicketStatus, NEW to \in AllowedTransitions[s]
  PROVE  to \in TicketStatus /\ to # s /\ (Waiting(to) => ~Waiting(s))
BY DEF TicketStatus, AllowedTransitions, Waiting

LEMMA StatusReadStep == ASSUME Inv, NEW q \in Proc, NEW t \in Ticket, StatusRead(q, t) PROVE Inv'
<1>1. t <= created /\ row[t] \in Row
  BY RowsOfPresent DEF StatusRead, Present, Inv, PauseInv, TypeInv, Numbered, Ticket
<1>2. PICK to \in AllowedTransitions[row[t].status] :
        op' = [op EXCEPT ![q] = [do |-> "status", t |-> t, to |-> to,
                copy |-> [status |-> row[t].status, paused |-> row[t].paused, open |-> row[t].open]]]
  BY DEF StatusRead
<1> DEFINE c == [status |-> row[t].status, paused |-> row[t].paused, open |-> row[t].open]
           o == [do |-> "status", t |-> t, to |-> to, copy |-> c]
<1>3. row[t].status \in TicketStatus /\ c \in Pausing
  BY <1>1 DEF Row, Pausing
<1>4. to \in TicketStatus /\ (Waiting(to) => ~Waiting(c.status))
  BY <1>3, NoWaitAgain
<1>5. o \in Op
  BY <1>3, <1>4 DEF Op, StatusOp
<1>6. UpToDate(o) /\ o.do \in Runs[q]
  BY <1>1, <1>4 DEF UpToDate, Writes, StatusRead, Start
<1> HIDE DEF o
<1>7. op' = [op EXCEPT ![q] = o]
  BY <1>2 DEF o
<1> QED BY <1>5, <1>6, <1>7, HandlerGoesOn DEF StatusRead

-----------------------------------------------------------------------------
(* Steps that write tickets *)

LEMMA RowWritten ==
  ASSUME Inv, NEW t \in Present, NEW r \in Row \cup {None}, row' = [row EXCEPT ![t] = r],
         r # None => PausesFit(r, waited'[t], now),
         UNCHANGED <<created, policies, departments, now>>, ScansOK(scan'), op' \in [Proc -> Op],
         waited' \in [Ticket -> Nat], told' \in [Ticket -> [Kind -> Nat]],
         \A u \in Ticket \ {t} : waited'[u] = waited[u],
         \A p \in Proc :
           \/ op'[p] = Idle
           \/ /\ op'[p] = op[p]
              /\ op[p].do \in Writes /\ r # None =>
                   r.status = row[t].status /\ r.paused = row[t].paused /\ r.open = row[t].open
  PROVE  Inv'
<1>1. t \in Ticket /\ row \in [Ticket -> Row \cup {None}]
  BY DEF Inv, TypeInv, Present
<1>2. row' \in [Ticket -> Row \cup {None}] /\ row'[t] = r /\ \A u \in Ticket \ {t} : row'[u] = row[u]
  BY <1>1
<1>3. TypeInv'
  BY <1>2 DEF Inv, TypeInv
<1>4. PausesMatchWaits'
  <2>1. ASSUME NEW u \in Present' PROVE PausesFit(row'[u], waited'[u], now')
    BY <1>1, <1>2, PauseTimes DEF Present
  <2> QED BY <2>1, PausesAre
<1>5. Numbered'
  BY <1>1, <1>2 DEF Inv, PauseInv, Numbered, Present, TypeInv
<1>6. ASSUME NEW p \in Proc PROVE UpToDate(op[p])'
  <2>1. CASE op'[p] = Idle
    BY <2>1 DEF UpToDate, Idle, Writes
  <2>2. CASE op'[p] = op[p] /\ op[p].do \notin Writes
    BY <2>2 DEF UpToDate, Writes
  <2>3. CASE op'[p] = op[p] /\ op[p].do \in Writes /\ (r # None =>
               r.status = row[t].status /\ r.paused = row[t].paused /\ r.open = row[t].open)
    <3>1. op[p] \in Op /\ op[p].t \in Ticket /\ UpToDate(op[p])
      <4>1. op[p] \in Op /\ UpToDate(op[p])
        BY DEF Inv, TypeInv, PauseInv, OpsUpToDate
      <4> QED BY <2>3, <4>1, OpShapes DEF Writes, AssignOp, StatusOp
    <3>2. CASE op[p].t # t
      <4>1. row'[op[p].t] = row[op[p].t]
        BY <1>2, <3>1, <3>2
      <4> QED BY <2>3, <3>1, <4>1 DEF UpToDate
    <3>3. CASE op[p].t = t
      <4>1. row'[op[p].t] = r /\ row[t] # None
        BY <1>2, <3>3 DEF Present
      <4> QED BY <2>3, <3>1, <3>3, <4>1 DEF UpToDate
    <3> QED BY <3>2, <3>3
  <2> QED BY <2>1, <2>2, <2>3
<1>7. OpsRun'
  BY DEF Inv, PauseInv, OpsRun
<1> QED BY <1>3, <1>4, <1>5, <1>6, <1>7 DEF Inv, PauseInv, OpsUpToDate

\* At most one handler is about to write a status.
LEMMA OneWriter ==
  ASSUME Inv, NEW q \in Proc, op[q].do \in Writes, NEW p \in Proc \ {q}
  PROVE  op[p].do \notin Writes
<1>1. \A o \in Proc : op[o].do \in Writes => op[o] # Idle /\ op[o].do \in Runs[o]
  BY IdleFits DEF Inv, PauseInv, OpsRun, Writes
<1> QED BY <1>1, OneStatusWriter

LEMMA DoneWith ==
  ASSUME Inv, NEW q \in Proc, Done(q)
  PROVE  op' \in [Proc -> Op] /\ op'[q] = Idle /\ \A p \in Proc \ {q} : op'[p] = op[p]
BY IdleFits DEF Inv, TypeInv, Done

LEMMA WriterOp ==
  ASSUME Inv, NEW q \in Proc
  PROVE  /\ UpToDate(op[q])
         /\ op[q].do = "create" => op[q] \in CreateOp
         /\ op[q].do = "assign" => op[q] \in AssignOp
         /\ op[q].do = "status" => op[q] \in StatusOp
BY OpShapes DEF Inv, TypeInv, PauseInv, OpsUpToDate

\* A writer ends: the ticket gets a status, and pauses that fit it.
LEMMA StatusWritten ==
  ASSUME Inv, NEW q \in Proc, op[q].do \in Writes, Done(q), NEW t \in Present, NEW r \in Row,
         row' = [row EXCEPT ![t] = r], PausesFit(r, waited[t], now),
         UNCHANGED <<created, waited>>, UnchangedConfig, UnchangedJobs
  PROVE  Inv'
<1>1. \A p \in Proc : op'[p] = Idle \/ (op'[p] = op[p] /\ op[p].do \notin Writes)
  BY DoneWith, OneWriter
<1>2. op' \in [Proc -> Op]
  BY DoneWith
<1>3. ScansOK(scan')
  BY DEF UnchangedJobs, Inv, TypeInv, ScansOK, ScanOK
<1> QED BY <1>1, <1>2, <1>3, RowWritten DEF UnchangedConfig, UnchangedJobs, Inv, TypeInv

LEMMA NothingWritten ==
  ASSUME Inv, NEW q \in Proc, Done(q), UNCHANGED <<row, created, waited>>, UnchangedConfig, UnchangedJobs
  PROVE  Inv'
BY IdleFits, HandlerGoesOn DEF Done

\* Saves of requests leave what the job writes, and the deadline, alone.
Kept(r, s) == r.due = s.due /\ r.policy = s.policy /\ r.breached = s.breached /\ r.fired = s.fired

Saves(q, t) ==
  \E r \in Row : row' = [row EXCEPT ![t] = r] /\ Kept(r, row[t]) /\ PausesFit(r, waited[t], now)

LEMMA AssignSaves ==
  ASSUME Inv, NEW q \in Proc, AssignSave(q)
  PROVE  op[q].do \in Writes /\ (UNCHANGED row \/ (op[q].t \in Present /\ Saves(q, op[q].t)))
<1> DEFINE t == op[q].t
           r == [row[t] EXCEPT !.status = "ASSIGNED"]
<1>1. op[q].do \in Writes /\ op[q] \in AssignOp /\ UpToDate(op[q])
  BY WriterOp DEF AssignSave, Writes
<1>2. CASE t \in Present /\ op[q].untaken
  <2>1. row[t] \in Row /\ row[t].status = "OPEN" /\ PausesFit(row[t], waited[t], now)
    BY <1>1, <1>2, RowsOfPresent, PauseTimes DEF Inv, UpToDate, AssignSave
  <2>2. row' = [row EXCEPT ![t] = r]
    BY <1>2 DEF AssignSave
  <2>3. r \in Row /\ r.status = "ASSIGNED" /\ r.paused = row[t].paused /\ r.open = row[t].open /\ Kept(r, row[t])
    BY <2>1 DEF Row, TicketStatus, Kept
  <2>4. PausesFit(r, waited[t], now)
    BY <2>1, <2>3 DEF PausesFit, Waiting
  <2> HIDE DEF r, t
  <2>5. Saves(q, t)
    BY <2>2, <2>3, <2>4 DEF Saves
  <2> QED BY <1>1, <1>2, <2>5 DEF t
<1>3. CASE ~(t \in Present /\ op[q].untaken)
  BY <1>1, <1>3 DEF AssignSave
<1> QED BY <1>2, <1>3

\* A change of status ends the open pause or begins one.
LEMMA PausesKept ==
  ASSUME NEW c \in Pausing, NEW to \in TicketStatus, NEW w \in Nat, now \in Nat,
         PausesFit(c, w, now), Waiting(to) => ~Waiting(c.status)
  PROVE  /\ Pauses(c, to).paused \in Nat /\ Pauses(c, to).open \in Seq(Nat)
         /\ IF Waiting(to) THEN /\ Len(Pauses(c, to).open) = 1
                                /\ Pauses(c, to).paused + (now - Head(Pauses(c, to).open)) = w
                           ELSE Pauses(c, to).open = <<>> /\ Pauses(c, to).paused = w
<1>0. c.paused \in Nat /\ c.open \in Seq(Nat)
  BY DEF Pausing
<1>1. CASE Waiting(to)
  <2> DEFINE p == [c EXCEPT !.open = Append(@, now)]
  <2>1. Pauses(c, to) = p
    BY <1>1 DEF Pauses, Waiting
  <2>2. p.paused = c.paused /\ p.open = Append(c.open, now)
    BY DEF Pausing
  <2>3. c.open = <<>> /\ c.paused = w
    BY <1>1 DEF PausesFit
  <2>4. /\ Append(c.open, now) \in Seq(Nat) /\ Len(Append(c.open, now)) = 1
        /\ Append(c.open, now)[1] = now
    BY <1>0, <2>3, EmptySeq, AppendProperties
  <2>5. p.open \in Seq(Nat) /\ Len(p.open) = 1 /\ Head(p.open) = now
    BY <2>2, <2>4
  <2> HIDE DEF p
  <2> QED BY <1>0, <1>1, <2>1, <2>2, <2>3, <2>5
<1>2. CASE ~Waiting(to) /\ Waiting(c.status)
  <2> DEFINE p == [c EXCEPT !.paused = @ + (now - Head(c.open)), !.open = Tail(@)]
  <2>1. Len(c.open) = 1 /\ c.paused + (now - Head(c.open)) = w
    BY <1>2 DEF PausesFit
  <2>2. c.open # <<>>
    BY <2>1, EmptySeq
  <2>5. Tail(c.open) \in Seq(Nat) /\ Len(Tail(c.open)) = 0
    BY <1>0, <2>1, <2>2, HeadTailProperties
  <2>6. Tail(c.open) = <<>>
    BY <2>5, EmptySeq
  <2>3. Pauses(c, to) = p
    BY <1>2, <2>2 DEF Pauses, Waiting
  <2>4. p.paused = c.paused + (now - Head(c.open)) /\ p.open = Tail(c.open)
    BY DEF Pausing
  <2> HIDE DEF p
  <2> QED BY <1>2, <2>1, <2>3, <2>4, <2>5, <2>6
<1>3. CASE ~Waiting(to) /\ ~Waiting(c.status)
  <2>1. Pauses(c, to) = c
    BY <1>3 DEF Pauses, Waiting
  <2> QED BY <1>0, <1>3, <2>1 DEF PausesFit
<1> QED BY <1>1, <1>2, <1>3

LEMMA StatusSaves ==
  ASSUME Inv, NEW q \in Proc, StatusSave(q)
  PROVE  op[q].do \in Writes /\ (UNCHANGED row \/ (op[q].t \in Present /\ Saves(q, op[q].t)))
<1> DEFINE t == op[q].t
           c == op[q].copy
           new == Pauses(c, op[q].to)
           r == [row[t] EXCEPT !.status = op[q].to, !.paused = new.paused, !.open = new.open]
<1>1. op[q].do = "status" /\ op[q].do \in Writes /\ op[q] \in StatusOp /\ UpToDate(op[q])
  BY WriterOp DEF StatusSave, Writes
<1>2. CASE t \in Present /\ ~UNCHANGED row
  <2>1. t \in Ticket /\ row[t] \in Row /\ row[t] # None /\ PausesFit(row[t], waited[t], now) /\ now \in Nat /\ waited[t] \in Nat
    BY <1>2, RowsOfPresent, PauseTimes DEF Inv, TypeInv
  <2>2. c \in Pausing /\ op[q].to \in TicketStatus
    BY <1>1 DEF StatusOp
  <2>3. c.status = row[t].status /\ c.paused = row[t].paused /\ c.open = row[t].open
        /\ (Waiting(op[q].to) => ~Waiting(c.status))
    BY <1>1, <2>1 DEF UpToDate
  <2>4. PausesFit(c, waited[t], now)
    BY <2>1, <2>3 DEF PausesFit
  <2>5. /\ new.paused \in Nat /\ new.open \in Seq(Nat)
        /\ IF Waiting(op[q].to) THEN Len(new.open) = 1 /\ new.paused + (now - Head(new.open)) = waited[t]
                                ELSE new.open = <<>> /\ new.paused = waited[t]
    BY <2>1, <2>2, <2>3, <2>4, PausesKept
  <2>6. row' = [row EXCEPT ![t].status = op[q].to, ![t].paused = new.paused, ![t].open = new.open]
    BY <1>2 DEF StatusSave
  <2> HIDE DEF new
  <2>7. row' = [row EXCEPT ![t] = r]
    BY <2>1, <2>6 DEF Inv, TypeInv
  <2>8. r \in Row /\ r.status = op[q].to /\ r.paused = new.paused /\ r.open = new.open /\ Kept(r, row[t])
    BY <2>1, <2>2, <2>5 DEF Row, Kept
  <2>9. PausesFit(r, waited[t], now)
    BY <2>5, <2>8 DEF PausesFit
  <2> HIDE DEF t, r, c
  <2>10. Saves(q, t)
    BY <2>7, <2>8, <2>9 DEF Saves
  <2> QED BY <1>1, <1>2, <2>10 DEF t
<1>3. CASE t \notin Present \/ UNCHANGED row
  <2> HIDE DEF new
  <2>1. row' = row
    BY <1>3 DEF StatusSave
  <2> QED BY <1>1, <2>1
<1> QED BY <1>2, <1>3

LEMMA SaveStep == ASSUME Inv, NEW q \in Proc, AssignSave(q) \/ StatusSave(q) PROVE Inv'
<1>1. Done(q) /\ UNCHANGED <<created, waited>> /\ UnchangedConfig /\ UnchangedJobs
  BY DEF AssignSave, StatusSave
<1>2. op[q].do \in Writes /\ (UNCHANGED row \/ (op[q].t \in Present /\ Saves(q, op[q].t)))
  BY AssignSaves, StatusSaves
<1>3. CASE UNCHANGED row
  BY <1>1, <1>3, NothingWritten
<1>4. CASE op[q].t \in Present /\ Saves(q, op[q].t)
  BY <1>1, <1>2, <1>4, StatusWritten DEF Saves
<1> QED BY <1>2, <1>3, <1>4

\* The insertion of a ticket
Inserted(t, p) ==
  /\ t = created + 1 /\ created' = t
  /\ row' = [row EXCEPT ![t] = [status |-> "OPEN", policy |-> p, due |-> DueDate(now),
                                paused |-> 0, open |-> <<>>, breached |-> FALSE, fired |-> {}]]
  /\ waited' = [waited EXCEPT ![t] = 0]

LEMMA InsertCases ==
  ASSUME Inv, NEW q \in Proc, CreateInsert(q)
  PROVE  /\ op[q] \in CreateOp /\ Done(q) /\ UnchangedConfig /\ UnchangedJobs
         /\ \/ UNCHANGED <<row, created, waited>>
            \/ created + 1 \in Ticket /\ Inserted(created + 1, op[q].policy)
<1>1. op[q] \in CreateOp
  BY WriterOp DEF CreateInsert
<1>2. created + 1 <= MaxTicket => created + 1 \in Ticket
  BY Constants DEF Inv, TypeInv, Ticket
<1> QED BY <1>1, <1>2 DEF CreateInsert, Inserted

\* Sets row'[t] apart from the other rows.
LEMMA InsertedRow ==
  ASSUME Inv, NEW t \in Ticket, NEW p \in Policy, Inserted(t, p)
  PROVE  /\ row' \in [Ticket -> Row \cup {None}] /\ row'[t] \in Row
         /\ row'[t].status = "OPEN" /\ row'[t].open = <<>> /\ row'[t].paused = 0
         /\ row'[t].policy = p /\ row'[t].due = now + Limit
         /\ row'[t].breached = FALSE /\ row'[t].fired = {}
         /\ \A u \in Ticket \ {t} : row'[u] = row[u] /\ waited'[u] = waited[u]
         /\ waited' \in [Ticket -> Nat] /\ waited'[t] = 0
         /\ row[t] = None /\ created' \in 0..MaxTicket /\ t = created + 1 /\ created' = t
<1> DEFINE r == [status |-> "OPEN", policy |-> p, due |-> DueDate(now),
                 paused |-> 0, open |-> <<>>, breached |-> FALSE, fired |-> {}]
<1>1. now \in Nat /\ row \in [Ticket -> Row \cup {None}] /\ waited \in [Ticket -> Nat] /\ created \in Nat
  BY Constants DEF Inv, TypeInv
<1>2. DueDate(now) = now + Limit /\ now + Limit \in Nat
  BY <1>1, Constants DEF DueDate
<1>3. <<>> \in Seq(Nat)
  BY EmptySeq
<1>4. r \in Row
  BY <1>2, <1>3 DEF Row, TicketStatus
<1>5. /\ r.status = "OPEN" /\ r.open = <<>> /\ r.paused = 0 /\ r.policy = p /\ r.due = now + Limit
      /\ r.breached = FALSE /\ r.fired = {}
  BY <1>2
<1>6. row' = [row EXCEPT ![t] = r] /\ waited' = [waited EXCEPT ![t] = 0] /\ t = created + 1 /\ created' = t
  BY DEF Inserted
<1> HIDE DEF r
<1>7. row[t] = None /\ created' \in 0..MaxTicket
  BY <1>1, <1>6, Constants DEF Inv, PauseInv, Numbered, Ticket
<1>8. row' \in [Ticket -> Row \cup {None}] /\ row'[t] = r /\ \A u \in Ticket \ {t} : row'[u] = row[u]
  BY <1>1, <1>4, <1>6
<1>9. waited' \in [Ticket -> Nat] /\ waited'[t] = 0 /\ \A u \in Ticket \ {t} : waited'[u] = waited[u]
  BY <1>1, <1>6
<1> QED BY <1>4, <1>5, <1>6, <1>7, <1>8, <1>9

LEMMA CreateInsertStep == ASSUME Inv, NEW q \in Proc, CreateInsert(q) PROVE Inv'
<1>1. CASE UNCHANGED <<row, created, waited>>
  BY <1>1, InsertCases, NothingWritten
<1>2. CASE created + 1 \in Ticket /\ Inserted(created + 1, op[q].policy)
  <2> DEFINE t == created + 1
             p == op[q].policy
  <2>1. p \in Policy /\ t \in Ticket /\ Inserted(t, p) /\ created \in Nat
    BY <1>2, InsertCases, Constants DEF CreateOp, Inv, TypeInv
  <2> HIDE DEF p
  <2>2. /\ row' \in [Ticket -> Row \cup {None}] /\ row'[t] \in Row
        /\ row'[t].status = "OPEN" /\ row'[t].open = <<>> /\ row'[t].paused = 0
        /\ \A u \in Ticket \ {t} : row'[u] = row[u] /\ waited'[u] = waited[u]
        /\ waited' \in [Ticket -> Nat] /\ waited'[t] = 0
        /\ created' \in 0..MaxTicket /\ created' = t
    BY <2>1, InsertedRow
  <2>3. op' \in [Proc -> Op] /\ op'[q] = Idle /\ \A o \in Proc \ {q} : op'[o] = op[o]
    BY InsertCases, DoneWith
  <2>4. UNCHANGED <<scan, now, told, policies, departments>>
    BY InsertCases DEF UnchangedJobs, UnchangedConfig
  <2>5. TypeInv'
    BY <2>2, <2>3, <2>4 DEF Inv, TypeInv, ScansOK, ScanOK
  <2>6. PausesMatchWaits'
    <3>1. ASSUME NEW u \in Present' PROVE PausesFit(row'[u], waited'[u], now')
      <4>1. u \in Ticket /\ row'[u] # None
        BY DEF Present
      <4>2. CASE u = t
        BY <2>2, <4>2 DEF PausesFit, Waiting
      <4>3. CASE u # t
        BY <2>2, <2>4, <4>1, <4>3, PauseTimes DEF Present
      <4> QED BY <4>2, <4>3
    <3> QED BY <3>1, PausesAre
  <2>7. Numbered'
    BY <2>1, <2>2 DEF Inv, PauseInv, Numbered, Ticket
  <2>8. ASSUME NEW o \in Proc PROVE UpToDate(op[o])'
    <3>1. CASE op'[o] = Idle
      BY <3>1 DEF UpToDate, Idle, Writes
    <3>2. CASE op'[o] = op[o] /\ op[o].do \notin Writes
      BY <3>2 DEF UpToDate, Writes
    <3>3. CASE op'[o] = op[o] /\ op[o].do \in Writes
      <4>1. op[o].t \in Ticket /\ UpToDate(op[o])
        BY <3>3, WriterOp DEF AssignOp, StatusOp, Writes
      <4>2. op[o].t <= created
        BY <3>3, <4>1 DEF UpToDate
      <4>3. row'[op[o].t] = row[op[o].t] /\ op[o].t <= created'
        BY <2>1, <2>2, <4>1, <4>2 DEF Ticket
      <4> QED BY <3>3, <4>1, <4>3 DEF UpToDate
    <3> QED BY <2>3, <3>1, <3>2, <3>3
  <2>9. OpsRun'
    BY <2>3 DEF Inv, PauseInv, OpsRun
  <2> QED BY <2>5, <2>6, <2>7, <2>8, <2>9 DEF Inv, PauseInv, OpsUpToDate
<1> QED BY <1>1, <1>2, InsertCases

LEMMA RemoveStep == ASSUME Inv, NEW t \in Ticket, Remove(t) PROVE Inv'
<1>1. t \in Present /\ row' = [row EXCEPT ![t] = None]
  BY DEF Remove
<1>2. ScansOK(scan') /\ UNCHANGED <<created, policies, departments, now>>
  BY DEF Remove, UnchangedConfig, Inv, TypeInv, ScansOK, ScanOK
<1>3. op' \in [Proc -> Op] /\ op' = op
  BY DEF Remove, Inv, TypeInv
<1>4. /\ waited' \in [Ticket -> Nat] /\ told' \in [Ticket -> [Kind -> Nat]]
      /\ \A u \in Ticket \ {t} : waited'[u] = waited[u]
  BY DEF Remove, Inv, TypeInv
<1> QED BY <1>1, <1>2, <1>3, <1>4, RowWritten

\* The steps that change policies and departments
Config ==
  /\ UNCHANGED <<row, created, op, waited>> /\ UnchangedJobs
  /\ policies' \in [Policy -> PolicyStatus] /\ departments' \subseteq Dept

LEMMA ConfigStep ==
  ASSUME Inv,
         \/ \E p \in Policy : CreatePolicy(p) \/ ImportPolicy(p) \/ SwitchPolicy(p) \/ RemovePolicy(p)
         \/ \E d \in Dept : CreateDepartment(d) \/ RemoveDepartment(d)
  PROVE  Config /\ Inv'
<1>1. ASSUME NEW p \in Policy, CreatePolicy(p) \/ ImportPolicy(p) \/ SwitchPolicy(p) \/ RemovePolicy(p)
      PROVE  Config
  <2>1. PICK s \in PolicyStatus : PolicyBecomes(p, s)
    BY <1>1 DEF CreatePolicy, ImportPolicy, SwitchPolicy, RemovePolicy, PolicyStatus
  <2> QED BY <2>1 DEF PolicyBecomes, Config, Inv, TypeInv
<1>2. ASSUME NEW d \in Dept, CreateDepartment(d) \/ RemoveDepartment(d) PROVE Config
  <2>1. PICK s \in SUBSET Dept : DepartmentsBecome(s)
    BY <1>2 DEF CreateDepartment, RemoveDepartment, Inv, TypeInv
  <2> QED BY <2>1 DEF DepartmentsBecome, Config, Inv, TypeInv
<1>3. Config
  BY <1>1, <1>2
<1>4. ScansOK(scan') /\ told' \in [Ticket -> [Kind -> Nat]] /\ UNCHANGED now
  BY <1>3 DEF Config, UnchangedJobs, Inv, TypeInv, ScansOK, ScanOK
<1> QED BY <1>3, <1>4, Frame DEF Config

-----------------------------------------------------------------------------
(* The job *)

\* The least ticket of those left
LEMMA NextIsLeft == ASSUME NEW job, ScanOK(job) PROVE Next1(job) \in job.todo
<1> DEFINE Less == {ss \in Nat \X Nat : ss[1] < ss[2]}
           S == job.todo
<1>1. IsWellFoundedOn(Less, Nat)
  BY NatLessThanWellFounded DEF OpToRel
<1>2. S \subseteq Nat /\ S # {}
  BY DEF ScanOK, Ticket
<1>3. PICK i \in S : \A j \in S : ~(<<j, i>> \in Less)
  <2> HIDE DEF Less, S
  <2> QED BY <1>1, <1>2, WFMin
<1>4. \A j \in S : ~(j < i)
  BY <1>2, <1>3
<1>5. \A j \in S : i <= j
  BY <1>2, <1>4
<1> QED BY <1>5 DEF Next1

LEMMA AfterFits ==
  ASSUME NEW job, ScanOK(job), NEW s \in {"tell", "escalate", "save"}
  PROVE  \/ After(job, s) = NoScan
         \/ /\ ScanOK(After(job, s))
            /\ After(job, s).todo = job.todo \ {Next1(job)} /\ After(job, s).step = s
            /\ \A t \in After(job, s).todo : After(job, s).copy[t] = job.copy[t]
<1> DEFINE left == job.todo \ {Next1(job)}
           c == [t \in left |-> job.copy[t]]
           a == After(job, s)
<1>1. CASE left = {}
  BY <1>1 DEF After
<1>2. CASE left # {}
  <2>1. a = [todo |-> left, copy |-> c, step |-> s]
    BY <1>2 DEF After, ScanOK
  <2>2. a.todo = left /\ a.copy = c /\ a.step = s
    BY <2>1
  <2>3. \A t \in left : c[t] = job.copy[t]
    OBVIOUS
  <2> HIDE DEF a, c
  <2>4. a = [todo |-> a.todo, copy |-> a.copy, step |-> a.step]
    BY <2>1, <2>2
  <2>5. ScanOK(a)
    BY <1>2, <2>2, <2>3, <2>4 DEF ScanOK
  <2> QED BY <2>2, <2>3, <2>5 DEF a
<1> QED BY <1>1, <1>2

LEMMA StepMoves ==
  ASSUME NEW job, ScanOK(job), NEW s \in {"tell", "escalate", "save"}
  PROVE  LET moved == [job EXCEPT !.step = s] IN ScanOK(moved) /\ moved.todo = job.todo /\ moved.copy = job.copy
<1> DEFINE moved == [job EXCEPT !.step = s]
<1>1. moved = [todo |-> job.todo, copy |-> job.copy, step |-> s]
  BY DEF ScanOK
<1>2. moved.todo = job.todo /\ moved.copy = job.copy /\ moved.step = s
  BY <1>1
<1>3. moved = [todo |-> moved.todo, copy |-> moved.copy, step |-> moved.step]
  BY <1>1, <1>2
<1> QED BY <1>2, <1>3 DEF ScanOK

LEMMA CountedTyped ==
  ASSUME NEW c \in [Kind -> Nat], NEW sent
  PROVE  /\ Counted(c, sent) \in [Kind -> Nat]
         /\ \A k \in Kind : Counted(c, sent)[k] = IF k \in sent THEN c[k] + 1 ELSE c[k]
<1>1. \A k \in Kind : c[k] \in Nat /\ c[k] + 1 \in Nat
  OBVIOUS
<1> QED BY <1>1 DEF Counted

Late == {t \in Present : row[t].status \in OpenStatuses /\ Overdue(row[t], now)}

LEMMA BreachScanFits ==
  ASSUME Inv, NEW j \in Run, BreachScan(j)
  PROVE  /\ UNCHANGED <<row, told>> /\ ScansOK(scan') /\ ScanOK(scan'[j]) /\ scan'[j].todo = Late
         /\ scan[j] = NoScan /\ \A i \in Run \ {j} : scan'[i] = scan[i]
         /\ \A t \in Late : /\ scan'[j].copy[t].marked = row[t].breached
                            /\ scan'[j].copy[t].fire = NewlyFired(row[t], now)
<1> DEFINE C(t) == [marked |-> row[t].breached, fire |-> NewlyFired(row[t], now), policy |-> row[t].policy]
           c == [t \in Late |-> C(t)]
           s == [todo |-> Late, step |-> "tell", copy |-> c]
<1>1. ASSUME NEW t \in Late
      PROVE  /\ C(t) \in Copy /\ t \in Ticket /\ C(t).marked = row[t].breached
             /\ C(t).fire = NewlyFired(row[t], now)
  <2>1. row[t] \in Row /\ t \in Ticket
    BY RowsOfPresent DEF Late, Inv
  <2>2. NewlyFired(row[t], now) \subseteq Kind
    BY <2>1, Constants DEF NewlyFired, Row
  <2> QED BY <2>1, <2>2 DEF Copy, Row
<1>2. Late # {} /\ UNCHANGED <<row, told>> /\ RunBecomes(j, s) /\ scan[j] = NoScan
  BY DEF BreachScan, Late
<1>3. \A t \in Late : c[t] = C(t)
  OBVIOUS
<1> HIDE DEF C, c
<1>4. s.todo = Late /\ s.step = "tell" /\ s.copy = c
  OBVIOUS
<1>5. s = [todo |-> s.todo, copy |-> s.copy, step |-> s.step]
  OBVIOUS
<1> HIDE DEF s
<1>6. ScanOK(s)
  BY <1>1, <1>2, <1>3, <1>4, <1>5 DEF ScanOK
<1>7. ScansOK(scan') /\ scan'[j] = s /\ \A i \in Run \ {j} : scan'[i] = scan[i]
  BY <1>2, <1>6, RunMoves DEF Inv, TypeInv
<1> QED BY <1>1, <1>2, <1>3, <1>4, <1>6, <1>7

\* A run that tells of a breach or escalates goes on with the same copies, or ends.
LEMMA RunGoesOn ==
  ASSUME Inv, NEW j \in Run, BreachTell(j) \/ BreachEscalate(j)
  PROVE  /\ UNCHANGED <<row, told>> /\ ScansOK(scan') /\ \A i \in Run \ {j} : scan'[i] = scan[i]
         /\ scan'[j] = NoScan \/ (scan'[j].todo = scan[j].todo /\ scan'[j].copy = scan[j].copy)
<1>1. ScanOK(scan[j])
  BY ScanFields DEF BreachTell, BreachEscalate, Inv
<1>2. PICK s \in {"escalate", "save"} : RunBecomes(j, [scan[j] EXCEPT !.step = s]) \/ RunBecomes(j, NoScan)
  BY DEF BreachTell, BreachEscalate
<1> DEFINE moved == [scan[j] EXCEPT !.step = s]
<1>3. ScanOK(moved) /\ moved.todo = scan[j].todo /\ moved.copy = scan[j].copy
  BY <1>1, StepMoves
<1>4. UNCHANGED <<row, told>> /\ ScansOK(scan)
  BY DEF BreachTell, BreachEscalate, Inv, TypeInv
<1>5. RunBecomes(j, moved) \/ RunBecomes(j, NoScan)
  BY <1>2
<1> HIDE DEF moved
<1> QED BY <1>3, <1>4, <1>5, RunMoves

LEMMA MarkedRow ==
  ASSUME NEW r \in Row, NEW c \in Copy
  PROVE  /\ Marked(r, c) \in Row /\ Marked(r, c).breached = TRUE /\ Marked(r, c).fired = r.fired \cup c.fire
         /\ Marked(r, c).status = r.status /\ Marked(r, c).paused = r.paused /\ Marked(r, c).open = r.open
         /\ Marked(r, c).due = r.due /\ Marked(r, c).policy = r.policy
BY DEF Marked, Row, Copy

\* What a save of run j does to the tickets, the notices and the run
LEMMA BreachSaveFits ==
  ASSUME Inv, NEW j \in Run, BreachSave(j)
  PROVE  LET t == Next1(scan[j])  copy == scan[j].copy[t] IN
         /\ ScanOK(scan[j]) /\ t \in scan[j].todo /\ t \in Ticket /\ copy \in Copy
         /\ ScansOK(scan') /\ \A i \in Run \ {j} : scan'[i] = scan[i]
         /\ \/ scan'[j] = NoScan
            \/ /\ scan'[j].todo = scan[j].todo \ {t}
               /\ \A u \in scan'[j].todo : scan'[j].copy[u] = scan[j].copy[u]
         /\ told' \in [Ticket -> [Kind -> Nat]]
         /\ IF t \in Present
              THEN /\ row' = [row EXCEPT ![t] = Marked(row[t], copy)]
                   /\ told' = [told EXCEPT ![t] = Counted(told[t], Notices(copy))]
              ELSE UNCHANGED <<row, told>>
<1> DEFINE t == Next1(scan[j])
           copy == scan[j].copy[t]
<1>1. ScanOK(scan[j]) /\ ScansOK(scan)
  BY ScanFields DEF BreachSave, Inv, TypeInv
<1>2. t \in scan[j].todo /\ t \in Ticket /\ copy \in Copy
  BY <1>1, NextIsLeft DEF ScanOK
<1>3. PICK s : RunBecomes(j, s) /\ s \in {NoScan, After(scan[j], "tell")}
  BY DEF BreachSave
<1>4. \/ s = NoScan
      \/ /\ ScanOK(s) /\ s.todo = scan[j].todo \ {t}
         /\ \A u \in s.todo : s.copy[u] = scan[j].copy[u]
  BY <1>1, <1>3, AfterFits
<1>5. ScansOK(scan') /\ scan'[j] = s /\ \A i \in Run \ {j} : scan'[i] = scan[i]
  BY <1>1, <1>3, <1>4, RunMoves
<1>6. IF t \in Present
        THEN /\ row' = [row EXCEPT ![t] = Marked(row[t], copy)]
             /\ told' = [told EXCEPT ![t] = Counted(told[t], Notices(copy))]
        ELSE UNCHANGED <<row, told>>
  BY DEF BreachSave
<1>7. told' \in [Ticket -> [Kind -> Nat]]
  <2>1. told \in [Ticket -> [Kind -> Nat]] /\ Counted(told[t], Notices(copy)) \in [Kind -> Nat]
    BY <1>2, CountedTyped DEF Inv, TypeInv
  <2> HIDE DEF t, copy
  <2> QED BY <1>6, <2>1
<1> HIDE DEF t, copy
<1>8. \/ scan'[j] = NoScan
      \/ /\ scan'[j].todo = scan[j].todo \ {t}
         /\ \A u \in scan'[j].todo : scan'[j].copy[u] = scan[j].copy[u]
  BY <1>4, <1>5
<1> QED BY <1>1, <1>2, <1>5, <1>6, <1>7, <1>8 DEF t, copy

LEMMA JobsStep == ASSUME Inv, NEW j \in Run, Starts(j) \/ GoesOn(j) PROVE Inv'
<1>0. UNCHANGED <<created, policies, departments, op, now, waited>>
  BY DEF Starts, GoesOn, UnchangedRequests
<1>1. CASE BreachScan(j)
  BY <1>0, <1>1, BreachScanFits, Frame DEF Inv, TypeInv
<1>2. CASE BreachTell(j) \/ BreachEscalate(j)
  BY <1>0, <1>2, RunGoesOn, Frame DEF Inv, TypeInv
<1>3. CASE BreachSave(j)
  <2> DEFINE t == Next1(scan[j])
             r == Marked(row[t], scan[j].copy[t])
  <2>1. /\ t \in Ticket /\ scan[j].copy[t] \in Copy /\ ScansOK(scan') /\ told' \in [Ticket -> [Kind -> Nat]]
        /\ IF t \in Present THEN row' = [row EXCEPT ![t] = r] ELSE row' = row
    BY <1>3, BreachSaveFits
  <2>2. CASE t \in Present
    <3>1. row[t] \in Row /\ row[t] # None /\ PausesFit(row[t], waited[t], now)
      BY <2>1, <2>2, RowsOfPresent, PauseTimes DEF Inv
    <3>2. r \in Row /\ r.status = row[t].status /\ r.paused = row[t].paused /\ r.open = row[t].open
      BY <2>1, <3>1, MarkedRow
    <3>3. PausesFit(r, waited[t], now)
      BY <3>1, <3>2 DEF PausesFit
    <3>4. /\ row' = [row EXCEPT ![t] = r] /\ op' \in [Proc -> Op] /\ op' = op
          /\ waited' \in [Ticket -> Nat] /\ waited' = waited
      BY <1>0, <2>1, <2>2 DEF Inv, TypeInv
    <3> HIDE DEF t, r
    <3> QED BY <1>0, <2>1, <2>2, <3>2, <3>3, <3>4, RowWritten
  <2>3. CASE t \notin Present
    BY <1>0, <2>1, <2>3, Frame DEF Inv, TypeInv
  <2> QED BY <2>2, <2>3
<1> QED BY <1>1, <1>2, <1>3 DEF Starts, GoesOn

-----------------------------------------------------------------------------
(* Time and restarts *)

LEMMA TickTimes ==
  ASSUME Inv, Tick
  PROVE  /\ now' = now + 1 /\ now \in Nat /\ now' \in 0..MaxTime /\ waited' \in [Ticket -> Nat]
         /\ UNCHANGED <<row, created, policies, departments, op, scan, told>>
         /\ \A t \in Ticket : waited'[t] = IF row[t] # None /\ Waiting(row[t].status)
                                             THEN waited[t] + 1 ELSE waited[t]
<1>1. now' = now + 1 /\ now \in Nat /\ now' \in 0..MaxTime
  BY Constants DEF Tick, Inv, TypeInv
<1>2. waited' = [t \in Ticket |-> IF row[t] # None /\ Waiting(row[t].status) THEN waited[t] + 1 ELSE waited[t]]
  BY DEF Tick, Waiting
<1>3. \A t \in Ticket : waited[t] \in Nat /\ waited[t] + 1 \in Nat
  BY DEF Inv, TypeInv
<1> QED BY <1>1, <1>2, <1>3 DEF Tick, UnchangedConfig

LEMMA PauseGrows ==
  ASSUME NEW p \in Nat, NEW h \in Nat, NEW n \in Nat, NEW w \in Nat, p + (n - h) = w
  PROVE  p + ((n + 1) - h) = w + 1
OBVIOUS

LEMMA TickStep == ASSUME Inv, Tick PROVE Inv'
<1>1. TypeInv'
  BY TickTimes DEF Inv, TypeInv, ScansOK, ScanOK
<1>2. PausesMatchWaits'
  <2>1. ASSUME NEW t \in Present' PROVE PausesFit(row'[t], waited'[t], now')
    <3>1. t \in Present /\ t \in Ticket /\ row[t] # None /\ row'[t] = row[t] /\ row[t] \in Row
      BY TickTimes, RowsOfPresent DEF Present, Inv
    <3>2. PausesFit(row[t], waited[t], now)
      BY <3>1, PauseTimes
    <3>3. CASE Waiting(row[t].status)
      <4>1. waited'[t] = waited[t] + 1 /\ now' = now + 1 /\ now \in Nat /\ waited[t] \in Nat
        BY <3>1, <3>3, TickTimes DEF Inv, TypeInv
      <4>2. Len(row[t].open) = 1 /\ row[t].paused + (now - Head(row[t].open)) = waited[t]
        BY <3>2, <3>3 DEF PausesFit
      <4>3. row[t].open \in Seq(Nat) /\ row[t].paused \in Nat
        BY <3>1 DEF Row
      <4>4. row[t].open # <<>>
        BY <4>2, EmptySeq
      <4>5. Head(row[t].open) \in Nat
        BY <4>3, <4>4, HeadTailProperties
      <4>6. row[t].paused + (now' - Head(row[t].open)) = waited'[t]
        BY <4>1, <4>2, <4>3, <4>5, PauseGrows
      <4> QED BY <3>1, <3>3, <4>2, <4>6 DEF PausesFit
    <3>4. CASE ~Waiting(row[t].status)
      <4>1. waited'[t] = waited[t]
        BY <3>1, <3>4, TickTimes
      <4> QED BY <3>1, <3>2, <3>4, <4>1 DEF PausesFit
    <3> QED BY <3>3, <3>4
  <2> QED BY <2>1, PausesAre
<1>3. Numbered' /\ OpsUpToDate' /\ OpsRun'
  BY TickTimes DEF Inv, PauseInv, Numbered, OpsUpToDate, UpToDate, OpsRun
<1> QED BY <1>1, <1>2, <1>3 DEF Inv, PauseInv

LEMMA CrashStep == ASSUME Inv, NEW q \in Proc, Crash(q) PROVE Inv'
BY NothingWritten DEF Crash

LEMMA CutOffStep == ASSUME Inv, NEW j \in Run, CutOff(j) PROVE Inv' /\ UNCHANGED told
<1>1. ScansOK(scan')
  BY RunMoves DEF CutOff, Inv, TypeInv
<1> QED BY <1>1, Frame DEF CutOff, UnchangedRequests, Inv, TypeInv

LEMMA InvInit == Init => Inv
<1> SUFFICES ASSUME Init PROVE Inv
  OBVIOUS
<1>1. TypeInv
  BY IdleFits, Constants DEF Init, TypeInv, PolicyStatus, ScansOK
<1>2. PausesMatchWaits /\ Numbered
  BY DEF Init, PausesMatchWaits, Numbered, Present
<1>3. OpsUpToDate /\ OpsRun
  BY IdleFits DEF Init, OpsUpToDate, OpsRun
<1> QED BY <1>1, <1>2, <1>3 DEF Inv, PauseInv

LEMMA HandleStep == ASSUME Inv, NEW q \in Proc, Handle(q) PROVE Inv'
BY CreateBeginStep, CreateInsertStep, AssignReadStep, StatusReadStep, SaveStep
   DEF Handle, ImportRow

LEMMA InvStep == Inv /\ [Next]_vars => Inv'
<1> SUFFICES ASSUME Inv, [Next]_vars PROVE Inv'
  OBVIOUS
<1>1. CASE UNCHANGED vars
  <2>1. ScansOK(scan')
    BY <1>1 DEF vars, Inv, TypeInv, ScansOK, ScanOK
  <2> QED BY <1>1, <2>1, Frame DEF vars, Inv, TypeInv
<1> QED BY <1>1, HandleStep, RemoveStep, ConfigStep, JobsStep, TickStep, CrashStep, CutOffStep DEF Next

\* Tickets, counts of notices and the copies of the job keep their types.
THEOREM TicketsTypeCorrect == Spec => []TypeOK
<1>1. Inv => TypeOK
  BY TypesFollow DEF Inv
<1> QED BY <1>1, InvInit, InvStep, PTL DEF Spec

\* The pauses of a ticket add up to the time it waited on the user, whatever was saved in which order
\* (changeStatus and assign), as long as requests that write its status do not overlap.
THEOREM PausesSafe == Spec => []PausesMatchWaits
<1>1. Inv => PausesMatchWaits
  BY DEF Inv, PauseInv
<1> QED BY <1>1, InvInit, InvStep, PTL DEF Spec

-----------------------------------------------------------------------------
(***************************************************************************)
(* Breaches.  The copy of an overdue ticket may be saved long after it was *)
(* taken, and stays true: the deadline moves only while the ticket waits,  *)
(* and then by as much as the clock.                                       *)
(***************************************************************************)
PastDue(t) == now > row[t].due + waited[t]

BreachInv ==
  /\ \A t \in Present : row[t].breached => PastDue(t)
  /\ \A j \in Run : \A t \in scan[j].todo : t <= created /\ (t \in Present => PastDue(t))

LEMMA BreachTimes ==
  ASSUME Inv
  PROVE  BreachedAfterItsTime <=> \A t \in Present : row[t].breached => PastDue(t)
<1>1. ASSUME NEW t \in Present PROVE (now - (row[t].due - Limit) - waited[t] > Limit) <=> PastDue(t)
  <2>1. row[t] \in Row /\ t \in Ticket
    BY RowsOfPresent DEF Inv
  <2>2. row[t].due \in Nat /\ waited[t] \in Nat /\ now \in Nat /\ Limit \in Nat
    BY <2>1, Constants DEF Row, Inv, TypeInv
  <2> QED BY <2>2 DEF PastDue
<1> QED BY <1>1 DEF BreachedAfterItsTime

LEMMA RequestsKeep ==
  ASSUME Inv, NEW q \in Proc, AssignSave(q) \/ StatusSave(q)
  PROVE  /\ UNCHANGED <<created, waited>> /\ UnchangedJobs
         /\ Present' = Present
         /\ \A t \in Present : Kept(row'[t], row[t])
<1>1. UNCHANGED <<created, waited>> /\ UnchangedJobs
  BY DEF AssignSave, StatusSave
<1>2. CASE UNCHANGED row
  BY <1>1, <1>2 DEF Kept, Present
<1>3. ASSUME NEW t \in Present, Saves(q, t)
      PROVE  Present' = Present /\ \A u \in Present : Kept(row'[u], row[u])
  <2>1. row \in [Ticket -> Row \cup {None}] /\ t \in Ticket
    BY DEF Inv, TypeInv, Present
  <2>2. PICK r \in Row : row' = [row EXCEPT ![t] = r] /\ Kept(r, row[t])
    BY <1>3 DEF Saves
  <2>3. row'[t] = r /\ r # None /\ \A u \in Ticket \ {t} : row'[u] = row[u]
    BY <2>1, <2>2, NoneIsNoRow
  <2> QED BY <2>2, <2>3 DEF Present, Kept
<1> QED BY <1>1, <1>2, <1>3, AssignSaves, StatusSaves

\* A step other than an insertion, one of the job and one of the clock: rows that stay keep what the
\* job writes, and their histories.
Quiet ==
  /\ UNCHANGED <<created, scan, now>>
  /\ Present' \subseteq Present
  /\ \A t \in Present' : Kept(row'[t], row[t]) /\ waited'[t] = waited[t] /\ told'[t] = told[t]
  /\ \A t \in Ticket : told'[t] = told[t] \/ \A k \in Kind : told'[t][k] = 0

Insertion(q) ==
  /\ op[q] \in CreateOp /\ created + 1 \in Ticket /\ Inserted(created + 1, op[q].policy)
  /\ UNCHANGED <<scan, now, told>>

LEMMA SameRowsQuiet ==
  ASSUME UNCHANGED <<row, created, waited>>, UnchangedJobs
  PROVE  Quiet
BY DEF Quiet, Kept, Present, UnchangedJobs

LEMMA StepCases ==
  ASSUME Inv, [Next]_vars
  PROVE  \/ Quiet
         \/ \E q \in Proc : Insertion(q)
         \/ \E j \in Run : Starts(j) \/ GoesOn(j) \/ CutOff(j)
         \/ Tick
<1>1. CASE UNCHANGED vars
  BY <1>1, SameRowsQuiet DEF vars, UnchangedJobs
<1>2. ASSUME NEW q \in Proc, Handle(q) \/ Crash(q)
      PROVE  Quiet \/ Insertion(q)
  <2>1. CASE CreateBegin(q) \/ Crash(q) \/ \E t \in Ticket : AssignRead(q, t) \/ StatusRead(q, t)
    <3>1. UNCHANGED <<row, created, waited>> /\ UnchangedJobs
      BY <2>1 DEF CreateBegin, AssignRead, StatusRead, Crash
    <3> QED BY <3>1, SameRowsQuiet
  <2>2. CASE CreateInsert(q)
    <3>1. CASE UNCHANGED <<row, created, waited>>
      BY <2>2, <3>1, InsertCases, SameRowsQuiet
    <3>2. CASE created + 1 \in Ticket /\ Inserted(created + 1, op[q].policy)
      BY <2>2, <3>2, InsertCases DEF Insertion, UnchangedJobs
    <3> QED BY <2>2, <3>1, <3>2, InsertCases
  <2>3. CASE AssignSave(q) \/ StatusSave(q)
    BY <2>3, RequestsKeep DEF Quiet, UnchangedJobs
  <2> QED BY <1>2, <2>1, <2>2, <2>3 DEF Handle, ImportRow
<1>3. ASSUME NEW t \in Ticket, Remove(t) PROVE Quiet
  <2>1. /\ row' = [row EXCEPT ![t] = None] /\ UNCHANGED <<created, scan, now>>
        /\ waited' = [waited EXCEPT ![t] = 0] /\ told' = [told EXCEPT ![t] = [k \in Kind |-> 0]]
    BY <1>3 DEF Remove
  <2>2. /\ row \in [Ticket -> Row \cup {None}] /\ waited \in [Ticket -> Nat]
        /\ told \in [Ticket -> [Kind -> Nat]]
    BY DEF Inv, TypeInv
  <2>3. row'[t] = None /\ \A u \in Ticket \ {t} : row'[u] = row[u] /\ waited'[u] = waited[u] /\ told'[u] = told[u]
    BY <2>1, <2>2
  <2>4. \A k \in Kind : told'[t][k] = 0
    BY <2>1, <2>2
  <2> QED BY <2>1, <2>3, <2>4 DEF Quiet, Kept, Present
<1>4. ASSUME \/ \E p \in Policy : CreatePolicy(p) \/ ImportPolicy(p) \/ SwitchPolicy(p) \/ RemovePolicy(p)
             \/ \E d \in Dept : CreateDepartment(d) \/ RemoveDepartment(d)
      PROVE  Quiet
  BY <1>4, ConfigStep, SameRowsQuiet DEF Config
<1> QED BY <1>1, <1>2, <1>3, <1>4 DEF Next

LEMMA InsertionRow ==
  ASSUME Inv, NEW q \in Proc, Insertion(q)
  PROVE  /\ created + 1 \in Ticket /\ created' = created + 1 /\ created \in Nat
         /\ Present' = Present \cup {created + 1} /\ created + 1 \notin Present
         /\ row'[created + 1].breached = FALSE /\ row'[created + 1].fired = {}
         /\ \A t \in Ticket \ {created + 1} : row'[t] = row[t] /\ waited'[t] = waited[t]
<1>1. op[q].policy \in Policy /\ created + 1 \in Ticket /\ Inserted(created + 1, op[q].policy) /\ created \in Nat
  BY Constants DEF Insertion, CreateOp, Inv, TypeInv
<1> DEFINE t == created + 1
           p == op[q].policy
<1>2. /\ row' \in [Ticket -> Row \cup {None}] /\ row'[t] \in Row
      /\ row'[t].breached = FALSE /\ row'[t].fired = {}
      /\ \A u \in Ticket \ {t} : row'[u] = row[u] /\ waited'[u] = waited[u]
      /\ row[t] = None /\ created' = t
  BY <1>1, InsertedRow
<1>3. row'[t] # None
  BY <1>2, NoneIsNoRow
<1>4. Present' = Present \cup {t} /\ t \notin Present
  BY <1>1, <1>2, <1>3 DEF Present
<1> QED BY <1>1, <1>2, <1>4

\* What a save of the job does to the tickets
LEMMA JobSaves ==
  ASSUME Inv, NEW j \in Run, BreachSave(j)
  PROVE  /\ Present' = Present
         /\ \A u \in Present :
              /\ u \in Ticket /\ row'[u].due = row[u].due
              /\ u # Next1(scan[j]) => row'[u] = row[u] /\ told'[u] = told[u]
              /\ u = Next1(scan[j]) =>
                   /\ row'[u].breached = TRUE
                   /\ row'[u].fired = row[u].fired \cup scan[j].copy[u].fire
                   /\ told'[u] = Counted(told[u], Notices(scan[j].copy[u]))
         /\ \A u \in Ticket \ Present : told'[u] = told[u]
<1> DEFINE t == Next1(scan[j])
           r == Marked(row[t], scan[j].copy[t])
           n == Counted(told[t], Notices(scan[j].copy[t]))
<1>1. /\ t \in Ticket /\ scan[j].copy[t] \in Copy
      /\ IF t \in Present THEN row' = [row EXCEPT ![t] = r] /\ told' = [told EXCEPT ![t] = n]
                          ELSE row' = row /\ told' = told
  BY BreachSaveFits
<1>2. row \in [Ticket -> Row \cup {None}] /\ Present \subseteq Ticket /\ told \in [Ticket -> [Kind -> Nat]]
  BY DEF Inv, TypeInv, Present
<1>3. CASE t \in Present
  <2>1. row[t] \in Row /\ row[t] # None
    BY <1>1, <1>3, RowsOfPresent DEF Inv
  <2>2. r \in Row /\ r.due = row[t].due /\ r.breached = TRUE
        /\ r.fired = row[t].fired \cup scan[j].copy[t].fire
    BY <1>1, <2>1, MarkedRow
  <2>3. row' = [row EXCEPT ![t] = r] /\ r # None /\ told' = [told EXCEPT ![t] = n]
    BY <1>1, <1>3, <2>2, NoneIsNoRow
  <2> HIDE DEF r, t, n
  <2>4. row'[t] = r /\ told'[t] = n /\ \A x \in Ticket \ {t} : row'[x] = row[x] /\ told'[x] = told[x]
    BY <1>1, <1>2, <2>3
  <2>5. Present' = Present
    BY <2>1, <2>3, <2>4 DEF Present
  <2> QED BY <1>2, <1>3, <2>2, <2>4, <2>5 DEF t, n
<1>4. CASE t \notin Present
  <2> HIDE DEF r, n
  <2>1. Present' = Present /\ row' = row /\ told' = told
    BY <1>1, <1>4 DEF Present
  <2> QED BY <1>2, <1>4, <2>1
<1> QED BY <1>3, <1>4

LEMMA LateIsPastDue ==
  ASSUME Inv, NEW t \in Late
  PROVE  t \in Present /\ t <= created /\ PastDue(t)
<1>1. t \in Present /\ row[t].status \in OpenStatuses /\ now > row[t].due + row[t].paused
  BY DEF Late, Overdue, EffectiveDue
<1>2. row[t].paused = waited[t]
  BY <1>1, PauseTimes DEF PausesFit, Waiting, OpenStatuses
<1>3. t <= created
  BY <1>1 DEF Present, Inv, PauseInv, Numbered, TypeInv, Ticket
<1> QED BY <1>1, <1>2, <1>3 DEF PastDue

LEMMA BreachStep == Inv /\ BreachInv /\ [Next]_vars => BreachInv'
<1> SUFFICES ASSUME Inv, BreachInv, [Next]_vars PROVE BreachInv'
  OBVIOUS
<1>1. CASE Quiet
  BY <1>1 DEF Quiet, Kept, BreachInv, PastDue
<1>2. ASSUME NEW q \in Proc, Insertion(q) PROVE BreachInv'
  <2>1. UNCHANGED <<scan, now>>
    BY <1>2 DEF Insertion
  <2>2. ASSUME NEW t \in Present', row'[t].breached PROVE PastDue(t)'
    <3>1. t # created + 1 /\ t \in Present /\ t \in Ticket
      BY <1>2, <2>2, InsertionRow DEF Present
    <3> QED BY <1>2, <2>1, <2>2, <3>1, InsertionRow DEF BreachInv, PastDue
  <2>3. ASSUME NEW j \in Run, NEW t \in scan[j].todo PROVE t <= created' /\ (t \in Present' => PastDue(t)')
    <3>1. t \in Ticket /\ t <= created /\ created' = created + 1 /\ created \in Nat
      BY <1>2, InsertionRow, ScanFields DEF BreachInv, Inv
    <3>2. t \in Nat
      BY <3>1 DEF Ticket
    <3>3. t # created + 1 /\ t <= created'
      BY <3>1, <3>2
    <3>4. t \in Present' => t \in Present /\ row'[t] = row[t] /\ waited'[t] = waited[t]
      BY <1>2, <3>1, <3>3, InsertionRow
    <3> QED BY <2>1, <3>3, <3>4 DEF BreachInv, PastDue
  <2> QED BY <2>1, <2>2, <2>3 DEF BreachInv
<1>3. ASSUME NEW j \in Run, Starts(j) \/ GoesOn(j) \/ CutOff(j) PROVE BreachInv'
  <2>0. UNCHANGED <<created, now, waited>>
    BY <1>3 DEF Starts, GoesOn, CutOff, UnchangedRequests
  <2>1. CASE BreachScan(j)
    <3>1. UNCHANGED row /\ scan'[j].todo = Late /\ \A i \in Run \ {j} : scan'[i] = scan[i]
      BY <2>1, BreachScanFits
    <3>2. \A t \in Late : t <= created' /\ PastDue(t)'
      BY <2>0, <3>1, LateIsPastDue DEF PastDue
    <3> QED BY <2>0, <3>1, <3>2 DEF BreachInv, PastDue, Present
  <2>2. CASE BreachTell(j) \/ BreachEscalate(j) \/ CutOff(j)
    <3>1. /\ UNCHANGED row /\ scan'[j].todo \subseteq scan[j].todo
          /\ \A i \in Run \ {j} : scan'[i] = scan[i]
      BY <2>2, RunGoesOn, RunMoves, NoScanSteps DEF CutOff, Inv, TypeInv
    <3>2. \A i \in Run : scan'[i].todo \subseteq scan[i].todo
      BY <3>1
    <3> QED BY <2>0, <3>1, <3>2 DEF BreachInv, PastDue, Present
  <2>3. CASE BreachSave(j)
    <3>1. Next1(scan[j]) \in scan[j].todo /\ \A i \in Run : scan'[i].todo \subseteq scan[i].todo
      BY <2>3, BreachSaveFits, NoScanSteps
    <3>2. Present' = Present /\ \A u \in Present : PastDue(u)' <=> PastDue(u)
      BY <2>0, <2>3, JobSaves DEF PastDue
    <3>3. \A u \in Present : row'[u].breached => row[u].breached \/ u = Next1(scan[j])
      BY <2>3, JobSaves
    <3>4. \A t \in Present' : row'[t].breached => PastDue(t)'
      BY <3>1, <3>2, <3>3 DEF BreachInv
    <3>5. \A i \in Run : \A t \in scan'[i].todo : t <= created' /\ (t \in Present' => PastDue(t)')
      BY <2>0, <3>1, <3>2 DEF BreachInv
    <3> QED BY <3>4, <3>5 DEF BreachInv
  <2> QED BY <1>3, <2>1, <2>2, <2>3 DEF Starts, GoesOn
<1>4. CASE Tick
  <2>1. ASSUME NEW t \in Present, PastDue(t) PROVE PastDue(t)'
    <3>1. t \in Ticket /\ row'[t] = row[t] /\ row[t].due \in Nat /\ waited[t] \in Nat /\ now \in Nat
      BY <1>4, TickTimes, RowsOfPresent DEF Inv, TypeInv, Row
    <3>2. now' = now + 1 /\ waited'[t] \in {waited[t], waited[t] + 1}
      BY <1>4, <3>1, TickTimes
    <3> QED BY <2>1, <3>1, <3>2 DEF PastDue
  <2>2. UNCHANGED <<row, created, scan>>
    BY <1>4, TickTimes
  <2> QED BY <2>1, <2>2 DEF BreachInv, Present
<1> QED BY <1>1, <1>2, <1>3, <1>4, StepCases

\* A ticket is marked as breached only after its time, however late and in whatever order the runs of
\* the job save their copies (checkBreaches).
THEOREM BreachesSafe == Spec => []BreachedAfterItsTime
<1>1. Init => BreachInv
  BY NoScanSteps DEF Init, BreachInv, Present
<1>2. Inv /\ BreachInv => BreachedAfterItsTime
  BY BreachTimes DEF BreachInv
<1> QED BY <1>1, <1>2, InvInit, InvStep, BreachStep, PTL DEF Spec

-----------------------------------------------------------------------------
(***************************************************************************)
(* Notices.  Once a run has recorded a notice, a later one reads the mark: *)
(* only the runs that read the ticket before it still have the notice      *)
(* pending, so that the runs that recorded it and those that have it       *)
(* pending are never more than can be under way together.                  *)
(***************************************************************************)
Recorded(t, k) == IF k = Breach THEN row[t].breached ELSE k \in row[t].fired
Pending(t, k) == {j \in Run : t \in scan[j].todo /\ k \in Notices(scan[j].copy[t])}

NoticeInv ==
  /\ \A t \in Ticket : t > created => \A k \in Kind : told[t][k] = 0
  /\ \A t \in Present, k \in Kind :
       /\ told[t][k] # 0 => Recorded(t, k)
       /\ told[t][k] + Cardinality(Pending(t, k)) <= MaxRun

LEMMA RunsCounted ==
  /\ IsFiniteSet(Run) /\ Cardinality(Run) = MaxRun
  /\ \A S : S \subseteq Run => IsFiniteSet(S) /\ Cardinality(S) \in Nat /\ Cardinality(S) <= MaxRun
  /\ \A S, T : S \subseteq T /\ T \subseteq Run => Cardinality(S) <= Cardinality(T)
<1>1. IsFiniteSet(Run) /\ Cardinality(Run) = MaxRun
  BY FS_Interval, Constants DEF Run
<1>2. \A S : S \subseteq Run => IsFiniteSet(S) /\ Cardinality(S) \in Nat /\ Cardinality(S) <= MaxRun
  BY <1>1, FS_Subset, FS_CardinalityType
<1>3. \A S, T : S \subseteq T /\ T \subseteq Run => Cardinality(S) <= Cardinality(T)
  BY <1>1, FS_Subset
<1> QED BY <1>1, <1>2, <1>3

LEMMA PendingIsRuns == \A t, k : Pending(t, k) \subseteq Run /\ Pending(t, k)' \subseteq Run
BY DEF Pending

\* Counts that do not grow, over marks that stay and notices that are not pending anew
LEMMA NoticesKept ==
  ASSUME TypeInv, NoticeInv, NEW t \in Present, NEW k \in Kind, told'[t][k] = told[t][k],
         Recorded(t, k) => Recorded(t, k)', Pending(t, k)' \subseteq Pending(t, k)
  PROVE  /\ told'[t][k] # 0 => Recorded(t, k)'
         /\ told'[t][k] + Cardinality(Pending(t, k)') <= MaxRun
<1>1. told[t][k] \in Nat
  BY DEF TypeInv, Present
<1>2. Cardinality(Pending(t, k)') <= Cardinality(Pending(t, k)) /\ Cardinality(Pending(t, k)) \in Nat
      /\ Cardinality(Pending(t, k)') \in Nat
  BY RunsCounted, PendingIsRuns
<1>3. told[t][k] + Cardinality(Pending(t, k)) <= MaxRun /\ (told[t][k] # 0 => Recorded(t, k))
  BY DEF NoticeInv
<1> QED BY <1>1, <1>2, <1>3, Constants

\* The save of a run records what was pending in it.
LEMMA NoticeRecorded ==
  ASSUME Inv, NoticeInv, NEW j \in Run, BreachSave(j), NEW k \in Kind,
         NEW t, t = Next1(scan[j]), t \in Present
  PROVE  /\ told'[t][k] # 0 => Recorded(t, k)'
         /\ told'[t][k] + Cardinality(Pending(t, k)') <= MaxRun
<1> DEFINE copy == scan[j].copy[t]
<1>1. /\ row'[t].breached = TRUE /\ row'[t].fired = row[t].fired \cup copy.fire
      /\ told'[t] = Counted(told[t], Notices(copy)) /\ t \in Ticket
  BY JobSaves
<1>2. t \in scan[j].todo /\ copy \in Copy /\ ScanOK(scan[j])
  BY BreachSaveFits
<1>3. told[t] \in [Kind -> Nat]
  BY <1>1 DEF Inv, TypeInv
<1>4. told'[t][k] = IF k \in Notices(copy) THEN told[t][k] + 1 ELSE told[t][k]
  BY <1>1, <1>3, CountedTyped
<1>5. Pending(t, k)' \subseteq Pending(t, k) \ {j}
  <2>1. t \notin scan'[j].todo /\ \A i \in Run \ {j} : scan'[i] = scan[i]
    BY BreachSaveFits, NoScanSteps
  <2> QED BY <2>1 DEF Pending
<1>6. Recorded(t, k) => Recorded(t, k)'
  BY <1>1 DEF Recorded
<1>7. CASE k \in Notices(copy)
  <2>1. j \in Pending(t, k)
    BY <1>2, <1>7 DEF Pending
  <2>2. Recorded(t, k)'
    BY <1>1, <1>7 DEF Recorded, Notices, BreachNotice
  <2>3. Cardinality(Pending(t, k) \ {j}) = Cardinality(Pending(t, k)) - 1
    BY <2>1, RunsCounted, PendingIsRuns, FS_RemoveElement
  <2>4. Cardinality(Pending(t, k)') <= Cardinality(Pending(t, k)) - 1
    BY <1>5, <2>3, RunsCounted, PendingIsRuns
  <2>5. told[t][k] + Cardinality(Pending(t, k)) <= MaxRun /\ told[t][k] \in Nat
        /\ Cardinality(Pending(t, k)) \in Nat /\ Cardinality(Pending(t, k)') \in Nat
    BY <1>3, RunsCounted, PendingIsRuns DEF NoticeInv
  <2>6. told'[t][k] = told[t][k] + 1
    BY <1>4, <1>7
  <2> HIDE DEF copy
  <2> QED BY <2>2, <2>4, <2>5, <2>6, Constants
<1>8. CASE k \notin Notices(copy)
  BY <1>4, <1>5, <1>6, <1>8, NoticesKept DEF Inv
<1> QED BY <1>7, <1>8

LEMMA NoticeStep == Inv /\ BreachInv /\ NoticeInv /\ [Next]_vars => NoticeInv'
<1> SUFFICES ASSUME Inv, BreachInv, NoticeInv, [Next]_vars PROVE NoticeInv'
  OBVIOUS
<1> DEFINE Right(t, k) == (told[t][k] # 0 => Recorded(t, k)) /\ told[t][k] + Cardinality(Pending(t, k)) <= MaxRun
<1>0. told \in [Ticket -> [Kind -> Nat]] /\ created \in Nat /\ Present \subseteq Ticket
  BY Constants DEF Inv, TypeInv, Present
<1>1. CASE Quiet
  <2>1. ASSUME NEW t \in Present', NEW k \in Kind PROVE Right(t, k)'
    <3>1. t \in Present /\ Kept(row'[t], row[t]) /\ told'[t] = told[t] /\ UNCHANGED scan
      BY <1>1 DEF Quiet
    <3>2. told'[t][k] = told[t][k] /\ (Recorded(t, k) => Recorded(t, k)') /\ Pending(t, k)' \subseteq Pending(t, k)
      BY <3>1 DEF Kept, Recorded, Pending
    <3> QED BY <3>1, <3>2, NoticesKept DEF Inv
  <2>2. \A t \in Ticket : t > created' => \A k \in Kind : told'[t][k] = 0
    BY <1>1 DEF Quiet, NoticeInv
  <2> QED BY <2>1, <2>2 DEF NoticeInv
<1>2. ASSUME NEW q \in Proc, Insertion(q) PROVE NoticeInv'
  <2>0. UNCHANGED <<scan, told>> /\ created' = created + 1 /\ created + 1 \in Ticket
    BY <1>2, InsertionRow DEF Insertion
  <2>1. ASSUME NEW t \in Present', NEW k \in Kind PROVE Right(t, k)'
    <3>1. CASE t = created + 1
      <4>1. told'[t][k] = 0
        BY <1>0, <2>0, <3>1 DEF NoticeInv
      <4>2. Cardinality(Pending(t, k)') \in Nat /\ Cardinality(Pending(t, k)') <= MaxRun
        BY RunsCounted, PendingIsRuns
      <4> QED BY <4>1, <4>2
    <3>2. CASE t # created + 1
      <4>1. t \in Present /\ row'[t] = row[t]
        BY <1>0, <1>2, <3>2, InsertionRow
      <4> QED BY <2>0, <4>1, NoticesKept DEF Inv, Recorded, Pending
    <3> QED BY <3>1, <3>2
  <2>2. ASSUME NEW t \in Ticket, t > created' PROVE \A k \in Kind : told'[t][k] = 0
    <3>1. t > created
      BY <1>0, <2>0, <2>2 DEF Ticket
    <3> QED BY <2>0, <3>1 DEF NoticeInv
  <2> QED BY <2>1, <2>2 DEF NoticeInv
<1>3. ASSUME NEW j \in Run, Starts(j) \/ GoesOn(j) \/ CutOff(j) PROVE NoticeInv'
  <2>0. UNCHANGED created
    BY <1>3 DEF Starts, GoesOn, CutOff, UnchangedRequests
  <2>1. CASE BreachScan(j)
    <3>1. /\ UNCHANGED <<row, told>> /\ scan'[j].todo = Late /\ scan[j] = NoScan
          /\ \A i \in Run \ {j} : scan'[i] = scan[i]
          /\ \A t \in Late : scan'[j].copy[t].marked = row[t].breached /\ scan'[j].copy[t].fire = NewlyFired(row[t], now)
      BY <2>1, BreachScanFits
    <3>2. ASSUME NEW t \in Present', NEW k \in Kind PROVE Right(t, k)'
      <4>1. t \in Present /\ t \in Ticket /\ row[t] \in Row /\ told'[t][k] = told[t][k]
        BY <3>1, RowsOfPresent DEF Present, Inv
      <4>2. CASE Recorded(t, k)
        <5>1. t \in Late => k \notin Notices(scan'[j].copy[t])
          <6>1. t \in Late => Breach \notin NewlyFired(row[t], now)
            BY <4>1, Constants DEF NewlyFired, Row
          <6> QED BY <3>1, <4>1, <4>2, <6>1 DEF Recorded, Notices, BreachNotice, NewlyFired
        <5>2. Pending(t, k)' \subseteq Pending(t, k)
          BY <3>1, <5>1 DEF Pending
        <5> QED BY <3>1, <4>1, <5>2, NoticesKept DEF Inv, Recorded
      <4>3. CASE ~Recorded(t, k)
        <5>1. told'[t][k] = 0
          BY <4>1, <4>3 DEF NoticeInv
        <5>2. Cardinality(Pending(t, k)') \in Nat /\ Cardinality(Pending(t, k)') <= MaxRun
          BY RunsCounted, PendingIsRuns
        <5> QED BY <5>1, <5>2
      <4> QED BY <4>2, <4>3
    <3> QED BY <2>0, <3>1, <3>2 DEF NoticeInv
  <2>2. CASE BreachTell(j) \/ BreachEscalate(j) \/ CutOff(j)
    <3>1. /\ UNCHANGED <<row, told>> /\ \A i \in Run \ {j} : scan'[i] = scan[i]
          /\ scan'[j] = NoScan \/ (scan'[j].todo = scan[j].todo /\ scan'[j].copy = scan[j].copy)
      BY <2>2, RunGoesOn, RunMoves DEF CutOff, Inv, TypeInv
    <3>2. \A t, k : Pending(t, k)' \subseteq Pending(t, k)
      BY <3>1, NoScanSteps DEF Pending
    <3>3. ASSUME NEW t \in Present', NEW k \in Kind PROVE Right(t, k)'
      <4>1. t \in Present /\ told'[t][k] = told[t][k] /\ (Recorded(t, k) => Recorded(t, k)')
        BY <3>1 DEF Present, Recorded
      <4> QED BY <3>2, <4>1, NoticesKept DEF Inv
    <3> QED BY <2>0, <3>1, <3>3 DEF NoticeInv
  <2>3. CASE BreachSave(j)
    <3>1. ASSUME NEW t \in Present', NEW k \in Kind PROVE Right(t, k)'
      <4>1. t \in Present
        BY <2>3, JobSaves
      <4>2. CASE t = Next1(scan[j])
        BY <2>3, <4>1, <4>2, NoticeRecorded
      <4>3. CASE t # Next1(scan[j])
        <5>1. row'[t] = row[t] /\ told'[t] = told[t]
          BY <2>3, <4>1, <4>3, JobSaves
        <5>2. Pending(t, k)' \subseteq Pending(t, k)
          BY <2>3, BreachSaveFits, NoScanSteps DEF Pending
        <5> QED BY <4>1, <5>1, <5>2, NoticesKept DEF Inv, Recorded
      <4> QED BY <4>2, <4>3
    <3>2. ASSUME NEW t \in Ticket, t > created' PROVE \A k \in Kind : told'[t][k] = 0
      <4>1. t \notin Present
        BY <2>0, <3>2 DEF Inv, PauseInv, Numbered, Present
      <4>2. told'[t] = told[t]
        BY <2>3, <4>1, JobSaves
      <4> QED BY <2>0, <3>2, <4>2 DEF NoticeInv
    <3> QED BY <3>1, <3>2 DEF NoticeInv
  <2> QED BY <1>3, <2>1, <2>2, <2>3 DEF Starts, GoesOn
<1>4. CASE Tick
  <2>1. UNCHANGED <<row, created, scan, told>>
    BY <1>4, TickTimes
  <2> QED BY <2>1 DEF NoticeInv, Present, Recorded, Pending
<1> QED BY <1>1, <1>2, <1>3, <1>4, StepCases

LEMMA SendingIsPending ==
  ASSUME TypeInv, NEW t, NEW k
  PROVE  {j \in Run : k \in Sending(j, t)} \subseteq Pending(t, k)
<1> SUFFICES ASSUME NEW j \in Run, k \in Sending(j, t) PROVE j \in Pending(t, k)
  OBVIOUS
<1>1. scan[j].step \in {"escalate", "save"} /\ Next1(scan[j]) = t /\ k \in Notices(scan[j].copy[t])
  BY DEF Sending, Notices
<1>2. t \in scan[j].todo
  BY <1>1, ScanFields, NextIsLeft
<1> QED BY <1>1, <1>2 DEF Pending

\* However tickets, policies, departments and the runs of the job interleave, a notice of a ticket is
\* sent by no more runs than can be under way at once, those set aside that were cut off before their
\* save (checkBreaches).
THEOREM NoticesSafe == Spec => []NoticesBoundedByRuns
<1>1. Init => BreachInv /\ NoticeInv
  BY NoScanSteps DEF Init, BreachInv, NoticeInv, Present
<1>2. Inv /\ NoticeInv => NoticesBoundedByRuns
  <2> SUFFICES ASSUME Inv, NoticeInv, NEW t \in Present, NEW k \in Kind
               PROVE  told[t][k] + Cardinality({j \in Run : k \in Sending(j, t)}) <= Cardinality(Run)
    BY DEF NoticesBoundedByRuns
  <2> DEFINE S == {j \in Run : k \in Sending(j, t)}
  <2>1. S \subseteq Pending(t, k) /\ S \subseteq Run
    BY SendingIsPending DEF Inv
  <2>2. Cardinality(S) <= Cardinality(Pending(t, k)) /\ Cardinality(S) \in Nat /\ Cardinality(Pending(t, k)) \in Nat
    BY <2>1, RunsCounted, PendingIsRuns
  <2>3. told[t][k] \in Nat /\ told[t][k] + Cardinality(Pending(t, k)) <= MaxRun /\ Cardinality(Run) = MaxRun
    BY RunsCounted DEF NoticeInv, Inv, TypeInv, Present
  <2> HIDE DEF S
  <2>4. told[t][k] + Cardinality(S) <= MaxRun
    BY <2>2, <2>3, Constants
  <2> QED BY <2>3, <2>4 DEF S
<1> QED BY <1>1, <1>2, InvInit, InvStep, BreachStep, NoticeStep, PTL DEF Spec

=============================================================================
