------------------------------- MODULE Tickets -------------------------------
(***************************************************************************)
(* Tickets and the cron job that watches their deadlines                    *)
(* (src/tickets/tickets.service.ts, src/tickets/sla-monitor.service.ts,    *)
(* src/sla-policies, src/departments).                                     *)
(*                                                                         *)
(* A request handler reads a copy of the ticket, decides on the copy, and  *)
(* saves the fields it changed, with no condition: its read and its save   *)
(* are two steps.  The job reads all its candidates at once and then       *)
(* works through the copies, ticket by ticket, telling people before it    *)
(* saves; a step that throws ends the whole run of the job.  Nothing keeps *)
(* a run from starting while another one is under way, in the same server  *)
(* process or in another.  The job that reminds of idle tickets writes     *)
(* fields of its own and is left out.                                      *)
(***************************************************************************)
EXTENDS Integers, Sequences, FiniteSets

CONSTANTS
  MaxTicket,    \* bound: tickets ever created
  MaxTime,      \* bound: minutes
  MaxPaused,    \* bound: a ticket that was paused for so many minutes is not paused again
  MaxRun,       \* bound: runs of the job under way at the same time
  MaxWork,      \* bound: tickets times runs under way
  MaxOff,       \* bound: policies at a time that are not active
  MaxDept,      \* bound: departments
  Policy,       \* SLA policies, one for each ticket type and priority
  Limit,        \* resolutionTimeMinutes
  Asks,         \* [Ticket -> Policy], by the type and priority that the ticket is raised with
  Rules,        \* [Policy -> escalation rules, by their afterMinutesOverdue]
  ToManagers,   \* [Policy -> those of its rules that notify the managers of the department]
  RoutedTo,     \* [Ticket -> the department it is routed to]
  Proc,         \* request handlers
  Runs,         \* [Proc -> the kinds of request that the process handles]
  None

Ticket == 1..MaxTicket   \* by order of creation (_id)
Run == 1..MaxRun         \* the runs of the job
Dept == 1..MaxDept       \* departments by the number of their _id
Breach == -1             \* the notice of the breach itself
Kind == {Breach} \cup UNION {Rules[p] : p \in Policy}
Writes == {"assign", "status"}

ASSUME TicketConstantsOK ==
  /\ {MaxTicket, MaxTime, MaxPaused, MaxRun, MaxWork, MaxOff, MaxDept, Limit} \subseteq Nat
  /\ Rules \in [Policy -> SUBSET Nat] /\ ToManagers \in [Policy -> SUBSET Nat]
  /\ RoutedTo \in [Ticket -> Dept]
  /\ Asks \in [Ticket -> Policy]
  /\ Runs \in [Proc -> SUBSET (Writes \cup {"create"})]

\* Requests that write the status of a ticket do not overlap.
ASSUME OneStatusWriter ==
  \A p, q \in Proc : Runs[p] \cap Writes # {} /\ Runs[q] \cap Writes # {} => p = q

VARIABLES
  row,      \* [Ticket -> ticket or None]
  created,  \* tickets created so far
  policies, \* [Policy -> PolicyStatus]
  departments,
  op,       \* [Proc -> the handler between its read and its save]
  scan,     \* [Run -> run of checkBreaches under way]
  now,      \* minutes
  waited,   \* history, [Ticket -> minutes it spent on WAITING_ON_USER]
  told      \* history, [Ticket -> [Kind -> runs that sent the notice and recorded it on the ticket]]

vars == <<row, created, policies, departments, op, scan, now, waited, told>>

-----------------------------------------------------------------------------
(* Rows *)

TicketStatus == {"OPEN", "ASSIGNED", "IN_PROGRESS", "WAITING_ON_USER", "RESOLVED", "CLOSED"}

\* `paused' is the sum of the closed pauses, `open' the start of each pause still open.
Row == [status : TicketStatus, policy : Policy,
        due : Nat, paused : Nat, open : Seq(Nat), breached : BOOLEAN, fired : SUBSET Kind]

ASSUME NoneIsNoRow == None \notin Row

AllowedTransitions ==
  [s \in TicketStatus |->
     CASE s = "OPEN"            -> {"ASSIGNED", "IN_PROGRESS"}
       [] s = "ASSIGNED"        -> {"IN_PROGRESS"}
       [] s = "IN_PROGRESS"     -> {"WAITING_ON_USER", "RESOLVED"}
       [] s = "WAITING_ON_USER" -> {"IN_PROGRESS", "RESOLVED"}
       [] s = "RESOLVED"        -> {"CLOSED", "IN_PROGRESS"}
       [] s = "CLOSED"          -> {}]

OpenStatusesTaken == {"ASSIGNED", "IN_PROGRESS"}   \* a slip: tickets nobody took are not watched
OpenStatuses == {"OPEN", "ASSIGNED", "IN_PROGRESS"}

Present == {t \in Ticket : row[t] # None}

\* A policy is created, switched on and off by isActive, and deleted: its _id never comes back.
PolicyStatus == {"new", "active", "inactive", "deleted"}
PolicyExists(p) == policies[p] \in {"active", "inactive"}
DeptExists(t) == RoutedTo[t] \in departments
Idle == [do |-> "idle"]
NoScan == [todo |-> {}, copy |-> <<>>, step |-> "idle"]
UnderWay == {j \in Run : scan[j] # NoScan}

\* computeEffectiveDueDate: only pauses that ended are added to the deadline.
EffectiveDueOfCreation(r) == r.due   \* a slip: pauses do not count
EffectiveDue(r) == r.due + r.paused
Overdue(r, at) == at > EffectiveDue(r)

\* The pause that a change of status begins or ends: the first one still open is ended.
PausesUnlessResolved(r, to) ==   \* a slip: a pause ended by the resolution stays open
  CASE to = "WAITING_ON_USER" -> [r EXCEPT !.open = Append(@, now)]
    [] r.status = "WAITING_ON_USER" /\ r.open # <<>> /\ to = "IN_PROGRESS" ->
         [r EXCEPT !.paused = @ + (now - Head(r.open)), !.open = Tail(@)]
    [] OTHER -> r
PausesReversed(r, to) ==   \* a slip: the two ends of the pause are swapped
  CASE to = "WAITING_ON_USER" -> [r EXCEPT !.open = Append(@, now)]
    [] to # "WAITING_ON_USER" /\ r.status = "WAITING_ON_USER" /\ r.open # <<>> ->
         [r EXCEPT !.paused = @ + (Head(r.open) - now), !.open = Tail(@)]
    [] OTHER -> r
Pauses(r, to) ==
  CASE to = "WAITING_ON_USER" -> [r EXCEPT !.open = Append(@, now)]
    [] to # "WAITING_ON_USER" /\ r.status = "WAITING_ON_USER" /\ r.open # <<>> ->
         [r EXCEPT !.paused = @ + (now - Head(r.open)), !.open = Tail(@)]
    [] OTHER -> r

\* What the escalation rules of the policy add for a copy that is overdue at minute `at'.
NewlyFired(r, at) == {m \in Rules[r.policy] \ r.fired : at - EffectiveDue(r) >= m}

-----------------------------------------------------------------------------
(* Requests *)

Start(q, kind) == op[q] = Idle /\ kind \in Runs[q]
Done(q) == op' = [op EXCEPT ![q] = Idle]
UnchangedJobs == UNCHANGED <<scan, now, told>>
UnchangedConfig == UNCHANGED <<policies, departments>>

\* computeDueDates, of the resolution
DueDate(at) == at + Limit

\* create up to the insertion: the department and the policy of the type and priority are found.
\* Numbers are left out: a number that is taken (unique index) fails the insertion.
CreateBegin(q) ==
  /\ Start(q, "create")
  /\ created < MaxTicket
  /\ DeptExists(created + 1)
  /\ policies[Asks[created + 1]] = "active"
  /\ op' = [op EXCEPT ![q] = [do |-> "create", policy |-> Asks[created + 1]]]
  /\ UNCHANGED <<row, created, waited>> /\ UnchangedConfig /\ UnchangedJobs

\* The insertion, or its failure.
CreateInsert(q) ==
  /\ op[q].do = "create"
  /\ Done(q)
  /\ \/ UNCHANGED <<row, created, waited>>
     \/ LET t == created + 1 IN
        /\ t <= MaxTicket /\ t * Cardinality(UnderWay) <= MaxWork
        /\ created' = t
        /\ row' = [row EXCEPT ![t] =
             [status |-> "OPEN", policy |-> op[q].policy, due |-> DueDate(now),
              paused |-> 0, open |-> <<>>, breached |-> FALSE, fired |-> {}]]
        /\ waited' = [waited EXCEPT ![t] = 0]
  /\ UnchangedConfig /\ UnchangedJobs

\* assign, read and checks (who is assigned is left out).
AssignRead(q, t) ==
  /\ Start(q, "assign")
  /\ t \in Present /\ row[t].status # "CLOSED"
  /\ op' = [op EXCEPT ![q] = [do |-> "assign", t |-> t, untaken |-> row[t].status = "OPEN"]]
  /\ UNCHANGED <<row, created, waited>> /\ UnchangedConfig /\ UnchangedJobs

\* assign, save.  The status is written only when the copy was OPEN.
AssignSave(q) ==
  /\ op[q].do = "assign"
  /\ Done(q)
  /\ row' = IF op[q].t \in Present /\ op[q].untaken
              THEN [row EXCEPT ![op[q].t].status = "ASSIGNED"] ELSE row
  /\ UNCHANGED <<created, waited>> /\ UnchangedConfig /\ UnchangedJobs

\* changeStatus, read and checks.
StatusRead(q, t) ==
  /\ Start(q, "status")
  /\ t \in Present
  /\ \E to \in AllowedTransitions[row[t].status] :
       /\ to = "WAITING_ON_USER" => row[t].paused < MaxPaused
       /\ op' = [op EXCEPT ![q] = [do |-> "status", t |-> t, to |-> to,
                             copy |-> [status |-> row[t].status, paused |-> row[t].paused, open |-> row[t].open]]]
  /\ UNCHANGED <<row, created, waited>> /\ UnchangedConfig /\ UnchangedJobs

\* changeStatus, save: the pause begun or ended, the status, the history.  The end of a pause is
\* written into an element of an array, so that save is refused when another one (of the job, of a
\* writer left out here) has pushed to an array of the ticket since the read.
StatusSave(q) ==
  /\ op[q].do = "status"
  /\ Done(q)
  /\ LET t == op[q].t  new == Pauses(op[q].copy, op[q].to) IN
     \/ /\ t \in Present
        /\ row' = [row EXCEPT ![t].status = op[q].to, ![t].paused = new.paused, ![t].open = new.open]
     \/ /\ t \notin Present \/ op[q].copy.status = "WAITING_ON_USER"
        /\ UNCHANGED row
  /\ UNCHANGED <<created, waited>> /\ UnchangedConfig /\ UnchangedJobs

\* remove: one deletion, whatever the status (the histories of the ticket end with it).
Remove(t) ==
  /\ t \in Present
  /\ row' = [row EXCEPT ![t] = None]
  /\ waited' = [waited EXCEPT ![t] = 0] /\ told' = [told EXCEPT ![t] = [k \in Kind |-> 0]]
  /\ UNCHANGED <<created, op, scan, now>> /\ UnchangedConfig

\* ImportRow: a row of a CSV file is created like a ticket of the form.
ImportRow(q) == CreateBegin(q)

PolicyBecomes(p, s) ==
  /\ Cardinality({o \in Policy : (IF o = p THEN s ELSE policies[o]) # "active"}) <= MaxOff
  /\ policies' = [policies EXCEPT ![p] = s]
  /\ UNCHANGED <<row, created, departments, op, waited>> /\ UnchangedJobs

\* SLA policies: create (a second one for a type and priority is refused by the unique index), a row of
\* bulkImport, update of isActive (other updates are left out), remove.
CreatePolicy(p) == policies[p] = "new" /\ PolicyBecomes(p, "active")
ImportPolicy(p) == CreatePolicy(p)
SwitchPolicy(p) == PolicyExists(p) /\ PolicyBecomes(p, IF policies[p] = "active" THEN "inactive" ELSE "active")
RemovePolicy(p) == PolicyExists(p) /\ PolicyBecomes(p, "deleted")

DepartmentsBecome(s) ==
  /\ departments' = s
  /\ UNCHANGED <<row, created, policies, op, waited>> /\ UnchangedJobs

\* Departments: create (a row of bulkImport does the same) takes the number after the highest, so that
\* the number of a deleted department can come back; remove looks at nothing that names it.
CreateDepartment(d) ==
  /\ departments \subseteq 1..(d - 1)
  /\ d > 1 => d - 1 \in departments
  /\ DepartmentsBecome(departments \cup {d})
RemoveDepartment(d) == d \in departments /\ DepartmentsBecome(departments \ {d})

Handle(q) ==
  \/ CreateBegin(q) \/ ImportRow(q) \/ CreateInsert(q)
  \/ AssignSave(q) \/ StatusSave(q)
  \/ \E t \in Ticket : AssignRead(q, t) \/ StatusRead(q, t)

-----------------------------------------------------------------------------
(* checkBreaches, every minute *)

\* The run ends, or goes on with the next copy.
Next1(job) == CHOOSE t \in job.todo : \A u \in job.todo : t <= u
After(job, step) ==
  LET left == job.todo \ {Next1(job)} IN
  IF left = {} THEN NoScan
  ELSE [job EXCEPT !.todo = left, !.step = step, !.copy = [t \in left |-> @[t]]]

RunBecomes(j, s) == scan' = [scan EXCEPT ![j] = s]
UnchangedRequests == UNCHANGED <<created, policies, departments, op, now, waited>>

\* The overdue among the candidates: the deadline is judged on the copies.  (A run takes the first
\* number that is free.)
BreachScan(j) ==
  /\ scan[j] = NoScan /\ \A i \in 1..(j - 1) : scan[i] # NoScan
  /\ created * (1 + Cardinality(UnderWay)) <= MaxWork
  /\ LET late == {t \in Present : row[t].status \in OpenStatuses /\ Overdue(row[t], now)} IN
     /\ late # {}
     /\ RunBecomes(j, [todo |-> late, step |-> "tell",
                       copy |-> [t \in late |-> [marked |-> row[t].breached, fire |-> NewlyFired(row[t], now),
                                                 policy |-> row[t].policy]]])
  /\ UNCHANGED <<row, told>>

\* The agent and the managers are told, unless the copy is marked already; the run ends when the
\* department, which names the managers, is gone.
BreachTell(j) ==
  /\ scan[j].step = "tell"
  /\ LET t == Next1(scan[j]) IN
     RunBecomes(j, IF scan[j].copy[t].marked \/ DeptExists(t)
                     THEN [scan[j] EXCEPT !.step = "escalate"] ELSE NoScan)
  /\ UNCHANGED <<row, told>>

\* The escalation rules, one after the other; the run ends when the policy of the ticket is gone, or
\* its department and a rule is for the managers.
BreachEscalate(j) ==
  /\ scan[j].step = "escalate"
  /\ LET t == Next1(scan[j])  copy == scan[j].copy[t] IN
     RunBecomes(j, IF PolicyExists(copy.policy) /\ (copy.fire \cap ToManagers[copy.policy] = {} \/ DeptExists(t))
                     THEN [scan[j] EXCEPT !.step = "save"] ELSE NoScan)
  /\ UNCHANGED <<row, told>>

\* What the job saves of a copy.
MarkedNot(r, copy) == [r EXCEPT !.fired = @ \cup copy.fire]   \* a slip: the mark is lost
Marked(r, copy) == [r EXCEPT !.breached = TRUE, !.fired = @ \cup copy.fire]

\* The notices that a run sends for a copy.
BreachNotice(copy) == IF copy.marked THEN {} ELSE {Breach}
Notices(copy) == BreachNotice(copy) \cup copy.fire
Counted(count, sent) == [k \in Kind |-> IF k \in sent THEN count[k] + 1 ELSE count[k]]

\* The save of one ticket; the run ends when the ticket was deleted in the meantime.
BreachSave(j) ==
  /\ scan[j].step = "save"
  /\ LET t == Next1(scan[j])  copy == scan[j].copy[t] IN
     IF t \in Present
       THEN /\ row' = [row EXCEPT ![t] = Marked(@, copy)]
            /\ told' = [told EXCEPT ![t] = Counted(@, Notices(copy))]
            /\ RunBecomes(j, After(scan[j], "tell"))
       ELSE /\ UNCHANGED <<row, told>>
            /\ RunBecomes(j, NoScan)

-----------------------------------------------------------------------------
(* Time, restarts *)

Tick ==
  /\ now < MaxTime
  /\ now' = now + 1
  /\ waited' = [t \in Ticket |-> IF row[t] # None /\ row[t].status = "WAITING_ON_USER"
                                   THEN waited[t] + 1 ELSE waited[t]]
  /\ UNCHANGED <<row, created, op, scan, told>> /\ UnchangedConfig

\* A server stops: its handlers and its runs of the job are gone, one step for each.
Crash(q) ==
  /\ op[q] # Idle /\ Done(q)
  /\ UNCHANGED <<row, created, waited>> /\ UnchangedConfig /\ UnchangedJobs
CutOff(j) ==
  /\ scan[j] # NoScan /\ RunBecomes(j, NoScan)
  /\ UNCHANGED <<row, told>> /\ UnchangedRequests

Init ==
  /\ row = [t \in Ticket |-> None] /\ created = 0
  /\ policies \in [Policy -> {"new", "active"}] /\ Cardinality({p \in Policy : policies[p] = "new"}) <= MaxOff
  /\ departments \in SUBSET Dept
  /\ op = [q \in Proc |-> Idle] /\ scan = [j \in Run |-> NoScan]
  /\ now = 0 /\ waited = [t \in Ticket |-> 0]
  /\ told = [t \in Ticket |-> [k \in Kind |-> 0]]

GoesOn(j) == UnchangedRequests /\ (BreachTell(j) \/ BreachEscalate(j) \/ BreachSave(j))
Starts(j) == UnchangedRequests /\ BreachScan(j)

Next ==
  \/ \E q \in Proc : Handle(q) \/ Crash(q)
  \/ \E t \in Ticket : Remove(t)
  \/ \E p \in Policy : CreatePolicy(p) \/ ImportPolicy(p) \/ SwitchPolicy(p) \/ RemovePolicy(p)
  \/ \E d \in Dept : CreateDepartment(d) \/ RemoveDepartment(d)
  \/ \E j \in Run : Starts(j) \/ GoesOn(j) \/ CutOff(j)
  \/ Tick

\* The scheduler starts the job every minute and the event loop lets a run under way go on;
\* from some time on no run is cut off by a stop of its server.
Fairness ==
  /\ WF_vars(\E j \in Run : Starts(j))
  /\ \A j \in Run : WF_vars(GoesOn(j))
  /\ <>[][~\E j \in Run : CutOff(j)]_vars

Spec == Init /\ [][Next]_vars /\ Fairness

-----------------------------------------------------------------------------
(* Properties *)

Steps == {"idle", "tell", "escalate", "save"}

\* Types of the collections and of the runs under way.
TypeOK ==
  /\ row \in [Ticket -> Row \cup {None}]
  /\ created \in 0..MaxTicket /\ policies \in [Policy -> PolicyStatus] /\ departments \subseteq Dept
  /\ DOMAIN op = Proc /\ now \in 0..MaxTime
  /\ DOMAIN scan = Run /\ \A j \in Run : scan[j].todo \subseteq Ticket /\ scan[j].step \in Steps
  /\ waited \in [Ticket -> Nat] /\ told \in [Ticket -> [Kind -> Nat]]

\* The pauses of a ticket add up to the time it waited on the user, and one is open exactly while it
\* waits: the deadline is moved by the user's delay, no more and no less.
PausesMatchWaits ==
  \A t \in Present :
    LET r == row[t] IN
    IF r.status = "WAITING_ON_USER"
      THEN Len(r.open) = 1 /\ r.paused + (now - Head(r.open)) = waited[t]
      ELSE r.open = <<>> /\ r.paused = waited[t]

\* A ticket is marked as breached only when more than the time of its policy has passed since its
\* creation, the time it waited on the user not counted, however late the job saves its copies.
BreachedAfterItsTime ==
  \A t \in Present : row[t].breached => now - (row[t].due - Limit) - waited[t] > Limit

\* The notices that run j has sent about ticket t and has not recorded yet.
Sending(j, t) ==
  IF scan[j].step \notin {"escalate", "save"} \/ Next1(scan[j]) # t THEN {}
  ELSE LET copy == scan[j].copy[t] IN
       IF scan[j].step = "save" THEN Notices(copy) ELSE BreachNotice(copy)

\* A notice of a ticket is sent by no more runs than can be under way at the same time, the runs set
\* aside that something cut off between their sending it and their save (a restart, a policy, a
\* department or the ticket deleted): once a run has recorded it, only those that had read the ticket
\* before still send it.  With one run at a time every notice is sent once.
NoticesBoundedByRuns ==
  \A t \in Present, k \in Kind :
    told[t][k] + Cardinality({j \in Run : k \in Sending(j, t)}) <= Cardinality(Run)

\* Every ticket that is overdue in an open status is marked, unless it leaves those statuses, is
\* deleted, or the policy or the department of some ticket was deleted (that ends every run at that
\* ticket, and those behind it are not reached).
PolicyMissing == \E t \in Present : ~PolicyExists(row[t].policy)
DeptMissing == \E t \in Present : ~DeptExists(t)
OverdueIsMarked ==
  \A t \in Ticket :
    (t \in Present /\ row[t].status \in {"OPEN", "ASSIGNED", "IN_PROGRESS"} /\ now > row[t].due + waited[t])
      ~> (t \notin Present \/ row[t].breached \/ PolicyMissing \/ DeptMissing
            \/ row[t].status \notin {"OPEN", "ASSIGNED", "IN_PROGRESS"})
=============================================================================
