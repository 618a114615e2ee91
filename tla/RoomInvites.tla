----------------------------- MODULE RoomInvites -----------------------------
(***************************************************************************)
(* The guest list of one room booking and the QR codes at its door         *)
(* (src/room-bookings/room-invites.service.ts).                            *)
(*                                                                         *)
(* Every handler reads the booking with its guests and check-ins, decides  *)
(* on that copy, and then sends one update.  The decision and the update   *)
(* are two steps.  Only the admission of a guest on the list and the       *)
(* removal of guests put a condition on the update.                        *)
(***************************************************************************)
EXTENDS Integers, Sequences, FiniteSets

CONSTANTS
  Person,       \* people; no two share a name, an e-mail or a phone number
  Accounts,     \* people with an account: SUBSET Person
  OnFile,       \* the contacts on file of each account: [Accounts -> SUBSET Contact]
  Inactive,     \* accounts that are deactivated: SUBSET Accounts
  Typed,        \* guests whose name and contacts the host types
  AtDoor,       \* guests who type a name, and at most one contact, at the door
  Scanner,      \* handlers of scans
  Host,         \* handlers of the host's requests
  MaxInvitees,  \* MAX_INVITEES
  MaxAdmitted,  \* capacity of the room, at most HARD_MAX_ADMITTED
  MaxGuests,    \* bound: guests ever put on the list
  MaxTokens,    \* bound: door codes ever made
  MaxCheckIns   \* bound: admissions

Contact == {"email", "phone"}
\* An account, or a typed name, with the contacts that came with it.
Guest == [p : Person, account : BOOLEAN, by : SUBSET Contact]

ASSUME InviteConstantsOK ==
  /\ Accounts \subseteq Person /\ Inactive \subseteq Accounts
  /\ OnFile \in [Accounts -> SUBSET Contact]
  /\ Typed \cup AtDoor \subseteq {w \in Guest : ~w.account}
  /\ \A w \in AtDoor : \A c, d \in w.by : c = d
  /\ Scanner \cap Host = {} /\ Scanner # {} /\ IsFiniteSet(Scanner) /\ IsFiniteSet(Accounts)
  /\ {MaxInvitees, MaxAdmitted, MaxGuests, MaxTokens, MaxCheckIns} \subseteq Nat

VARIABLES
  booking,  \* the booking: its time (early, open for guests, ended) and its status
  mode,     \* inviteMode
  token,    \* the door code, 0 before one is made
  tokens,   \* door codes made so far
  guests,   \* invitees, oldest first
  checkIns, \* entries with result ADMITTED, oldest first
  op        \* the handler each process runs between its copy and its update

vars == <<booking, mode, token, tokens, guests, checkIns, op>>

-----------------------------------------------------------------------------
(* Rows *)

InviteMode == {"PRIVATE", "PUBLIC"}
Invitee == [who : Guest, revoked : BOOLEAN, joined : BOOLEAN]
Entry == [who : Guest, inv : 0..MaxGuests]         \* inv: place on the list, 0 for none

Idle == [do |-> "idle"]
Done(q) == op' = [op EXCEPT ![q] = Idle]

Listed == DOMAIN guests
Active == {i \in Listed : ~guests[i].revoked}
Least(S) == CHOOSE i \in S : \A j \in S : i <= j

AccountOf(p) == [p |-> p, account |-> TRUE, by |-> OnFile[p]]
Invitable == {AccountOf(p) : p \in Accounts} \cup Typed
Visitor == {AccountOf(p) : p \in Accounts} \cup AtDoor

SameAccount(v, w) == v.account /\ w.account /\ v.p = w.p
Shares(v, w, c) == v.p = w.p /\ c \in v.by \cap w.by

\* sameGuest on check-ins: the same account, or the same name and contact.
Admitted(w) == \E k \in DOMAIN checkIns : checkIns[k].who = w
AdmittedOffList(w) == \E k \in DOMAIN checkIns : checkIns[k].who = w /\ checkIns[k].inv = 0

-----------------------------------------------------------------------------
(* join *)

Admit(w, i) == [do |-> "admit", who |-> w, inv |-> i]
Deny == Idle   \* the log of refused scans (logDenied) is left out

\* The place on the list of someone who scans the door code of a private meeting.
\* An account matches itself; a typed name and contact match a typed guest who gave none or the same.
Matches(g, w) ==
  \/ SameAccount(g, w)
  \/ ~g.account /\ ~w.account /\ w.by # {} /\ g.p = w.p /\ (g.by = {} \/ w.by \subseteq g.by)
OnListEvenRevoked(w) == {i \in Listed : Matches(guests[i].who, w)}   \* a slip: removed guests match
OnList(w) == {i \in Active : Matches(guests[i].who, w)}

\* Is the room full for someone who was not admitted yet?
FullAboveLimit == Len(checkIns) > MaxAdmitted   \* a slip: off by one
Full == Len(checkIns) >= MaxAdmitted

\* BOOKING_NOT_ACTIVE, INVITES_CLOSED, TOO_EARLY, ENDED: the booking takes guests only while it is open.
TakesGuests == booking = [time |-> "open", status |-> "CONFIRMED"] /\ mode # "NONE"

\* What the scan of the door code by w leads to.
DoorScan(w) ==
  CASE ~TakesGuests \/ (w.account /\ w.p \in Inactive) -> Deny
    [] TakesGuests /\ ~(w.account /\ w.p \in Inactive) /\ mode = "PRIVATE" ->
         IF OnList(w) = {} THEN Deny ELSE Admit(guests[Least(OnList(w))].who, Least(OnList(w)))
    [] OTHER -> IF ~Admitted(w) /\ Full THEN Deny ELSE Admit(w, 0)

\* What the scan of the pass of guest i by w leads to.  The pass of an account needs its login.
PassScan(i, w) ==
  LET g == guests[i] IN
  IF /\ TakesGuests /\ ~g.revoked
     /\ g.who.account => SameAccount(g.who, w) /\ w.p \notin Inactive
  THEN Admit(g.who, i) ELSE Deny

\* The write that follows is skipped when the copy shows the admission already.
Needed(o) ==
  CASE o.do = "admit" /\ o.inv # 0 -> ~guests[o.inv].joined
    [] o.do = "admit" /\ o.inv = 0 -> ~AdmittedOffList(o.who)
    [] OTHER -> FALSE

Scan(q, w) ==
  /\ op[q] = Idle
  /\ \E o \in {DoorScan(w) : k \in {token} \ {0}} \cup {PassScan(i, w) : i \in Listed} :
       Needed(o) /\ op' = [op EXCEPT ![q] = o]
  /\ UNCHANGED <<booking, mode, token, tokens, guests, checkIns>>

\* The condition on the update that admits a guest of the list.
NoCondition(i) == TRUE   \* a slip: the check on the copy is trusted
NotJoinedYet(i) == ~guests[i].joined

\* A guest of the list: joinedAt and the check-in in one conditional update.
AdmitListed(q) ==
  /\ op[q].do = "admit" /\ op[q].inv # 0
  /\ Done(q)
  /\ IF NotJoinedYet(op[q].inv)
       THEN /\ Len(checkIns) < MaxCheckIns
            /\ guests' = [guests EXCEPT ![op[q].inv].joined = TRUE]
            /\ checkIns' = Append(checkIns, [who |-> op[q].who, inv |-> op[q].inv])
       ELSE UNCHANGED <<guests, checkIns>>
  /\ UNCHANGED <<booking, mode, token, tokens>>

\* Anyone at a public meeting: the check-in is pushed.
AdmitOpen(q) ==
  /\ op[q].do = "admit" /\ op[q].inv = 0
  /\ Len(checkIns) < MaxCheckIns
  /\ Done(q)
  /\ checkIns' = Append(checkIns, [who |-> op[q].who, inv |-> 0])
  /\ UNCHANGED <<booking, mode, token, tokens, guests>>

-----------------------------------------------------------------------------
(* The host *)

\* setMode: invitations close at once; they open on a confirmed booking that has not ended.
CloseInvites ==
  /\ mode' = "NONE"
  /\ UNCHANGED <<booking, token, tokens, guests, checkIns, op>>

\* Is a door code made along with the mode?
MadeForPublic(m) == token = 0 /\ m = "PUBLIC"   \* a slip: a private meeting gets no door code
MadeNow(m) == token = 0

OpenRead(q, m) ==
  /\ op[q] = Idle
  /\ booking.status # "CANCELLED" /\ booking.time # "ended"
  /\ op' = [op EXCEPT ![q] = [do |-> "mode", mode |-> m, make |-> MadeNow(m)]]
  /\ UNCHANGED <<booking, mode, token, tokens, guests, checkIns>>

OpenWrite(q) ==
  /\ op[q].do = "mode"
  /\ op[q].make => tokens < MaxTokens
  /\ Done(q)
  /\ mode' = op[q].mode
  /\ tokens' = IF op[q].make THEN tokens + 1 ELSE tokens
  /\ token' = IF op[q].make THEN tokens + 1 ELSE token
  /\ UNCHANGED <<booking, guests, checkIns>>

\* addInvitee: an active account, or a name and the contacts typed with it, refused when the list has the
\* account, one of the contacts, or the same name without any contact.
OnListAs(w) == \E i \in Active : guests[i].who = w   \* a slip: a contact in common is overlooked
AlreadyKnown(g, w) ==
  SameAccount(g, w) \/ (\E c \in Contact : Shares(g, w, c)) \/ (g.p = w.p /\ g.by = {} /\ w.by = {})
AlreadyInvited(w) == \E i \in Active : AlreadyKnown(guests[i].who, w)
ListOpen == mode = "PRIVATE" /\ booking.time # "ended"

AddRead(q, w) ==
  /\ op[q] = Idle
  /\ w.account => w.p \notin Inactive
  /\ ListOpen /\ Cardinality(Active) < MaxInvitees /\ ~AlreadyInvited(w)
  /\ op' = [op EXCEPT ![q] = [do |-> "add", add |-> {w}]]
  /\ UNCHANGED <<booking, mode, token, tokens, guests, checkIns>>

\* addInviteesBulk: active accounts, up to the limit, left out when the list has the account or its
\* e-mail.  A phone number is not looked at, nor is a name.
BulkKnown(g, w) == SameAccount(g, w) \/ Shares(g, w, "email")
BulkNew(people) ==
  {w \in {AccountOf(p) : p \in people \ Inactive} : \A i \in Active : ~BulkKnown(guests[i].who, w)}

BulkRead(q, people) ==
  /\ op[q] = Idle
  /\ ListOpen
  /\ LET new == BulkNew(people) IN
     \E add \in SUBSET new :
       /\ Cardinality(add) = IF Cardinality(new) <= MaxInvitees - Cardinality(Active)
                               THEN Cardinality(new) ELSE MaxInvitees - Cardinality(Active)
       /\ add # {}
       /\ op' = [op EXCEPT ![q] = [do |-> "add", add |-> add]]
  /\ UNCHANGED <<booking, mode, token, tokens, guests, checkIns>>

\* The guests are pushed, those of one request in any order.
AddWrite(q) ==
  /\ op[q].do = "add"
  /\ Len(guests) + Cardinality(op[q].add) <= MaxGuests
  /\ Done(q)
  /\ LET n == Cardinality(op[q].add) IN
     \E s \in {f \in [1..n -> op[q].add] : \A j, k \in 1..n : f[j] = f[k] => j = k} :
       guests' = guests \o [k \in 1..n |-> [who |-> s[k], revoked |-> FALSE, joined |-> FALSE]]
  /\ UNCHANGED <<booking, mode, token, tokens, checkIns>>

\* removeInvitee, removeInviteesBulk: those not removed yet, in one conditional update.
Remove(gone) ==
  /\ gone \cap Active # {}
  /\ guests' = [i \in Listed |-> [guests[i] EXCEPT !.revoked = @ \/ i \in gone]]
  /\ UNCHANGED <<booking, mode, token, tokens, checkIns, op>>

-----------------------------------------------------------------------------

\* The booking goes on (room-bookings.service.ts): time passes, or an approved rescheduling gives it
\* another time, an earlier phase too; it is checked out of; it is cancelled for good.
Time == {"early", "open", "ended"}
BookingMoves ==
  /\ \/ \E t \in Time \ {booking.time} : booking' = [booking EXCEPT !.time = t]
     \/ booking.status = "CONFIRMED" /\ booking' = [booking EXCEPT !.status = "LEFT"]
     \/ booking.status # "CANCELLED" /\ booking' = [booking EXCEPT !.status = "CANCELLED"]
  /\ UNCHANGED <<mode, token, tokens, guests, checkIns, op>>

Init ==
  /\ booking = [time |-> "early", status |-> "CONFIRMED"] /\ mode = "NONE" /\ token = 0 /\ tokens = 0
  /\ guests = <<>> /\ checkIns = <<>>
  /\ op = [q \in Scanner \cup Host |-> Idle]

ScannerStep(q) == (\E w \in Visitor : Scan(q, w)) \/ AdmitListed(q) \/ AdmitOpen(q)

HostStep(q) ==
  \/ \E m \in InviteMode : OpenRead(q, m)
  \/ OpenWrite(q)
  \/ \E w \in Invitable : AddRead(q, w)
  \/ \E people \in SUBSET Accounts : BulkRead(q, people)
  \/ AddWrite(q)

Next ==
  \/ \E q \in Scanner : ScannerStep(q)
  \/ \E q \in Host : HostStep(q)
  \/ CloseInvites
  \/ \E gone \in SUBSET Listed : Remove(gone)
  \/ BookingMoves

Spec == Init /\ [][Next]_vars

-----------------------------------------------------------------------------
(* Properties *)

\* Types of the booking's fields; invitations are open only with a door code.
TypeOK ==
  /\ booking \in [time : Time, status : {"CONFIRMED", "LEFT", "CANCELLED"}]
  /\ mode \in InviteMode \cup {"NONE"}
  /\ tokens \in 0..MaxTokens /\ token \in 0..tokens /\ (mode # "NONE" => token # 0)
  /\ guests \in Seq(Invitee) /\ Len(guests) <= MaxGuests
  /\ checkIns \in Seq(Entry)

\* A guest of the list is admitted once, however many scans of the pass and of the door code run at the
\* same time, and joinedAt says exactly who was (updateOne in join).
AdmittedOnce ==
  /\ \A j, k \in DOMAIN checkIns : checkIns[j].inv = checkIns[k].inv /\ checkIns[j].inv # 0 => j = k
  /\ \A i \in Listed : guests[i].joined <=> \E k \in DOMAIN checkIns : checkIns[k].inv = i

\* Once a guest is removed and no scan that read the list before is under way, no scan lets the guest in.
Admitting(q, i) == op[q].do = "admit" /\ op[q].inv = i
RemovedGuestStaysOut ==
  [][\A i \in Listed :
       guests[i].revoked /\ (\A q \in Scanner : ~Admitting(q, i))
         => guests'[i].joined = guests[i].joined /\ \A q \in Scanner : ~Admitting(q, i)']_vars

\* The guest list stays within its limit; no account and no e-mail is on it twice, and no typed guest
\* is typed a second time (addInvitee, addInviteesBulk; one host request at a time).  A guest typed with
\* a phone number only may be listed again as an account by addInviteesBulk.
Twice(g, w) == BulkKnown(g, w) \/ (~g.account /\ ~w.account /\ AlreadyKnown(g, w))
GuestListSound ==
  /\ Cardinality(Active) <= MaxInvitees
  /\ \A i, j \in Active : i # j => ~Twice(guests[i].who, guests[j].who)

\* A public meeting lets in more than the room holds only through scans that overlap: at most one more
\* visitor for each other scan that was under way.
FirstEntry(k) == checkIns[k].inv = 0 /\ \A j \in 1..(k - 1) : checkIns[j].who # checkIns[k].who
RoomHoldsVisitors ==
  Cardinality({k \in DOMAIN checkIns : FirstEntry(k)}) <= MaxAdmitted + Cardinality(Scanner) - 1
=============================================================================
