-------------------------- MODULE RoomInvites_proofs --------------------------
(***************************************************************************)
(* Theorems about RoomInvites, for every value of its constants.           *)
(***************************************************************************)
EXTENDS RoomInvites, FiniteSetTheorems, SequenceTheorems, WellFoundedInduction, TLAPS

(***************************************************************************)
(* Type correctness.  TypeOK is not inductive: what a handler carries      *)
(* between its copy and its update has to fit the booking it meets.        *)
(***************************************************************************)
AdmitOp == [do : {"admit"}, who : Guest, inv : Nat]
ModeOp == [do : {"mode"}, mode : InviteMode, make : BOOLEAN]
AddOp == [do : {"add"}, add : SUBSET Guest]
OpType == {Idle} \cup AdmitOp \cup ModeOp \cup AddOp

Proc == Scanner \cup Host

Fits(o) ==
  /\ o.do = "admit" => o.inv \in 0..Len(guests)
  /\ o.do = "mode" => o.make \/ token # 0
  /\ o.do = "add" => IsFiniteSet(o.add)

OpsOK == op \in [Proc -> OpType] /\ \A q \in Proc : Fits(op[q])

TypeInv == TypeOK /\ OpsOK

\* The least element that Least chooses.
LEMMA LeastInSet ==
  ASSUME NEW S, S \subseteq Nat, S # {}
  PROVE  Least(S) \in S
<1> DEFINE Less == {ss \in Nat \X Nat : ss[1] < ss[2]}
<1>1. IsWellFoundedOn(Less, Nat)
  BY NatLessThanWellFounded DEF OpToRel
<1>2. PICK i \in S : \A j \in S : ~(<<j, i>> \in Less)
  <2> HIDE DEF Less
  <2> QED BY <1>1, WFMin
<1>3. \A j \in S : ~(j < i)
  BY <1>2
<1>4. \A j \in S : i <= j
  BY <1>3
<1> QED BY <1>4 DEF Least

\* Whoever is invited or stands at the door is a guest; the accounts are as many as they are.
LEMMA GuestsTyped == Invitable \subseteq Guest /\ Visitor \subseteq Guest
<1>1. ASSUME NEW p \in Accounts PROVE AccountOf(p) \in Guest
  BY InviteConstantsOK DEF AccountOf, Guest
<1>2. Typed \subseteq Guest /\ AtDoor \subseteq Guest
  BY InviteConstantsOK
<1> QED BY <1>1, <1>2 DEF Invitable, Visitor

LEMMA FiniteAccounts ==
  ASSUME NEW people \in SUBSET Accounts
  PROVE  IsFiniteSet({AccountOf(p) : p \in people})
<1> DEFINE G == {AccountOf(p) : p \in people}
           f == [p \in people |-> AccountOf(p)]
<1>1. f \in Surjection(people, G)
  BY DEF Surjection
<1>2. IsFiniteSet(people)
  BY InviteConstantsOK, FS_Subset
<1> QED BY <1>1, <1>2, FS_Surjection

LEMMA NewAreAccounts ==
  ASSUME NEW people \in SUBSET Accounts
  PROVE  /\ IsFiniteSet(BulkNew(people)) /\ BulkNew(people) \subseteq Guest
         /\ \A w \in BulkNew(people) : w \in Invitable /\ w.account /\ w = AccountOf(w.p)
<1>1. BulkNew(people) \subseteq {AccountOf(p) : p \in people}
  BY DEF BulkNew
<1>2. \A w \in BulkNew(people) : w \in Invitable /\ w.account /\ w = AccountOf(w.p)
  BY <1>1 DEF AccountOf, Invitable
<1> QED BY <1>1, <1>2, FiniteAccounts, GuestsTyped, FS_Subset

LEMMA IdleFits == Idle \in OpType /\ Fits(Idle)
BY DEF Idle, OpType, Fits

LEMMA GuestRow ==
  ASSUME TypeInv, NEW i \in Listed
  PROVE  /\ i \in 1..Len(guests) /\ Len(guests) \in Nat
         /\ guests[i] \in Invitee
BY ElementOfSeq DEF TypeInv, TypeOK, Listed

\* What a scan leads to: nothing, an admission off the list, or that of a guest on the list.
LEMMA ScanLeadsTo ==
  ASSUME TypeInv, NEW w \in Visitor,
         NEW o \in {DoorScan(w) : k \in {token} \ {0}} \cup {PassScan(i, w) : i \in Listed}
  PROVE  \/ o = Idle
         \/ /\ o = Admit(w, 0) /\ (Admitted(w) \/ ~Full)
         \/ \E i \in Active : o = Admit(guests[i].who, i)
<1>1. CASE o = DoorScan(w)
  <2>1. CASE ~TakesGuests \/ (w.account /\ w.p \in Inactive)
    BY <1>1, <2>1 DEF DoorScan, Deny
  <2>2. CASE TakesGuests /\ ~(w.account /\ w.p \in Inactive) /\ mode = "PRIVATE"
    <3>1. o = IF OnList(w) = {} THEN Deny ELSE Admit(guests[Least(OnList(w))].who, Least(OnList(w)))
      BY <1>1, <2>2 DEF DoorScan
    <3>2. OnList(w) \subseteq Nat
      BY GuestRow DEF OnList, Active
    <3>3. CASE OnList(w) # {}
      <4>1. Least(OnList(w)) \in OnList(w)
        BY <3>2, <3>3, LeastInSet
      <4> QED BY <3>1, <3>3, <4>1 DEF OnList
    <3> QED BY <3>1, <3>3 DEF Deny
  <2>3. CASE TakesGuests /\ ~(w.account /\ w.p \in Inactive) /\ mode # "PRIVATE"
    BY <1>1, <2>3 DEF DoorScan, Deny
  <2> QED BY <2>1, <2>2, <2>3
<1>2. CASE \E i \in Listed : o = PassScan(i, w)
  BY <1>2 DEF PassScan, Deny, Active
<1> QED BY <1>1, <1>2

LEMMA AdmitType ==
  ASSUME NEW w \in Guest, NEW i \in 0..Len(guests)
  PROVE  Admit(w, i) \in OpType /\ Fits(Admit(w, i))
         /\ Admit(w, i).do = "admit" /\ Admit(w, i).who = w /\ Admit(w, i).inv = i
BY DEF Admit, OpType, AdmitOp, Fits

\* The operation of one process is replaced while the booking stays as it is.
LEMMA PutOp ==
  ASSUME OpsOK, NEW q \in Proc, NEW o \in OpType, Fits(o),
         op' = [op EXCEPT ![q] = o], UNCHANGED <<guests, token>>
  PROVE  OpsOK'
<1>1. op' \in [Proc -> OpType] BY DEF OpsOK
<1>2. ASSUME NEW r \in Proc PROVE Fits(op[r])'
  <2>1. Fits(op'[r])
    BY DEF OpsOK
  <2> QED BY <2>1 DEF Fits
<1> QED BY <1>1, <1>2 DEF OpsOK

\* The list grows or its flags change, the door code is made: what is carried still fits.
LEMMA StillFits ==
  ASSUME OpsOK, op' \in [Proc -> OpType], \A r \in Proc : op'[r] = op[r] \/ op'[r] = Idle,
         Len(guests) \in Nat, Len(guests)' \in Nat, Len(guests) <= Len(guests)',
         token # 0 => token' # 0
  PROVE  OpsOK'
<1>1. ASSUME NEW r \in Proc PROVE Fits(op[r])'
  <2>1. CASE op'[r] = Idle
    BY <2>1 DEF Fits, Idle
  <2>2. CASE op'[r] = op[r]
    <3>1. Fits(op[r]) BY DEF OpsOK
    <3> QED BY <2>2, <3>1 DEF Fits
  <2> QED BY <2>1, <2>2
<1> QED BY <1>1 DEF OpsOK

LEMMA DoneOps ==
  ASSUME OpsOK, NEW q \in Proc, Done(q)
  PROVE  op' \in [Proc -> OpType] /\ \A r \in Proc : op'[r] = op[r] \/ op'[r] = Idle
BY IdleFits DEF Done, OpsOK

LEMMA InitType == Init => TypeInv
<1> SUFFICES ASSUME Init PROVE TypeInv OBVIOUS
<1>1. TypeOK
  BY InviteConstantsOK, EmptySeq DEF Init, TypeOK, InviteMode, Time
<1>2. OpsOK
  BY IdleFits DEF Init, OpsOK, Proc
<1> QED BY <1>1, <1>2 DEF TypeInv

LEMMA ScanType ==
  ASSUME TypeInv, NEW q \in Scanner, NEW w \in Visitor, Scan(q, w) PROVE TypeInv'
<1>1. TypeOK'
  BY DEF Scan, TypeInv, TypeOK
<1>2. PICK o \in {DoorScan(w) : k \in {token} \ {0}} \cup {PassScan(i, w) : i \in Listed} :
        op' = [op EXCEPT ![q] = o]
  BY DEF Scan
<1>3. o \in OpType /\ Fits(o)
  <2>1. w \in Guest BY GuestsTyped
  <2>2. \A i \in Active : i \in 0..Len(guests) /\ guests[i].who \in Guest
    BY GuestRow DEF Active, Invitee
  <2>3. 0 \in 0..Len(guests) BY LenProperties DEF TypeInv, TypeOK
  <2> QED BY <2>1, <2>2, <2>3, ScanLeadsTo, AdmitType, IdleFits
<1> QED BY <1>1, <1>2, <1>3, PutOp DEF Scan, TypeInv, Proc

LEMMA AdmitListedType ==
  ASSUME TypeInv, NEW q \in Scanner, AdmitListed(q) PROVE TypeInv'
<1>1. q \in Proc /\ op[q] \in AdmitOp /\ op[q].inv \in 1..Len(guests)
  BY DEF AdmitListed, Proc, TypeInv, OpsOK, Fits, OpType, AdmitOp, ModeOp, AddOp, Idle
<1> DEFINE i == op[q].inv
           row == [guests[i] EXCEPT !.joined = TRUE]
           entry == [who |-> op[q].who, inv |-> i]
<1>2. guests \in Seq(Invitee) /\ checkIns \in Seq(Entry) /\ Len(guests) \in 0..MaxGuests
  BY LenProperties, InviteConstantsOK DEF TypeInv, TypeOK
<1>3. row \in Invitee /\ entry \in Entry
  <2>1. i \in Listed /\ i \in 0..MaxGuests /\ op[q].who \in Guest
    BY <1>1, <1>2, InviteConstantsOK DEF Listed, AdmitOp
  <2>2. guests[i] \in Invitee
    BY <2>1, GuestRow
  <2> QED BY <2>1, <2>2 DEF Invitee, Entry
<1>4. CASE NotJoinedYet(i)
  <2>1. guests' = [guests EXCEPT ![i] = row] /\ checkIns' = Append(checkIns, entry)
    BY <1>4 DEF AdmitListed
  <2>2. guests' \in Seq(Invitee) /\ Len(guests') = Len(guests) /\ checkIns' \in Seq(Entry)
    BY <1>1, <1>2, <1>3, <2>1, ExceptSeq, AppendProperties
  <2>3. TypeOK'
    BY <1>2, <2>2 DEF TypeInv, TypeOK, AdmitListed
  <2> QED BY <1>1, <1>2, <2>2, <2>3, DoneOps, StillFits DEF TypeInv, AdmitListed
<1>5. CASE ~NotJoinedYet(i)
  <2>1. UNCHANGED <<guests, checkIns, token>> BY <1>5 DEF AdmitListed
  <2>2. TypeOK' BY <2>1 DEF TypeInv, TypeOK, AdmitListed
  <2> QED BY <1>1, <1>2, <2>1, <2>2, DoneOps, StillFits DEF TypeInv, AdmitListed
<1> QED BY <1>4, <1>5

LEMMA AdmitOpenType ==
  ASSUME TypeInv, NEW q \in Scanner, AdmitOpen(q) PROVE TypeInv'
<1>1. q \in Proc /\ op[q] \in AdmitOp
  BY DEF AdmitOpen, Proc, TypeInv, OpsOK, OpType, ModeOp, AddOp, Idle
<1>2. [who |-> op[q].who, inv |-> 0] \in Entry
  BY <1>1, InviteConstantsOK DEF Entry, AdmitOp
<1>3. checkIns' \in Seq(Entry)
  BY <1>2, AppendProperties DEF AdmitOpen, TypeInv, TypeOK
<1>4. TypeOK' /\ Len(guests) \in Nat
  BY <1>3, LenProperties DEF AdmitOpen, TypeInv, TypeOK
<1> QED BY <1>1, <1>4, DoneOps, StillFits DEF TypeInv, AdmitOpen

LEMMA OpenReadType ==
  ASSUME TypeInv, NEW q \in Host, NEW m \in InviteMode, OpenRead(q, m) PROVE TypeInv'
<1> DEFINE o == [do |-> "mode", mode |-> m, make |-> MadeNow(m)]
<1>1. o \in OpType /\ Fits(o)
  BY DEF OpType, ModeOp, Fits, MadeNow
<1>2. TypeOK'
  BY DEF OpenRead, TypeInv, TypeOK
<1> QED BY <1>1, <1>2, PutOp DEF OpenRead, TypeInv, Proc

LEMMA OpenWriteType ==
  ASSUME TypeInv, NEW q \in Host, OpenWrite(q) PROVE TypeInv'
<1>1. q \in Proc /\ op[q] \in ModeOp /\ Fits(op[q])
  BY DEF OpenWrite, Proc, TypeInv, OpsOK, OpType, AdmitOp, AddOp, Idle
<1>2. op[q].mode \in InviteMode /\ op[q].make \in BOOLEAN /\ (op[q].make \/ token # 0)
  BY <1>1 DEF ModeOp, Fits
<1>3. TypeOK' /\ token' # 0
  BY <1>2, InviteConstantsOK DEF OpenWrite, TypeInv, TypeOK
<1>4. Len(guests) \in Nat
  BY LenProperties DEF TypeInv, TypeOK
<1> QED BY <1>1, <1>3, <1>4, DoneOps, StillFits DEF TypeInv, OpenWrite

LEMMA AddReadType ==
  ASSUME TypeInv, NEW q \in Host, NEW w \in Invitable, AddRead(q, w) PROVE TypeInv'
<1> DEFINE o == [do |-> "add", add |-> {w}]
<1>1. o \in OpType /\ Fits(o)
  BY FS_Singleton, GuestsTyped DEF OpType, AddOp, Fits
<1>2. TypeOK'
  BY DEF AddRead, TypeInv, TypeOK
<1> QED BY <1>1, <1>2, PutOp DEF AddRead, TypeInv, Proc

LEMMA BulkReadType ==
  ASSUME TypeInv, NEW q \in Host, NEW people \in SUBSET Accounts, BulkRead(q, people) PROVE TypeInv'
<1>1. PICK add \in SUBSET BulkNew(people) : op' = [op EXCEPT ![q] = [do |-> "add", add |-> add]]
  BY DEF BulkRead
<1>2. add \subseteq Guest
  BY NewAreAccounts
<1>3. IsFiniteSet(add)
  BY NewAreAccounts, FS_Subset
<1>4. [do |-> "add", add |-> add] \in OpType /\ Fits([do |-> "add", add |-> add])
  BY <1>2, <1>3 DEF OpType, AddOp, Fits
<1>5. TypeOK'
  BY DEF BulkRead, TypeInv, TypeOK
<1> QED BY <1>1, <1>4, <1>5, PutOp DEF BulkRead, TypeInv, Proc

\* The rows that AddWrite puts behind those there are.
LEMMA Added ==
  ASSUME TypeInv, NEW q \in Host, AddWrite(q)
  PROVE  \E n \in Nat : \E s \in [1..n -> op[q].add] :
           /\ op[q] \in AddOp /\ n = Cardinality(op[q].add)
           /\ \A j, k \in 1..n : s[j] = s[k] => j = k
           /\ guests' \in Seq(Invitee) /\ Len(guests') = Len(guests) + n
           /\ \A i \in 1..Len(guests) : guests'[i] = guests[i]
           /\ \A k \in 1..n : guests'[Len(guests) + k] = [who |-> s[k], revoked |-> FALSE, joined |-> FALSE]
<1>1. op[q] \in AddOp /\ IsFiniteSet(op[q].add)
  BY DEF AddWrite, Proc, TypeInv, OpsOK, OpType, AdmitOp, ModeOp, Idle, Fits
<1> DEFINE n == Cardinality(op[q].add)
<1>2. n \in Nat
  BY <1>1, FS_CardinalityType
<1>3. PICK s \in {f \in [1..n -> op[q].add] : \A j, k \in 1..n : f[j] = f[k] => j = k} :
        guests' = guests \o [k \in 1..n |-> [who |-> s[k], revoked |-> FALSE, joined |-> FALSE]]
  BY DEF AddWrite
<1> HIDE DEF n
<1> DEFINE t == [k \in 1..n |-> [who |-> s[k], revoked |-> FALSE, joined |-> FALSE]]
<1>4. t \in Seq(Invitee) /\ Len(t) = n
  BY <1>1, <1>2, <1>3 DEF Invitee, AddOp
<1>5. guests \in Seq(Invitee) /\ Len(guests) \in Nat
  BY LenProperties DEF TypeInv, TypeOK
<1>6. \A k \in 1..n : t[k] = [who |-> s[k], revoked |-> FALSE, joined |-> FALSE]
  OBVIOUS
<1>7. guests' = guests \o t
  BY <1>3
<1> HIDE DEF t
<1>8. /\ guests' \in Seq(Invitee) /\ Len(guests') = Len(guests) + n
      /\ \A i \in 1 .. Len(guests) + n : guests'[i] = IF i <= Len(guests) THEN guests[i] ELSE t[i - Len(guests)]
  BY <1>4, <1>5, <1>7, ConcatProperties
<1>9. \A i \in 1..Len(guests) : guests'[i] = guests[i]
  BY <1>2, <1>5, <1>8
<1>10. ASSUME NEW k \in 1..n PROVE guests'[Len(guests) + k] = t[k]
  <2>1. Len(guests) + k \in 1 .. Len(guests) + n /\ ~(Len(guests) + k <= Len(guests))
        /\ (Len(guests) + k) - Len(guests) = k
    BY <1>2, <1>5
  <2> QED BY <1>8, <2>1
<1>11. \A k \in 1..n : guests'[Len(guests) + k] = [who |-> s[k], revoked |-> FALSE, joined |-> FALSE]
  BY <1>6, <1>10
<1>12. n = Cardinality(op[q].add)
  BY DEF n
<1>13. s \in [1..n -> op[q].add] /\ \A j, k \in 1..n : s[j] = s[k] => j = k
  BY <1>3
<1>14. Len(guests') = Len(guests) + n /\ guests' \in Seq(Invitee)
  BY <1>8
<1> QED BY <1>1, <1>2, <1>9, <1>11, <1>12, <1>13, <1>14

LEMMA AddWriteType ==
  ASSUME TypeInv, NEW q \in Host, AddWrite(q) PROVE TypeInv'
<1>1. PICK n \in Nat : guests' \in Seq(Invitee) /\ Len(guests') = Len(guests) + n
                       /\ n = Cardinality(op[q].add)
  BY Added
<1>2. Len(guests) \in Nat
  BY LenProperties DEF TypeInv, TypeOK
<1>3. TypeOK'
  BY <1>1, <1>2 DEF AddWrite, TypeInv, TypeOK
<1>4. OpsOK'
  BY <1>1, <1>2, DoneOps, StillFits DEF AddWrite, TypeInv, Proc
<1> QED BY <1>3, <1>4 DEF TypeInv

LEMMA Removed ==
  ASSUME TypeInv, NEW gone \in SUBSET Listed, Remove(gone)
  PROVE  /\ guests' \in Seq(Invitee) /\ Len(guests') = Len(guests) /\ Len(guests) \in Nat
         /\ \A i \in Listed : guests'[i] = [guests[i] EXCEPT !.revoked = @ \/ i \in gone]
<1>1. guests' = [i \in 1..Len(guests) |-> [guests[i] EXCEPT !.revoked = @ \/ i \in gone]]
      /\ Listed = 1..Len(guests) /\ Len(guests) \in Nat
  BY LenProperties DEF Remove, Listed, TypeInv, TypeOK
<1>2. \A i \in 1..Len(guests) : [guests[i] EXCEPT !.revoked = @ \/ i \in gone] \in Invitee
  BY <1>1, GuestRow DEF Invitee
<1> QED BY <1>1, <1>2

LEMMA RemoveType ==
  ASSUME TypeInv, NEW gone \in SUBSET Listed, Remove(gone) PROVE TypeInv'
<1>1. TypeOK'
  BY Removed DEF Remove, TypeInv, TypeOK
<1>2. OpsOK'
  <2>1. op' = op /\ op' \in [Proc -> OpType] /\ token' = token
    BY DEF Remove, TypeInv, OpsOK
  <2>2. Len(guests)' = Len(guests) /\ Len(guests) \in Nat
    BY Removed
  <2> QED BY <2>1, <2>2, StillFits DEF TypeInv
<1> QED BY <1>1, <1>2 DEF TypeInv

LEMMA OtherType ==
  ASSUME TypeInv, CloseInvites \/ BookingMoves \/ UNCHANGED vars PROVE TypeInv'
<1>1. TypeOK'
  BY DEF CloseInvites, BookingMoves, Time, vars, TypeInv, TypeOK, InviteMode
<1>2. UNCHANGED <<op, guests, token>>
  BY DEF CloseInvites, BookingMoves, vars
<1>3. OpsOK'
  BY <1>2 DEF TypeInv, OpsOK, Fits
<1> QED BY <1>1, <1>3 DEF TypeInv

LEMMA NextType == ASSUME TypeInv, [Next]_vars PROVE TypeInv'
<1>1. CASE \E q \in Scanner : ScannerStep(q)
  BY <1>1, ScanType, AdmitListedType, AdmitOpenType DEF ScannerStep
<1>2. CASE \E q \in Host : HostStep(q)
  BY <1>2, OpenReadType, OpenWriteType, AddReadType, BulkReadType, AddWriteType DEF HostStep
<1>3. CASE \E gone \in SUBSET Listed : Remove(gone)
  BY <1>3, RemoveType
<1>4. CASE CloseInvites \/ BookingMoves \/ UNCHANGED vars
  BY <1>4, OtherType
<1> QED BY <1>1, <1>2, <1>3, <1>4 DEF Next

\* The booking, its guests and check-ins stay within their schema, and invitations are
\* open only with a door code (setMode, join, addInvitee).
THEOREM InvitesTypeCorrect == Spec => []TypeOK
<1>1. Init => TypeInv BY InitType
<1>2. TypeInv /\ [Next]_vars => TypeInv' BY NextType
<1>3. TypeInv => TypeOK BY DEF TypeInv
<1> QED BY <1>1, <1>2, <1>3, PTL DEF Spec

(***************************************************************************)
(* A guest of the list is admitted once.                                   *)
(***************************************************************************)
EntriesKnown == \A k \in DOMAIN checkIns : checkIns[k].inv \in 0..Len(guests)
OnceInv == AdmittedOnce /\ EntriesKnown

\* The check-ins and the flags of the guests change as AdmitListed and AdmitOpen write them.
LEMMA Appended ==
  ASSUME TypeInv, NEW e \in Entry, checkIns' = Append(checkIns, e)
  PROVE  /\ Len(checkIns) \in Nat /\ DOMAIN checkIns = 1..Len(checkIns)
         /\ DOMAIN checkIns' = 1..(Len(checkIns) + 1)
         /\ \A k \in 1..Len(checkIns) : checkIns'[k] = checkIns[k]
         /\ checkIns'[Len(checkIns) + 1] = e
<1>1. checkIns \in Seq(Entry) BY DEF TypeInv, TypeOK
<1> QED BY <1>1, AppendProperties, LenProperties

LEMMA AdmittingOp ==
  ASSUME TypeInv, NEW q \in Scanner, op[q].do = "admit"
  PROVE  /\ op[q].who \in Guest /\ op[q].inv \in 0..Len(guests)
         /\ [who |-> op[q].who, inv |-> op[q].inv] \in Entry
<1>1. op[q] \in AdmitOp /\ Fits(op[q])
  BY DEF Proc, TypeInv, OpsOK, OpType, ModeOp, AddOp, Idle
<1>2. Len(guests) \in 0..MaxGuests
  BY LenProperties, InviteConstantsOK DEF TypeInv, TypeOK
<1> QED BY <1>1, <1>2, InviteConstantsOK DEF AdmitOp, Fits, Entry

LEMMA ListedAre ==
  ASSUME TypeInv PROVE Listed = 1..Len(guests) /\ Len(guests) \in Nat
BY LenProperties DEF TypeInv, TypeOK, Listed

\* What an admission of a guest on the list writes.
LEMMA ListedAdmitted ==
  ASSUME TypeInv, NEW q \in Scanner, AdmitListed(q), NotJoinedYet(op[q].inv)
  PROVE  /\ op[q].inv \in Listed
         /\ Listed' = Listed /\ Len(guests') = Len(guests)
         /\ \A i \in Listed : guests'[i] = [guests[i] EXCEPT !.joined = @ \/ i = op[q].inv]
         /\ checkIns' = Append(checkIns, [who |-> op[q].who, inv |-> op[q].inv])
<1> DEFINE i == op[q].inv
           row == [guests[i] EXCEPT !.joined = TRUE]
<1>1. i \in Listed
  BY AdmittingOp, ListedAre DEF AdmitListed
<1>2. guests' = [guests EXCEPT ![i] = row]
  BY DEF AdmitListed
<1>3. row \in Invitee /\ \A j \in Listed : guests[j] \in Invitee
  BY <1>1, GuestRow DEF Invitee
<1>4. guests \in Seq(Invitee)
  BY DEF TypeInv, TypeOK
<1>5. Len(guests') = Len(guests) /\ Listed' = Listed
  <2>1. guests' \in Seq(Invitee) /\ Len(guests') = Len(guests)
    BY <1>1, <1>2, <1>3, <1>4, ListedAre, ExceptSeq
  <2> QED BY <2>1, ListedAre, LenProperties DEF Listed
<1>6. ASSUME NEW j \in Listed PROVE guests'[j] = [guests[j] EXCEPT !.joined = @ \/ j = i]
  <2>1. guests'[j] = IF j = i THEN row ELSE guests[j]
    BY <1>1, <1>2 DEF Listed
  <2>2. guests[j] = [guests[j] EXCEPT !.joined = @] /\ guests[j].joined \in BOOLEAN
    BY <1>3 DEF Invitee
  <2>3. CASE j = i BY <2>1, <2>2, <2>3
  <2>4. CASE j # i BY <2>1, <2>2, <2>4
  <2> QED BY <2>3, <2>4
<1> QED BY <1>1, <1>5, <1>6 DEF AdmitListed

LEMMA OnceAdmitListed ==
  ASSUME TypeInv, OnceInv, NEW q \in Scanner, AdmitListed(q) PROVE OnceInv'
<1> DEFINE i == op[q].inv
           e == [who |-> op[q].who, inv |-> i]
           n == Len(checkIns)
<1>1. CASE ~NotJoinedYet(i)
  BY <1>1 DEF AdmitListed, OnceInv, AdmittedOnce, EntriesKnown, Listed
<1>2. CASE NotJoinedYet(i)
  <2>1. i \in Listed /\ Listed' = Listed /\ Len(guests') = Len(guests) /\ i # 0 /\ e \in Entry
        /\ \A j \in Listed : guests'[j].joined = (guests[j].joined \/ j = i)
    <3>1. i \in Listed /\ Listed' = Listed /\ Len(guests') = Len(guests)
          /\ \A j \in Listed : guests'[j] = [guests[j] EXCEPT !.joined = @ \/ j = i]
      BY <1>2, ListedAdmitted
    <3>2. i # 0 /\ e \in Entry
      BY AdmittingOp DEF AdmitListed
    <3>3. \A j \in Listed : guests[j] \in Invitee
      BY GuestRow
    <3>4. \A j \in Listed : guests'[j].joined = (guests[j].joined \/ j = i)
      BY <3>1, <3>3 DEF Invitee
    <3> QED BY <3>1, <3>2, <3>4
  <2>2. /\ n \in Nat /\ DOMAIN checkIns = 1..n /\ DOMAIN checkIns' = 1..(n + 1)
        /\ \A k \in 1..n : checkIns'[k] = checkIns[k]
        /\ checkIns'[n + 1] = e
    BY <1>2, <2>1, ListedAdmitted, Appended
  <2>3. \A k \in 1..n : checkIns[k].inv # i
    BY <1>2, <2>1, <2>2 DEF OnceInv, AdmittedOnce, NotJoinedYet
  <2>4. \A k \in 1..(n + 1) : (k \in 1..n /\ checkIns'[k] = checkIns[k]) \/ (k = n + 1 /\ checkIns'[k].inv = i)
    BY <2>2
  <2>5. \A j, k \in 1..(n + 1) : checkIns'[j].inv = checkIns'[k].inv /\ checkIns'[j].inv # 0 => j = k
    BY <2>2, <2>3, <2>4 DEF OnceInv, AdmittedOnce
  <2>6. \A j \in Listed : guests'[j].joined <=> \E k \in 1..(n + 1) : checkIns'[k].inv = j
    <3> TAKE j \in Listed
    <3>1. guests[j].joined <=> \E k \in 1..n : checkIns[k].inv = j
      BY <2>2 DEF OnceInv, AdmittedOnce
    <3>2. (\E k \in 1..(n + 1) : checkIns'[k].inv = j) <=> (\E k \in 1..n : checkIns[k].inv = j) \/ j = i
      BY <2>2, <2>4
    <3> QED BY <2>1, <3>1, <3>2
  <2>7. \A k \in 1..(n + 1) : checkIns'[k].inv \in 0..Len(guests')
    BY <2>1, <2>2, <2>4, ListedAre DEF OnceInv, EntriesKnown
  <2> QED BY <2>1, <2>2, <2>5, <2>6, <2>7 DEF OnceInv, AdmittedOnce, EntriesKnown
<1> QED BY <1>1, <1>2

LEMMA OnceAdmitOpen ==
  ASSUME TypeInv, OnceInv, NEW q \in Scanner, AdmitOpen(q) PROVE OnceInv'
<1> DEFINE e == [who |-> op[q].who, inv |-> 0]
           n == Len(checkIns)
<1>1. e \in Entry /\ checkIns' = Append(checkIns, e) /\ guests' = guests
  BY AdmittingOp DEF AdmitOpen
<1>2. /\ n \in Nat /\ DOMAIN checkIns = 1..n /\ DOMAIN checkIns' = 1..(n + 1)
      /\ \A k \in 1..n : checkIns'[k] = checkIns[k]
      /\ checkIns'[n + 1].inv = 0
  BY <1>1, Appended
<1>3. \A k \in 1..(n + 1) : (k \in 1..n /\ checkIns'[k] = checkIns[k]) \/ (k = n + 1 /\ checkIns'[k].inv = 0)
  BY <1>2
<1>4. \A j, k \in 1..(n + 1) : checkIns'[j].inv = checkIns'[k].inv /\ checkIns'[j].inv # 0 => j = k
  BY <1>2, <1>3 DEF OnceInv, AdmittedOnce
<1>5. \A j \in Listed : guests'[j].joined <=> \E k \in 1..(n + 1) : checkIns'[k].inv = j
  <2> TAKE j \in Listed
  <2>1. guests[j].joined <=> \E k \in 1..n : checkIns[k].inv = j
    BY <1>2 DEF OnceInv, AdmittedOnce
  <2>2. j # 0 BY ListedAre
  <2>3. (\E k \in 1..(n + 1) : checkIns'[k].inv = j) <=> (\E k \in 1..n : checkIns[k].inv = j)
    BY <1>2, <1>3, <2>2
  <2> QED BY <1>1, <2>1, <2>3
<1>6. \A k \in 1..(n + 1) : checkIns'[k].inv \in 0..Len(guests')
  BY <1>1, <1>2, <1>3, ListedAre DEF OnceInv, EntriesKnown
<1> QED BY <1>1, <1>2, <1>4, <1>5, <1>6 DEF OnceInv, AdmittedOnce, EntriesKnown, Listed

LEMMA OnceAddWrite ==
  ASSUME TypeInv, OnceInv, NEW q \in Host, AddWrite(q) PROVE OnceInv'
<1>1. PICK n \in Nat : /\ guests' \in Seq(Invitee) /\ Len(guests') = Len(guests) + n
                       /\ \A i \in 1..Len(guests) : guests'[i] = guests[i]
                       /\ \A k \in 1..n : guests'[Len(guests) + k].joined = FALSE
  <2>0. PICK n \in Nat : \E s \in [1..n -> op[q].add] :
          /\ guests' \in Seq(Invitee) /\ Len(guests') = Len(guests) + n
          /\ \A i \in 1..Len(guests) : guests'[i] = guests[i]
          /\ \A k \in 1..n : guests'[Len(guests) + k] = [who |-> s[k], revoked |-> FALSE, joined |-> FALSE]
    BY Added
  <2>1. PICK s \in [1..n -> op[q].add] :
          /\ guests' \in Seq(Invitee) /\ Len(guests') = Len(guests) + n
          /\ \A i \in 1..Len(guests) : guests'[i] = guests[i]
          /\ \A k \in 1..n : guests'[Len(guests) + k] = [who |-> s[k], revoked |-> FALSE, joined |-> FALSE]
    BY <2>0
  <2>2. ASSUME NEW k \in 1..n PROVE guests'[Len(guests) + k].joined = FALSE
    <3> DEFINE g == guests'[Len(guests) + k]
    <3>1. g = [who |-> s[k], revoked |-> FALSE, joined |-> FALSE]
      BY <2>1
    <3> HIDE DEF g
    <3>2. g.joined = FALSE
      BY <3>1
    <3> QED BY <3>2 DEF g
  <2> QED BY <2>1, <2>2
<1>2. checkIns' = checkIns BY DEF AddWrite
<1>3. Listed = 1..Len(guests) /\ Len(guests) \in Nat /\ Listed' = 1..(Len(guests) + n)
  BY <1>1, ListedAre, LenProperties DEF Listed
<1>4. EntriesKnown'
  BY <1>1, <1>2, <1>3 DEF OnceInv, EntriesKnown
<1>5. ASSUME NEW i \in Listed'
      PROVE  guests'[i].joined <=> \E k \in DOMAIN checkIns : checkIns[k].inv = i
  <2>1. CASE i \in Listed
    BY <1>1, <1>3, <2>1 DEF OnceInv, AdmittedOnce
  <2>2. CASE i \notin Listed
    <3>1. i - Len(guests) \in 1..n /\ i = Len(guests) + (i - Len(guests))
      BY <1>3, <2>2
    <3>2. guests'[i].joined = FALSE
      BY <1>1, <3>1
    <3> QED BY <1>3, <2>2, <3>2 DEF OnceInv, EntriesKnown
  <2> QED BY <2>1, <2>2
<1> QED BY <1>2, <1>4, <1>5 DEF OnceInv, AdmittedOnce

LEMMA OnceRemove ==
  ASSUME TypeInv, OnceInv, NEW gone \in SUBSET Listed, Remove(gone) PROVE OnceInv'
<1>1. checkIns' = checkIns /\ Len(guests') = Len(guests) /\ Listed' = Listed
      /\ \A i \in Listed : guests'[i].joined = guests[i].joined
  <2>1. guests' \in Seq(Invitee) /\ Len(guests') = Len(guests)
        /\ \A i \in Listed : guests'[i] = [guests[i] EXCEPT !.revoked = @ \/ i \in gone]
    BY Removed
  <2>2. \A i \in Listed : guests[i] \in Invitee BY GuestRow
  <2> QED BY <2>1, <2>2, ListedAre, LenProperties DEF Remove, Listed, Invitee
<1> QED BY <1>1 DEF OnceInv, AdmittedOnce, EntriesKnown

\* The steps that change neither the list nor the check-ins.
Quiet == \/ \E q \in Scanner, w \in Visitor : Scan(q, w)
         \/ \E q \in Host, m \in InviteMode : OpenRead(q, m)
         \/ \E q \in Host : OpenWrite(q)
         \/ \E q \in Host, w \in Invitable : AddRead(q, w)
         \/ \E q \in Host, people \in SUBSET Accounts : BulkRead(q, people)
         \/ CloseInvites \/ BookingMoves \/ UNCHANGED vars

LEMMA QuietKeeps == ASSUME Quiet PROVE UNCHANGED <<guests, checkIns>>
BY DEF Quiet, Scan, OpenRead, OpenWrite, AddRead, BulkRead, CloseInvites, BookingMoves, vars

LEMMA Steps ==
  ASSUME [Next]_vars
  PROVE  \/ Quiet
         \/ \E q \in Scanner : AdmitListed(q) \/ AdmitOpen(q)
         \/ \E q \in Host : AddWrite(q)
         \/ \E gone \in SUBSET Listed : Remove(gone)
BY DEF Next, ScannerStep, HostStep, Quiet

LEMMA NextOnce == ASSUME TypeInv, OnceInv, [Next]_vars PROVE OnceInv'
<1>1. CASE Quiet
  BY <1>1, QuietKeeps DEF OnceInv, AdmittedOnce, EntriesKnown, Listed
<1> QED BY <1>1, Steps, OnceAdmitListed, OnceAdmitOpen, OnceAddWrite, OnceRemove

\* However many scans run at once, a guest of the list is admitted at most once, and
\* joinedAt says who was (the conditional update in join).
THEOREM AdmittedOnceSafe == Spec => []AdmittedOnce
<1>1. Init => TypeInv /\ OnceInv
  <2>1. Init => OnceInv
    BY DEF Init, OnceInv, AdmittedOnce, EntriesKnown, Listed
  <2> QED BY <2>1, InitType
<1>2. TypeInv /\ OnceInv /\ [Next]_vars => TypeInv' /\ OnceInv' BY NextType, NextOnce
<1>3. OnceInv => AdmittedOnce BY DEF OnceInv
<1> QED BY <1>1, <1>2, <1>3, PTL DEF Spec

(***************************************************************************)
(* A removed guest stays out.                                              *)
(***************************************************************************)
NotAdmitting(i) == \A q \in Scanner : ~Admitting(q, i)

StaysOut(i) == guests[i].revoked /\ NotAdmitting(i)
                 => guests'[i].joined = guests[i].joined /\ NotAdmitting(i)'

LEMMA ScanStaysOut ==
  ASSUME TypeInv, NEW q \in Scanner, NEW w \in Visitor, Scan(q, w), NEW i \in Listed PROVE StaysOut(i)
<1> SUFFICES ASSUME guests[i].revoked, NotAdmitting(i)
             PROVE  guests'[i].joined = guests[i].joined /\ NotAdmitting(i)'
  BY DEF StaysOut
<1>1. PICK o \in {DoorScan(w) : k \in {token} \ {0}} \cup {PassScan(j, w) : j \in Listed} :
        op' = [op EXCEPT ![q] = o]
  BY DEF Scan
<1>2. o.do = "admit" => o.inv # i
  <2>1. i \notin Active /\ i # 0
    BY ListedAre DEF Active
  <2>2. \/ o = Idle \/ o = Admit(w, 0) \/ \E j \in Active : o = Admit(guests[j].who, j)
    BY <1>1, ScanLeadsTo
  <2> QED BY <2>1, <2>2 DEF Idle, Admit
<1>3. \A r \in Scanner : ~(op'[r].do = "admit" /\ op'[r].inv = i)
  BY <1>1, <1>2 DEF NotAdmitting, Admitting, TypeInv, OpsOK, Proc
<1>4. guests' = guests
  BY DEF Scan
<1> QED BY <1>3, <1>4 DEF NotAdmitting, Admitting

\* A process is done, or a host request begins: no scan begins.
LEMMA NoScanBegins ==
  ASSUME TypeInv, NEW i, NotAdmitting(i), \A r \in Scanner : op'[r] = op[r] \/ op'[r].do # "admit"
  PROVE  NotAdmitting(i)'
BY DEF NotAdmitting, Admitting

LEMMA HostOps ==
  ASSUME TypeInv, NEW q \in Host,
         \/ \E m \in InviteMode : OpenRead(q, m)
         \/ OpenWrite(q)
         \/ \E w \in Invitable : AddRead(q, w)
         \/ \E people \in SUBSET Accounts : BulkRead(q, people)
         \/ AddWrite(q)
  PROVE  \A r \in Scanner : op'[r] = op[r]
<1>1. \A r \in Scanner : r # q BY InviteConstantsOK
<1> QED BY <1>1 DEF OpenRead, OpenWrite, AddRead, BulkRead, AddWrite, Done, TypeInv, OpsOK, Proc

LEMMA AdmitStaysOut ==
  ASSUME TypeInv, NEW q \in Scanner, AdmitListed(q) \/ AdmitOpen(q), NEW i \in Listed PROVE StaysOut(i)
<1> SUFFICES ASSUME guests[i].revoked, NotAdmitting(i)
             PROVE  guests'[i].joined = guests[i].joined /\ NotAdmitting(i)'
  BY DEF StaysOut
<1>1. \A r \in Scanner : op'[r] = op[r] \/ op'[r].do # "admit"
  BY DEF AdmitListed, AdmitOpen, Done, Idle, TypeInv, OpsOK, Proc
<1>2. NotAdmitting(i)' BY <1>1, NoScanBegins
<1>3. guests'[i].joined = guests[i].joined
  <2>1. CASE AdmitListed(q) /\ NotJoinedYet(op[q].inv)
    <3>1. op[q].inv # i BY <2>1 DEF AdmitListed, NotAdmitting, Admitting
    <3>2. guests'[i] = [guests[i] EXCEPT !.joined = @ \/ i = op[q].inv] /\ guests[i] \in Invitee
      BY <2>1, ListedAdmitted, GuestRow
    <3> QED BY <3>1, <3>2 DEF Invitee
  <2>2. CASE ~(AdmitListed(q) /\ NotJoinedYet(op[q].inv))
    BY <2>2 DEF AdmitListed, AdmitOpen
  <2> QED BY <2>1, <2>2
<1> QED BY <1>2, <1>3

LEMMA OtherStaysOut ==
  ASSUME TypeInv, NEW i \in Listed,
         \/ \E q \in Host : HostStep(q)
         \/ CloseInvites \/ BookingMoves \/ UNCHANGED vars
         \/ \E gone \in SUBSET Listed : Remove(gone)
  PROVE  StaysOut(i)
<1> SUFFICES ASSUME guests[i].revoked, NotAdmitting(i)
             PROVE  guests'[i].joined = guests[i].joined /\ NotAdmitting(i)'
  BY DEF StaysOut
<1>1. \A r \in Scanner : op'[r] = op[r]
  BY HostOps DEF HostStep, CloseInvites, BookingMoves, Remove, vars
<1>2. NotAdmitting(i)' BY <1>1, NoScanBegins
<1>3. guests'[i].joined = guests[i].joined
  <2>1. CASE \E q \in Host : AddWrite(q)
    <3>1. guests'[i] = guests[i] BY <2>1, Added, ListedAre
    <3> QED BY <3>1
  <2>2. CASE \E gone \in SUBSET Listed : Remove(gone)
    <3>1. PICK gone \in SUBSET Listed : guests'[i] = [guests[i] EXCEPT !.revoked = @ \/ i \in gone]
      BY <2>2, Removed
    <3> QED BY <3>1, GuestRow DEF Invitee
  <2>3. CASE Quiet BY <2>3, QuietKeeps
  <2> QED BY <2>1, <2>2, <2>3 DEF HostStep, Quiet
<1> QED BY <1>2, <1>3

\* Once a guest is removed and no scan that read the list before is under way, no scan
\* admits the guest again (removeInvitee, join).
THEOREM RemovedStaysOut == Spec => RemovedGuestStaysOut
<1>1. ASSUME TypeInv, [Next]_vars, NEW i \in Listed PROVE StaysOut(i)
  <2>1. CASE \E q \in Scanner : ScannerStep(q)
    BY <1>1, <2>1, ScanStaysOut, AdmitStaysOut DEF ScannerStep
  <2> QED BY <1>1, <2>1, OtherStaysOut DEF Next
<1>2. TypeInv /\ [Next]_vars =>
        [\A i \in Listed : guests[i].revoked /\ (\A q \in Scanner : ~Admitting(q, i))
           => guests'[i].joined = guests[i].joined /\ \A q \in Scanner : ~Admitting(q, i)']_vars
  BY <1>1 DEF StaysOut, NotAdmitting
<1>3. TypeInv /\ [Next]_vars => TypeInv' BY NextType
<1>4. Init => TypeInv BY InitType
<1> QED BY <1>2, <1>3, <1>4, PTL DEF Spec, RemovedGuestStaysOut

(***************************************************************************)
(* A public meeting: visitors let in and visitors whom a scan is about to  *)
(* let in are never more than the room holds and the scans there can be.   *)
(***************************************************************************)
First == {k \in DOMAIN checkIns : FirstEntry(k)}
Pending == {q \in Scanner : op[q].do = "admit" /\ op[q].inv = 0 /\ ~Admitted(op[q].who)}
RoomInv == Cardinality(First) + Cardinality(Pending) <= MaxAdmitted + Cardinality(Scanner) - 1

LEMMA Sizes ==
  ASSUME TypeInv
  PROVE  /\ IsFiniteSet(First) /\ Cardinality(First) \in Nat
         /\ Cardinality(First) <= Len(checkIns) /\ Len(checkIns) \in Nat
         /\ IsFiniteSet(Pending) /\ Cardinality(Pending) \in Nat
         /\ Cardinality(Pending) <= Cardinality(Scanner)
         /\ Cardinality(Scanner) \in Nat \ {0} /\ MaxAdmitted \in Nat
<1>1. DOMAIN checkIns = 1..Len(checkIns) /\ Len(checkIns) \in Nat
  BY LenProperties DEF TypeInv, TypeOK
<1>2. IsFiniteSet(1..Len(checkIns)) /\ Cardinality(1..Len(checkIns)) = Len(checkIns)
  <2>1. /\ IsFiniteSet(1..Len(checkIns))
        /\ Cardinality(1..Len(checkIns)) = IF 1 > Len(checkIns) THEN 0 ELSE Len(checkIns) - 1 + 1
    BY <1>1, FS_Interval
  <2> QED BY <1>1, <2>1
<1>3. First \subseteq 1..Len(checkIns)
  BY <1>1 DEF First
<1>4. IsFiniteSet(First) /\ Cardinality(First) <= Len(checkIns) /\ Cardinality(First) \in Nat
  BY <1>2, <1>3, FS_Subset, FS_CardinalityType
<1>5. Pending \subseteq Scanner /\ IsFiniteSet(Scanner) /\ Scanner # {}
  BY InviteConstantsOK DEF Pending
<1>6. IsFiniteSet(Pending) /\ Cardinality(Pending) <= Cardinality(Scanner) /\ Cardinality(Pending) \in Nat
  BY <1>5, FS_Subset, FS_CardinalityType
<1>7. Cardinality(Scanner) \in Nat \ {0}
  BY <1>5, FS_CardinalityType, FS_EmptySet
<1> QED BY <1>1, <1>4, <1>6, <1>7, InviteConstantsOK

\* The check-ins stay, and no scan off the list begins.
LEMMA RoomShrinks ==
  ASSUME TypeInv, RoomInv, First' = First, Pending' \subseteq Pending
  PROVE  RoomInv'
<1>1. Cardinality(Pending') <= Cardinality(Pending)
  BY Sizes, FS_Subset
<1>2. Cardinality(Pending)' = Cardinality(Pending') /\ Cardinality(First)' = Cardinality(First')
  OBVIOUS
<1>3. Cardinality(Pending') \in Nat
  BY Sizes, FS_Subset, FS_CardinalityType
<1> QED BY <1>1, <1>2, <1>3, Sizes DEF RoomInv

\* The entries of check-ins that are appended to are first entries as before.
LEMMA EntriesStay ==
  ASSUME TypeInv, NEW e \in Entry, checkIns' = Append(checkIns, e), NEW n \in Nat, n = Len(checkIns)
  PROVE  /\ First' = IF e.inv = 0 /\ ~Admitted(e.who) THEN First \cup {n + 1} ELSE First
         /\ n + 1 \notin First
         /\ \A w : Admitted(w) => Admitted(w)'
<1>1. /\ DOMAIN checkIns = 1..n /\ DOMAIN checkIns' = 1..(n + 1)
      /\ \A k \in 1..n : checkIns'[k] = checkIns[k]
      /\ checkIns'[n + 1] = e
  BY Appended
<1>2. ASSUME NEW k \in 1..n PROVE FirstEntry(k)' <=> FirstEntry(k)
  <2>1. \A j \in 1..(k - 1) : j \in 1..n
    OBVIOUS
  <2> QED BY <1>1, <2>1 DEF FirstEntry
<1>3. FirstEntry(n + 1)' <=> e.inv = 0 /\ ~Admitted(e.who)
  <2>1. 1..((n + 1) - 1) = 1..n
    OBVIOUS
  <2> QED BY <1>1, <2>1 DEF FirstEntry, Admitted
<1>4. \A w : Admitted(w) => Admitted(w)'
  BY <1>1 DEF Admitted
<1>5. n + 1 \notin First
  BY <1>1 DEF First
<1>6. ASSUME NEW k
      PROVE  k \in First' <=> k \in First \/ (k = n + 1 /\ e.inv = 0 /\ ~Admitted(e.who))
  <2>1. k \in First <=> k \in 1..n /\ FirstEntry(k)
    BY <1>1 DEF First
  <2>2. k \in First' <=> k \in 1..(n + 1) /\ FirstEntry(k)'
    BY <1>1 DEF First
  <2>3. k \in 1..(n + 1) <=> k \in 1..n \/ k = n + 1
    OBVIOUS
  <2>4. ~(n + 1 \in 1..n)
    OBVIOUS
  <2>5. CASE k = n + 1
    BY <1>3, <2>1, <2>2, <2>4, <2>5
  <2>6. CASE k # n + 1
    BY <1>2, <2>1, <2>2, <2>3, <2>6
  <2> QED BY <2>5, <2>6
<1> QED BY <1>4, <1>5, <1>6

LEMMA RoomScan ==
  ASSUME TypeInv, RoomInv, NEW q \in Scanner, NEW w \in Visitor, Scan(q, w) PROVE RoomInv'
<1>1. PICK o \in {DoorScan(w) : k \in {token} \ {0}} \cup {PassScan(i, w) : i \in Listed} :
        op' = [op EXCEPT ![q] = o]
  BY DEF Scan
<1>2. checkIns' = checkIns
  BY DEF Scan
<1>3. First' = First /\ \A v : Admitted(v)' = Admitted(v)
  BY <1>2 DEF First, FirstEntry, Admitted
<1>4. CASE Full
  <2>1. o.do = "admit" /\ o.inv = 0 => Admitted(o.who)
    <3>1. \A i \in Active : i # 0
      BY ListedAre DEF Active
    <3> QED BY <1>1, <1>4, <3>1, ScanLeadsTo DEF Admit, Idle
  <2>2. \A r \in Scanner : op'[r] = IF r = q THEN o ELSE op[r]
    BY <1>1 DEF TypeInv, OpsOK, Proc
  <2>3. Pending' \subseteq Pending
    BY <1>3, <2>1, <2>2 DEF Pending
  <2> QED BY <1>3, <2>3, RoomShrinks
<1>5. CASE ~Full
  <2>1. Len(checkIns) <= MaxAdmitted - 1
    BY <1>5, Sizes DEF Full
  <2>2. Cardinality(Pending)' <= Cardinality(Scanner) /\ Cardinality(Pending)' \in Nat
    <3>1. Pending' \subseteq Scanner /\ IsFiniteSet(Scanner)
      BY InviteConstantsOK DEF Pending
    <3>2. Cardinality(Pending') <= Cardinality(Scanner) /\ Cardinality(Pending') \in Nat
      BY <3>1, FS_Subset, FS_CardinalityType
    <3> QED BY <3>2
  <2>3. Cardinality(First)' = Cardinality(First)
    BY <1>3
  <2> QED BY <2>1, <2>2, <2>3, Sizes DEF RoomInv
<1> QED BY <1>4, <1>5

LEMMA RoomAdmit ==
  ASSUME TypeInv, RoomInv, NEW q \in Scanner, AdmitListed(q) \/ AdmitOpen(q) PROVE RoomInv'
<1>1. \A r \in Scanner : op'[r] = IF r = q THEN Idle ELSE op[r]
  BY DEF AdmitListed, AdmitOpen, Done, TypeInv, OpsOK, Proc
<1>2. PICK e \in Entry : e = [who |-> op[q].who, inv |-> op[q].inv]
  BY AdmittingOp DEF AdmitListed, AdmitOpen
<1>3. PICK n \in Nat : n = Len(checkIns)
  BY Sizes
<1>4. CASE checkIns' = checkIns
  <2>1. First' = First /\ \A v : Admitted(v)' = Admitted(v)
    BY <1>4 DEF First, FirstEntry, Admitted
  <2>2. Pending' \subseteq Pending
    BY <1>1, <2>1 DEF Pending, Idle
  <2> QED BY <2>1, <2>2, RoomShrinks
<1>5. CASE checkIns' = Append(checkIns, e)
  <2>1. op[q].do = "admit" /\ e.who = op[q].who /\ e.inv = op[q].inv
    BY <1>2 DEF AdmitListed, AdmitOpen
  <2>2. /\ First' = IF e.inv = 0 /\ ~Admitted(e.who) THEN First \cup {n + 1} ELSE First
        /\ n + 1 \notin First
        /\ \A w : Admitted(w) => Admitted(w)'
    BY <1>3, <1>5, EntriesStay
  <2>3. Pending' \subseteq Pending \ {q}
    BY <1>1, <2>2 DEF Pending, Idle
  <2>4. CASE e.inv = 0 /\ ~Admitted(e.who)
    <3>1. Cardinality(First') = Cardinality(First) + 1
      BY <2>2, <2>4, Sizes, FS_AddElement
    <3>2. q \in Pending
      BY <2>1, <2>4 DEF Pending
    <3>3. Cardinality(Pending \ {q}) = Cardinality(Pending) - 1 /\ IsFiniteSet(Pending \ {q})
      BY <3>2, Sizes, FS_RemoveElement
    <3>4. Cardinality(Pending') <= Cardinality(Pending) - 1 /\ Cardinality(Pending') \in Nat
      BY <2>3, <3>3, FS_Subset, FS_CardinalityType
    <3>5. Cardinality(First)' = Cardinality(First') /\ Cardinality(Pending)' = Cardinality(Pending')
      OBVIOUS
    <3> QED BY <3>1, <3>4, <3>5, Sizes DEF RoomInv
  <2>5. CASE ~(e.inv = 0 /\ ~Admitted(e.who))
    BY <2>2, <2>3, <2>5, RoomShrinks
  <2> QED BY <2>4, <2>5
<1>6. checkIns' = checkIns \/ checkIns' = Append(checkIns, e)
  <2>1. CASE AdmitListed(q) BY <1>2, <2>1 DEF AdmitListed
  <2>2. CASE AdmitOpen(q) BY <1>2, <2>2 DEF AdmitOpen
  <2> QED BY <2>1, <2>2
<1> QED BY <1>4, <1>5, <1>6

LEMMA RoomOther ==
  ASSUME TypeInv, RoomInv,
         \/ \E q \in Host : HostStep(q)
         \/ CloseInvites \/ BookingMoves \/ UNCHANGED vars
         \/ \E gone \in SUBSET Listed : Remove(gone)
  PROVE  RoomInv'
<1>1. \A r \in Scanner : op'[r] = op[r]
  BY HostOps DEF HostStep, CloseInvites, BookingMoves, Remove, vars
<1>2. checkIns' = checkIns
  BY DEF HostStep, OpenRead, OpenWrite, AddRead, BulkRead, AddWrite, CloseInvites, BookingMoves, Remove, vars
<1>3. First' = First /\ \A v : Admitted(v)' = Admitted(v)
  BY <1>2 DEF First, FirstEntry, Admitted
<1>4. Pending' \subseteq Pending
  BY <1>1, <1>3 DEF Pending
<1> QED BY <1>3, <1>4, RoomShrinks

LEMMA NextRoom == ASSUME TypeInv, RoomInv, [Next]_vars PROVE RoomInv'
<1>1. CASE \E q \in Scanner : ScannerStep(q)
  BY <1>1, RoomScan, RoomAdmit DEF ScannerStep
<1> QED BY <1>1, RoomOther DEF Next

\* Only scans that overlap can let in more visitors than the room holds: at most one more
\* for each other scanner (join, checkIns and capacity on a copy).
THEOREM RoomHolds == Spec => []RoomHoldsVisitors
<1>1. Init => TypeInv /\ RoomInv
  <2> SUFFICES ASSUME Init PROVE TypeInv /\ RoomInv OBVIOUS
  <2>1. TypeInv BY InitType
  <2>2. First = {} /\ Pending = {}
    BY DEF Init, First, Pending, Idle
  <2>3. Cardinality(First) = 0 /\ Cardinality(Pending) = 0
    BY <2>2, FS_EmptySet
  <2> QED BY <2>1, <2>3, Sizes DEF RoomInv
<1>2. TypeInv /\ RoomInv /\ [Next]_vars => TypeInv' /\ RoomInv' BY NextType, NextRoom
<1>3. TypeInv /\ RoomInv => RoomHoldsVisitors
  BY Sizes DEF RoomInv, RoomHoldsVisitors, First
<1> QED BY <1>1, <1>2, <1>3, PTL DEF Spec

(***************************************************************************)
(* The guest list, while the host's requests come one at a time: what a    *)
(* request is about to add still fits the list it will meet.               *)
(***************************************************************************)
OneHost == \A p, q \in Host : p = q

Spare(add) ==
  /\ Cardinality(Active) + Cardinality(add) <= MaxInvitees
  /\ \A w \in add : w \in Guest /\ \A i \in Active : ~Twice(guests[i].who, w)
  /\ \A v, w \in add : v # w => ~Twice(v, w)

ListInv == GuestListSound /\ \A q \in Host : op[q].do = "add" => Spare(op[q].add)

LEMMA ActiveFinite ==
  ASSUME TypeInv
  PROVE  IsFiniteSet(Active) /\ Cardinality(Active) \in Nat
<1>1. Listed = 1..Len(guests) /\ Len(guests) \in Nat
  BY LenProperties DEF TypeInv, TypeOK, Listed
<1>2. IsFiniteSet(1..Len(guests))
  BY <1>1, FS_Interval
<1>3. Active \subseteq 1..Len(guests)
  BY <1>1 DEF Active
<1> QED BY <1>2, <1>3, FS_Subset, FS_CardinalityType

LEMMA AddFinite ==
  ASSUME TypeInv, NEW q \in Host, op[q].do = "add"
  PROVE  IsFiniteSet(op[q].add) /\ Cardinality(op[q].add) \in Nat
<1>1. IsFiniteSet(op[q].add)
  BY DEF TypeInv, OpsOK, Fits, Proc
<1> QED BY <1>1, FS_CardinalityType

\* Guests leave the list or stay on it, and no request to add begins.
LEMMA ListShrinks ==
  ASSUME TypeInv, ListInv, Active' \subseteq Active,
         \A i \in Active : guests'[i].who = guests[i].who,
         \A q \in Host : op'[q] = op[q] \/ op'[q].do # "add"
  PROVE  ListInv'
<1>1. Cardinality(Active') <= Cardinality(Active) /\ Cardinality(Active') \in Nat
  BY ActiveFinite, FS_Subset, FS_CardinalityType
<1>2. Cardinality(Active)' = Cardinality(Active')
  OBVIOUS
<1>3. GuestListSound'
  <2>1. Cardinality(Active)' <= MaxInvitees
    BY <1>1, <1>2, ActiveFinite, InviteConstantsOK DEF ListInv, GuestListSound
  <2>2. \A i, j \in Active' : i # j => ~Twice(guests'[i].who, guests'[j].who)
    BY DEF ListInv, GuestListSound
  <2> QED BY <2>1, <2>2 DEF GuestListSound
<1>4. ASSUME NEW q \in Host, op'[q].do = "add" PROVE Spare(op[q].add)'
  <2>1. op'[q] = op[q] /\ Spare(op[q].add)
    BY <1>4 DEF ListInv
  <2>2. Cardinality(op[q].add) \in Nat
    BY <1>4, <2>1, AddFinite
  <2>3. Cardinality(Active') + Cardinality(op[q].add) <= MaxInvitees
    BY <1>1, <2>1, <2>2, ActiveFinite, InviteConstantsOK DEF Spare
  <2>4. Cardinality(Active)' + Cardinality(op'[q].add) <= MaxInvitees
    BY <1>2, <2>1, <2>3
  <2>5. \A w \in op'[q].add : w \in Guest /\ \A i \in Active' : ~Twice(guests'[i].who, w)
    BY <2>1 DEF Spare
  <2>6. \A v, w \in op'[q].add : v # w => ~Twice(v, w)
    BY <2>1 DEF Spare
  <2> QED BY <2>4, <2>5, <2>6 DEF Spare
<1> QED BY <1>3, <1>4 DEF ListInv

\* A request to add begins with what fits the list.
LEMMA ListBegins ==
  ASSUME TypeInv, ListInv, NEW q \in Host, NEW add, Spare(add), guests' = guests,
         op' = [op EXCEPT ![q] = [do |-> "add", add |-> add]]
  PROVE  ListInv'
<1>1. Active' = Active
  BY DEF Active, Listed
<1>2. \A r \in Host : op'[r] = IF r = q THEN [do |-> "add", add |-> add] ELSE op[r]
  BY DEF TypeInv, OpsOK, Proc
<1>3. ASSUME NEW r \in Host, op'[r].do = "add" PROVE Spare(op'[r].add)
  BY <1>2, <1>3 DEF ListInv
<1>4. ASSUME NEW r \in Host, op'[r].do = "add" PROVE Spare(op[r].add)'
  BY <1>1, <1>3, <1>4 DEF Spare
<1>5. GuestListSound'
  BY <1>1 DEF ListInv, GuestListSound
<1> QED BY <1>4, <1>5 DEF ListInv

LEMMA ListAddRead ==
  ASSUME TypeInv, ListInv, NEW q \in Host, NEW w \in Invitable, AddRead(q, w) PROVE ListInv'
<1>1. Cardinality({w}) = 1
  BY FS_Singleton
<1>2. Cardinality(Active) + Cardinality({w}) <= MaxInvitees
  BY <1>1, ActiveFinite, InviteConstantsOK DEF AddRead
<1>3. Spare({w})
  <2>1. \A i \in Active : ~Twice(guests[i].who, w)
    BY DEF AddRead, AlreadyInvited, AlreadyKnown, Twice, BulkKnown, Contact
  <2> QED BY <1>2, <2>1, GuestsTyped DEF Spare
<1> QED BY <1>3, ListBegins DEF AddRead

LEMMA ListBulkRead ==
  ASSUME TypeInv, ListInv, NEW q \in Host, NEW people \in SUBSET Accounts, BulkRead(q, people)
  PROVE  ListInv'
<1>1. PICK add \in SUBSET BulkNew(people) :
        /\ Cardinality(add) = IF Cardinality(BulkNew(people)) <= MaxInvitees - Cardinality(Active)
                                THEN Cardinality(BulkNew(people)) ELSE MaxInvitees - Cardinality(Active)
        /\ op' = [op EXCEPT ![q] = [do |-> "add", add |-> add]]
  BY DEF BulkRead
<1>2. Cardinality(BulkNew(people)) \in Nat
  BY NewAreAccounts, FS_CardinalityType
<1>3. ASSUME NEW v \in add, NEW w \in add, v # w PROVE ~Twice(v, w)
  <2>1. v.account /\ w.account /\ v.p # w.p
    BY <1>3, NewAreAccounts
  <2> QED BY <2>1 DEF Twice, BulkKnown, SameAccount, Shares
<1>4. ASSUME NEW w \in add PROVE w \in Guest /\ \A i \in Active : ~Twice(guests[i].who, w)
  <2>1. w.account /\ w \in Guest /\ \A i \in Active : ~BulkKnown(guests[i].who, w)
    BY NewAreAccounts DEF BulkNew
  <2> QED BY <2>1 DEF Twice
<1>5. Cardinality(Active) + Cardinality(add) <= MaxInvitees
  BY <1>1, <1>2, ActiveFinite, InviteConstantsOK
<1>6. Spare(add)
  BY <1>3, <1>4, <1>5 DEF Spare
<1> QED BY <1>1, <1>6, ListBegins DEF BulkRead

LEMMA TwiceBothWays == ASSUME NEW v, NEW w, ~Twice(v, w) PROVE ~Twice(w, v)
BY DEF Twice, BulkKnown, AlreadyKnown, SameAccount, Shares

LEMMA ListAddWrite ==
  ASSUME TypeInv, ListInv, OneHost, NEW q \in Host, AddWrite(q) PROVE ListInv'
<1>0. PICK n \in Nat : \E s \in [1..n -> op[q].add] :
        /\ n = Cardinality(op[q].add)
        /\ \A j, k \in 1..n : s[j] = s[k] => j = k
        /\ guests' \in Seq(Invitee) /\ Len(guests') = Len(guests) + n
        /\ \A i \in 1..Len(guests) : guests'[i] = guests[i]
        /\ \A k \in 1..n : guests'[Len(guests) + k] = [who |-> s[k], revoked |-> FALSE, joined |-> FALSE]
  BY Added
<1>1. PICK s \in [1..n -> op[q].add] :
        /\ n = Cardinality(op[q].add)
        /\ \A j, k \in 1..n : s[j] = s[k] => j = k
        /\ guests' \in Seq(Invitee) /\ Len(guests') = Len(guests) + n
        /\ \A i \in 1..Len(guests) : guests'[i] = guests[i]
        /\ \A k \in 1..n : guests'[Len(guests) + k] = [who |-> s[k], revoked |-> FALSE, joined |-> FALSE]
  BY <1>0
<1>2. Spare(op[q].add) /\ IsFiniteSet(op[q].add)
  BY AddFinite DEF ListInv, AddWrite
<1>3. PICK m \in Nat : m = Len(guests) /\ Listed = 1..m /\ Listed' = 1..(m + n)
  BY <1>1, LenProperties DEF TypeInv, TypeOK, Listed
<1> DEFINE Fresh == (m + 1)..(m + n)
<1>4. Active' = Active \cup Fresh
  <2>1. ASSUME NEW i \in 1..m PROVE i \in Active' <=> i \in Active
    BY <1>1, <1>3, <2>1 DEF Active
  <2>2. ASSUME NEW i \in Fresh PROVE i \in Active'
    <3>1. i - m \in 1..n /\ m + (i - m) = i /\ i \in 1..(m + n)
      OBVIOUS
    <3>2. guests'[i] = [who |-> s[i - m], revoked |-> FALSE, joined |-> FALSE]
      BY <1>1, <1>3, <3>1
    <3> QED BY <1>3, <3>1, <3>2 DEF Active
  <2>3. \A i : i \in 1..(m + n) <=> i \in 1..m \/ i \in Fresh
    OBVIOUS
  <2>4. Active \subseteq 1..m /\ Active' \subseteq 1..(m + n)
    BY <1>3 DEF Active
  <2> HIDE DEF Fresh
  <2> QED BY <2>1, <2>2, <2>3, <2>4
<1>5. Cardinality(Active') = Cardinality(Active) + n
  <2>1. IsFiniteSet(Fresh) /\ Cardinality(Fresh) = n
    <3>1. IsFiniteSet((m + 1)..(m + n))
          /\ Cardinality((m + 1)..(m + n)) = IF m + 1 > m + n THEN 0 ELSE (m + n) - (m + 1) + 1
      BY FS_Interval
    <3> QED BY <3>1
  <2>2. Active \cap Fresh = {}
    BY <1>3 DEF Active
  <2>3. Cardinality(Active \cup Fresh) = Cardinality(Active) + Cardinality(Fresh)
    <3> HIDE DEF Fresh
    <3>1. Cardinality(Active \cap Fresh) = 0
      BY <2>2, FS_EmptySet
    <3>2. IsFiniteSet(Active) /\ Cardinality(Active) \in Nat
      BY ActiveFinite
    <3>3. Cardinality(Active \cup Fresh) = Cardinality(Active) + Cardinality(Fresh) - Cardinality(Active \cap Fresh)
      BY <2>1, <3>2, FS_Union
    <3> QED BY <2>1, <3>1, <3>2, <3>3
  <2> QED BY <1>4, <2>1, <2>3
<1>6. Cardinality(Active)' <= MaxInvitees
  <2>1. Cardinality(Active') <= MaxInvitees
    BY <1>1, <1>2, <1>5 DEF Spare
  <2> QED BY <2>1
<1>7. ASSUME NEW i \in Active'
      PROVE  \/ (i \in Active /\ guests'[i].who = guests[i].who)
             \/ (i \in Fresh /\ guests'[i].who = s[i - m] /\ i - m \in 1..n)
  <2>1. CASE i \in Active
    <3>1. i \in 1..Len(guests) BY <1>3, <2>1 DEF Active
    <3>2. guests'[i] = guests[i] BY <1>1, <3>1
    <3> QED BY <2>1, <3>2
  <2>2. CASE i \in Fresh
    <3>1. i - m \in 1..n /\ m + (i - m) = i
      BY <2>2
    <3>2. guests'[i] = [who |-> s[i - m], revoked |-> FALSE, joined |-> FALSE]
      BY <1>1, <1>3, <3>1
    <3> QED BY <2>2, <3>1, <3>2
  <2> QED BY <1>4, <1>7, <2>1, <2>2
<1>8. ASSUME NEW i \in Active', NEW j \in Active', i # j PROVE ~Twice(guests'[i].who, guests'[j].who)
  <2>1. CASE i \in Active /\ guests'[i].who = guests[i].who /\ j \in Active /\ guests'[j].who = guests[j].who
    BY <1>8, <2>1 DEF ListInv, GuestListSound
  <2>2. CASE i \in Fresh /\ guests'[i].who = s[i - m] /\ i - m \in 1..n
             /\ j \in Fresh /\ guests'[j].who = s[j - m] /\ j - m \in 1..n
    <3>1. s[i - m] \in op[q].add /\ s[j - m] \in op[q].add /\ i - m # j - m
      BY <1>8, <2>2
    <3>2. s[i - m] # s[j - m]
      BY <1>1, <2>2, <3>1
    <3> QED BY <1>2, <2>2, <3>1, <3>2 DEF Spare
  <2>3. ASSUME NEW a \in Active', NEW b \in Active', a \in Active, guests'[a].who = guests[a].who,
               guests'[b].who = s[b - m], b - m \in 1..n
        PROVE  ~Twice(guests'[a].who, guests'[b].who) /\ ~Twice(guests'[b].who, guests'[a].who)
    <3>1. s[b - m] \in op[q].add
      BY <2>3
    <3>2. ~Twice(guests'[a].who, guests'[b].who)
      BY <1>2, <2>3, <3>1 DEF Spare
    <3> QED BY <3>2, TwiceBothWays
  <2> HIDE DEF Fresh
  <2> QED BY <1>7, <1>8, <2>1, <2>2, <2>3
<1>9. \A r \in Host : op'[r].do # "add"
  <2>1. q \in Proc /\ \A r \in Host : r = q
    BY DEF OneHost, Proc
  <2>2. op'[q] = Idle
    BY <2>1 DEF AddWrite, Done, TypeInv, OpsOK
  <2> QED BY <2>1, <2>2 DEF Idle
<1> QED BY <1>6, <1>8, <1>9 DEF ListInv, GuestListSound

LEMMA ListOther ==
  ASSUME TypeInv, ListInv,
         \/ \E q \in Scanner : ScannerStep(q)
         \/ \E q \in Host : OpenWrite(q) \/ \E m \in InviteMode : OpenRead(q, m)
         \/ CloseInvites \/ BookingMoves \/ UNCHANGED vars
         \/ \E gone \in SUBSET Listed : Remove(gone)
  PROVE  ListInv'
<1>1. \A q \in Host : op'[q] = op[q] \/ op'[q].do # "add"
  <2>1. CASE \E q \in Scanner : ScannerStep(q)
    <3>1. PICK q \in Scanner : \E o : op' = [op EXCEPT ![q] = o]
      BY <2>1 DEF ScannerStep, Scan, AdmitListed, AdmitOpen, Done
    <3>2. \A r \in Host : r # q
      BY InviteConstantsOK
    <3> QED BY <3>1, <3>2 DEF TypeInv, OpsOK, Proc
  <2>2. CASE \E q \in Host : OpenWrite(q) \/ \E m \in InviteMode : OpenRead(q, m)
    <3>1. PICK q \in Host : OpenWrite(q) \/ \E m \in InviteMode : OpenRead(q, m)
      BY <2>2
    <3>2. \E o : op' = [op EXCEPT ![q] = o] /\ o.do # "add"
      <4>1. CASE OpenWrite(q)
        <5>1. op' = [op EXCEPT ![q] = Idle] /\ Idle.do = "idle"
          BY <4>1 DEF OpenWrite, Done, Idle
        <5> QED BY <5>1
      <4>2. CASE \E m \in InviteMode : OpenRead(q, m)
        <5>1. PICK m \in InviteMode : OpenRead(q, m)
          BY <4>2
        <5> DEFINE o == [do |-> "mode", mode |-> m, make |-> MadeNow(m)]
        <5>2. op' = [op EXCEPT ![q] = o] /\ o.do = "mode"
          BY <5>1 DEF OpenRead
        <5> HIDE DEF o
        <5> QED BY <5>2
      <4> QED BY <3>1, <4>1, <4>2
    <3> QED BY <3>2 DEF TypeInv, OpsOK, Proc
  <2>3. CASE UNCHANGED op
    BY <2>3
  <2> QED BY <2>1, <2>2, <2>3 DEF CloseInvites, BookingMoves, Remove, vars
<1>2. Active' \subseteq Active /\ \A i \in Active : guests'[i].who = guests[i].who
  <2>1. CASE \E q \in Scanner : AdmitListed(q) /\ NotJoinedYet(op[q].inv)
    <3>1. PICK q \in Scanner : AdmitListed(q) /\ NotJoinedYet(op[q].inv)
      BY <2>1
    <3>2. Listed' = Listed
      BY <3>1 DEF AdmitListed, Listed
    <3>3. \A i \in Listed : guests'[i] = [guests[i] EXCEPT !.joined = @ \/ i = op[q].inv] /\ guests[i] \in Invitee
      BY <3>1, ListedAdmitted, GuestRow
    <3> QED BY <3>2, <3>3 DEF Active, Invitee
  <2>2. CASE \E gone \in SUBSET Listed : Remove(gone)
    <3>1. PICK gone \in SUBSET Listed :
            \A i \in Listed : guests'[i] = [guests[i] EXCEPT !.revoked = @ \/ i \in gone] /\ guests[i] \in Invitee
      BY <2>2, Removed, GuestRow
    <3>2. Listed' = Listed
      BY <2>2 DEF Remove, Listed
    <3> QED BY <3>1, <3>2 DEF Active, Invitee
  <2>3. CASE guests' = guests
    BY <2>3 DEF Active, Listed
  <2> QED BY <2>1, <2>2, <2>3 DEF ScannerStep, Scan, AdmitListed, AdmitOpen, OpenWrite, OpenRead, CloseInvites,
                                  BookingMoves, vars
<1> QED BY <1>1, <1>2, ListShrinks

LEMMA NextList == ASSUME TypeInv, ListInv, OneHost, [Next]_vars PROVE ListInv'
<1>1. CASE \E q \in Host : HostStep(q)
  BY <1>1, ListAddRead, ListBulkRead, ListAddWrite, ListOther DEF HostStep
<1> QED BY <1>1, ListOther DEF Next

\* While the host's requests do not overlap, the list stays within MAX_INVITEES and names no account, no
\* e-mail and no typed guest twice, however removals, scans and the end of the booking fall between the copy and
\* the update of a request (addInvitee, addInviteesBulk).
THEOREM GuestListStaysSound == ASSUME OneHost PROVE Spec => []GuestListSound
<1>1. Init => TypeInv /\ ListInv
  <2> SUFFICES ASSUME Init PROVE TypeInv /\ ListInv OBVIOUS
  <2>1. TypeInv BY InitType
  <2>2. Active = {} /\ \A q \in Host : op[q].do # "add"
    BY DEF Init, Active, Listed, Idle
  <2>3. Cardinality(Active) = 0
    BY <2>2, FS_EmptySet
  <2> QED BY <2>1, <2>2, <2>3, InviteConstantsOK DEF ListInv, GuestListSound
<1>2. TypeInv /\ ListInv /\ [Next]_vars => TypeInv' /\ ListInv' BY NextType, NextList
<1>3. ListInv => GuestListSound BY DEF ListInv
<1> QED BY <1>1, <1>2, <1>3, PTL DEF Spec
=============================================================================
