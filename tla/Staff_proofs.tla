----------------------------- MODULE Staff_proofs -----------------------------
(***************************************************************************)
(* Theorems about Staff, for every value of its constants.                 *)
(***************************************************************************)
EXTENDS Staff, WellFoundedInduction, TLAPS

(***************************************************************************)
(* Types                                                                   *)
(***************************************************************************)
Person == [role : Role, dept : Dept \cup {None}]

At == {"idle", "insert", "write", "leave", "pull", "join", "add"}
Save == [at : At, who : User \cup {None}, role : Role \cup {None}, dept : Dept \cup {None},
         leaves : Dept \cup {None}, joins : Dept \cup {None}, seen : SUBSET User]

SaveFits(s) ==
  /\ s.at = "idle" => s = Idle
  /\ s.at # "idle" => s.who \in User
  /\ s.at \in {"leave", "pull"} => s.leaves \in Dept
  /\ s.at \in {"join", "add"} => s.joins \in Dept
  /\ s.at = "insert" => s.role \in Role

TypeInv ==
  /\ role \in [Role -> RoleName \cup {None}]
  /\ manages \in [Dept -> (SUBSET User) \cup {None}]
  /\ user \in [User -> Person \cup {None}]
  /\ save \in [Admin -> Save]
  /\ \A e \in Admin : SaveFits(save[e])
  /\ \A e \in Admin : save[e].at # "idle" => save[e].who \in born
  /\ \A u \in User : user[u] # None => u \in born
  /\ byHand \subseteq User \X Dept /\ astray \subseteq User

LEMMA Nones == /\ None \notin User /\ None \notin Nat /\ None \notin Role /\ None \notin Dept /\ None \notin Person
               /\ MaxRole \in Nat /\ MaxDept \in Nat
BY StaffAssumption DEF Role, Dept, Person

LEMMA IdleFits ==
  /\ Idle \in Save /\ SaveFits(Idle)
  /\ Idle.at = "idle" /\ Idle.who = None /\ Idle.role = None /\ Idle.dept = None
  /\ Idle.leaves = None /\ Idle.joins = None /\ Idle.seen = {}
BY DEF Idle, Save, SaveFits, At

LEMMA TypesFollow == TypeInv => TypeOK
<1> SUFFICES ASSUME TypeInv PROVE TypeOK
  OBVIOUS
<1>1. ASSUME NEW e \in Admin
      PROVE  /\ save[e].at \in At /\ (save[e].at = "idle" <=> save[e] = Idle)
             /\ save[e].at \in {"leave", "pull"} => save[e].leaves \in Dept
             /\ save[e].at \in {"join", "add"} => save[e].joins \in Dept
  <2>1. save[e] \in Save /\ SaveFits(save[e])
    BY DEF TypeInv
  <2> QED BY <2>1, IdleFits DEF Save, SaveFits
<1> QED BY <1>1 DEF TypeInv, TypeOK, Person, At

\* The number that a new role gets is free.
LEMMA GreatestInSet ==
  ASSUME NEW S, NEW N \in Nat, S \subseteq 1 .. N, S # {}
  PROVE  Max(S) \in S /\ \A y \in S : Max(S) >= y
<1> DEFINE Less == {ss \in Nat \X Nat : ss[1] < ss[2]}
           Above == {n \in Nat : \A y \in S : y <= n}
<1>1. IsWellFoundedOn(Less, Nat)
  BY NatLessThanWellFounded DEF OpToRel
<1>2. N \in Above /\ Above \subseteq Nat
  OBVIOUS
<1>3. PICK m \in Above : \A j \in Above : ~(<<j, m>> \in Less)
  <2> HIDE DEF Less, Above
  <2> QED BY <1>1, <1>2, WFMin
<1>4. \A j \in Above : ~(j < m)
  BY <1>2, <1>3
<1>5. m \in Nat /\ \A y \in S : y <= m /\ y \in 1 .. N
  BY <1>3
<1>6. m # 0
  <2>1. PICK y \in S : TRUE
    OBVIOUS
  <2>2. y \in 1 .. N /\ y <= m
    BY <1>5
  <2> QED BY <2>2
<1>7. m \in S
  <2> SUFFICES ASSUME m \notin S PROVE FALSE
    OBVIOUS
  <2>1. m - 1 \in Nat /\ \A y \in S : y <= m - 1
    BY <1>5, <1>6
  <2> QED BY <1>4, <1>5, <2>1
<1>8. \A y \in S : m >= y
  BY <1>5
<1> QED BY <1>7, <1>8 DEF Max

LEMMA AfterIsNew ==
  ASSUME NEW S, NEW N \in Nat, S \subseteq 1 .. N
  PROVE  After(S) \in Nat \ {0} /\ After(S) \notin S
<1>1. CASE S # {}
  <2>1. Max(S) \in S /\ \A y \in S : Max(S) >= y
    BY <1>1, GreatestInSet
  <2>2. Max(S) \in Nat /\ After(S) = Max(S) + 1
    <3>1. Max(S) \in 1 .. N
      BY <2>1
    <3>2. After(S) = Max(S) + 1
      BY <1>1 DEF After
    <3>3. Max(S) \in Nat
      BY <3>1
    <3> QED BY <3>2, <3>3
  <2>3. \A y \in S : y \in Nat
    OBVIOUS
  <2> QED BY <2>1, <2>2, <2>3
<1>2. CASE S = {}
  BY <1>2 DEF After
<1> QED BY <1>1, <1>2

(***************************************************************************)
(* Types: steps                                                            *)
(***************************************************************************)

\* A save goes to another step, or ends.
LEMMA SaveGoes ==
  ASSUME TypeInv, NEW e \in Admin, NEW s, s \in Save, SaveFits(s), s.at # "idle" => s.who \in born', Goto(e, s),
         born \subseteq born'
  PROVE  /\ save' \in [Admin -> Save] /\ \A f \in Admin : SaveFits(save'[f])
         /\ \A f \in Admin : save'[f].at # "idle" => save'[f].who \in born'
         /\ save'[e] = s /\ \A f \in Admin \ {e} : save'[f] = save[f]
<1>1. save' = [save EXCEPT ![e] = s] /\ save \in [Admin -> Save]
  BY DEF Goto, TypeInv
<1>2. save' \in [Admin -> Save] /\ save'[e] = s /\ \A f \in Admin \ {e} : save'[f] = save[f]
  BY <1>1
<1> QED BY <1>2 DEF TypeInv

LEMMA SaveOf ==
  ASSUME TypeInv, NEW e \in Admin
  PROVE  /\ save[e] \in Save /\ SaveFits(save[e])
         /\ save[e].at # "idle" => save[e].who \in User /\ save[e].who \in born
         /\ save[e].who \in User => save[e].at # "idle"
BY IdleFits, Nones DEF TypeInv, SaveFits

\* Where a save goes from here
LEMMA JoinsFits ==
  ASSUME NEW s \in Save, s.who \in User
  PROVE  /\ Joins(s) \in Save /\ SaveFits(Joins(s))
         /\ IF s.joins = None THEN Joins(s) = Idle
            ELSE Joins(s).at = "join" /\ Joins(s).who = s.who /\ Joins(s).joins = s.joins /\ Joins(s).role = None
<1>1. CASE s.joins = None
  BY <1>1, IdleFits DEF Joins
<1>2. CASE s.joins # None
  <2> DEFINE n == [Idle EXCEPT !.at = "join", !.who = s.who, !.joins = s.joins]
  <2>0. s.joins \in Dept
    BY <1>2 DEF Save
  <2>1. Joins(s) = n
    BY <1>2 DEF Joins
  <2>2. n \in Save /\ n.at = "join" /\ n.who = s.who /\ n.joins = s.joins /\ n.role = None
    BY <2>0, IdleFits DEF Save, At
  <2> HIDE DEF n
  <2>3. SaveFits(n)
    BY <2>0, <2>2 DEF SaveFits
  <2> QED BY <1>2, <2>1, <2>2, <2>3
<1> QED BY <1>1, <1>2

LEMMA ListsFits ==
  ASSUME NEW s \in Save, s.who \in User
  PROVE  /\ Lists(s) \in Save /\ SaveFits(Lists(s))
         /\ IF s.leaves = None THEN Lists(s) = Joins(s)
            ELSE /\ Lists(s).at = "leave" /\ Lists(s).who = s.who /\ Lists(s).role = None
                 /\ Lists(s).leaves = s.leaves /\ Lists(s).joins = s.joins
<1>1. CASE s.leaves = None
  BY <1>1, JoinsFits DEF Lists
<1>2. CASE s.leaves # None
  <2> DEFINE n == [s EXCEPT !.at = "leave", !.role = None, !.dept = None]
  <2>0. s.leaves \in Dept
    BY <1>2 DEF Save
  <2>1. Lists(s) = n
    BY <1>2 DEF Lists
  <2>2. n \in Save /\ n.at = "leave" /\ n.who = s.who /\ n.joins = s.joins /\ n.role = None /\ n.leaves = s.leaves
    BY DEF Save, At
  <2> HIDE DEF n
  <2>3. SaveFits(n)
    BY <2>0, <2>2 DEF SaveFits
  <2> QED BY <1>2, <2>1, <2>2, <2>3
<1> QED BY <1>1, <1>2

(***************************************************************************)
(* The steps of a save: what it carries on, and to whom it belongs.        *)
(***************************************************************************)
SavesKept(e) == \A f \in Admin \ {e} : save'[f] = save[f]

LEMMA CreateBeginTypes ==
  ASSUME TypeInv, NEW e \in Admin, NEW u \in User, NEW r \in Role, NEW d \in Dept \cup {None}, CreateBegin(e, u, r, d)
  PROVE  /\ TypeInv' /\ SavesKept(e)
         /\ save'[e].at = "insert" /\ save'[e].who = u /\ save'[e].role = r /\ save'[e].dept = d
         /\ save'[e].leaves = None /\ save'[e].joins = IF IsManager(r) THEN d ELSE None
<1> DEFINE n == [Idle EXCEPT !.at = "insert", !.who = u, !.role = r, !.dept = d,
                             !.joins = IF IsManager(r) THEN d ELSE None]
<1>1. /\ n \in Save /\ n.at = "insert" /\ n.who = u /\ n.role = r /\ n.dept = d
      /\ n.leaves = None /\ n.joins = IF IsManager(r) THEN d ELSE None
  BY IdleFits DEF Save, At
<1>2. Goto(e, n) /\ born' = born \cup {u} /\ UNCHANGED <<role, manages, user, byHand, astray>>
  BY DEF CreateBegin
<1> HIDE DEF n
<1>3. SaveFits(n)
  BY <1>1 DEF SaveFits
<1>4. /\ save' \in [Admin -> Save] /\ \A f \in Admin : SaveFits(save'[f])
      /\ \A f \in Admin : save'[f].at # "idle" => save'[f].who \in born'
      /\ save'[e] = n /\ \A f \in Admin \ {e} : save'[f] = save[f]
  BY <1>1, <1>2, <1>3, SaveGoes
<1>5. TypeInv'
  BY <1>2, <1>4 DEF TypeInv
<1> QED BY <1>1, <1>4, <1>5 DEF SavesKept

LEMMA CreateInsertTypes ==
  ASSUME TypeInv, NEW e \in Admin, CreateInsert(e)
  PROVE  /\ TypeInv' /\ SavesKept(e) /\ save'[e] = Lists(save[e]) /\ save[e].who \in User
         /\ user'[save[e].who] \in Person
         /\ user'[save[e].who].role = save[e].role /\ user'[save[e].who].dept = save[e].dept
         /\ \A u \in User \ {save[e].who} : user'[u] = user[u]
<1> DEFINE s == save[e]
           p == [role |-> s.role, dept |-> s.dept]
<1>1. s \in Save /\ SaveFits(s) /\ s.at = "insert" /\ s.who \in User /\ s.who \in born
  BY SaveOf DEF CreateInsert
<1>2. p \in Person /\ p.role = s.role /\ p.dept = s.dept
  BY <1>1 DEF Person, Save, SaveFits
<1>3. Lists(s) \in Save /\ SaveFits(Lists(s)) /\ (Lists(s).at # "idle" => Lists(s).who = s.who)
  BY <1>1, ListsFits, JoinsFits, IdleFits
<1>4. Goto(e, Lists(s)) /\ UNCHANGED <<role, manages, born, byHand, astray>> /\ user' = [user EXCEPT ![s.who] = p]
  BY DEF CreateInsert
<1> HIDE DEF p, s
<1>5. user' \in [User -> Person \cup {None}] /\ user'[s.who] = p /\ \A u \in User \ {s.who} : user'[u] = user[u]
  BY <1>1, <1>2, <1>4 DEF TypeInv
<1>6. /\ save' \in [Admin -> Save] /\ \A f \in Admin : SaveFits(save'[f])
      /\ \A f \in Admin : save'[f].at # "idle" => save'[f].who \in born'
      /\ save'[e] = Lists(s) /\ \A f \in Admin \ {e} : save'[f] = save[f]
  BY <1>1, <1>3, <1>4, SaveGoes
<1>7. TypeInv'
  BY <1>1, <1>4, <1>5, <1>6 DEF TypeInv
<1> QED BY <1>1, <1>2, <1>5, <1>6, <1>7 DEF s, SavesKept

NewRole(s, u) == IF s.role # None THEN s.role ELSE user[u].role
NewDept(s, u) == IF s.dept # None THEN s.dept ELSE user[u].dept

LEMMA UpdateBeginTypes ==
  ASSUME TypeInv, NEW e \in Admin, NEW u \in User, NEW r \in Role \cup {None}, NEW d \in Dept \cup {None},
         UpdateBegin(e, u, r, d)
  PROVE  /\ TypeInv' /\ SavesKept(e) /\ user[u] \in Person
         /\ save'[e].at = "write" /\ save'[e].who = u /\ save'[e].role = r /\ save'[e].dept = d
         /\ save'[e].leaves = Leaves(IsManager(user[u].role), IsManager(NewRole(save'[e], u)),
                                     user[u].dept, NewDept(save'[e], u))
         /\ save'[e].joins = IF IsManager(NewRole(save'[e], u)) THEN NewDept(save'[e], u) ELSE None
<1> DEFINE was == IsManager(user[u].role)
           will == IsManager(IF r # None THEN r ELSE user[u].role)
           from == user[u].dept
           to == IF d # None THEN d ELSE from
           n == [at |-> "write", who |-> u, role |-> r, dept |-> d, leaves |-> Leaves(was, will, from, to),
                 joins |-> IF will THEN to ELSE None, seen |-> {}]
<1>1. user[u] \in Person /\ user[u] # None /\ u \in born
  BY DEF UpdateBegin, TypeInv
<1>2. from \in Dept \cup {None} /\ to \in Dept \cup {None}
  BY <1>1 DEF Person
<1>3. Leaves(was, will, from, to) \in Dept \cup {None}
  BY <1>2 DEF Leaves
<1>4. (IF will THEN to ELSE None) \in Dept \cup {None}
  BY <1>2
<1>5. Goto(e, n) /\ astray' = Overlapping(u) /\ UNCHANGED <<role, manages, user, born, byHand>>
  BY DEF UpdateBegin
<1>6. n.at = "write" /\ n.who = u /\ n.role = r /\ n.dept = d
      /\ n.leaves = Leaves(was, will, from, to) /\ n.joins = IF will THEN to ELSE None
  OBVIOUS
<1>7. n \in Save
  BY <1>3, <1>4 DEF Save, At
<1>8. will = IsManager(NewRole(n, u)) /\ to = NewDept(n, u)
  BY <1>6 DEF NewRole, NewDept
<1> HIDE DEF n, was, will, from, to
<1>9. SaveFits(n) /\ astray' \subseteq User
  BY <1>5, <1>6 DEF SaveFits, Overlapping, TypeInv
<1>10. /\ save' \in [Admin -> Save] /\ \A f \in Admin : SaveFits(save'[f])
       /\ \A f \in Admin : save'[f].at # "idle" => save'[f].who \in born'
       /\ save'[e] = n /\ \A f \in Admin \ {e} : save'[f] = save[f]
  BY <1>1, <1>5, <1>6, <1>7, <1>9, SaveGoes
<1>11. TypeInv'
  BY <1>5, <1>9, <1>10 DEF TypeInv
<1> QED BY <1>1, <1>6, <1>8, <1>10, <1>11 DEF was, from, SavesKept

LEMMA UpdateWriteTypes ==
  ASSUME TypeInv, NEW e \in Admin, UpdateWrite(e)
  PROVE  /\ TypeInv' /\ SavesKept(e) /\ save'[e] = Lists(save[e]) /\ save[e].who \in User
         /\ user[save[e].who] # None /\ user'[save[e].who] \in Person
         /\ user'[save[e].who].role = NewRole(save[e], save[e].who)
         /\ user'[save[e].who].dept = NewDept(save[e], save[e].who)
         /\ \A u \in User \ {save[e].who} : user'[u] = user[u]
<1> DEFINE s == save[e]
           w == s.who
           p == [user[w] EXCEPT !.role = NewRole(s, w), !.dept = NewDept(s, w)]
<1>1. s \in Save /\ SaveFits(s) /\ s.at = "write" /\ w \in User /\ w \in born /\ user[w] \in Person /\ user[w] # None
  BY SaveOf DEF UpdateWrite, TypeInv
<1>2. NewRole(s, w) \in Role /\ NewDept(s, w) \in Dept \cup {None}
  BY <1>1 DEF NewRole, NewDept, Person, Save
<1>3. p \in Person /\ p.role = NewRole(s, w) /\ p.dept = NewDept(s, w)
  BY <1>1, <1>2 DEF Person
<1>4. Lists(s) \in Save /\ SaveFits(Lists(s)) /\ (Lists(s).at # "idle" => Lists(s).who = s.who)
  BY <1>1, ListsFits, JoinsFits, IdleFits
<1>5. Goto(e, Lists(s)) /\ UNCHANGED <<role, manages, born, byHand, astray>>
  BY DEF UpdateWrite
<1>6. user' = [user EXCEPT ![w].role = IF s.role # None THEN s.role ELSE @,
                           ![w].dept = IF s.dept # None THEN s.dept ELSE @]
  BY DEF UpdateWrite
<1>7. user' = [user EXCEPT ![w].role = NewRole(s, w), ![w].dept = NewDept(s, w)]
  BY <1>1, <1>6 DEF NewRole, NewDept, TypeInv, Person
<1>8. user' = [user EXCEPT ![w] = p]
  BY <1>1, <1>7 DEF TypeInv
<1> HIDE DEF p, s, w
<1>9. user' \in [User -> Person \cup {None}] /\ user'[w] = p /\ \A u \in User \ {w} : user'[u] = user[u]
  BY <1>1, <1>3, <1>8 DEF TypeInv
<1>10. /\ save' \in [Admin -> Save] /\ \A f \in Admin : SaveFits(save'[f])
       /\ \A f \in Admin : save'[f].at # "idle" => save'[f].who \in born'
       /\ save'[e] = Lists(s) /\ \A f \in Admin \ {e} : save'[f] = save[f]
  BY <1>1, <1>4, <1>5, SaveGoes DEF w
<1>11. TypeInv'
  BY <1>1, <1>5, <1>9, <1>10 DEF TypeInv
<1> QED BY <1>1, <1>3, <1>9, <1>10, <1>11 DEF s, w, SavesKept

\* A save that ends
LEMMA EndTypes ==
  ASSUME TypeInv, NEW e \in Admin, Goto(e, Idle), UNCHANGED <<role, manages, user, born>>,
         byHand' \subseteq byHand, astray' \subseteq User
  PROVE  TypeInv' /\ SavesKept(e) /\ save'[e] = Idle
<1>1. /\ save' \in [Admin -> Save] /\ \A f \in Admin : SaveFits(save'[f])
      /\ \A f \in Admin : save'[f].at # "idle" => save'[f].who \in born'
      /\ save'[e] = Idle /\ \A f \in Admin \ {e} : save'[f] = save[f]
  BY IdleFits, SaveGoes
<1> QED BY <1>1 DEF TypeInv, SavesKept

\* The list to leave or to join
LEMMA TargetIs ==
  ASSUME TypeInv, NEW e \in Admin, save[e].at \in {"leave", "pull", "join", "add"}
  PROVE  /\ Target(save[e]) \in Dept /\ save[e].who \in User /\ save[e].who \in born
         /\ Joining(save[e]) <=> save[e].at \in {"join", "add"}
         /\ Target(save[e]) = IF Joining(save[e]) THEN save[e].joins ELSE save[e].leaves
         /\ NextList(save[e]) \in Save /\ SaveFits(NextList(save[e]))
         /\ IF Joining(save[e]) \/ save[e].joins = None THEN NextList(save[e]) = Idle
            ELSE /\ NextList(save[e]).at = "join" /\ NextList(save[e]).who = save[e].who
                 /\ NextList(save[e]).joins = save[e].joins /\ NextList(save[e]).role = None
<1> DEFINE s == save[e]
<1>1. s \in Save /\ SaveFits(s) /\ s.who \in User /\ s.who \in born
  BY SaveOf
<1>2. Joining(s) <=> s.at \in {"join", "add"}
  BY DEF Joining
<1>3. Target(s) = IF Joining(s) THEN s.joins ELSE s.leaves
  BY <1>2 DEF Target
<1>4. Target(s) \in Dept
  BY <1>1, <1>2, <1>3 DEF SaveFits
<1> HIDE DEF s
<1>5. /\ NextList(s) \in Save /\ SaveFits(NextList(s))
      /\ IF Joining(s) \/ s.joins = None THEN NextList(s) = Idle
         ELSE NextList(s).at = "join" /\ NextList(s).who = s.who /\ NextList(s).joins = s.joins /\ NextList(s).role = None
  BY <1>1, JoinsFits, IdleFits DEF NextList
<1> QED BY <1>1, <1>2, <1>3, <1>4, <1>5 DEF s

LEMMA MembershipReadTypes ==
  ASSUME TypeInv, NEW e \in Admin, MembershipRead(e)
  PROVE  /\ TypeInv' /\ SavesKept(e) /\ save[e].at \in {"leave", "join"}
         /\ Target(save[e]) \in Departments
         /\ UNCHANGED <<role, manages, user, born, astray>>
         /\ \/ /\ save'[e] = NextList(save[e]) /\ byHand' = byHand \ {<<save[e].who, Target(save[e])>>}
               /\ (save[e].who \in manages[Target(save[e])]) = Joining(save[e])
            \/ /\ byHand' = byHand /\ save'[e].who = save[e].who /\ save'[e].role = save[e].role
               /\ save'[e].leaves = save[e].leaves /\ save'[e].joins = save[e].joins
               /\ save'[e].at = IF save[e].at = "join" THEN "add" ELSE "pull"
<1> DEFINE s == save[e]
           d == Target(s)
           n == [s EXCEPT !.at = IF Joining(s) THEN "add" ELSE "pull", !.seen = manages[d]]
<1>1. s.at \in {"leave", "join"} /\ d \in Departments /\ UNCHANGED <<role, manages, user, born, astray>>
  BY DEF MembershipRead
<1>2. s \in Save /\ SaveFits(s) /\ s.who \in User /\ s.who \in born
  BY <1>1, SaveOf
<1>3. (Joining(s) <=> s.at = "join") /\ NextList(s) \in Save /\ SaveFits(NextList(s)) /\ d \in Dept
      /\ (NextList(s).at # "idle" => NextList(s).who = s.who)
  BY <1>1, TargetIs, IdleFits
<1>4. manages[d] \in SUBSET User
  BY <1>1, <1>3 DEF Departments, TypeInv
<1>5. CASE (s.who \in manages[d]) = Joining(s)
  <2>1. Goto(e, NextList(s)) /\ byHand' = byHand \ {<<s.who, d>>}
    BY <1>5 DEF MembershipRead
  <2> HIDE DEF s, d, n
  <2>2. /\ save' \in [Admin -> Save] /\ \A f \in Admin : SaveFits(save'[f])
        /\ \A f \in Admin : save'[f].at # "idle" => save'[f].who \in born'
        /\ save'[e] = NextList(s) /\ \A f \in Admin \ {e} : save'[f] = save[f]
    BY <1>1, <1>2, <1>3, <2>1, SaveGoes
  <2>3. TypeInv'
    BY <1>1, <2>1, <2>2 DEF TypeInv
  <2> QED BY <1>1, <1>5, <2>1, <2>2, <2>3 DEF SavesKept, s, d
<1>6. CASE (s.who \in manages[d]) # Joining(s)
  <2>1. Goto(e, n) /\ byHand' = byHand
    BY <1>6 DEF MembershipRead
  <2>2. /\ n \in Save /\ n.who = s.who /\ n.role = s.role /\ n.leaves = s.leaves /\ n.joins = s.joins
        /\ n.at = IF s.at = "join" THEN "add" ELSE "pull"
    BY <1>2, <1>3, <1>4 DEF Save, At
  <2> HIDE DEF s, d, n
  <2>3. SaveFits(n)
    BY <1>1, <1>2, <2>2 DEF SaveFits
  <2>4. /\ save' \in [Admin -> Save] /\ \A f \in Admin : SaveFits(save'[f])
        /\ \A f \in Admin : save'[f].at # "idle" => save'[f].who \in born'
        /\ save'[e] = n /\ \A f \in Admin \ {e} : save'[f] = save[f]
    BY <1>1, <1>2, <2>1, <2>2, <2>3, SaveGoes
  <2>5. TypeInv'
    BY <1>1, <2>1, <2>4 DEF TypeInv
  <2> QED BY <1>1, <2>1, <2>2, <2>4, <2>5 DEF SavesKept, s, d
<1> QED BY <1>5, <1>6

LEMMA MembershipWriteTypes ==
  ASSUME TypeInv, NEW e \in Admin, MembershipWrite(e)
  PROVE  /\ TypeInv' /\ SavesKept(e) /\ save[e].at \in {"pull", "add"} /\ save[e].who \in User
         /\ Target(save[e]) \in Departments /\ Target(save[e]) \in Dept /\ Departments' \subseteq Departments
         /\ UNCHANGED <<role, user, born, astray>>
         /\ save'[e] = NextList(save[e]) /\ byHand' = byHand \ {<<save[e].who, Target(save[e])>>}
         /\ manages'[Target(save[e])] = Changed(manages[Target(save[e])], save[e].seen, save[e].who, Joining(save[e]))
         /\ \A d \in Dept \ {Target(save[e])} : manages'[d] = manages[d]
<1> DEFINE s == save[e]
           d == Target(s)
           l == Changed(manages[d], s.seen, s.who, Joining(s))
<1>1. /\ s.at \in {"pull", "add"} /\ d \in Departments /\ UNCHANGED <<role, user, born, astray>>
      /\ manages' = [manages EXCEPT ![d] = l] /\ byHand' = byHand \ {<<s.who, d>>} /\ Goto(e, NextList(s))
  BY DEF MembershipWrite
<1>2. s.who \in User /\ s.who \in born /\ NextList(s) \in Save /\ SaveFits(NextList(s)) /\ d \in Dept
      /\ (NextList(s).at # "idle" => NextList(s).who = s.who)
  BY <1>1, TargetIs, IdleFits
<1>3. manages[d] \in SUBSET User
  BY <1>1, <1>2 DEF Departments, TypeInv
<1>4. l \in SUBSET User
  BY <1>2, <1>3 DEF Changed
<1> HIDE DEF s, d, l
<1>5. manages' \in [Dept -> (SUBSET User) \cup {None}] /\ manages'[d] = l /\ \A x \in Dept \ {d} : manages'[x] = manages[x]
  BY <1>1, <1>2, <1>4 DEF TypeInv
<1>6. /\ save' \in [Admin -> Save] /\ \A f \in Admin : SaveFits(save'[f])
      /\ \A f \in Admin : save'[f].at # "idle" => save'[f].who \in born'
      /\ save'[e] = NextList(s) /\ \A f \in Admin \ {e} : save'[f] = save[f]
  BY <1>1, <1>2, SaveGoes
<1>7. TypeInv'
  BY <1>1, <1>5, <1>6 DEF TypeInv
<1>8. Departments' \subseteq Departments
  BY <1>1, <1>5 DEF Departments
<1> QED BY <1>1, <1>2, <1>5, <1>6, <1>7, <1>8 DEF SavesKept, s, d, l

(***************************************************************************)
(* The lists.  For a user who is not astray the lists say what the user's  *)
(* record says, or, during a save, what the steps still to come need to    *)
(* find: a save that has written the user leaves him on no list but the    *)
(* one to leave, and then on none but the one to join.                     *)
(***************************************************************************)
Listed(u) == {d \in Departments : <<u, d>> \notin byHand}
OnLists(u) == {d \in Listed(u) : u \in manages[d]}
Due(u) == {d \in Listed(u) : IsManager(user[u].role) /\ user[u].dept = d}

InsertFits(s, u) ==
  /\ user[u] = None /\ s.leaves = None /\ s.role # None
  /\ s.joins = IF IsManager(s.role) THEN s.dept ELSE None
  /\ OnLists(u) = {}

WriteFits(s, u) ==
  user[u] # None =>
    /\ OnLists(u) = Due(u)
    /\ s.leaves = Leaves(IsManager(user[u].role), IsManager(NewRole(s, u)), user[u].dept, NewDept(s, u))
    /\ s.joins = IF IsManager(NewRole(s, u)) THEN NewDept(s, u) ELSE None

LeaveFits(s, u) ==
  user[u] # None =>
    /\ s.joins = IF IsManager(user[u].role) THEN user[u].dept ELSE None
    /\ OnLists(u) \subseteq {s.leaves}

JoinFits(s, u) ==
  user[u] # None =>
    /\ IsManager(user[u].role) /\ user[u].dept = s.joins
    /\ OnLists(u) \subseteq {s.joins}

StepFits(s, u) ==
  /\ s.at = "insert" => InsertFits(s, u)
  /\ s.at = "write" => WriteFits(s, u)
  /\ s.at \in {"leave", "pull"} => LeaveFits(s, u)
  /\ s.at \in {"join", "add"} => JoinFits(s, u)

Mine(u) == {e \in Admin : save[e].who = u}

Accounted(u) ==
  /\ \A e, f \in Mine(u) : e = f
  /\ user[u] # None => role[user[u].role] # None
  /\ \A e \in Mine(u) : save[e].role # None => role[save[e].role] # None
  /\ \A e \in Mine(u) : StepFits(save[e], u)
  /\ Mine(u) = {} => /\ user[u] # None => OnLists(u) = Due(u)
                     /\ u \notin born => OnLists(u) = {}

ListInv == \A u \in User \ astray : Accounted(u)

Inv == TypeInv /\ ListInv

LEMMA SavingIs == \A u \in User : Saving(u) <=> Mine(u) # {}
BY DEF Saving, Mine

LEMMA ListInvSafe == Inv => ManagersFollowUsers
<1> SUFFICES ASSUME Inv, NEW u \in User, NEW d \in Departments,
                    user[u] # None, ~Saving(u), u \notin astray, <<u, d>> \notin byHand
             PROVE  u \in manages[d] <=> IsManager(user[u].role) /\ user[u].dept = d
  BY DEF ManagersFollowUsers
<1>1. OnLists(u) = Due(u) /\ d \in Listed(u)
  BY SavingIs DEF Inv, ListInv, Accounted, Listed
<1> QED BY <1>1 DEF OnLists, Due

-----------------------------------------------------------------------------
\* A step that concerns other users leaves a user accounted for.
LEMMA Untouched ==
  ASSUME Inv, NEW u \in User \ astray', astray \subseteq astray',
         user'[u] = user[u], u \in born' <=> u \in born,
         Listed(u)' \subseteq Listed(u), \A d \in Listed(u)' : u \in manages'[d] <=> u \in manages[d],
         \A f \in Admin : save'[f] = save[f] \/ (save'[f].who # u /\ save[f].who # u),
         user[u] # None => role'[user[u].role] = role[user[u].role],
         \A f \in Mine(u) : save[f].role # None => role'[save[f].role] = role[save[f].role]
  PROVE  Accounted(u)'
<1>1. Accounted(u)
  BY DEF Inv, ListInv
<1>2. Mine(u)' = Mine(u) /\ \A f \in Mine(u) : save'[f] = save[f]
  BY DEF Mine
<1>3. OnLists(u)' = OnLists(u) \cap Listed(u)'
  BY DEF OnLists
<1>4. user[u] # None => Due(u)' = Due(u) \cap Listed(u)' /\ (IsManager(user[u].role)' <=> IsManager(user[u].role))
  BY DEF Due, IsManager
<1>5. ASSUME NEW f \in Mine(u) PROVE StepFits(save[f], u)'
  <2> DEFINE s == save[f]
  <2>1. StepFits(s, u) /\ save'[f] = s /\ f \in Admin
    BY <1>1, <1>2 DEF Accounted, Mine
  <2>2. s.role # None => (IsManager(s.role)' <=> IsManager(s.role))
    BY <1>2 DEF IsManager
  <2>3. user[u] # None => /\ NewRole(s, u)' = NewRole(s, u) /\ NewDept(s, u)' = NewDept(s, u)
                          /\ (IsManager(NewRole(s, u))' <=> IsManager(NewRole(s, u)))
    BY <1>2, <1>4, <2>2 DEF NewRole, NewDept
  <2>4. CASE s.at = "insert"
    BY <1>3, <2>1, <2>2, <2>4 DEF StepFits, InsertFits
  <2>5. CASE s.at = "write"
    <3>1. user[u] # None =>
            Leaves(IsManager(user[u].role), IsManager(NewRole(s, u)), user[u].dept, NewDept(s, u))'
              = Leaves(IsManager(user[u].role), IsManager(NewRole(s, u)), user[u].dept, NewDept(s, u))
      BY <1>4, <2>3 DEF Leaves
    <3>2. WriteFits(s, u)
      BY <2>1, <2>5 DEF StepFits
    <3>3. user[u] # None => OnLists(u)' = Due(u)'
      BY <1>3, <1>4, <3>2 DEF WriteFits
    <3>4. user[u] # None => /\ s.leaves = Leaves(IsManager(user[u].role), IsManager(NewRole(s, u)), user[u].dept, NewDept(s, u))'
                            /\ s.joins = IF IsManager(NewRole(s, u))' THEN NewDept(s, u)' ELSE None
      BY <2>3, <3>1, <3>2 DEF WriteFits
    <3> QED BY <2>1, <2>5, <3>3, <3>4 DEF StepFits, WriteFits
  <2>6. CASE s.at \in {"leave", "pull"}
    BY <1>3, <1>4, <2>1, <2>6 DEF StepFits, LeaveFits
  <2>7. CASE s.at \in {"join", "add"}
    BY <1>3, <1>4, <2>1, <2>7 DEF StepFits, JoinFits
  <2> QED BY <2>1, <2>4, <2>5, <2>6, <2>7 DEF StepFits
<1>6. Mine(u) = {} => /\ user[u] # None => OnLists(u)' = Due(u)'
                      /\ u \notin born' => OnLists(u)' = {}
  BY <1>1, <1>3, <1>4 DEF Accounted
<1> QED BY <1>1, <1>2, <1>5, <1>6 DEF Accounted

(* Roles and departments *)

LEMMA RolesUntouched ==
  ASSUME Inv, UNCHANGED <<manages, user, born, save, byHand>>, astray \subseteq astray', NEW u \in User \ astray',
         user[u] # None => role'[user[u].role] = role[user[u].role],
         \A f \in Mine(u) : save[f].role # None => role'[save[f].role] = role[save[f].role]
  PROVE  Accounted(u)'
BY Untouched DEF Listed, Departments

LEMMA CreateRoleStep == ASSUME Inv, NEW n \in RoleName, CreateRole(n) PROVE Inv'
<1>1. UNCHANGED <<manages, user, born, save, byHand, astray>> /\ role' = [role EXCEPT ![After(Roles)] = n]
  BY DEF CreateRole
<1>2. TypeInv'
  BY <1>1 DEF Inv, TypeInv
<1>3. ASSUME NEW r, role[r] # None, r \in Role PROVE role'[r] = role[r]
  <2>0. Roles \subseteq 1 .. MaxRole
    BY DEF Roles, Role
  <2>1. r # After(Roles)
    <3>1. After(Roles) \notin Roles
      BY <2>0, Nones, AfterIsNew
    <3> QED BY <1>3, <3>1 DEF Roles
  <2> HIDE DEF Role
  <2> QED BY <1>1, <1>3, <2>1 DEF Inv, TypeInv
<1>4. ASSUME NEW u \in User \ astray PROVE Accounted(u)'
  <2>1. Accounted(u)
    BY DEF Inv, ListInv
  <2>2. user[u] # None => user[u].role \in Role
    BY DEF Inv, TypeInv, Person
  <2>3. \A f \in Mine(u) : save[f].role # None => save[f].role \in Role
    BY DEF Inv, TypeInv, Save, Mine
  <2> QED BY <1>1, <1>3, <2>1, <2>2, <2>3, RolesUntouched DEF Accounted
<1> QED BY <1>1, <1>2, <1>4 DEF Inv, ListInv

LEMMA RemoveRoleStep == ASSUME Inv, NEW r \in Role, RemoveRole(r) PROVE Inv'
<1>1. /\ UNCHANGED <<manages, user, born, save, byHand>> /\ role' = [role EXCEPT ![r] = None]
      /\ astray' = astray \cup {u \in User : user[u] # None /\ user[u].role = r}
                          \cup {save[e].who : e \in {x \in Admin : save[x].role = r}}
  BY DEF RemoveRole
<1>2. \A e \in Admin : save[e].role = r => save[e].who \in User
  BY Nones, IdleFits, SaveOf DEF Inv, SaveFits
<1>3. astray' \subseteq User
  BY <1>1, <1>2 DEF Inv, TypeInv
<1>4. TypeInv'
  BY <1>1, <1>3 DEF Inv, TypeInv
<1>5. \A x \in Role \ {r} : role'[x] = role[x]
  BY <1>1 DEF Inv, TypeInv
<1>6. ASSUME NEW u \in User \ astray' PROVE Accounted(u)'
  <2>1. user[u] # None => user[u].role \in Role \ {r}
    BY <1>1 DEF Inv, TypeInv, Person
  <2>2. ASSUME NEW f \in Mine(u), save[f].role # None PROVE save[f].role \in Role \ {r}
    <3>1. save[f].role \in Role /\ save[f].who = u /\ f \in Admin
      BY <2>2 DEF Inv, TypeInv, Save, Mine
    <3> QED BY <1>1, <3>1
  <2> QED BY <1>1, <1>5, <2>1, <2>2, RolesUntouched
<1> QED BY <1>4, <1>6 DEF Inv, ListInv

LEMMA ListsUntouched ==
  ASSUME Inv, UNCHANGED <<role, user, born, save, astray>>, NEW u \in User \ astray,
         Listed(u)' \subseteq Listed(u), \A d \in Listed(u)' : u \in manages'[d] <=> u \in manages[d]
  PROVE  Accounted(u)'
BY Untouched

LEMMA CreateDeptStep == ASSUME Inv, NEW list \in SUBSET User, CreateDept(list) PROVE Inv'
<1> DEFINE d == After(Departments)
<1>1. /\ UNCHANGED <<role, user, born, save, astray>> /\ manages' = [manages EXCEPT ![d] = list]
      /\ byHand' = byHand \cup (User \X {d}) /\ d <= MaxDept
  BY DEF CreateDept, Edited
<1>2. d \in Dept
  <2>1. Departments \subseteq 1 .. MaxDept
    BY DEF Departments, Dept
  <2>2. d \in Nat \ {0}
    BY <2>1, Nones, AfterIsNew
  <2> QED BY <1>1, <2>2, Nones DEF Dept
<1> HIDE DEF d
<1>3. TypeInv'
  BY <1>1, <1>2 DEF Inv, TypeInv
<1>4. \A x \in Dept \ {d} : manages'[x] = manages[x]
  BY <1>1 DEF Inv, TypeInv
<1>5. ASSUME NEW u \in User \ astray PROVE Accounted(u)'
  <2>1. \A x \in Listed(u)' : x \in Listed(u) /\ manages'[x] = manages[x]
    BY <1>1, <1>4 DEF Listed, Departments
  <2> QED BY <1>1, <2>1, ListsUntouched
<1> QED BY <1>1, <1>3, <1>5 DEF Inv, ListInv

LEMMA UpdateDeptStep ==
  ASSUME Inv, NEW d \in Dept, NEW list \in SUBSET User, UpdateDept(d, list)
  PROVE  Inv'
<1> DEFINE us == {u \in User : u \in list <=> u \notin manages[d]}
<1>1. /\ UNCHANGED <<role, user, born, save, astray>> /\ manages' = [manages EXCEPT ![d] = list]
      /\ byHand' = byHand \cup (us \X {d}) /\ manages[d] # None
  BY DEF UpdateDept, Edited
<1>2. us \subseteq User /\ \A u \in User \ us : u \in list <=> u \in manages[d]
  OBVIOUS
<1> HIDE DEF us
<1>3. TypeInv'
  BY <1>1, <1>2 DEF Inv, TypeInv
<1>4. manages'[d] = list /\ \A x \in Dept \ {d} : manages'[x] = manages[x]
  BY <1>1 DEF Inv, TypeInv
<1>5. ASSUME NEW u \in User \ astray PROVE Accounted(u)'
  <2>1. Listed(u)' \subseteq Listed(u)
    BY <1>1, <1>4 DEF Listed, Departments
  <2>2. \A x \in Listed(u)' : u \in manages'[x] <=> u \in manages[x]
    BY <1>1, <1>2, <1>4 DEF Listed, Departments
  <2> QED BY <1>1, <2>1, <2>2, ListsUntouched
<1> QED BY <1>1, <1>3, <1>5 DEF Inv, ListInv

LEMMA RemoveDeptStep == ASSUME Inv, NEW d \in Dept, RemoveDept(d) PROVE Inv'
<1>1. UNCHANGED <<role, user, born, save, byHand, astray>> /\ manages' = [manages EXCEPT ![d] = None]
  BY DEF RemoveDept
<1>2. TypeInv'
  BY <1>1 DEF Inv, TypeInv
<1>3. manages'[d] = None /\ \A x \in Dept \ {d} : manages'[x] = manages[x]
  BY <1>1 DEF Inv, TypeInv
<1>4. ASSUME NEW u \in User \ astray PROVE Accounted(u)'
  <2>1. \A x \in Listed(u)' : x \in Listed(u) /\ manages'[x] = manages[x]
    BY <1>1, <1>3 DEF Listed, Departments
  <2> QED BY <1>1, <2>1, ListsUntouched
<1> QED BY <1>1, <1>2, <1>4 DEF Inv, ListInv

LEMMA RemoveUserStep == ASSUME Inv, NEW w \in User, RemoveUser(w) PROVE Inv'
<1>1. /\ user[w] # None /\ user' = [user EXCEPT ![w] = None]
      /\ UNCHANGED <<role, manages, born, save, byHand, astray>>
  BY DEF RemoveUser
<1>2. TypeInv' /\ w \in born
  BY <1>1 DEF Inv, TypeInv
<1>3. user'[w] = None /\ \A u \in User \ {w} : user'[u] = user[u]
  BY <1>1 DEF Inv, TypeInv
<1>4. ASSUME NEW u \in User \ astray PROVE Accounted(u)'
  <2>1. CASE u = w
    <3>1. Accounted(u) /\ Mine(u)' = Mine(u)
      BY <1>1 DEF Inv, ListInv, Mine
    <3>2. ASSUME NEW f \in Mine(u) PROVE StepFits(save[f], u)'
      <4>1. StepFits(save[f], u)
        BY <3>1 DEF Accounted
      <4>2. save[f].at # "insert"
        BY <1>1, <2>1, <4>1 DEF StepFits, InsertFits
      <4> QED BY <1>1, <1>3, <2>1, <4>2 DEF StepFits, WriteFits, LeaveFits, JoinFits
    <3> QED BY <1>1, <1>2, <1>3, <2>1, <3>1, <3>2 DEF Accounted
  <2>2. CASE u # w
    BY <1>1, <1>3, <2>2, Untouched DEF Listed, Departments
  <2> QED BY <2>1, <2>2
<1> QED BY <1>1, <1>2, <1>4 DEF Inv, ListInv

-----------------------------------------------------------------------------
(* Saves *)

\* Users other than the one who is saved
LEMMA OthersUntouched ==
  ASSUME Inv, NEW e \in Admin, SavesKept(e), NEW u \in User \ astray', astray \subseteq astray',
         save[e].who # u, save'[e].who # u, role' = role, user'[u] = user[u], u \in born' <=> u \in born,
         Listed(u)' \subseteq Listed(u), \A d \in Listed(u)' : u \in manages'[d] <=> u \in manages[d]
  PROVE  Accounted(u)'
BY Untouched DEF SavesKept

LEMMA SaveIsMine ==
  ASSUME Inv, NEW e \in Admin, save[e].who \in User \ astray
  PROVE  Mine(save[e].who) = {e} /\ StepFits(save[e], save[e].who)
         /\ (save[e].role # None => role[save[e].role] # None)
         /\ (user[save[e].who] # None => role[user[save[e].who].role] # None)
<1> DEFINE w == save[e].who
<1>1. Accounted(w) /\ e \in Mine(w)
  BY DEF Inv, ListInv, Mine
<1> HIDE DEF w
<1> QED BY <1>1 DEF Accounted, w

\* The user who is saved: the save goes on, or is done.
LEMMA SavedUser ==
  ASSUME NEW u \in User, NEW e \in Admin, SavesKept(e), Mine(u) \subseteq {e},
         user'[u] # None => role'[user'[u].role] # None,
         u \in born',
         \/ /\ save'[e].who = u /\ StepFits(save[e], u)'
            /\ save'[e].role # None => role'[save'[e].role] # None
         \/ /\ save'[e].who # u
            /\ user'[u] # None => OnLists(u)' = Due(u)'
  PROVE  Accounted(u)'
<1>1. Mine(u)' = IF save'[e].who = u THEN {e} ELSE {}
  BY DEF Mine, SavesKept
<1>2. CASE save'[e].who = u
  BY <1>1, <1>2 DEF Accounted
<1>3. CASE save'[e].who # u
  BY <1>1, <1>3 DEF Accounted
<1> QED BY <1>2, <1>3

LEMMA SameLists ==
  ASSUME NEW u, UNCHANGED <<manages, byHand>>
  PROVE  Listed(u)' = Listed(u) /\ OnLists(u)' = OnLists(u) /\ \A d \in Listed(u)' : u \in manages'[d] <=> u \in manages[d]
BY DEF Listed, OnLists, Departments

LEMMA CreateBeginStep ==
  ASSUME Inv, NEW e \in Admin, NEW u \in User, NEW r \in Role, NEW d \in Dept \cup {None}, CreateBegin(e, u, r, d)
  PROVE  Inv'
<1>1. /\ TypeInv' /\ SavesKept(e)
      /\ save'[e].at = "insert" /\ save'[e].who = u /\ save'[e].role = r /\ save'[e].dept = d
      /\ save'[e].leaves = None /\ save'[e].joins = IF IsManager(r) THEN d ELSE None
  BY CreateBeginTypes DEF Inv
<1>2. /\ save[e].at = "idle" /\ u \notin born /\ role[r] # None /\ born' = born \cup {u}
      /\ UNCHANGED <<role, manages, user, byHand, astray>>
  BY DEF CreateBegin
<1>3. Mine(u) = {} /\ user[u] = None
  BY <1>2, SaveOf DEF Inv, TypeInv, Mine
<1>4. ASSUME u \notin astray PROVE Accounted(u)'
  <2>1. Accounted(u)
    BY <1>4 DEF Inv, ListInv
  <2>2. OnLists(u)' = {}
    BY <1>2, <1>3, <2>1, SameLists DEF Accounted
  <2>3. StepFits(save[e], u)'
    BY <1>1, <1>2, <1>3, <2>2, Nones DEF StepFits, InsertFits, IsManager
  <2>4. Accounted(u)'
    BY <1>1, <1>2, <1>3, <2>3, SavedUser
  <2> QED BY <2>4
<1>5. ASSUME NEW v \in User \ astray, v # u PROVE Accounted(v)'
  <2>1. save[e].who # v
    BY <1>2, IdleFits, Nones DEF Inv, TypeInv, SaveFits
  <2> QED BY <1>1, <1>2, <1>5, <2>1, SameLists, OthersUntouched
<1> QED BY <1>1, <1>2, <1>4, <1>5 DEF Inv, ListInv

LEMMA NotDue == ASSUME NEW u, ~IsManager(user[u].role) \/ user[u].dept = None PROVE Due(u) = {}
BY Nones DEF Due, Listed, Departments

LEMMA CreateInsertStep == ASSUME Inv, NEW e \in Admin, CreateInsert(e) PROVE Inv'
<1>s. PICK s \in Save, w \in User : s = save[e] /\ w = save[e].who
  BY CreateInsertTypes, SaveOf DEF Inv
<1>1. /\ TypeInv' /\ SavesKept(e) /\ save'[e] = Lists(s)
      /\ user'[w] \in Person /\ user'[w].role = s.role /\ user'[w].dept = s.dept
      /\ \A u \in User \ {w} : user'[u] = user[u]
  BY <1>s, CreateInsertTypes DEF Inv
<1>2. s.at = "insert" /\ s.who = w /\ UNCHANGED <<role, manages, born, byHand, astray>> /\ w \in born
  BY <1>s, SaveOf DEF CreateInsert, Inv
<1>3. ASSUME w \notin astray PROVE Accounted(w)'
  <2>1. Mine(w) = {e} /\ InsertFits(s, w) /\ (s.role # None => role[s.role] # None)
    BY <1>s, <1>2, <1>3, SaveIsMine DEF StepFits
  <2>2. s.leaves = None /\ s.role # None /\ s.joins = (IF IsManager(s.role) THEN s.dept ELSE None) /\ OnLists(w)' = {}
    BY <1>2, <2>1, SameLists DEF InsertFits
  <2>3. Lists(s) = Joins(s)
    BY <1>1, <1>2, <2>2, ListsFits
  <2>4. CASE s.joins = None
    <3>1. save'[e] = Idle
      BY <1>1, <1>2, <2>3, <2>4, JoinsFits
    <3>2. ~IsManager(user[w].role)' \/ user'[w].dept = None
      BY <1>1, <1>2, <2>2, <2>4 DEF IsManager
    <3>3. Due(w)' = {}
      BY <3>2, Nones DEF Due, Listed, Departments
    <3> QED BY <1>1, <1>2, <2>1, <2>2, <3>1, <3>3, SavedUser, IdleFits, Nones
  <2>5. CASE s.joins # None
    <3>1. save'[e].at = "join" /\ save'[e].who = w /\ save'[e].joins = s.joins /\ save'[e].role = None
      BY <1>1, <1>2, <2>3, <2>5, JoinsFits
    <3>2. IsManager(user[w].role)' /\ user'[w].dept = s.joins
      BY <1>1, <1>2, <2>2, <2>5 DEF IsManager
    <3>3. StepFits(save[e], w)'
      BY <2>2, <3>1, <3>2 DEF StepFits, JoinFits
    <3> QED BY <1>1, <1>2, <2>1, <2>2, <3>1, <3>3, SavedUser
  <2> QED BY <2>4, <2>5
<1>4. ASSUME NEW v \in User \ astray, v # w PROVE Accounted(v)'
  <2>1. save'[e].who # v
    BY <1>1, <1>2, <1>4, ListsFits, JoinsFits, IdleFits, Nones
  <2> QED BY <1>s, <1>1, <1>2, <1>4, <2>1, SameLists, OthersUntouched
<1> QED BY <1>1, <1>2, <1>3, <1>4 DEF Inv, ListInv

LEMMA UpdateBeginStep ==
  ASSUME Inv, NEW e \in Admin, NEW u \in User, NEW r \in Role \cup {None}, NEW d \in Dept \cup {None},
         UpdateBegin(e, u, r, d)
  PROVE  Inv'
<1>1. /\ TypeInv' /\ SavesKept(e) /\ user[u] \in Person
      /\ save'[e].at = "write" /\ save'[e].who = u /\ save'[e].role = r
      /\ save'[e].leaves = Leaves(IsManager(user[u].role), IsManager(NewRole(save'[e], u)),
                                  user[u].dept, NewDept(save'[e], u))
      /\ save'[e].joins = IF IsManager(NewRole(save'[e], u)) THEN NewDept(save'[e], u) ELSE None
  BY UpdateBeginTypes DEF Inv
<1>2. /\ save[e].at = "idle" /\ user[u] # None /\ (r # None => role[r] # None) /\ astray' = Overlapping(u)
      /\ UNCHANGED <<role, manages, user, born, byHand>> /\ u \in born
  BY DEF UpdateBegin, Inv, TypeInv
<1>3. astray \subseteq astray' /\ \A v \in User \ {u} : v \in astray' <=> v \in astray
  BY <1>2 DEF Overlapping
<1>4. ASSUME u \notin astray' PROVE Accounted(u)'
  <2>1. Mine(u) = {} /\ u \notin astray
    BY <1>2, <1>4, SavingIs DEF Overlapping
  <2>2. Accounted(u)
    BY <2>1 DEF Inv, ListInv
  <2>3. OnLists(u)' = Due(u)'
    <3>1. OnLists(u) = Due(u)
      BY <1>2, <2>1, <2>2 DEF Accounted
    <3> QED BY <1>2, <3>1 DEF OnLists, Due, Listed, Departments, IsManager
  <2>4. /\ IsManager(user[u].role)' = IsManager(user[u].role) /\ NewDept(save[e], u)' = NewDept(save'[e], u)
        /\ IsManager(NewRole(save[e], u))' = IsManager(NewRole(save'[e], u))
    BY <1>2 DEF IsManager, NewRole, NewDept
  <2>5. WriteFits(save[e], u)'
    BY <1>1, <1>2, <2>3, <2>4 DEF WriteFits
  <2>6. StepFits(save[e], u)'
    BY <1>1, <2>5 DEF StepFits
  <2> QED BY <1>1, <1>2, <2>1, <2>2, <2>6, SavedUser DEF Accounted
<1>5. ASSUME NEW v \in User \ astray', v # u PROVE Accounted(v)'
  <2>1. save[e].who # v
    BY <1>2, IdleFits, Nones DEF Inv, TypeInv, SaveFits
  <2> QED BY <1>1, <1>2, <1>3, <1>5, <2>1, SameLists, OthersUntouched
<1> QED BY <1>1, <1>4, <1>5 DEF Inv, ListInv

\* Where a user stands who has been written, and which list is left to change
LEMMA AfterWrite ==
  ASSUME NEW was, NEW will, NEW from, NEW to, was \in BOOLEAN, will \in BOOLEAN, NEW lists,
         lists \subseteq (IF was THEN {from} \ {None} ELSE {}),
         NEW leaves, leaves = Leaves(was, will, from, to), NEW joins, joins = IF will THEN to ELSE None
  PROVE  /\ leaves # None => lists \subseteq {leaves}
         /\ leaves = None /\ joins # None => will /\ to = joins /\ lists \subseteq {joins}
         /\ leaves = None /\ joins = None => (~will \/ to = None) /\ lists = {}
<1>1. CASE was /\ from # None /\ (~will \/ from # to)
  BY <1>1 DEF Leaves
<1>2. CASE ~(was /\ from # None /\ (~will \/ from # to))
  <2>1. leaves = None
    BY <1>2 DEF Leaves
  <2>2. lists = {} \/ (lists \subseteq {from} /\ from # None /\ will /\ from = to)
    BY <1>2
  <2> QED BY <2>1, <2>2
<1> QED BY <1>1, <1>2

LEMMA UpdateWriteStep == ASSUME Inv, NEW e \in Admin, UpdateWrite(e) PROVE Inv'
<1>s. PICK s \in Save, w \in User : s = save[e] /\ w = save[e].who
  BY UpdateWriteTypes, SaveOf DEF Inv
<1>1. /\ TypeInv' /\ SavesKept(e) /\ save'[e] = Lists(s)
      /\ user[w] # None /\ user'[w] \in Person /\ user'[w].role = NewRole(s, w) /\ user'[w].dept = NewDept(s, w)
      /\ \A u \in User \ {w} : user'[u] = user[u]
  BY <1>s, UpdateWriteTypes DEF Inv
<1>2. s.at = "write" /\ s.who = w /\ UNCHANGED <<role, manages, born, byHand, astray>> /\ w \in born
  BY <1>s, SaveOf DEF UpdateWrite, Inv
<1>3. ASSUME w \notin astray PROVE Accounted(w)'
  <2>1. Mine(w) = {e} /\ WriteFits(s, w) /\ (s.role # None => role[s.role] # None) /\ role[user[w].role] # None
    BY <1>s, <1>1, <1>2, <1>3, SaveIsMine DEF StepFits
  <2> DEFINE was == IsManager(user[w].role)
             will == IsManager(NewRole(s, w))
             from == user[w].dept
             to == NewDept(s, w)
             lists == OnLists(w)
  <2>2. s.leaves = Leaves(was, will, from, to) /\ s.joins = (IF will THEN to ELSE None) /\ lists = Due(w)
    BY <1>1, <2>1 DEF WriteFits
  <2>3. was \in BOOLEAN /\ will \in BOOLEAN
    BY DEF IsManager
  <2>4. lists \subseteq (IF was THEN {from} \ {None} ELSE {})
    BY <2>2, Nones DEF Due, Listed, Departments
  <2>5. OnLists(w)' = lists /\ (IsManager(user[w].role)' <=> will) /\ user'[w].dept = to
    BY <1>1, <1>2, SameLists DEF IsManager
  <2>6. role'[user'[w].role] # None
    BY <1>1, <1>2, <2>1 DEF NewRole
  <2> HIDE DEF was, will, from, to, lists
  <2>7. /\ s.leaves # None => lists \subseteq {s.leaves}
        /\ s.leaves = None /\ s.joins # None => will /\ to = s.joins /\ lists \subseteq {s.joins}
        /\ s.leaves = None /\ s.joins = None => (~will \/ to = None) /\ lists = {}
    BY <2>2, <2>3, <2>4, AfterWrite
  <2>8. CASE s.leaves # None
    <3>1. /\ save'[e].at = "leave" /\ save'[e].who = w /\ save'[e].role = None
          /\ save'[e].leaves = s.leaves /\ save'[e].joins = s.joins
      BY <1>1, <1>2, <2>8, ListsFits
    <3>2. LeaveFits(save[e], w)'
      BY <2>2, <2>5, <2>7, <2>8, <3>1 DEF LeaveFits
    <3>3. StepFits(save[e], w)'
      BY <3>1, <3>2 DEF StepFits
    <3> QED BY <1>1, <1>2, <2>1, <2>6, <3>1, <3>3, SavedUser
  <2>9. CASE s.leaves = None /\ s.joins # None
    <3>1. save'[e].at = "join" /\ save'[e].who = w /\ save'[e].joins = s.joins /\ save'[e].role = None
      BY <1>1, <1>2, <2>9, ListsFits, JoinsFits
    <3>2. JoinFits(save[e], w)'
      BY <2>5, <2>7, <2>9, <3>1 DEF JoinFits
    <3>3. StepFits(save[e], w)'
      BY <3>1, <3>2 DEF StepFits
    <3> QED BY <1>1, <1>2, <2>1, <2>6, <3>1, <3>3, SavedUser
  <2>10. CASE s.leaves = None /\ s.joins = None
    <3>1. save'[e] = Idle
      BY <1>1, <1>2, <2>10, ListsFits, JoinsFits
    <3>2. Due(w)' = {}
      BY <2>5, <2>7, <2>10, Nones DEF Due, Listed, Departments
    <3>3. OnLists(w)' = Due(w)'
      BY <2>5, <2>7, <2>10, <3>2
    <3> QED BY <1>1, <1>2, <2>1, <2>6, <3>1, <3>3, SavedUser, IdleFits, Nones
  <2> QED BY <2>8, <2>9, <2>10
<1>4. ASSUME NEW v \in User \ astray, v # w PROVE Accounted(v)'
  <2>1. save'[e].who # v
    BY <1>1, <1>2, <1>4, ListsFits, JoinsFits, IdleFits, Nones
  <2> QED BY <1>s, <1>1, <1>2, <1>4, <2>1, SameLists, OthersUntouched
<1> QED BY <1>1, <1>2, <1>3, <1>4 DEF Inv, ListInv

\* A list has been changed as the save wants it.
LEMMA ListDone ==
  ASSUME Inv, NEW e \in Admin, NEW s, s = save[e], NEW w \in User \ astray, w = save[e].who,
         s.at \in {"leave", "pull", "join", "add"}, NEW d, d = Target(s), d \in Dept,
         SavesKept(e), save'[e] = NextList(s), UNCHANGED <<role, user, born, astray>>,
         Listed(w)' \subseteq Listed(w) \cup {d},
         \A x \in Listed(w)' \ {d} : w \in manages'[x] <=> w \in manages[x],
         d \in Listed(w)' => (w \in manages'[d] <=> Joining(s))
  PROVE  Accounted(w)'
<1>1. /\ (Joining(s) <=> s.at \in {"join", "add"}) /\ d = (IF Joining(s) THEN s.joins ELSE s.leaves)
      /\ w \in born
      /\ IF Joining(s) \/ s.joins = None THEN save'[e] = Idle
         ELSE save'[e].at = "join" /\ save'[e].who = w /\ save'[e].joins = s.joins /\ save'[e].role = None
  BY TargetIs DEF Inv
<1>2. Mine(w) = {e} /\ StepFits(s, w) /\ (user[w] # None => role[user[w].role] # None)
  BY SaveIsMine
<1>3. OnLists(w)' \subseteq OnLists(w) \cup {d}
  BY DEF OnLists
<1>4. Due(w)' \subseteq Dept /\ None \notin Dept
  BY Nones DEF Due, Listed, Departments
<1>5. CASE Joining(s)
  <2>1. save'[e] = Idle /\ JoinFits(s, w) /\ d = s.joins
    BY <1>1, <1>2, <1>5 DEF StepFits
  <2>2. ASSUME user[w] # None PROVE OnLists(w)' = Due(w)'
    <3>1. OnLists(w) \subseteq {d} /\ IsManager(user[w].role)' /\ user'[w].dept = d
      BY <2>1, <2>2 DEF JoinFits, IsManager
    <3>2. Due(w)' = Listed(w)' \cap {d}
      BY <3>1 DEF Due
    <3>3. OnLists(w)' = Listed(w)' \cap {d}
      BY <1>3, <1>5, <3>1 DEF OnLists
    <3> QED BY <3>2, <3>3
  <2> QED BY <1>1, <1>2, <2>1, <2>2, SavedUser, IdleFits, Nones
<1>6. CASE ~Joining(s)
  <2>1. LeaveFits(s, w) /\ d = s.leaves
    BY <1>1, <1>2, <1>6 DEF StepFits
  <2>2. user[w] # None => OnLists(w)' = {}
    BY <1>3, <1>6, <2>1 DEF LeaveFits, OnLists
  <2>3. user[w] # None => s.joins = (IF IsManager(user[w].role)' THEN user'[w].dept ELSE None)
    BY <2>1 DEF LeaveFits, IsManager
  <2>4. CASE s.joins = None
    <3>1. save'[e] = Idle
      BY <1>1, <1>6, <2>4
    <3>2. user[w] # None => Due(w)' = {}
      BY <1>4, <2>3, <2>4 DEF Due
    <3> QED BY <1>1, <1>2, <2>2, <3>1, <3>2, SavedUser, IdleFits, Nones
  <2>5. CASE s.joins # None
    <3>1. save'[e].at = "join" /\ save'[e].who = w /\ save'[e].joins = s.joins /\ save'[e].role = None
      BY <1>1, <1>6, <2>5
    <3>2. JoinFits(save[e], w)'
      BY <2>2, <2>3, <2>5, <3>1 DEF JoinFits
    <3>3. StepFits(save[e], w)'
      BY <3>1, <3>2 DEF StepFits
    <3> QED BY <1>1, <1>2, <3>1, <3>3, SavedUser
  <2> QED BY <2>4, <2>5
<1> QED BY <1>5, <1>6

LEMMA MembershipReadStep == ASSUME Inv, NEW e \in Admin, MembershipRead(e) PROVE Inv'
<1>0. save[e].at \in {"leave", "join"} /\ TypeInv' /\ SavesKept(e) /\ UNCHANGED <<role, manages, user, born, astray>>
  BY MembershipReadTypes DEF Inv
<1>s. PICK s \in Save, w \in User, d \in Dept :
        s = save[e] /\ w = save[e].who /\ d = Target(save[e]) /\ d \in Departments
  BY <1>0, MembershipReadTypes, SaveOf, TargetIs DEF Inv
<1>1. \/ /\ save'[e] = NextList(s) /\ byHand' = byHand \ {<<w, d>>} /\ ((w \in manages[d]) = Joining(s))
      \/ /\ byHand' = byHand /\ save'[e].who = w /\ save'[e].role = s.role
         /\ save'[e].leaves = s.leaves /\ save'[e].joins = s.joins
         /\ save'[e].at = IF s.at = "join" THEN "add" ELSE "pull"
  BY <1>s, MembershipReadTypes DEF Inv
<1>2. s.at \in {"leave", "join"} /\ w \in born
  BY <1>s, <1>0, SaveOf DEF Inv
<1>3. CASE save'[e] = NextList(s) /\ byHand' = byHand \ {<<w, d>>} /\ ((w \in manages[d]) = Joining(s))
  <2>1. Listed(w)' \subseteq Listed(w) \cup {d} /\ \A v \in User \ {w} : Listed(v)' = Listed(v)
    BY <1>0, <1>3 DEF Listed, Departments
  <2>2. Joining(s) \in BOOLEAN /\ (w \in manages[d] <=> Joining(s))
    BY <1>3 DEF Joining
  <2>3. ASSUME w \notin astray PROVE Accounted(w)'
    BY <1>0, <1>s, <1>2, <1>3, <2>1, <2>2, <2>3, ListDone
  <2>4. ASSUME NEW v \in User \ astray, v # w PROVE Accounted(v)'
    <3>1. save'[e].who # v
      BY <1>s, <1>2, <1>3, <2>4, TargetIs, IdleFits, Nones DEF Inv
    <3> QED BY <1>0, <1>s, <2>1, <2>4, <3>1, OthersUntouched
  <2> QED BY <1>0, <2>3, <2>4 DEF Inv, ListInv
<1>4. CASE /\ byHand' = byHand /\ save'[e].who = w /\ save'[e].role = s.role
           /\ save'[e].leaves = s.leaves /\ save'[e].joins = s.joins
           /\ save'[e].at = IF s.at = "join" THEN "add" ELSE "pull"
  <2>1. \A v \in User : Listed(v)' = Listed(v) /\ OnLists(v)' = OnLists(v)
    BY <1>0, <1>4 DEF Listed, Departments, OnLists
  <2>2. ASSUME w \notin astray PROVE Accounted(w)'
    <3>1. Mine(w) = {e} /\ StepFits(s, w) /\ (s.role # None => role[s.role] # None)
          /\ (user[w] # None => role[user[w].role] # None)
      BY <1>s, <2>2, SaveIsMine
    <3>2. IsManager(user[w].role)' <=> IsManager(user[w].role)
      BY <1>0 DEF IsManager
    <3>3. StepFits(save[e], w)'
      BY <1>0, <1>2, <1>4, <2>1, <3>1, <3>2 DEF StepFits, LeaveFits, JoinFits
    <3> QED BY <1>0, <1>2, <1>4, <3>1, <3>3, SavedUser
  <2>3. ASSUME NEW v \in User \ astray, v # w PROVE Accounted(v)'
    BY <1>0, <1>s, <1>4, <2>1, <2>3, OthersUntouched
  <2> QED BY <1>0, <2>2, <2>3 DEF Inv, ListInv
<1> QED BY <1>1, <1>3, <1>4

LEMMA MembershipWriteStep == ASSUME Inv, NEW e \in Admin, MembershipWrite(e) PROVE Inv'
<1>0. save[e].at \in {"pull", "add"} /\ TypeInv' /\ SavesKept(e) /\ UNCHANGED <<role, user, born, astray>>
      /\ Departments' \subseteq Departments
  BY MembershipWriteTypes DEF Inv
<1>s. PICK s \in Save, w \in User, d \in Dept :
        s = save[e] /\ w = save[e].who /\ d = Target(save[e]) /\ d \in Departments
  BY MembershipWriteTypes, SaveOf DEF Inv
<1>1. /\ save'[e] = NextList(s) /\ byHand' = byHand \ {<<w, d>>}
      /\ manages'[d] = Changed(manages[d], s.seen, w, Joining(s))
      /\ \A x \in Dept \ {d} : manages'[x] = manages[x]
  BY <1>s, MembershipWriteTypes DEF Inv
<1>2. s.at \in {"pull", "add"} /\ w \in born
  BY <1>s, <1>0, SaveOf DEF Inv
<1>3. /\ Listed(w)' \subseteq Listed(w) \cup {d}
      /\ \A v \in User : Listed(v)' \subseteq Listed(v) \cup {d} /\ (v # w => Listed(v)' \subseteq Listed(v))
  BY <1>0, <1>1 DEF Listed
<1>4. (w \in manages'[d] <=> Joining(s)) /\ \A v \in User \ {w} : v \in manages'[d] <=> v \in manages[d]
  BY <1>1 DEF Changed
<1>5. \A v, x : x \in Listed(v)' \ {d} => manages'[x] = manages[x]
  BY <1>1 DEF Listed, Departments
<1>6. ASSUME w \notin astray PROVE Accounted(w)'
  BY <1>0, <1>s, <1>1, <1>2, <1>3, <1>4, <1>5, <1>6, ListDone
<1>7. ASSUME NEW v \in User \ astray, v # w PROVE Accounted(v)'
  <2>1. save'[e].who # v
    BY <1>s, <1>1, <1>2, <1>7, TargetIs, IdleFits, Nones DEF Inv
  <2>2. \A x \in Listed(v)' : v \in manages'[x] <=> v \in manages[x]
    BY <1>4, <1>5, <1>7
  <2> QED BY <1>0, <1>s, <1>3, <1>7, <2>1, <2>2, OthersUntouched
<1> QED BY <1>0, <1>6, <1>7 DEF Inv, ListInv

\* A save that ends early: the user it was for is astray, or is as the lists say.
LEMMA EndStep ==
  ASSUME Inv, NEW e \in Admin, save[e].at # "idle", Goto(e, Idle),
         UNCHANGED <<role, manages, user, born, byHand>>,
         astray' = astray \/ astray' = astray \cup {save[e].who},
         save[e].who \notin astray' =>
           \/ user[save[e].who] = None
           \/ OnLists(save[e].who) = Due(save[e].who)
  PROVE  Inv'
<1>s. PICK w \in User : w = save[e].who /\ w \in born
  BY SaveOf DEF Inv
<1>1. TypeInv' /\ SavesKept(e) /\ save'[e] = Idle
  BY <1>s, EndTypes DEF Inv, TypeInv
<1>2. \A v \in User : Listed(v)' = Listed(v) /\ OnLists(v)' = OnLists(v) /\ Due(v)' = Due(v)
  BY DEF Listed, Departments, OnLists, Due, IsManager
<1>3. ASSUME w \notin astray' PROVE Accounted(w)'
  <2>1. Mine(w) = {e} /\ (user[w] # None => role[user[w].role] # None)
    BY <1>s, <1>3, SaveIsMine
  <2>2. user[w] # None => OnLists(w) = Due(w)
    BY <1>s, <1>3
  <2> QED BY <1>s, <1>1, <1>2, <2>1, <2>2, SavedUser, IdleFits, Nones
<1>4. ASSUME NEW v \in User \ astray', v # w PROVE Accounted(v)'
  BY <1>s, <1>1, <1>2, <1>4, OthersUntouched, IdleFits, Nones
<1> QED BY <1>1, <1>3, <1>4 DEF Inv, ListInv

LEMMA UpdateGoneStep == ASSUME Inv, NEW e \in Admin, UpdateGone(e) PROVE Inv'
BY EndStep DEF UpdateGone

LEMMA MembershipGoneStep == ASSUME Inv, NEW e \in Admin, MembershipGone(e) PROVE Inv'
<1>1. /\ save[e].at \in {"leave", "pull", "join", "add"} /\ Target(save[e]) \notin Departments /\ Goto(e, Idle)
      /\ UNCHANGED <<role, manages, user, born, byHand>>
      /\ astray' = IF Joining(save[e]) THEN astray ELSE astray \cup {save[e].who}
  BY DEF MembershipGone
<1>2. CASE ~Joining(save[e])
  BY <1>1, <1>2, EndStep
<1>3. CASE Joining(save[e])
  <2>1. ASSUME save[e].who \notin astray, user[save[e].who] # None
        PROVE  OnLists(save[e].who) = Due(save[e].who)
    <3>1. save[e].who \in User /\ save[e].at \in {"join", "add"} /\ Target(save[e]) = save[e].joins
      BY <1>1, <1>3, TargetIs DEF Inv
    <3>2. JoinFits(save[e], save[e].who)
      BY <2>1, <3>1, SaveIsMine DEF StepFits
    <3>3. OnLists(save[e].who) = {} /\ Due(save[e].who) = {}
      BY <1>1, <2>1, <3>1, <3>2 DEF JoinFits, OnLists, Due, Listed
    <3> QED BY <3>3
  <2> QED BY <1>1, <1>3, <2>1, EndStep
<1> QED BY <1>2, <1>3

LEMMA CrashStep == ASSUME Inv, NEW e \in Admin, Crash(e) PROVE Inv'
<1>1. /\ save[e].at # "idle" /\ Goto(e, Idle) /\ UNCHANGED <<role, manages, user, born, byHand>>
      /\ astray' = IF save[e].at \in {"insert", "write"} THEN astray ELSE astray \cup {save[e].who}
  BY DEF Crash
<1>2. CASE save[e].at \notin {"insert", "write"}
  BY <1>1, <1>2, EndStep
<1>3. CASE save[e].at \in {"insert", "write"}
  <2>1. ASSUME save[e].who \notin astray
        PROVE  user[save[e].who] = None \/ OnLists(save[e].who) = Due(save[e].who)
    <3>1. save[e].who \in User
      BY <1>1, SaveOf DEF Inv
    <3>2. StepFits(save[e], save[e].who)
      BY <2>1, <3>1, SaveIsMine
    <3> QED BY <1>3, <3>2 DEF StepFits, InsertFits, WriteFits
  <2> QED BY <1>1, <1>3, <2>1, EndStep
<1> QED BY <1>2, <1>3

LEMMA InvInit == Init => Inv
<1> SUFFICES ASSUME Init PROVE Inv
  OBVIOUS
<1>1. TypeInv
  BY IdleFits DEF Init, TypeInv, RoleName, Dept
<1>2. ASSUME NEW u \in User PROVE Accounted(u)
  <2>1. Mine(u) = {} /\ user[u] = None /\ OnLists(u) = {}
    BY IdleFits, Nones DEF Init, Mine, OnLists, Listed, Departments
  <2> QED BY <2>1 DEF Accounted
<1> QED BY <1>1, <1>2 DEF Inv, ListInv

LEMMA InvStep == Inv /\ [Next]_vars => Inv'
<1> SUFFICES ASSUME Inv, [Next]_vars PROVE Inv'
  OBVIOUS
<1>1. CASE UNCHANGED vars
  <2>1. TypeInv'
    BY <1>1 DEF vars, Inv, TypeInv
  <2>2. \A u \in User \ astray' : Accounted(u)'
    BY <1>1, SameLists, Untouched DEF vars
  <2> QED BY <2>1, <2>2 DEF Inv, ListInv
<1>2. ASSUME NEW e \in Admin,
             \/ CreateInsert(e) \/ UpdateWrite(e) \/ UpdateGone(e)
             \/ MembershipRead(e) \/ MembershipWrite(e) \/ MembershipGone(e) \/ Crash(e)
      PROVE  Inv'
  BY <1>2, CreateInsertStep, UpdateWriteStep, UpdateGoneStep, MembershipReadStep, MembershipWriteStep,
     MembershipGoneStep, CrashStep
<1> QED BY <1>1, <1>2, CreateRoleStep, RemoveRoleStep, CreateDeptStep, UpdateDeptStep, RemoveDeptStep,
           RemoveUserStep, CreateBeginStep, UpdateBeginStep DEF Next, ImportRole, ImportDept, ImportUser

\* Roles, lists, users and the saves under way keep their types, and a save works for a user once created.
THEOREM StaffTypeCorrect == Spec => []TypeOK
<1>1. Inv => TypeOK
  BY TypesFollow DEF Inv
<1> QED BY <1>1, InvInit, InvStep, PTL DEF Spec

\* A user whose saves neither overlapped nor stopped half way is a listed manager of his department
\* exactly when his role says so (UsersService with setManagerMembership), however many saves of other
\* users and edits of roles and departments run meanwhile.
THEOREM ManagersSafe == Spec => []ManagersFollowUsers
BY InvInit, InvStep, ListInvSafe, PTL DEF Spec

=============================================================================
