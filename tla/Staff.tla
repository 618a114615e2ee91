------------------------------- MODULE Staff -------------------------------
(***************************************************************************)
(* Users, roles and departments: users/users.service.ts (create, update,   *)
(* remove, bulkImport), roles/roles.service.ts (create, remove) and        *)
(* departments/departments.service.ts (create, setManagerMembership,       *)
(* update, remove).                                                        *)
(*                                                                         *)
(* The name of a user's role and the manager lists of the departments are  *)
(* kept in different collections: a user with the role DEPT_MANAGER is     *)
(* meant to be listed as a manager of his own department and of no other.  *)
(* A save of a user writes the user first and the departments afterwards,  *)
(* one write each, while other administrators save other users, edit the   *)
(* lists by hand and delete roles and departments.                         *)
(*                                                                         *)
(* Abstracted: names, branches, passwords, permissions, ticket types, the  *)
(* audit log.  Roles and departments are their numbers (R001, DX001, ...). *)
(***************************************************************************)
EXTENDS Integers, FiniteSetsExt

CONSTANTS
  User,       \* identities a user document may get; an ObjectId never returns
  MaxRole,    \* bound: role numbers tried
  MaxDept,    \* bound: department numbers tried
  SystemRole, \* roles whose document has isSystemRole
  Admin,      \* saves of a user that may be under way at once
  None

ASSUME StaffAssumption ==
  /\ MaxRole \in Nat /\ MaxDept \in Nat
  /\ SystemRole \subseteq 1 .. MaxRole
  /\ None \notin Nat /\ None \notin User
  /\ None \notin [role : 1 .. MaxRole, dept : (1 .. MaxDept) \cup {None}]

Role == 1 .. MaxRole
Dept == 1 .. MaxDept
RoleName == {"DEPT_MANAGER", "STAFF"}

VARIABLES
  role,     \* [Role -> RoleName \cup {None}]: the roles collection
  manages,  \* [Dept -> (SUBSET User) \cup {None}]: managerIds of a department
  user,     \* [User -> record or None]: role and departmentId of a user
  born,     \* users ever created
  save,     \* [Admin -> record]: a create or update of a user under way
  byHand,   \* <<u, d>> whose listing was last changed by an edit of d
  astray    \* users whose lists a finished save does not account for

vars == <<role, manages, user, born, save, byHand, astray>>

Idle == [at |-> "idle", who |-> None, role |-> None, dept |-> None,
         leaves |-> None, joins |-> None, seen |-> {}]

\* roles.findOne(r).name, and the name populate('role') gives: none for a
\* role that was deleted
IsManager(r) == r # None /\ role[r] = "DEPT_MANAGER"
Departments == {d \in Dept : manages[d] # None}
Roles == {r \in Role : role[r] # None}

\* a save of u that has not yet written the user, and any save of u
Saving(u) == \E e \in Admin : save[e].who = u

TypeOK ==
  /\ role \in [Role -> RoleName \cup {None}]
  /\ manages \in [Dept -> (SUBSET User) \cup {None}]
  /\ user \in [User -> [role : Role, dept : Dept \cup {None}] \cup {None}]
  /\ \A u \in User : user[u] # None => u \in born
  /\ \A e \in Admin :
       /\ save[e].at \in {"idle", "insert", "write", "leave", "pull", "join", "add"}
       /\ save[e].at = "idle" <=> save[e] = Idle
       /\ save[e].at \in {"leave", "pull"} => save[e].leaves \in Dept
       /\ save[e].at \in {"join", "add"} => save[e].joins \in Dept
  /\ byHand \subseteq User \X Dept
  /\ astray \subseteq User

Init ==
  /\ role = [r \in Role |-> IF r = 1 THEN "STAFF"
                            ELSE IF r = 2 THEN "DEPT_MANAGER" ELSE None]
  /\ manages = [d \in Dept |-> {}]
  /\ user = [u \in User |-> None]
  /\ born = {}
  /\ save = [e \in Admin |-> Idle]
  /\ byHand = {}
  /\ astray = {}
----------------------------------------------------------------------------
(* Roles and departments                                                    *)

\* generateRoleId, generateId: one more than the highest number in use
After(used) == IF used = {} THEN 1 ELSE Max(used) + 1

\* roles.create: names are unique
CreateRole(n) ==
  /\ \A r \in Role : role[r] # n
  /\ After(Roles) <= MaxRole
  /\ role' = [role EXCEPT ![After(Roles)] = n]
  /\ UNCHANGED <<manages, user, born, save, byHand, astray>>

\* bulkImport, here and below: each row is a create of its own, and a row that
\* fails is reported while the next goes on.
ImportRole(n) == CreateRole(n)

\* roles.remove does not look for users of the role: what a later save reads
\* as their former role is then none
RemoveRole(r) ==
  /\ role[r] # None
  /\ r \notin SystemRole
  /\ role' = [role EXCEPT ![r] = None]
  /\ astray' = astray \cup {u \in User : user[u] # None /\ user[u].role = r}
                      \cup {save[e].who : e \in {x \in Admin : save[x].role = r}}
  /\ UNCHANGED <<manages, user, born, save, byHand>>

\* departments.create and update write the whole list
Edited(d, us) == byHand \cup (us \X {d})

CreateDept(list) ==
  LET d == After(Departments) IN
    /\ d <= MaxDept
    /\ manages' = [manages EXCEPT ![d] = list]
    /\ byHand' = Edited(d, User)
    /\ UNCHANGED <<role, user, born, save, astray>>

ImportDept(list) == CreateDept(list)

UpdateDept(d, list) ==
  /\ manages[d] # None
  /\ manages' = [manages EXCEPT ![d] = list]
  /\ byHand' = Edited(d, {u \in User : u \in list <=> u \notin manages[d]})
  /\ UNCHANGED <<role, user, born, save, astray>>

\* departments.remove: users keep their departmentId
RemoveDept(d) ==
  /\ manages[d] # None
  /\ manages' = [manages EXCEPT ![d] = None]
  /\ UNCHANGED <<role, user, born, save, byHand, astray>>
----------------------------------------------------------------------------
(* Saving a user                                                            *)

Goto(e, to) == save' = [save EXCEPT ![e] = to]

\* once the user is written: the department to join, before it the one to leave
Joins(s) ==
  IF s.joins = None THEN Idle
  ELSE [Idle EXCEPT !.at = "join", !.who = s.who, !.joins = s.joins]

Lists(s) ==
  IF s.leaves = None THEN Joins(s)
  ELSE [s EXCEPT !.at = "leave", !.role = None, !.dept = None]

\* create: the role exists, and a manager's department too
CreateBegin(e, u, r, d) ==
  /\ save[e].at = "idle"
  /\ u \notin born
  /\ role[r] # None
  /\ IsManager(r) => d \in Departments
  /\ born' = born \cup {u}
  /\ Goto(e, [Idle EXCEPT !.at = "insert", !.who = u, !.role = r, !.dept = d,
                          !.joins = IF IsManager(r) THEN d ELSE None])
  /\ UNCHANGED <<role, manages, user, byHand, astray>>

ImportUser(e, u, r, d) == CreateBegin(e, u, r, d)

CreateInsert(e) ==
  LET s == save[e] IN
    /\ s.at = "insert"
    /\ user' = [user EXCEPT ![s.who] = [role |-> s.role, dept |-> s.dept]]
    /\ Goto(e, Lists(s))
    /\ UNCHANGED <<role, manages, born, byHand, astray>>

\* which list the save must take the user off
Leaves(was, will, from, to) ==
  IF was /\ from # None /\ (~will \/ from # to) THEN from ELSE None

\* Two saves of one user that overlap are set aside: each computes the lists
\* to leave and to join from what it read.
Overlapping(u) == IF Saving(u) THEN astray \cup {u} ELSE astray

\* update: new role r or None, new department d or None (fields not given);
\* reads the role, the user and, for a manager, the department
UpdateBegin(e, u, r, d) ==
  LET was == IsManager(user[u].role)
      will == IsManager(IF r # None THEN r ELSE user[u].role)
      from == user[u].dept
      to == IF d # None THEN d ELSE from
  IN
    /\ save[e].at = "idle"
    /\ user[u] # None
    /\ r # None => role[r] # None
    /\ will /\ (r # None \/ d # None) => to \in Departments
    /\ astray' = Overlapping(u)
    /\ Goto(e, [at |-> "write", who |-> u, role |-> r, dept |-> d,
                leaves |-> Leaves(was, will, from, to),
                joins |-> IF will THEN to ELSE None, seen |-> {}])
    /\ UNCHANGED <<role, manages, user, born, byHand>>

UpdateWrite(e) ==
  LET s == save[e] IN
    /\ s.at = "write"
    /\ user[s.who] # None
    /\ user' = [user EXCEPT
                  ![s.who].role = IF s.role # None THEN s.role ELSE @,
                  ![s.who].dept = IF s.dept # None THEN s.dept ELSE @]
    /\ Goto(e, Lists(s))
    /\ UNCHANGED <<role, manages, born, byHand, astray>>

\* findByIdAndUpdate of a user removed meanwhile: NotFoundException
UpdateGone(e) ==
  /\ save[e].at = "write"
  /\ user[save[e].who] = None
  /\ Goto(e, Idle)
  /\ UNCHANGED <<role, manages, user, born, byHand, astray>>

\* setManagerMembership on the department to leave, then on the one to join
Target(s) == IF s.at \in {"leave", "pull"} THEN s.leaves ELSE s.joins
Joining(s) == s.at \in {"join", "add"}
NextList(s) == IF Joining(s) THEN Idle ELSE Joins(s)

\* the read; a list that already says so is left alone
MembershipRead(e) ==
  LET s == save[e]
      d == Target(s)
      already == s.who \in manages[d]
  IN
    /\ s.at \in {"leave", "join"}
    /\ d \in Departments
    /\ IF already = Joining(s)
         THEN /\ Goto(e, NextList(s))
              /\ byHand' = byHand \ {<<s.who, d>>}
         ELSE /\ Goto(e, [s EXCEPT !.at = IF Joining(s) THEN "add" ELSE "pull",
                                   !.seen = manages[d]])
              /\ UNCHANGED byHand
    /\ UNCHANGED <<role, manages, user, born, astray>>

ChangedAsRead(now, seen, u, add) == IF add THEN seen \cup {u} ELSE seen \ {u}

\* $addToSet and $pull change the list as it is now, not as it was read
Changed(now, seen, u, add) == IF add THEN now \cup {u} ELSE now \ {u}

MembershipWrite(e) ==
  LET s == save[e]
      d == Target(s)
  IN
    /\ s.at \in {"pull", "add"}
    /\ d \in Departments
    /\ manages' = [manages EXCEPT ![d] = Changed(@, s.seen, s.who, Joining(s))]
    /\ byHand' = byHand \ {<<s.who, d>>}
    /\ Goto(e, NextList(s))
    /\ UNCHANGED <<role, user, born, astray>>

\* The department is gone: NotFoundException, and the rest of the save, the
\* list to join included, is not done.  The user is written all the same.
MembershipGone(e) ==
  LET s == save[e] IN
    /\ s.at \in {"leave", "pull", "join", "add"}
    /\ Target(s) \notin Departments
    /\ astray' = IF Joining(s) THEN astray ELSE astray \cup {s.who}
    /\ Goto(e, Idle)
    /\ UNCHANGED <<role, manages, user, born, byHand>>

\* The server stops, or the database cannot be reached.
Crash(e) ==
  /\ save[e].at # "idle"
  /\ astray' = IF save[e].at \in {"insert", "write"} THEN astray
               ELSE astray \cup {save[e].who}
  /\ Goto(e, Idle)
  /\ UNCHANGED <<role, manages, user, born, byHand>>

\* remove: the lists that name the user keep his id
RemoveUser(u) ==
  /\ user[u] # None
  /\ user' = [user EXCEPT ![u] = None]
  /\ UNCHANGED <<role, manages, born, save, byHand, astray>>
----------------------------------------------------------------------------
Next ==
  \/ \E n \in RoleName : CreateRole(n) \/ ImportRole(n)
  \/ \E r \in Role : RemoveRole(r)
  \/ \E list \in SUBSET User : CreateDept(list) \/ ImportDept(list)
  \/ \E d \in Dept, list \in SUBSET User : UpdateDept(d, list)
  \/ \E d \in Dept : RemoveDept(d)
  \/ \E e \in Admin, u \in User, r \in Role, d \in Dept \cup {None} :
       CreateBegin(e, u, r, d) \/ ImportUser(e, u, r, d)
  \/ \E e \in Admin, u \in User, r \in Role \cup {None}, d \in Dept \cup {None} :
       UpdateBegin(e, u, r, d)
  \/ \E e \in Admin :
       \/ CreateInsert(e) \/ UpdateWrite(e) \/ UpdateGone(e)
       \/ MembershipRead(e) \/ MembershipWrite(e) \/ MembershipGone(e)
       \/ Crash(e)
  \/ \E u \in User : RemoveUser(u)

Spec == Init /\ [][Next]_vars
----------------------------------------------------------------------------
(* A user whose saves neither overlapped nor stopped half way is listed as *)
(* a manager of his department when his role is DEPT_MANAGER, and nowhere  *)
(* else, whatever the saves of other users did to the same lists meanwhile *)
(* (listings last written by an edit of the department set aside):         *)
(* UsersService.create and update with setManagerMembership.               *)
ManagersFollowUsers ==
  \A u \in User, d \in Departments :
    user[u] # None /\ ~Saving(u) /\ u \notin astray /\ <<u, d>> \notin byHand =>
      (u \in manages[d] <=> IsManager(user[u].role) /\ user[u].dept = d)
=============================================================================
