------------------------------ MODULE MCLogin ------------------------------
(* Instances of Login for TLC. *)
EXTENDS Login, TLC

CONSTANTS c1, c2

Clients == Permutations({c1, c2})

\* Bound: of the locks, the changes of the account and those of the role, so many in one behaviour.
FewChanges == locks + version + roles <= 1

\* Bound: codes are mailed, wrong and counted for one key at a time.
Waits(k) == \E q \in DOMAIN op : op[q] = [do |-> "wrongcode", key |-> k]
OneKey == Cardinality({k \in Key : k \in mail \/ fails[k] > 0 \/ Waits(k)}) <= 1

\* Bound: wrong codes and changes of the role are explored apart.
CodesOrRoles == roles = 0 \/ \A k \in Key : fails[k] = 0 /\ ~Waits(k)
=============================================================================
