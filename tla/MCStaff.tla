------------------------------ MODULE MCStaff ------------------------------
(* Small instances of Staff. *)
EXTENDS Staff, TLC
CONSTANTS u1, u2, e1, e2
Symmetric == Permutations({u1, u2}) \cup Permutations({e1, e2})

\* BOUND: listings set by hand and users astray at the same time
FewExceptions == Cardinality(byHand) + 2 * Cardinality(astray) <= 2
=============================================================================
