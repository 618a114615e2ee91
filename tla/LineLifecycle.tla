---------------------------- MODULE LineLifecycle ----------------------------
(***************************************************************************)
(* What the warehouse promises about the lines of a supply request,        *)
(* whatever handlers race on it: a line is decided while it is undecided,  *)
(* a READY line waits until it is collected, a collected line is final.    *)
(***************************************************************************)
EXTENDS SupplyLines

CONSTANTS Request, Line

VARIABLE line   \* [Request -> [Line -> LineStatus]]

Init == line = [r \in Request |-> [k \in Line |-> "WAITING"]]

\* A review, or goods arriving: undecided lines get a status.
Decide(r) ==
  \E f \in [Line -> LineStatus \ {"WAITING", "COLLECTED"}], K \in SUBSET Line :
    /\ \A k \in K : line[r][k] \in {"WAITING", "ON_ORDER", "REJECTED"}
    /\ line' = [line EXCEPT ![r] = [k \in Line |-> IF k \in K THEN f[k] ELSE @[k]]]

Collect(r) ==
  \E K \in SUBSET Line :
    /\ \A k \in K : line[r][k] = "READY"
    /\ line' = [line EXCEPT ![r] = [k \in Line |-> IF k \in K THEN "COLLECTED" ELSE @[k]]]

Next == \E r \in Request : Decide(r) \/ Collect(r)

Spec == Init /\ [][Next]_line
=============================================================================
