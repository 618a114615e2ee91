----------------------------- MODULE SupplyLines -----------------------------
(***************************************************************************)
(* Line statuses of a supply request and the request status derived from   *)
(* them (src/common/utils/supply-line-status.util.ts).  The derived status *)
(* depends only on WHICH line statuses occur, so the operators take the    *)
(* set of statuses present in a request, never the array of lines.         *)
(***************************************************************************)

LineStatus == {"WAITING", "READY", "ON_ORDER", "REJECTED", "COLLECTED"}

\* "NONE" is a request that has not been created; FULFILLED, the deprecated
\* alias of CLOSED, is never written by the present code.
RequestStatus == {"NONE", "PENDING_MANAGER", "NEEDS_REVISION", "REQUESTED",
                  "APPROVED", "ORDERED", "PARTIALLY_RECEIVED", "CLOSED", "REJECTED"}

OpenStatus == {"APPROVED", "ORDERED", "PARTIALLY_RECEIVED"}

\* Goods may still be added to such a request, and its lines still reviewed.
HandoverStatus == OpenStatus \cup {"REQUESTED"}

IsLineTracked(present) == present \ {"WAITING"} # {}

DeriveSupplyStatus(present) ==
  CASE present = {"REJECTED"} -> "REJECTED"
    [] present = {"WAITING"} -> "REQUESTED"
    [] "COLLECTED" \in present /\ present \subseteq {"COLLECTED", "REJECTED"} -> "CLOSED"
    [] "COLLECTED" \in present /\ ~(present \subseteq {"COLLECTED", "REJECTED"}) -> "PARTIALLY_RECEIVED"
    [] "READY" \in present /\ "COLLECTED" \notin present -> "APPROVED"
    [] OTHER -> "ORDERED"
=============================================================================
