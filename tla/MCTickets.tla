----------------------------- MODULE MCTickets -----------------------------
(* Instances of Tickets for TLC. *)
EXTENDS Tickets

CONSTANTS desk, p1

\* Requests come one after the other; the job runs beside them.
AllRequests == [q \in Proc |-> {"create", "assign", "status"}]
\* All tickets are under one policy, which escalates a ticket once it is overdue.
OnlyOne == [t \in Ticket |-> p1]
Escalating == [p \in Policy |-> {0}]
\* All tickets go to one department.
OneDept == [t \in Ticket |-> 1]
=============================================================================
