---------------------------- MODULE MCRoomBooking ----------------------------
(***************************************************************************)
(* Small instances of RoomBooking.  A tick stands for a few minutes.       *)
(***************************************************************************)
EXTENDS RoomBooking

CONSTANTS m1, q1, q2

S(f, t) == [from |-> f, till |-> t]

Overlapping == {S(0, 2), S(1, 2)}
Apart == {S(0, 1), S(1, 2)}
Singles == {<<s>> : s \in Slot}
OneOrBoth == {<<S(0, 1)>>, <<S(0, 1), S(1, 2)>>}

\* Both ends create; q1 also asks for another time.
Creating == [q \in Proc |-> IF q = q1 THEN {"create", "ask"} ELSE {"create"}]

\* q1 alone decides on bookings and moves them, q2 does the rest.
OneMover == [q \in Proc |-> IF q = q1 THEN {"approve", "reschedule", "reject"}
                            ELSE {"create", "cancel", "checkIn", "checkOut"}]
=============================================================================
