---------------------------- MODULE MCRoomInvites ----------------------------
(* Instances of RoomInvites for TLC. *)
EXTENDS RoomInvites, TLC

CONSTANTS s1, s2, ann, bob

\* ann has an account with both contacts on file; she may also be typed, with or without a contact.
OnFileOf == [p \in {ann} |-> Contact]
Names(p, contacts) == {[p |-> p, account |-> FALSE, by |-> c] : c \in contacts}
ByHost == Names(ann, {{}, {"phone"}, {"email"}})
ByGuest == Names(ann, {{"phone"}}) \cup Names(bob, {{}})

Scanning == Permutations({s1, s2})

\* BOUND: guests ever listed and admissions, together
FewRows == 2 * Len(guests) + Len(checkIns) <= 6
=============================================================================
