---------------------------- MODULE MCAssetLedger ----------------------------
(***************************************************************************)
(* Small instances of AssetLedger.                                         *)
(***************************************************************************)
EXTENDS AssetLedger, TLC

CONSTANTS i1, ann, ben, d1, q1, q2

BenAsks == [r \in Request |-> ben]
AllI1 == [r \in Request |-> i1]
AllOne == [r \in Request |-> 1]
SecondLike1 == {<<2, 1>>}
BothMembers == [d \in Department |-> {ann, ben}]
FirstWithD1 == {<<1, d1>>}

\* Bound: repairs and the collection of a request are explored apart.
RepairsApart == Repairs = 0 \/ \A r \in Request : got[r] = {}

\* q1 edits, corrects and recounts, both change statuses.
Handling == [q \in Proc |-> IF q = q1 THEN {"create", "recalculate", "setStatus", "adjust", "retype"} ELSE {"setStatus"}]
=============================================================================
