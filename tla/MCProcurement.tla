---------------------------- MODULE MCProcurement ----------------------------
(***************************************************************************)
(* Small instances of Procurement: catalog item t1 is tagged, c1 is        *)
(* counted; alice asks, bob and carol work in the warehouse.               *)
(***************************************************************************)
EXTENDS Procurement, TLC

CONSTANTS r1, r2, p1, p2, a1, a2, a3, c1, t1, alice, bob, carol, q1, q2

Handling == Permutations({q1, q2})
Pieces == Permutations({a1, a2, a3} \cap Asset)
Requests == Permutations({r1, r2})
HandlingPieces == Handling \cup Pieces
HandlingRequests == Handling \cup Requests

AllT1 == [a \in Asset |-> t1]
TaggedThenCounted == [k \in Line |-> IF k = 1 THEN t1 ELSE c1]
Tagged == [k \in Line |-> t1]
Counted == [k \in Line |-> c1]
TwoThenOne == [k \in Line |-> IF k = 1 THEN 2 ELSE 1]
OneEach == [k \in Line |-> 1]
BuysT1 == [p \in PR |-> t1]
BuysTwo == [p \in PR |-> 2]
AliceAsks == [r \in Request |-> alice]
BobBuys == [p \in PR |-> bob]
AliceAndBobBuy == [p \in PR |-> IF p = p1 THEN alice ELSE bob]
OneInStock == [c \in Consumable |-> 1]
ThreeInStock == [c \in Consumable |-> 3]
=============================================================================
