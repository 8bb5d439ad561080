----------------------------- MODULE MCChairShop -----------------------------
(* Small instances of ChairShop: two chairs, c1 in the data file with two  *)
(* units and c2 posted; or c1 with its last unit and c2 in the file.       *)
EXTENDS ChairShop, TLC

CONSTANTS c1, c2, b1, b2, b3, p1, p2

MCChairs == {c1, c2}
AllWantC1 == [b \in Buyers |-> c1]
BothWanted == (b1 :> c1) @@ (b2 :> c2)

Row(c, n) == [id |-> c, stock |-> n, parses |-> TRUE]
(* p1 posts c2 alone, p2 the same id and the one the data file has.        *)
ClashingBatches ==
  [p \in Posters |-> IF p = p1 THEN <<Row(c2, 1)>> ELSE <<Row(c2, 2), Row(c1, 1)>>]
NoBatch == <<>>

OneRow == <<c1 :> 2>>
TwoRows == <<c1 :> 1, c2 :> 2>>

BuyerSymmetry == Permutations(Buyers)
=============================================================================
