----------------------------- MODULE MCChairEdge -----------------------------
(* Small instances of ChairEdge: c1 is in the data file with one unit, c2  *)
(* is posted with one, and v3 asks for c2 by a URI Lua reads no listed id  *)
(* from.                                                                   *)
EXTENDS ChairEdge, TLC

CONSTANTS c1, c2, b1, b2, p1, v1, v2, v3

MCChairs == {c1, c2}
Wants == [b \in Buyers |-> IF b = b2 THEN c2 ELSE c1]
OneBatch == p1 :> <<[id |-> c2, stock |-> 1, parses |-> TRUE]>>
NoBatch == <<>>
OneRow == <<c1 :> 1>>

Uri(c, f) == [chair |-> c, form |-> f]
AllPlain == [v \in Viewers |-> Uri(c1, "plain")]
PostedZero == [v \in Viewers |-> Uri(c2, IF v = v3 THEN "zero" ELSE "plain")]

SamePlain == Permutations({v1, v2})
=============================================================================
