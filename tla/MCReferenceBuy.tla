---------------------------- MODULE MCReferenceBuy ----------------------------
(* Three buyers of a chair with two units: the first unit, the last one    *)
(* and a miss, with fewer connections than buyers.                         *)
EXTENDS ReferenceBuy, TLC

CONSTANTS c1, b1, b2, b3

MCWant == [b \in Buyers |-> c1]
TwoUnits == c1 :> 2
=============================================================================
