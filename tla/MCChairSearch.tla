---------------------------- MODULE MCChairSearch ----------------------------
(* Small instances of ChairSearch: five chairs that match, two of them of  *)
(* the same popularity and one of them posted by p1, two chairs just past  *)
(* the end of a range, and pages of two chairs.                            *)
EXTENDS ChairSearch, TLC

CONSTANTS b1, b2, p1, s1, s2

MCWant == [b \in Buyers |-> IF b = b1 THEN 1 ELSE 3]
NewChair == p1 :> <<[id |-> 2, stock |-> 1, parses |-> TRUE]>>
NoBatch == <<>>
MCFile ==
  <<(1 :> 1) @@ (3 :> 1), (4 :> 1) @@ (5 :> 1), (6 :> 1) @@ (7 :> 1)>>

MCColumns(pop, price, height, features) ==
  [popularity |-> pop, price |-> price, height |-> height, width |-> 80, depth |-> 150,
   kind |-> "zaisu", color |-> "black", features |-> features]
(* "arm height" stands for the feature whose name ends in the name of      *)
(* "height".                                                               *)
MCAttr ==
  <<MCColumns(7, 2999, 79, {"height"}), MCColumns(9, 2000, 79, {"height", "arm height"}),
    MCColumns(7, 1000, 30, {"height", "arm height"}), MCColumns(5, 2999, 79, {"height"}),
    MCColumns(4, 2500, 79, {"height", "arm height"}), MCColumns(8, 3000, 79, {"height"}),
    MCColumns(6, 2999, 80, {"height"})>>
NestedAttr == [MCAttr EXCEPT ![3].features = {"arm height"}]
Anything ==
  [price |-> {}, height |-> {}, width |-> {}, depth |-> {}, kind |-> {}, color |-> {},
   features |-> {}]
(* s1 sets several criteria, s2 none at all.                               *)
MCQuery ==
  [s \in Searchers |->
     IF s = s1
       THEN [Anything EXCEPT !.price = {0}, !.height = {0}, !.width = {1}, !.depth = {3},
                             !.color = {"black"}, !.features = {"height"}]
       ELSE Anything]
NamesApart == {<<"height", "height">>, <<"arm height", "arm height">>}
NamesNested == NamesApart \cup {<<"height", "arm height">>}
=============================================================================
