----------------------------- MODULE MCEstates -----------------------------
(* Small instances of RecommendedEstate, of EstateShop and of the query    *)
(* builders.  They share no state, so a behaviour exercises one of them:   *)
(* the part.                                                               *)
EXTENDS RecommendedEstate, EstateShop, SqlBuilder, TLC

CONSTANTS p1, p2, p3

VARIABLE part

(* Five doors, two of them of one popularity, a limit of two and three     *)
(* users: they ask for a chair of three different sizes, for a long one    *)
(* and for one the chair table never has.                                  *)
MCDoor(i, p, w, h) == [id |-> i, popularity |-> p, width |-> w, height |-> h]
MCEstates == {MCDoor(1, 5, 2, 1), MCDoor(2, 7, 1, 2), MCDoor(3, 7, 2, 2),
              MCDoor(4, 6, 2, 3), MCDoor(5, 4, 3, 1)}
MCSizes == <<[width |-> 1, depth |-> 2, height |-> 3],
             [width |-> 2, depth |-> 3, height |-> 2]>>
MCAsks == [u \in Users |-> u]

(* Six estates on a grid: 1 to 3 in the two INSERTs of the data file, 4    *)
(* and 5 posted by p1, and by p2 4 and another with the id of 1; lengths   *)
(* and rents are at the ends of ranges, and the name of a feature of 4 is  *)
(* a part of one of 5.  A record of p3 does not parse.                     *)
MCLot(i, pop, rent, w, h, lat, lng, fs) ==
  [id |-> i, popularity |-> pop, rent |-> rent, width |-> w, height |-> h,
   lat |-> lat, lng |-> lng, features |-> fs]
L == <<MCLot(1, 5, 49999, 79, 110, 0, 0, {"garden"}), MCLot(2, 7, 50000, 80, 109, 1, 2, {"garden"}),
       MCLot(3, 7, 50000, 80, 80, 2, 0, {}), MCLot(4, 9, 50000, 80, 80, 1, 1, {"garden", "bath"}),
       MCLot(5, 4, 99999, 109, 80, 3, 3, {"garden", "bathroom"}), MCLot(1, 8, 50000, 80, 80, 1, 1, {})>>
MCLots == {L[i] : i \in 1 .. 6}
MCFileInserts == <<{L[1], L[2]}, {L[3]}>>
MCPartOf == {<<f, f>> : f \in {"garden", "bath", "bathroom"}} \cup {<<"bath", "bathroom">>}
Good == [i \in DOMAIN LotColumns |-> LotColumns[i]]
Broken == [Good EXCEPT ![6] = "text"]
Posted(i) == [lot |-> L[i], cells |-> Good]
MCBatch == (p1 :> <<Posted(4), Posted(5)>>) @@ (p2 :> <<Posted(4), Posted(6)>>)
           @@ (p3 :> <<Posted(4), [lot |-> L[5], cells |-> Broken]>>)

Plain ==
  [kind |-> "search", height |-> {}, width |-> {}, rent |-> {1}, features |-> {},
   page |-> 0, perPage |-> 2]
MCQuestions ==
  {[kind |-> "detail", id |-> 4], [kind |-> "detail", id |-> 9], [kind |-> "low"],
   [kind |-> "garbled", status |-> 500]}
  \cup {[Plain EXCEPT !.page = pg] : pg \in {-1, 0, 1, 4}}
  \cup {[Plain EXCEPT !.page = pg, !.perPage = -1] : pg \in {-1, 1}}
  \cup {[Plain EXCEPT !.width = {1}, !.height = {1}],
        [Plain EXCEPT !.features = {"garden"}, !.page = 1, !.perPage = 1],
        [Plain EXCEPT !.features = {"bath"}, !.perPage = 1],
        [Plain EXCEPT !.page = 4, !.perPage = 4], [Plain EXCEPT !.page = 2, !.perPage = 1],
        [Plain EXCEPT !.rent = {}], [Plain EXCEPT !.rent = {4}]}
  \cup {[kind |-> "nazotte", ring |-> r] : r \in
          {<<>>, <<<<1, 1>>>>, <<<<0, 0>>, <<2, 0>>, <<1, 2>>, <<0, 0>>>>,
           <<<<0, 0>>, <<3, 0>>, <<3, 3>>, <<0, 0>>>>, <<<<0, 0>>, <<3, 0>>, <<3, 3>>, <<0, 3>>>>,
           <<<<0, 0>>, <<3, 0>>, <<1, 1>>, <<3, 3>>, <<0, 2>>>>,
           <<<<1, 0>>, <<1, 2>>, <<1, 0>>>>}}

MCInit ==
  /\ RecInit /\ EstateInit /\ BuilderInit
  /\ part \in {"recommended", "shop", "builder"}
  /\ part # "recommended" => estates = {} /\ chairs = {}
MCNext ==
  \/ part = "recommended" /\ RecNext /\ UNCHANGED <<estateVars, builderVars, part>>
  \/ part = "shop" /\ EstateNext /\ UNCHANGED <<recVars, builderVars, part>>
  \/ part = "builder" /\ BuilderNext /\ UNCHANGED <<recVars, estateVars, part>>
MCSpec == MCInit /\ [][MCNext]_<<recVars, estateVars, builderVars, part>>

(* All parts keep their types.                                             *)
EstatesTypeOK == RecTypeOK /\ EstateTypeOK /\ BuilderTypeOK
=============================================================================
