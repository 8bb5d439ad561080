-------------------------- MODULE RecommendedEstate --------------------------
(***************************************************************************)
(* GET /api/recommended_estate/:id of the Go application: the estates a    *)
(* chair can be carried into.  The reference implementations ask for the   *)
(* six ways two of the chair's sizes can meet a door with one OR; the Go   *)
(* application sorts the sizes and takes the union of two limited queries. *)
(* The tables of the two databases change while a request is served.       *)
(***************************************************************************)
EXTENDS EstateOrder

CONSTANTS
  Estates,  \* the rows the estate table may have, records with distinct ids
  Sizes,    \* the rows the chair table may have: chair id -> its three sizes
  Users,    \* the requests
  Asks,     \* the :id of each request
  Limit     \* the limit of the queries, 20 in main.go

Door == [id : Int, popularity : Int, width : Int, height : Int]

ASSUME EstatesAssumption ==
  /\ Estates \subseteq Door /\ IsFiniteSet(Estates)
  /\ \A e, f \in Estates : e.id = f.id => e = f
ASSUME SizesAssumption ==
  \A c \in DOMAIN Sizes : Sizes[c] \in [width : Int, depth : Int, height : Int]
ASSUME LimitAssumption == Limit \in Nat

VARIABLES
  estates,  \* the estate table of estateDB
  chairs,   \* the ids the chair table of chairDB has
  pc,       \* where each request's handler is
  status,   \* the status it answered with, 0 before that
  answer    \* the estates it answered with

tables == <<estates, chairs>>
recVars == <<estates, chairs, pc, status, answer>>

-----------------------------------------------------------------------------
Lower(x, y) == IF x <= y THEN x ELSE y
Upper(x, y) == IF x <= y THEN y ELSE x
(* sorted[0] and sorted[1] after slices.Sort.                              *)
L1(s) == Lower(s.width, Lower(s.depth, s.height))
L2(s) ==
  Lower(Upper(s.width, s.depth), Lower(Upper(s.depth, s.height), Upper(s.width, s.height)))

Admits(e, x, y) == e.width >= x /\ e.height >= y
(* Mutant: the second SELECT of the union repeats the first one's order.   *)
RecommendOneWay(S, s) ==
  Top(Top({e \in S : Admits(e, L1(s), L2(s))}, Limit)
        \cup Top({e \in S : Admits(e, L1(s), L2(s))}, Limit), Limit)
Recommend(S, s) ==
  Top(Top({e \in S : Admits(e, L1(s), L2(s))}, Limit)
        \cup Top({e \in S : Admits(e, L2(s), L1(s))}, Limit), Limit)

-----------------------------------------------------------------------------
RecInit ==
  /\ estates \in SUBSET Estates
  /\ chairs \in SUBSET (DOMAIN Sizes)
  /\ pc = [u \in Users |-> "chair"]
  /\ status = [u \in Users |-> 0]
  /\ answer = [u \in Users |-> {}]

Finish(u, s) ==
  /\ pc' = [pc EXCEPT ![u] = "done"]
  /\ status' = [status EXCEPT ![u] = s]

ReadChair(u) ==
  /\ pc[u] = "chair"
  /\ IF Asks[u] \in chairs
       THEN pc' = [pc EXCEPT ![u] = "estates"] /\ UNCHANGED status
       ELSE Finish(u, 400)
  /\ UNCHANGED <<tables, answer>>

(* One statement, so one snapshot of the table.                            *)
ReadEstates(u) ==
  /\ pc[u] = "estates"
  /\ Finish(u, 200)
  /\ answer' = [answer EXCEPT ![u] = Recommend(estates, Sizes[Asks[u]])]
  /\ UNCHANGED tables

ReadFails(u) ==
  /\ pc[u] \in {"chair", "estates"}
  /\ Finish(u, 500)
  /\ UNCHANGED <<tables, answer>>

(* postEstate and the data files of initialize insert rows, its schema     *)
(* file empties both tables.                                               *)
InsertEstates ==
  /\ \E new \in SUBSET (Estates \ estates) : estates' = estates \cup new
  /\ UNCHANGED <<chairs, pc, status, answer>>
InsertChairs ==
  /\ \E new \in SUBSET (DOMAIN Sizes \ chairs) : chairs' = chairs \cup new
  /\ UNCHANGED <<estates, pc, status, answer>>
TruncateTables ==
  /\ estates' = {} /\ chairs' = {}
  /\ UNCHANGED <<pc, status, answer>>

RecNext ==
  \/ \E u \in Users : ReadChair(u) \/ ReadEstates(u) \/ ReadFails(u)
  \/ InsertEstates \/ InsertChairs \/ TruncateTables

RecSpec == RecInit /\ [][RecNext]_recVars
-----------------------------------------------------------------------------
(* The tables hold rows they may have, and the answers are such rows.      *)
RecTypeOK ==
  /\ estates \subseteq Estates
  /\ chairs \subseteq DOMAIN Sizes
  /\ pc \in [Users -> {"chair", "estates", "done"}]
  /\ status \in [Users -> {0, 200, 400, 500}]
  /\ answer \in [Users -> SUBSET Estates]
  /\ \A u \in Users : pc[u] = "estates" => Asks[u] \in DOMAIN Sizes

(* What the reference implementations ask for: an estate whose door one of *)
(* the chair's faces passes, either way up.                                *)
Passes(e, s) ==
  \/ Admits(e, s.width, s.height) \/ Admits(e, s.width, s.depth)
  \/ Admits(e, s.height, s.width) \/ Admits(e, s.height, s.depth)
  \/ Admits(e, s.depth, s.width) \/ Admits(e, s.depth, s.height)
Reference(S, s) == Top({e \in S : Passes(e, s)}, Limit)

(* The union of the two limited queries is what the one query of the       *)
(* reference implementations would have answered on the same table: no     *)
(* estate that fits is displaced by the two limits.                        *)
AnswersLikeReference ==
  [][\A u \in Users :
       (status'[u] = 200 /\ status[u] = 0)
         => answer'[u] = Reference(estates, Sizes[Asks[u]])]_recVars
=============================================================================
