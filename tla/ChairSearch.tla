----------------------------- MODULE ChairSearch -----------------------------
(***************************************************************************)
(* GET /api/chair/search of the Go application and the search page of the  *)
(* frontend that walks through its pages.  searchChairs counts and selects *)
(* in two statements and every page is a request of its own, all of them   *)
(* interleaved with the writers of ChairShop.                              *)
(***************************************************************************)
EXTENDS ChairShop, Ranges

CONSTANTS
  Searchers,  \* visitors of the search page, one search each
  Attr,       \* the columns of each chair that are not its stock
  Query,      \* what each of them asks for; {} for a criterion left out
  PerPage,    \* ESTATE_COUNTS_PER_PAGE of the page, 20
  PartOf      \* <<f, g>> when the name of feature f is a part of g's

Fields == {"price", "height", "width", "depth", "kind", "color", "features"}
Lengths == {"height", "width", "depth"}
Names == {"kind", "color"}

ASSUME ChairsAssumption == Chairs \subseteq Int /\ IsFiniteSet(Chairs)
ASSUME AttrAssumption ==
  \A c \in Chairs :
    /\ Attr[c].popularity \in Int /\ Attr[c].price \in Int
    /\ \A f \in Lengths : Attr[c][f] \in Int
ASSUME PerPageAssumption == PerPage \in Nat \ {0}

VARIABLES
  spc,     \* where each searcher is
  page,    \* the page it is at
  count,   \* res.Count of its last request
  answer,  \* res.Chairs of its last request
  shown,   \* history: how often each chair was shown to it
  came,    \* history: the chairs that came to match since it searched
  left     \* history: the chairs that ceased to match since it searched

searchVars == <<spc, page, count, answer, shown>>
walkVars == <<vars, searchVars, came, left>>

-----------------------------------------------------------------------------
(* The WHERE clause without stock > 0.                                     *)
Fits(a, q) ==
  /\ \A i \in q.price : PriceRange(a.price) = i
  /\ \A f \in Lengths : \A i \in q[f] : SizeRange(a[f]) = i
  /\ \A f \in Names : \A x \in q[f] : a[f] = x
  /\ q.features \subseteq a.features

Matching(s) == {c \in Chairs : InStock(c) /\ Fits(Attr[c], Query[s])}

(* ORDER BY popularity DESC, id ASC LIMIT perPage OFFSET page * perPage.   *)
Before(c, d) ==
  \/ Attr[c].popularity > Attr[d].popularity
  \/ Attr[c].popularity = Attr[d].popularity /\ c < d
Ahead(S, c) == {d \in S : Before(d, c)}
(* Mutants: no LIMIT; OFFSET page. *)
PageToEnd(S, p) == {c \in S : Cardinality(Ahead(S, c)) >= p * PerPage}
PageUnscaled(S, p) == {c \in S : Cardinality(Ahead(S, c)) \in p .. p + PerPage - 1}
Page(S, p) == {c \in S : Cardinality(Ahead(S, c)) \in p * PerPage .. (p + 1) * PerPage - 1}

HasCondition(q) == \E f \in Fields : q[f] # {}

-----------------------------------------------------------------------------
SearchInit ==
  /\ Init
  /\ spc = [s \in Searchers |-> "idle"]
  /\ page = [s \in Searchers |-> 0]
  /\ count = [s \in Searchers |-> 0]
  /\ answer = [s \in Searchers |-> {}]
  /\ shown = [s \in Searchers |-> [c \in Chairs |-> 0]]
  /\ came = [s \in Searchers |-> {}]
  /\ left = [s \in Searchers |-> {}]

Moves(s, from, to) == spc[s] = from /\ spc' = [spc EXCEPT ![s] = to]

(* A request that fails has no JSON body: the page keeps its spinner.      *)
SearchArrive(s) ==
  /\ Moves(s, "idle", IF appUp /\ HasCondition(Query[s]) THEN "count" ELSE "failed")
  /\ UNCHANGED <<vars, page, count, answer, shown>>

SearchCount(s) ==
  /\ Moves(s, "count", "select")
  /\ count' = [count EXCEPT ![s] = Cardinality(Matching(s))]
  /\ UNCHANGED <<vars, page, answer, shown>>

SearchSelect(s) ==
  /\ Moves(s, "select", "reply")
  /\ answer' = [answer EXCEPT ![s] = Page(Matching(s), page[s])]
  /\ UNCHANGED <<vars, page, count, shown>>

SearchFails(s) ==
  /\ "db" \in Faults
  /\ Moves(s, "count", "failed") \/ Moves(s, "select", "failed")
  /\ UNCHANGED <<vars, page, count, answer, shown>>

(* Mutant: floor(count / perPage) pages. *)
IsLastRoundedDown(s) == page[s] + 1 >= count[s] \div PerPage
(* Pagination offers ceil(count / perPage) pages.                          *)
IsLast(s) == (page[s] + 1) * PerPage >= count[s]

Show(s) ==
  /\ Moves(s, "reply", IF IsLast(s) THEN "end" ELSE "shown")
  /\ shown' = [shown EXCEPT ![s] =
                 [c \in Chairs |-> IF c \in answer[s] THEN @[c] + 1 ELSE @[c]]]
  /\ UNCHANGED <<vars, page, count, answer>>

NextPage(s) ==
  /\ Moves(s, "shown", IF appUp THEN "count" ELSE "failed")
  /\ page' = [page EXCEPT ![s] = @ + 1]
  /\ UNCHANGED <<vars, count, answer, shown>>

SearchStep(s) ==
  \/ SearchArrive(s) \/ SearchCount(s) \/ SearchSelect(s) \/ SearchFails(s)
  \/ Show(s) \/ NextPage(s)

(* A step of ChairShop; the searches the process was serving end with it.  *)
Serving(s) == spc[s] \in {"count", "select", "reply"}
SearchShopStep ==
  /\ Next
  /\ spc' = [s \in Searchers |->
               IF appUp /\ ~appUp' /\ Serving(s) THEN "failed" ELSE spc[s]]
  /\ UNCHANGED <<page, count, answer, shown>>

Watch ==
  /\ came' = [s \in Searchers |->
                IF spc'[s] = "idle" THEN {} ELSE came[s] \cup (Matching(s)' \ Matching(s))]
  /\ left' = [s \in Searchers |->
                IF spc'[s] = "idle" THEN {} ELSE left[s] \cup (Matching(s) \ Matching(s)')]

SearchNext ==
  /\ (\E s \in Searchers : SearchStep(s)) \/ SearchShopStep
  /\ Watch

SearchSpec == SearchInit /\ [][SearchNext]_walkVars
-----------------------------------------------------------------------------
(* The variables of the search have the types the rest assumes, and a page *)
(* is never longer than perPage.                                           *)
SearchTypeOK ==
  /\ spc \in [Searchers -> {"idle", "count", "select", "reply", "shown", "end", "failed"}]
  /\ page \in [Searchers -> Nat] /\ count \in [Searchers -> Nat]
  /\ answer \in [Searchers -> SUBSET Chairs]
  /\ \A s \in Searchers : Cardinality(answer[s]) <= PerPage
  /\ shown \in [Searchers -> [Chairs -> Nat]]
  /\ came \in [Searchers -> SUBSET Chairs] /\ left \in [Searchers -> SUBSET Chairs]

(* Whoever walks to the last page has seen every chair that matched all    *)
(* the while, unless a chair before it in the order was sold out or put on *)
(* sale during the walk: neither the stale count nor a sale further down   *)
(* hides one.                                                              *)
WalkMissesOnlyShifted ==
  \A s \in Searchers : spc[s] = "end" =>
    \A c \in Matching(s) \ came[s] :
      shown[s][c] = 0 => \E d \in came[s] \cup left[s] : Before(d, c)

(* No chair is shown twice unless one before it was put on sale during the *)
(* walk: sales alone never repeat a chair.                                 *)
ShownTwiceOnlyIfShifted ==
  \A s \in Searchers : \A c \in Chairs :
    shown[s][c] > 1 => \E d \in came[s] : Before(d, c)

-----------------------------------------------------------------------------
(* What the reference implementations select: the ranges of the condition  *)
(* files, and features by LIKE.                                            *)
ReferenceFits(a, q) ==
  /\ \A i \in q.price : Within(RangeOf(PriceSeparators, i), a.price)
  /\ \A f \in Lengths : \A i \in q[f] : Within(RangeOf(SizeSeparators, i), a[f])
  /\ \A f \in Names : \A x \in q[f] : a[f] = x
  /\ \A x \in q.features : \E y \in a.features : <<x, y>> \in PartOf

(* The criteria the search page can offer: range ids of the conditions.    *)
KnownRanges(q) ==
  q.price \subseteq 0 .. 5 /\ \A f \in Lengths : q[f] \subseteq 0 .. 3

(* A page is the page the reference implementations would have answered on *)
(* the same table for the same request.                                    *)
PageLikeReference ==
  [][\A s \in Searchers :
       (KnownRanges(Query[s]) /\ spc[s] = "select" /\ spc'[s] = "reply")
         => answer'[s] =
              Page({c \in Chairs : InStock(c) /\ ReferenceFits(Attr[c], Query[s])},
                   page[s])]_walkVars
=============================================================================
