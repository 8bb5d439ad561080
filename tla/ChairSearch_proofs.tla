-------------------------- MODULE ChairSearch_proofs --------------------------
(* Theorems about ChairSearch: the range columns and the WHERE clause are  *)
(* those of the reference implementations, and what a visitor who walks    *)
(* through the pages may miss or see twice, for every table, order, page   *)
(* length and number of visitors, buyers, posts and initializes.           *)
EXTENDS ChairSearch, Operators_proofs, FiniteSetTheorems, TLAPS

-----------------------------------------------------------------------------
(* The order of the pages.                                                 *)

(* The number of rows before a row is a number, and grows with the rows.   *)
LEMMA RankMonotone ==
  ASSUME NEW S, NEW T, S \subseteq T, T \subseteq Chairs, NEW c
  PROVE  /\ Cardinality(Ahead(S, c)) \in Nat /\ Cardinality(Ahead(T, c)) \in Nat
         /\ Cardinality(Ahead(S, c)) <= Cardinality(Ahead(T, c))
<1>1. Ahead(S, c) \subseteq Ahead(T, c) /\ Ahead(T, c) \subseteq Chairs
  BY DEF Ahead
<1>2. IsFiniteSet(Ahead(T, c))
  BY <1>1, ChairsAssumption, FS_Subset
<1> QED
  BY <1>1, <1>2, FS_Subset, FS_CardinalityType

(* Popularity and id order the rows of a table strictly, so no two of them *)
(* have the same place.                                                    *)
LEMMA RankDistinct ==
  ASSUME NEW S, S \subseteq Chairs, NEW c \in S, NEW d \in S, c # d
  PROVE  Cardinality(Ahead(S, c)) # Cardinality(Ahead(S, d))
<1>1. \A x \in Chairs : x \in Int /\ Attr[x].popularity \in Int
  BY ChairsAssumption, AttrAssumption
<1>2. ASSUME NEW x \in S, NEW y \in S, Before(x, y)
      PROVE  Cardinality(Ahead(S, x)) < Cardinality(Ahead(S, y))
  <2>1. Ahead(S, x) \subseteq Ahead(S, y)
    BY <1>1, <1>2 DEF Ahead, Before
  <2>2. x \in Ahead(S, y) /\ x \notin Ahead(S, x)
    BY <1>1, <1>2 DEF Ahead, Before
  <2>3. IsFiniteSet(Ahead(S, y))
    BY ChairsAssumption, FS_Subset DEF Ahead
  <2>4. Cardinality(Ahead(S, x)) <= Cardinality(Ahead(S, y))
        /\ Cardinality(Ahead(S, x)) # Cardinality(Ahead(S, y))
    BY <2>1, <2>2, <2>3, FS_Subset
  <2>5. Cardinality(Ahead(S, x)) \in Nat /\ Cardinality(Ahead(S, y)) \in Nat
    BY RankMonotone
  <2> QED
    BY <2>4, <2>5
<1>3. Before(c, d) \/ Before(d, c)
  BY <1>1 DEF Before
<1>4. Cardinality(Ahead(S, c)) \in Nat /\ Cardinality(Ahead(S, d)) \in Nat
  BY RankMonotone
<1> QED
  BY <1>2, <1>3, <1>4

LEMMA PageBounds ==
  ASSUME NEW p \in Nat
  PROVE  /\ p * PerPage \in Nat /\ (p + 1) * PerPage \in Nat
         /\ (p + 1) * PerPage = p * PerPage + PerPage
         /\ p * PerPage <= (p + 1) * PerPage
BY PerPageAssumption

(* LIMIT perPage.                                                          *)
LEMMA PageSize ==
  ASSUME NEW S, S \subseteq Chairs, NEW p \in Nat
  PROVE  Page(S, p) \subseteq S /\ Cardinality(Page(S, p)) <= PerPage
<1> DEFINE lo == p * PerPage
           hi == (p + 1) * PerPage - 1
           rank == [c \in Page(S, p) |-> Cardinality(Ahead(S, c))]
<1>1. lo \in Int /\ hi \in Int /\ hi - lo + 1 = PerPage /\ PerPage > 0
  BY PageBounds, PerPageAssumption
<1>2. Page(S, p) \subseteq S /\ rank \in [Page(S, p) -> lo .. hi]
  BY DEF Page
<1>3. \A c, d \in Page(S, p) : c # d => rank[c] # rank[d]
  BY <1>2, RankDistinct
<1>4. rank \in Injection(Page(S, p), lo .. hi)
  BY <1>2, <1>3 DEF Injection, IsInjective
<1>5. IsFiniteSet(lo .. hi) /\ Cardinality(lo .. hi) = PerPage
  <2>1. \A x, y \in Int : IsFiniteSet(x .. y) /\ Cardinality(x .. y) = IF x > y THEN 0 ELSE y - x + 1
    BY FS_Interval
  <2> HIDE DEF lo, hi
  <2>2. lo <= hi
    BY <1>1
  <2> QED
    BY <1>1, <2>1, <2>2
<1>6. Cardinality(Page(S, p)) <= Cardinality(lo .. hi)
  <2> HIDE DEF lo, hi, rank
  <2> QED
    BY <1>4, <1>5, FS_Injection
<1> QED
  BY <1>2, <1>5, <1>6

LEMMA MatchingChairs ==
  ASSUME NEW s \in Searchers
  PROVE  /\ Matching(s) \subseteq Chairs /\ Cardinality(Matching(s)) \in Nat
         /\ IsFiniteSet(Matching(s))
BY ChairsAssumption, FS_Subset, FS_CardinalityType DEF Matching

(* The search's variables have their types, and no page is longer than     *)
(* perPage.                                                                *)
THEOREM SearchTypeCorrect == SearchSpec => []SearchTypeOK
<1>1. SearchInit => SearchTypeOK
  BY FS_EmptySet, PerPageAssumption DEF SearchInit, SearchTypeOK
<1>2. ASSUME SearchTypeOK, [SearchNext]_walkVars PROVE SearchTypeOK'
  <2>1. CASE UNCHANGED walkVars
    BY <1>2, <2>1 DEF SearchTypeOK, walkVars, searchVars
  <2>2. CASE SearchNext
    <3>1. came' \in [Searchers -> SUBSET Chairs] /\ left' \in [Searchers -> SUBSET Chairs]
      BY <1>2, <2>2 DEF SearchNext, Watch, SearchTypeOK, Matching
    <3> DEFINE Rest ==
          /\ spc' \in [Searchers -> {"idle", "count", "select", "reply", "shown", "end", "failed"}]
          /\ page' \in [Searchers -> Nat] /\ count' \in [Searchers -> Nat]
          /\ answer' \in [Searchers -> SUBSET Chairs]
          /\ \A s \in Searchers : Cardinality(answer'[s]) <= PerPage
          /\ shown' \in [Searchers -> [Chairs -> Nat]]
    <3>2. CASE SearchShopStep
      BY <1>2, <3>1, <3>2 DEF SearchShopStep, SearchTypeOK
    <3>3. ASSUME NEW s \in Searchers, SearchStep(s) PROVE Rest
      <4>1. CASE SearchArrive(s)
        BY <1>2, <4>1 DEF SearchArrive, Moves, SearchTypeOK
      <4>2. CASE SearchCount(s)
        BY <1>2, <4>2, MatchingChairs DEF SearchCount, Moves, SearchTypeOK
      <4>3. CASE SearchSelect(s)
        <5>1. /\ Page(Matching(s), page[s]) \subseteq Chairs
              /\ Cardinality(Page(Matching(s), page[s])) <= PerPage
          BY <1>2, PageSize, MatchingChairs DEF SearchTypeOK
        <5> QED
          BY <1>2, <4>3, <5>1 DEF SearchSelect, Moves, SearchTypeOK
      <4>4. CASE SearchFails(s)
        BY <1>2, <4>4 DEF SearchFails, Moves, SearchTypeOK
      <4>5. CASE Show(s)
        BY <1>2, <4>5 DEF Show, Moves, SearchTypeOK
      <4>6. CASE NextPage(s)
        BY <1>2, <4>6 DEF NextPage, Moves, SearchTypeOK
      <4> QED
        BY <3>3, <4>1, <4>2, <4>3, <4>4, <4>5, <4>6 DEF SearchStep
    <3>4. Rest
      BY <2>2, <3>2, <3>3, <1>2 DEF SearchNext, SearchShopStep, SearchTypeOK
    <3> QED
      BY <3>1, <3>4 DEF SearchTypeOK
  <2> QED
    BY <1>2, <2>1, <2>2
<1> QED
  BY <1>1, <1>2, PTL DEF SearchSpec

-----------------------------------------------------------------------------
(* The WHERE clause.                                                       *)

(* No feature that is asked for has a name that is a part of another       *)
(* feature's of a chair.                                                   *)
NamesAreApart ==
  \A s \in Searchers : \A f \in Query[s].features :
    \A c \in Chairs : \A g \in Attr[c].features : <<f, g>> \in PartOf <=> f = g

LEMMA FitsIsReference ==
  ASSUME NamesAreApart, NEW c \in Chairs, NEW s \in Searchers, KnownRanges(Query[s])
  PROVE  Fits(Attr[c], Query[s]) <=> ReferenceFits(Attr[c], Query[s])
<1> DEFINE a == Attr[c]
           q == Query[s]
<1>1. a.price \in Int /\ \A f \in Lengths : a[f] \in Int
  BY AttrAssumption
<1>2. \A i \in q.price : PriceRange(a.price) = i <=> Within(RangeOf(PriceSeparators, i), a.price)
  BY <1>1, PriceRangeIsReference DEF KnownRanges
<1>3. \A f \in Lengths : \A i \in q[f] :
        SizeRange(a[f]) = i <=> Within(RangeOf(SizeSeparators, i), a[f])
  BY <1>1, SizeRangeIsReference DEF KnownRanges
<1>4. q.features \subseteq a.features
        <=> \A x \in q.features : \E y \in a.features : <<x, y>> \in PartOf
  <2>1. ASSUME NEW x \in q.features
        PROVE  (\E y \in a.features : <<x, y>> \in PartOf) <=> x \in a.features
    <3>1. \A y \in a.features : <<x, y>> \in PartOf <=> x = y
      BY DEF NamesAreApart
    <3> QED
      BY <3>1
  <2> QED
    BY <2>1
<1> QED
  BY <1>2, <1>3, <1>4 DEF Fits, ReferenceFits

(* When no requested feature's name is a part of the name of another       *)
(* feature a chair has, every page searchChairs answers is the page of the *)
(* reference implementations.                                              *)
THEOREM PagesAreReference == NamesAreApart => (SearchSpec => PageLikeReference)
<1> SUFFICES ASSUME NamesAreApart PROVE SearchSpec => PageLikeReference
  OBVIOUS
<1>1. ASSUME SearchTypeOK, [SearchNext]_walkVars
      PROVE  [\A s \in Searchers :
                (KnownRanges(Query[s]) /\ spc[s] = "select" /\ spc'[s] = "reply")
                  => answer'[s] =
                       Page({c \in Chairs : InStock(c) /\ ReferenceFits(Attr[c], Query[s])},
                            page[s])]_walkVars
  <2>1. SUFFICES ASSUME NEW s \in Searchers,
                        KnownRanges(Query[s]), spc[s] = "select", spc'[s] = "reply"
                 PROVE  answer'[s] =
                          Page({c \in Chairs : InStock(c) /\ ReferenceFits(Attr[c], Query[s])},
                               page[s])
    OBVIOUS
  <2>2. ~UNCHANGED walkVars
    BY <2>1 DEF walkVars, searchVars
  <2>3. ~SearchShopStep
    BY <2>1 DEF SearchShopStep
  <2>4. ASSUME NEW t \in Searchers, SearchStep(t) PROVE SearchSelect(s)
    BY <1>1, <2>1, <2>4
       DEF SearchStep, SearchArrive, SearchCount, SearchSelect, SearchFails, Show, NextPage,
           Moves, SearchTypeOK
  <2>5. SearchSelect(s)
    BY <1>1, <2>2, <2>3, <2>4 DEF SearchNext
  <2>6. Matching(s) = {c \in Chairs : InStock(c) /\ ReferenceFits(Attr[c], Query[s])}
    BY <2>1, FitsIsReference DEF Matching
  <2> QED
    BY <1>1, <2>5, <2>6 DEF SearchSelect, SearchTypeOK
<1>2. SearchSpec => []SearchTypeOK
  BY SearchTypeCorrect
<1> QED
  BY <1>1, <1>2, PTL DEF SearchSpec, PageLikeReference

-----------------------------------------------------------------------------
(* The walk through the pages.                                             *)

Rank(s, c) == Cardinality(Ahead(Matching(s), c))
NothingCameBefore(s, c) == \A d \in came[s] : ~Before(d, c)
NothingLeftBefore(s, c) == \A d \in left[s] : ~Before(d, c)

StartInv ==
  \A s \in Searchers :
    spc[s] = "idle" => page[s] = 0 /\ \A c \in Chairs : shown[s][c] = 0

(* A chair not shown yet, none before it having moved, is on a page still  *)
(* to come, and the count knows of it.                                     *)
AheadOfTheWalk(s, c) ==
  /\ spc[s] \in {"count", "select"} => page[s] * PerPage <= Rank(s, c)
  /\ spc[s] \in {"select", "reply"} => Rank(s, c) < count[s]
  /\ spc[s] = "reply" /\ c \notin answer[s] => (page[s] + 1) * PerPage <= Rank(s, c)
  /\ spc[s] = "shown" => (page[s] + 1) * PerPage <= Rank(s, c)
  /\ spc[s] # "end"
MissInv ==
  \A s \in Searchers : \A c \in Matching(s) \ came[s] :
    (NothingCameBefore(s, c) /\ NothingLeftBefore(s, c) /\ shown[s][c] = 0)
      => AheadOfTheWalk(s, c)

(* A chair shown before, none having come before it, is on a page already  *)
(* walked through.                                                         *)
BehindTheWalk(s, c) ==
  /\ spc[s] \in {"count", "select", "reply"} => Rank(s, c) < page[s] * PerPage
  /\ spc[s] = "shown" => Rank(s, c) < (page[s] + 1) * PerPage
  /\ spc[s] = "reply" => c \notin answer[s]
TwiceInv ==
  \A s \in Searchers : \A c \in Chairs : NothingCameBefore(s, c) =>
    /\ shown[s][c] <= 1
    /\ shown[s][c] > 0 => BehindTheWalk(s, c)
    /\ spc[s] = "reply" /\ c \in answer[s] => Rank(s, c) < (page[s] + 1) * PerPage

WalkInv == SearchTypeOK /\ StartInv /\ MissInv /\ TwiceInv

(* What a step does not do to the walk of s, it does not do at all, but    *)
(* for the crash that ends it.                                             *)
Bystander(s) ==
  /\ spc'[s] = spc[s] \/ spc'[s] = "failed"
  /\ page'[s] = page[s] /\ count'[s] = count[s]
  /\ answer'[s] = answer[s] /\ shown'[s] = shown[s]

LEMMA WhoseStep ==
  ASSUME SearchTypeOK, SearchNext, NEW s \in Searchers
  PROVE  SearchStep(s) \/ Bystander(s)
<1>1. ASSUME SearchShopStep PROVE Bystander(s)
  BY <1>1 DEF SearchShopStep, Bystander, SearchTypeOK
<1>2. ASSUME NEW t \in Searchers, t # s, SearchStep(t) PROVE Bystander(s)
  BY <1>2 DEF SearchStep, SearchArrive, SearchCount, SearchSelect, SearchFails, Show, NextPage,
              Moves, Bystander, SearchTypeOK
<1> QED
  BY <1>1, <1>2 DEF SearchNext

(* The searchers read the table.                                           *)
LEMMA SearchersOnlyRead ==
  ASSUME NEW s \in Searchers, SearchStep(s), NEW t \in Searchers
  PROVE  Matching(t)' = Matching(t) /\ \A c : Rank(t, c)' = Rank(t, c)
<1>1. rows' = rows /\ stock' = stock
  BY DEF SearchStep, SearchArrive, SearchCount, SearchSelect, SearchFails, Show, NextPage,
         vars, tableVars
<1>2. Matching(t)' = Matching(t)
  BY <1>1 DEF Matching, InStock
<1> QED
  BY <1>2 DEF Rank, Ahead, Before

(* A chair nothing came before has no more chairs before it than it had.   *)
LEMMA RankNeverGrows ==
  ASSUME SearchTypeOK, SearchNext, NEW s \in Searchers, spc'[s] # "idle",
         NEW c \in Chairs, NothingCameBefore(s, c)'
  PROVE  NothingCameBefore(s, c) /\ Rank(s, c)' <= Rank(s, c)
         /\ Rank(s, c) \in Nat /\ Rank(s, c)' \in Nat
<1>1. came'[s] = came[s] \cup (Matching(s)' \ Matching(s))
  BY DEF SearchNext, Watch
<1>2. NothingCameBefore(s, c)
  BY <1>1 DEF NothingCameBefore, Before
<1>3. \A d \in Matching(s)' : Before(d, c) => d \in Matching(s)
  BY <1>1 DEF NothingCameBefore, Before
<1>4. Ahead(Matching(s)', c) \subseteq Ahead(Matching(s), c)
  BY <1>3 DEF Ahead
<1>5. Matching(s) \subseteq Chairs /\ Matching(s)' \subseteq Chairs
  BY DEF Matching
<1>6. Ahead(Ahead(Matching(s)', c), c) = Ahead(Matching(s)', c)
      /\ Ahead(Matching(s)', c) \subseteq Matching(s)
  BY <1>4 DEF Ahead
<1>7. Ahead(Matching(s), c)' = Ahead(Matching(s)', c)
  BY DEF Ahead, Before
<1> QED
  BY <1>2, <1>5, <1>6, <1>7, RankMonotone DEF Rank

(* A chair nothing moved before has the chairs before it that it had.      *)
LEMMA RankStays ==
  ASSUME SearchTypeOK, SearchNext, NEW s \in Searchers, spc'[s] # "idle",
         NEW c \in Matching(s)' \ came'[s],
         NothingCameBefore(s, c)', NothingLeftBefore(s, c)'
  PROVE  c \in Matching(s) \ came[s] /\ NothingCameBefore(s, c) /\ NothingLeftBefore(s, c)
         /\ Rank(s, c)' = Rank(s, c) /\ Rank(s, c) \in Nat
<1>1. /\ came'[s] = came[s] \cup (Matching(s)' \ Matching(s))
      /\ left'[s] = left[s] \cup (Matching(s) \ Matching(s)')
  BY DEF SearchNext, Watch
<1>2. c \in Matching(s) \ came[s] /\ NothingCameBefore(s, c) /\ NothingLeftBefore(s, c)
  BY <1>1 DEF NothingCameBefore, NothingLeftBefore, Before
<1>3. \A d : Before(d, c) => (d \in Matching(s)' <=> d \in Matching(s))
  BY <1>1 DEF NothingCameBefore, NothingLeftBefore, Before
<1>4. Ahead(Matching(s), c)' = Ahead(Matching(s), c)
  BY <1>3 DEF Ahead, Before
<1>5. Matching(s) \subseteq Chairs
  BY DEF Matching
<1> QED
  BY <1>2, <1>4, <1>5, RankMonotone DEF Rank

LEMMA StartStep ==
  ASSUME SearchTypeOK, StartInv, SearchNext
  PROVE  StartInv'
<1>1. SUFFICES ASSUME NEW s \in Searchers, spc'[s] = "idle"
               PROVE  page'[s] = 0 /\ \A c \in Chairs : shown'[s][c] = 0
  BY DEF StartInv
<1>2. ~SearchStep(s)
  BY <1>1 DEF SearchTypeOK, SearchStep, SearchArrive, SearchCount, SearchSelect, SearchFails,
              Show, NextPage, Moves
<1>3. Bystander(s)
  BY <1>2, WhoseStep
<1> QED
  BY <1>1, <1>3 DEF Bystander, StartInv

LEMMA MissStep ==
  ASSUME SearchTypeOK, StartInv, MissInv, SearchNext
  PROVE  MissInv'
<1>1. SUFFICES ASSUME NEW s \in Searchers, NEW c \in Matching(s)' \ came'[s],
                      NothingCameBefore(s, c)', NothingLeftBefore(s, c)', shown'[s][c] = 0
               PROVE  AheadOfTheWalk(s, c)'
  BY DEF MissInv
<1>2. CASE spc'[s] = "idle"
  BY <1>2 DEF AheadOfTheWalk
<1>3. CASE spc'[s] # "idle"
  <2>1. /\ c \in Matching(s) \ came[s]
        /\ NothingCameBefore(s, c) /\ NothingLeftBefore(s, c)
        /\ Rank(s, c)' = Rank(s, c) /\ Rank(s, c) \in Nat
    BY <1>1, <1>3, RankStays
  <2>2. c \in Chairs /\ page[s] \in Nat /\ count[s] \in Nat /\ shown[s][c] \in Nat
    BY <2>1 DEF SearchTypeOK, Matching
  <2>3. shown[s][c] = 0 => AheadOfTheWalk(s, c)
    BY <2>1 DEF MissInv
  <2>4. /\ page[s] * PerPage \in Nat /\ (page[s] + 1) * PerPage \in Nat
    BY <2>2, PageBounds
  <2>5. CASE Bystander(s)
    BY <1>1, <2>1, <2>3, <2>5 DEF Bystander, AheadOfTheWalk
  <2>6. CASE SearchArrive(s)
    <3>1. page'[s] * PerPage = 0 /\ shown[s][c] = 0
      BY <2>2, <2>6, PerPageAssumption DEF SearchArrive, Moves, StartInv
    <3> QED
      BY <2>1, <2>6, <3>1 DEF SearchArrive, Moves, AheadOfTheWalk, SearchTypeOK
  <2>7. CASE SearchCount(s)
    <3>1. /\ Ahead(Matching(s), c) \subseteq Matching(s)
          /\ c \in Matching(s) /\ c \notin Ahead(Matching(s), c)
      BY <2>1, <2>2, ChairsAssumption, AttrAssumption DEF Ahead, Before
    <3>2. Rank(s, c) < Cardinality(Matching(s))
      <4>1. /\ Rank(s, c) <= Cardinality(Matching(s))
            /\ Rank(s, c) # Cardinality(Matching(s))
        BY <3>1, MatchingChairs, FS_Subset DEF Rank
      <4> QED
        BY <2>1, <4>1, MatchingChairs
    <3>3. shown[s][c] = 0 /\ count'[s] = Cardinality(Matching(s)) /\ page'[s] = page[s]
          /\ spc[s] = "count" /\ spc'[s] = "select"
      BY <1>1, <2>7 DEF SearchCount, Moves, SearchTypeOK
    <3> QED
      BY <2>1, <2>3, <3>2, <3>3 DEF AheadOfTheWalk
  <2>8. CASE SearchSelect(s)
    <3>1. /\ shown[s][c] = 0 /\ count'[s] = count[s] /\ page'[s] = page[s]
          /\ spc[s] = "select" /\ spc'[s] = "reply"
          /\ answer'[s] = Page(Matching(s), page[s])
      BY <1>1, <2>8 DEF SearchSelect, Moves, SearchTypeOK
    <3>2. page[s] * PerPage <= Rank(s, c) /\ Rank(s, c) < count[s]
      BY <2>3, <3>1 DEF AheadOfTheWalk
    <3>3. c \notin answer'[s] => (page[s] + 1) * PerPage <= Rank(s, c)
      BY <2>1, <2>4, <3>1, <3>2 DEF Page, Rank
    <3> QED
      BY <2>1, <3>1, <3>2, <3>3 DEF AheadOfTheWalk
  <2>9. CASE SearchFails(s)
    BY <2>9 DEF SearchFails, Moves, AheadOfTheWalk, SearchTypeOK
  <2>10. CASE Show(s)
    <3>1. /\ page'[s] = page[s] /\ spc[s] = "reply"
          /\ spc'[s] = IF IsLast(s) THEN "end" ELSE "shown"
          /\ shown'[s][c] = IF c \in answer[s] THEN shown[s][c] + 1 ELSE shown[s][c]
      BY <2>2, <2>10 DEF Show, Moves, SearchTypeOK
    <3>2. c \notin answer[s] /\ shown[s][c] = 0
      BY <1>1, <2>2, <3>1
    <3>3. (page[s] + 1) * PerPage <= Rank(s, c) /\ Rank(s, c) < count[s]
      BY <2>3, <3>1, <3>2 DEF AheadOfTheWalk
    <3>4. ~IsLast(s)
      BY <2>1, <2>2, <2>4, <3>3 DEF IsLast
    <3> QED
      BY <2>1, <3>1, <3>3, <3>4 DEF AheadOfTheWalk
  <2>11. CASE NextPage(s)
    <3>1. /\ page'[s] = page[s] + 1 /\ spc[s] = "shown" /\ shown[s][c] = 0
          /\ spc'[s] \in {"count", "failed"}
      BY <1>1, <2>11 DEF NextPage, Moves, SearchTypeOK
    <3>2. (page[s] + 1) * PerPage <= Rank(s, c)
      BY <2>3, <3>1 DEF AheadOfTheWalk
    <3> QED
      BY <2>1, <3>1, <3>2 DEF AheadOfTheWalk
  <2> QED
    BY <2>5, <2>6, <2>7, <2>8, <2>9, <2>10, <2>11, WhoseStep DEF SearchStep
<1> QED
  BY <1>2, <1>3

LEMMA TwiceStep ==
  ASSUME SearchTypeOK, StartInv, TwiceInv, SearchNext
  PROVE  TwiceInv'
<1>1. SUFFICES ASSUME NEW s \in Searchers, NEW c \in Chairs, NothingCameBefore(s, c)'
               PROVE  /\ shown'[s][c] <= 1
                      /\ shown'[s][c] > 0 => BehindTheWalk(s, c)'
                      /\ spc'[s] = "reply" /\ c \in answer'[s]
                           => Rank(s, c)' < (page'[s] + 1) * PerPage
  BY DEF TwiceInv
<1>2. CASE spc'[s] = "idle"
  BY <1>2, StartStep DEF StartInv, BehindTheWalk
<1>3. CASE spc'[s] # "idle"
  <2>1. /\ NothingCameBefore(s, c)
        /\ Rank(s, c)' <= Rank(s, c) /\ Rank(s, c) \in Nat /\ Rank(s, c)' \in Nat
    BY <1>1, <1>3, RankNeverGrows
  <2>2. page[s] \in Nat /\ shown[s][c] \in Nat
    BY DEF SearchTypeOK
  <2>3. /\ shown[s][c] <= 1
        /\ shown[s][c] > 0 => BehindTheWalk(s, c)
        /\ spc[s] = "reply" /\ c \in answer[s] => Rank(s, c) < (page[s] + 1) * PerPage
    BY <2>1 DEF TwiceInv
  <2>4. /\ page[s] * PerPage \in Nat /\ (page[s] + 1) * PerPage \in Nat
        /\ page[s] * PerPage <= (page[s] + 1) * PerPage
    BY <2>2, PageBounds
  <2>5. CASE Bystander(s)
    BY <2>1, <2>3, <2>4, <2>5 DEF Bystander, BehindTheWalk
  <2>6. CASE SearchArrive(s)
    <3>1. shown'[s][c] = 0 /\ spc'[s] # "reply"
      BY <2>6 DEF SearchArrive, Moves, StartInv, SearchTypeOK
    <3> QED
      BY <3>1
  <2>7. CASE SearchCount(s)
    BY <2>1, <2>3, <2>4, <2>7 DEF SearchCount, Moves, BehindTheWalk, SearchTypeOK
  <2>8. CASE SearchSelect(s)
    <3>1. /\ shown'[s] = shown[s] /\ page'[s] = page[s]
          /\ spc[s] = "select" /\ spc'[s] = "reply"
          /\ answer'[s] = Page(Matching(s), page[s])
      BY <2>8 DEF SearchSelect, Moves, SearchTypeOK
    <3>2. c \in answer'[s] =>
            page[s] * PerPage <= Rank(s, c) /\ Rank(s, c) < (page[s] + 1) * PerPage
      BY <2>1, <2>4, <3>1 DEF Page, Rank
    <3> QED
      BY <2>1, <2>3, <2>4, <3>1, <3>2 DEF BehindTheWalk
  <2>9. CASE SearchFails(s)
    BY <2>3, <2>9 DEF SearchFails, Moves, BehindTheWalk, SearchTypeOK
  <2>10. CASE Show(s)
    <3>1. /\ page'[s] = page[s] /\ spc[s] = "reply" /\ spc'[s] \in {"end", "shown"}
          /\ shown'[s][c] = IF c \in answer[s] THEN shown[s][c] + 1 ELSE shown[s][c]
      BY <2>2, <2>10 DEF Show, Moves, SearchTypeOK
    <3>2. c \in answer[s] => shown[s][c] = 0
      BY <2>2, <2>3, <3>1 DEF BehindTheWalk
    <3>3. shown'[s][c] > 0 => Rank(s, c) < (page[s] + 1) * PerPage
      BY <2>1, <2>2, <2>3, <2>4, <3>1 DEF BehindTheWalk
    <3> QED
      BY <2>1, <2>2, <2>3, <2>4, <3>1, <3>2, <3>3 DEF BehindTheWalk
  <2>11. CASE NextPage(s)
    <3>1. /\ shown'[s] = shown[s] /\ page'[s] = page[s] + 1
          /\ spc[s] = "shown" /\ spc'[s] \in {"count", "failed"}
      BY <2>11 DEF NextPage, Moves, SearchTypeOK
    <3> QED
      BY <2>1, <2>2, <2>3, <2>4, <3>1 DEF BehindTheWalk
  <2> QED
    BY <2>5, <2>6, <2>7, <2>8, <2>9, <2>10, <2>11, WhoseStep DEF SearchStep
<1> QED
  BY <1>2, <1>3

THEOREM WalkInvariant == SearchSpec => []WalkInv
<1>1. SearchInit => StartInv /\ MissInv /\ TwiceInv
  BY DEF SearchInit, StartInv, MissInv, TwiceInv, AheadOfTheWalk, BehindTheWalk, Matching
<1>2. ASSUME SearchTypeOK, StartInv /\ MissInv /\ TwiceInv, [SearchNext]_walkVars
      PROVE  (StartInv /\ MissInv /\ TwiceInv)'
  <2>1. CASE SearchNext
    BY <1>2, <2>1, StartStep, MissStep, TwiceStep
  <2>2. CASE UNCHANGED walkVars
    <3>1. /\ \A s : Matching(s)' = Matching(s)
          /\ UNCHANGED <<spc, page, count, answer, shown, came, left>>
      BY <2>2 DEF walkVars, searchVars, vars, tableVars, Matching, InStock
    <3>2. \A s, c : Rank(s, c)' = Rank(s, c)
      BY <3>1 DEF Rank, Ahead, Before
    <3> QED
      BY <1>2, <3>1, <3>2
         DEF StartInv, MissInv, TwiceInv, AheadOfTheWalk, BehindTheWalk, NothingCameBefore,
             NothingLeftBefore, Before
  <2> QED
    BY <1>2, <2>1, <2>2
<1>3. SearchSpec => [](StartInv /\ MissInv /\ TwiceInv)
  BY <1>1, <1>2, SearchTypeCorrect, PTL DEF SearchSpec
<1> QED
  BY <1>3, SearchTypeCorrect, PTL DEF WalkInv

(* A visitor at the last page has missed only chairs that another one,     *)
(* before them in the order, moved while the visitor walked.               *)
THEOREM WalksMissOnlyShifted == SearchSpec => []WalkMissesOnlyShifted
<1>1. WalkInv => WalkMissesOnlyShifted
  BY DEF WalkInv, MissInv, AheadOfTheWalk, NothingCameBefore, NothingLeftBefore,
         WalkMissesOnlyShifted
<1> QED
  BY <1>1, WalkInvariant, PTL

(* A visitor is shown a chair twice only when one before it was put on     *)
(* sale while the visitor walked.                                          *)
THEOREM TwiceOnlyIfShifted == SearchSpec => []ShownTwiceOnlyIfShifted
<1>1. ASSUME WalkInv PROVE ShownTwiceOnlyIfShifted
  <2>1. SUFFICES ASSUME NEW s \in Searchers, NEW c \in Chairs, shown[s][c] > 1,
                        \A d \in came[s] : ~Before(d, c)
                 PROVE  FALSE
    BY DEF ShownTwiceOnlyIfShifted
  <2>2. shown[s][c] <= 1 /\ shown[s][c] \in Nat
    BY <1>1, <2>1 DEF WalkInv, TwiceInv, NothingCameBefore, SearchTypeOK
  <2> QED
    BY <2>1, <2>2
<1> QED
  BY <1>1, WalkInvariant, PTL
=============================================================================
