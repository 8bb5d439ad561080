----------------------------- MODULE Estates_proofs -----------------------------
(***************************************************************************)
(* Theorems about the estates of the Go application.  RecommendedEstate:   *)
(* the two limited queries are the one query of the reference              *)
(* implementations.  EstateShop: what is posted is found, pages and counts *)
(* are those of the table, and the box around a drawn ring loses no estate *)
(* in the ring.  All of it for every table, question and limit.            *)
(***************************************************************************)
EXTENDS MCEstates, Operators_proofs, SqlBuilder_proofs, FiniteSetTheorems, WellFoundedInduction, TLAPS

-----------------------------------------------------------------------------
(* RecommendedEstate.                                                      *)

(* A door that passes some face of the chair passes the smallest one.      *)
LEMMA SmallestFace ==
  ASSUME NEW e \in Door, NEW s \in [width : Int, depth : Int, height : Int]
  PROVE  Passes(e, s) <=> Admits(e, L1(s), L2(s)) \/ Admits(e, L2(s), L1(s))
<1>1. /\ e.width \in Int /\ e.height \in Int
      /\ s.width \in Int /\ s.depth \in Int /\ s.height \in Int
  BY DEF Door
<1> QED
  BY <1>1 DEF Passes, Admits, L1, L2, Lower, Upper

(* The rows ahead of a row grow with the table, and are finitely many.     *)
LEMMA AheadMonotone ==
  ASSUME NEW S, NEW T, S \subseteq T, IsFiniteSet(T), NEW e
  PROVE  /\ Ahead(S, e) \subseteq Ahead(T, e)
         /\ IsFiniteSet(Ahead(T, e)) /\ IsFiniteSet(Ahead(S, e))
         /\ Cardinality(Ahead(S, e)) \in Nat /\ Cardinality(Ahead(T, e)) \in Nat
         /\ Cardinality(Ahead(S, e)) <= Cardinality(Ahead(T, e))
<1>1. Ahead(S, e) \subseteq Ahead(T, e) /\ Ahead(T, e) \subseteq T
  BY DEF Ahead
<1>2. IsFiniteSet(Ahead(T, e))
  BY <1>1, FS_Subset
<1> QED
  BY <1>1, <1>2, FS_Subset, FS_CardinalityType

(* A nonempty set of rows of a finite table has a row none of it is ahead  *)
(* of.                                                                     *)
LEMMA FirstRow ==
  ASSUME NEW U, U \subseteq Door, IsFiniteSet(U), NEW P, P \subseteq U, P # {}
  PROVE  \E p \in P : \A q \in P : ~Before(q, p)
<1> DEFINE Aheads == {Ahead(U, p) : p \in P}
<1>1. Aheads \subseteq SUBSET U /\ Aheads # {}
  BY DEF Ahead
<1>2. IsWellFoundedOn(StrictSubsetOrdering(U), SUBSET U)
  BY FS_StrictSubsetOrderingWellFounded, FS_FiniteSubsetsOfFinite
<1>3. PICK F \in Aheads : \A G \in Aheads : <<G, F>> \notin StrictSubsetOrdering(U)
  <2> HIDE DEF Aheads
  <2> QED
    BY <1>1, <1>2, WFMin
<1>4. PICK p \in P : F = Ahead(U, p)
  BY <1>3
<1>5. ASSUME NEW q \in P, Before(q, p) PROVE FALSE
  <2>1. Ahead(U, q) \subseteq Ahead(U, p)
    BY <1>5 DEF Ahead, Before, Door
  <2>2. q \in Ahead(U, p) /\ q \notin Ahead(U, q)
    BY <1>5 DEF Ahead, Before, Door
  <2>3. Ahead(U, q) \in Aheads /\ Ahead(U, q) \in SUBSET U /\ Ahead(U, p) \in SUBSET U
    BY <1>1
  <2>4. <<Ahead(U, q), Ahead(U, p)>> \in StrictSubsetOrdering(U)
    BY <2>1, <2>2, <2>3 DEF StrictSubsetOrdering
  <2> QED
    BY <1>3, <1>4, <2>3, <2>4
<1> QED
  BY <1>5

(* The first n rows of two sets of rows are among the first n of each.     *)
LEMMA TopOfUnion ==
  ASSUME NEW A, NEW B, A \subseteq Door, B \subseteq Door,
         IsFiniteSet(A), IsFiniteSet(B), NEW n \in Nat
  PROVE  Top(Top(A, n) \cup Top(B, n), n) = Top(A \cup B, n)
<1> DEFINE U == A \cup B
           T == Top(A, n) \cup Top(B, n)
<1>1. IsFiniteSet(U) /\ U \subseteq Door /\ A \subseteq U /\ B \subseteq U
  BY FS_Union
<1>2. T \subseteq U
  BY DEF Top
<1>3. ASSUME NEW e \in Top(U, n) PROVE e \in Top(T, n)
  <2>1. e \in U /\ Cardinality(Ahead(U, e)) < n
    BY <1>3 DEF Top
  <2>2. /\ Cardinality(Ahead(A, e)) < n /\ Cardinality(Ahead(B, e)) < n
        /\ Cardinality(Ahead(T, e)) < n
    <3> HIDE DEF U, T
    <3>1. /\ Cardinality(Ahead(A, e)) <= Cardinality(Ahead(U, e))
          /\ Cardinality(Ahead(A, e)) \in Nat /\ Cardinality(Ahead(U, e)) \in Nat
      BY <1>1, AheadMonotone
    <3>2. /\ Cardinality(Ahead(B, e)) <= Cardinality(Ahead(U, e))
          /\ Cardinality(Ahead(B, e)) \in Nat
      BY <1>1, AheadMonotone
    <3>3. /\ Cardinality(Ahead(T, e)) <= Cardinality(Ahead(U, e))
          /\ Cardinality(Ahead(T, e)) \in Nat
      BY <1>1, <1>2, AheadMonotone
    <3> QED
      BY <2>1, <3>1, <3>2, <3>3
  <2> QED
    BY <2>1, <2>2 DEF Top
<1>4. ASSUME NEW e \in Top(T, n), e \notin Top(U, n) PROVE FALSE
  <2>1. e \in U /\ Cardinality(Ahead(T, e)) < n /\ ~(Cardinality(Ahead(U, e)) < n)
    BY <1>2, <1>4 DEF Top
  <2> DEFINE P == Ahead(U, e) \ T
  <2>2. P # {}
    <3>1. SUFFICES ASSUME P = {} PROVE FALSE
      OBVIOUS
    <3>2. Ahead(U, e) = Ahead(T, e)
      BY <1>2, <3>1 DEF Ahead
    <3> QED
      BY <2>1, <3>2
  <2>3. PICK p \in P : \A q \in P : ~Before(q, p)
    <3>1. P \subseteq U
      BY DEF Ahead
    <3> HIDE DEF P, U
    <3> QED
      BY <1>1, <2>2, <3>1, FirstRow
  <2>4. ASSUME NEW S, S \in {A, B}, p \in S PROVE FALSE
    <3>1. S \subseteq U /\ Top(S, n) \subseteq T
      BY <2>4
    <3>2. p \notin Top(S, n)
      BY <2>3, <3>1
    <3>3. ~(Cardinality(Ahead(S, p)) < n)
      BY <2>4, <3>2 DEF Top
    <3>4. Ahead(S, p) \subseteq Ahead(T, e)
      <4>1. p \in Door /\ e \in Door /\ Before(p, e)
        BY <1>1, <2>1, <2>3 DEF Ahead
      <4>2. \A q \in Ahead(S, p) : q \in U /\ q \in Door /\ Before(q, p)
        BY <1>1, <3>1 DEF Ahead
      <4>3. \A q \in Ahead(S, p) : Before(q, e)
        BY <4>1, <4>2 DEF Before, Door
      <4> QED
        BY <2>3, <4>2, <4>3 DEF Ahead
    <3>5. IsFiniteSet(Ahead(T, e)) /\ Cardinality(Ahead(T, e)) \in Nat
      <4> HIDE DEF T, U
      <4> QED
        BY <1>1, <1>2, AheadMonotone
    <3>6. /\ Cardinality(Ahead(S, p)) <= Cardinality(Ahead(T, e))
          /\ Cardinality(Ahead(S, p)) \in Nat
      <4> HIDE DEF T
      <4> QED
        BY <3>4, <3>5, FS_Subset, FS_CardinalityType
    <3> QED
      BY <2>1, <3>3, <3>5, <3>6
  <2> QED
    BY <2>3, <2>4 DEF Ahead
<1>5. Top(T, n) \subseteq U /\ Top(U, n) \subseteq U
  BY <1>2 DEF Top
<1> QED
  BY <1>3, <1>4

(* For every table of estates, every chair and every limit the two limited *)
(* queries of searchRecommendedEstateWithChair return what the one query   *)
(* of the reference implementations returns.                               *)
THEOREM RecommendIsReference ==
  ASSUME NEW S \in SUBSET Estates,
         NEW s \in [width : Int, depth : Int, height : Int]
  PROVE  Recommend(S, s) = Reference(S, s)
<1> DEFINE A == {e \in S : Admits(e, L1(s), L2(s))}
           B == {e \in S : Admits(e, L2(s), L1(s))}
<1>1. /\ A \subseteq Door /\ B \subseteq Door
      /\ IsFiniteSet(A) /\ IsFiniteSet(B)
  BY EstatesAssumption, FS_Subset
<1>2. A \cup B = {e \in S : Passes(e, s)}
  BY SmallestFace, EstatesAssumption
<1>3. Recommend(S, s) = Top(Top(A, Limit) \cup Top(B, Limit), Limit)
  BY DEF Recommend
<1>4. Top(Top(A, Limit) \cup Top(B, Limit), Limit) = Top(A \cup B, Limit)
  <2> HIDE DEF A, B
  <2> QED
    BY <1>1, TopOfUnion, LimitAssumption
<1> QED
  BY <1>2, <1>3, <1>4 DEF Reference
-----------------------------------------------------------------------------
LEMMA TopSubset == ASSUME NEW S, NEW n PROVE Top(S, n) \subseteq S
BY DEF Top

LEMMA RecStart == RecInit => RecTypeOK
BY DEF RecInit, RecTypeOK

LEMMA RecStep == RecTypeOK /\ [RecNext]_recVars => RecTypeOK'
<1> SUFFICES ASSUME RecTypeOK, [RecNext]_recVars PROVE RecTypeOK'
  OBVIOUS
<1> USE DEF RecTypeOK, Finish, tables
<1>1. ASSUME NEW u \in Users, ReadChair(u) PROVE RecTypeOK'
  BY <1>1 DEF ReadChair
<1>2. ASSUME NEW u \in Users, ReadEstates(u) PROVE RecTypeOK'
  <2>1. Recommend(estates, Sizes[Asks[u]]) \subseteq Estates
    BY DEF Recommend, Top
  <2> QED
    BY <1>2, <2>1 DEF ReadEstates
<1>3. ASSUME NEW u \in Users, ReadFails(u) PROVE RecTypeOK'
  BY <1>3 DEF ReadFails
<1>4. CASE InsertEstates \/ InsertChairs \/ TruncateTables
  BY <1>4 DEF InsertEstates, InsertChairs, TruncateTables
<1>5. CASE UNCHANGED recVars
  BY <1>5 DEF recVars
<1> QED
  BY <1>1, <1>2, <1>3, <1>4, <1>5 DEF RecNext

(* The tables hold rows they may have, and the answers are such rows.      *)
THEOREM RecTypeCorrect == RecSpec => []RecTypeOK
BY RecStart, RecStep, PTL DEF RecSpec

(* Every 200 the application gives is the answer the reference             *)
(* implementations would have given at that moment, whatever is inserted   *)
(* or truncated between its two queries.                                   *)
THEOREM RecommendationsAreReference == RecSpec => AnswersLikeReference
<1>1. ASSUME RecTypeOK, [RecNext]_recVars
      PROVE  [\A u \in Users :
                (status'[u] = 200 /\ status[u] = 0)
                  => answer'[u] = Reference(estates, Sizes[Asks[u]])]_recVars
  <2>1. ASSUME NEW u \in Users, status'[u] = 200, status[u] = 0
        PROVE  answer'[u] = Reference(estates, Sizes[Asks[u]])
    <3> USE DEF RecTypeOK, Finish
    <3>1. ~UNCHANGED recVars
      BY <2>1 DEF recVars
    <3>2. ReadEstates(u)
      <4>1. \A w \in Users : ReadEstates(w) => w = u
        BY <1>1, <2>1 DEF ReadEstates
      <4>2. \A w \in Users : ~ReadChair(w) /\ ~ReadFails(w)
        BY <1>1, <2>1 DEF ReadChair, ReadFails
      <4>3. ~(InsertEstates \/ InsertChairs \/ TruncateTables)
        BY <2>1 DEF InsertEstates, InsertChairs, TruncateTables
      <4> QED
        BY <1>1, <3>1, <4>1, <4>2, <4>3 DEF RecNext
    <3>3. Sizes[Asks[u]] \in [width : Int, depth : Int, height : Int]
      BY <1>1, <3>2, SizesAssumption DEF ReadEstates
    <3>4. answer'[u] = Recommend(estates, Sizes[Asks[u]])
      BY <1>1, <3>2 DEF ReadEstates
    <3> QED
      BY <1>1, <3>3, <3>4, RecommendIsReference
  <2> QED
    BY <2>1
<1> QED
  BY <1>1, RecTypeCorrect, PTL DEF RecSpec, AnswersLikeReference

-----------------------------------------------------------------------------
(* Places in an order, and what LIMIT and OFFSET leave.                    *)

(* So many rows have one of len places from lo on.                         *)
LEMMA PlacesTaken ==
  ASSUME NEW S, NEW R, Ordered(S, R), NEW lo \in Nat, NEW len \in Nat
  PROVE  Cardinality({e \in S : Cardinality(R[e]) \in lo .. lo + len - 1})
           = IF lo + len <= Cardinality(S) THEN len
             ELSE IF lo <= Cardinality(S) THEN Cardinality(S) - lo ELSE 0
<1> DEFINE n == Cardinality(S)
           hi == IF lo + len <= n THEN lo + len - 1 ELSE n - 1
           T == {e \in S : Cardinality(R[e]) \in lo .. lo + len - 1}
           all == [e \in S |-> Cardinality(R[e])]
           place == [e \in T |-> Cardinality(R[e])]
<1>1. IsFiniteSet(S) /\ n \in Nat
  BY FS_CardinalityType DEF Ordered
<1>2. all \in Bijection(S, 0 .. n - 1)
  BY Places
<1>3. \A e \in S : all[e] \in 0 .. n - 1 /\ all[e] = Cardinality(R[e])
  BY PlacesAreNumbers
<1>4. \A e, f \in S : Cardinality(R[e]) = Cardinality(R[f]) => e = f
  <2>1. \A e, f \in S : all[e] = all[f] => e = f
    <3> HIDE DEF all
    <3>1. DOMAIN all = S
      BY <1>2 DEF Bijection, Injection
    <3> QED
      BY <1>2, <3>1 DEF Bijection, Injection, IsInjective
  <2> QED
    BY <1>3, <2>1
<1>5. \A i \in 0 .. n - 1 : \E e \in S : Cardinality(R[e]) = i
  <2>1. \A i \in 0 .. n - 1 : \E e \in S : all[e] = i
    <3> HIDE DEF all
    <3> QED
      BY <1>2 DEF Bijection, Surjection
  <2> QED
    BY <1>3, <2>1
<1>6. \A e \in T : Cardinality(R[e]) \in lo .. hi
  BY <1>1, <1>3
<1>7. \A i \in lo .. hi : \E e \in T : Cardinality(R[e]) = i
  <2> SUFFICES ASSUME NEW i \in lo .. hi PROVE \E e \in T : Cardinality(R[e]) = i
    OBVIOUS
  <2>1. i \in 0 .. n - 1 /\ i \in lo .. lo + len - 1
    BY <1>1
  <2> QED
    BY <1>5, <2>1
<1>8. place \in Bijection(T, lo .. hi)
  <2>1. place \in [T -> lo .. hi]
    BY <1>6
  <2>2. \A e, f \in T : place[e] = place[f] => e = f
    BY <1>4
  <2>3. \A i \in lo .. hi : \E e \in T : place[e] = i
    BY <1>7
  <2> HIDE DEF place, T, hi
  <2> QED
    BY <2>1, <2>2, <2>3 DEF Bijection, Injection, Surjection, IsInjective
<1>9. Cardinality(T) = Cardinality(lo .. hi)
  <2>1. IsFiniteSet(T)
    BY <1>1, FS_Subset
  <2>2. ExistsBijection(T, lo .. hi)
    BY <1>8 DEF ExistsBijection
  <2> HIDE DEF T, hi
  <2> QED
    BY <2>1, <2>2, FS_Bijection
<1>10. hi \in Int
  BY <1>1
<1>11. Cardinality(lo .. hi) = IF lo > hi THEN 0 ELSE hi - lo + 1
  <2> HIDE DEF hi
  <2> QED
    BY <1>10, FS_Interval
<1>12. Cardinality(T) = IF lo + len <= n THEN len ELSE IF lo <= n THEN n - lo ELSE 0
  <2> HIDE DEF T
  <2> QED
    BY <1>1, <1>9, <1>11
<1> QED
  BY <1>12

(* A table of estates: finitely many rows, an id each.                     *)
Table(S) ==
  /\ IsFiniteSet(S) /\ S \subseteq Lot
  /\ \A e, f \in S : e.id = f.id => e = f

LEMMA SubTable ==
  ASSUME NEW S, Table(S), NEW T, T \subseteq S
  PROVE  Table(T)
BY FS_Subset DEF Table

LEMMA PopularityOrders ==
  ASSUME NEW S, Table(S)
  PROVE  Ordered(S, [e \in S |-> Ahead(S, e)])
<1> DEFINE R == [e \in S |-> Ahead(S, e)]
<1> SUFFICES Ordered(S, R)
  OBVIOUS
<1>1. \A e \in S : e.popularity \in Int /\ e.id \in Int
  BY DEF Table, Lot
<1>2. R \in [S -> SUBSET S]
  BY DEF Ahead
<1>3. \A e \in S : e \notin R[e]
  BY <1>1 DEF Ahead, Before
<1>4. \A e, f \in S : f \in R[e] => R[f] \subseteq R[e]
  <2> SUFFICES ASSUME NEW e \in S, NEW f \in S, f \in R[e], NEW g \in R[f] PROVE g \in R[e]
    OBVIOUS
  <2>1. g \in S /\ Before(g, f) /\ Before(f, e)
    BY DEF Ahead
  <2>2. Before(g, e)
    BY <1>1, <2>1 DEF Before
  <2> QED
    BY <2>1, <2>2 DEF Ahead
<1>5. \A e, f \in S : e # f => e \in R[f] \/ f \in R[e]
  <2>1. \A e, f \in S : e # f => Before(e, f) \/ Before(f, e)
    BY <1>1 DEF Table, Before
  <2> QED
    BY <2>1 DEF Ahead
<1>6. IsFiniteSet(S)
  BY DEF Table
<1> HIDE DEF R
<1> QED
  BY <1>2, <1>3, <1>4, <1>5, <1>6 DEF Ordered

LEMMA RentOrders ==
  ASSUME NEW S, Table(S)
  PROVE  Ordered(S, [e \in S |-> {f \in S : Cheaper(f, e)}])
<1> DEFINE R == [e \in S |-> {f \in S : Cheaper(f, e)}]
<1> SUFFICES Ordered(S, R)
  OBVIOUS
<1>1. \A e \in S : e.rent \in Int /\ e.id \in Int
  BY DEF Table, Lot
<1>2. R \in [S -> SUBSET S]
  OBVIOUS
<1>3. \A e \in S : e \notin R[e]
  BY <1>1 DEF Cheaper
<1>4. \A e, f \in S : f \in R[e] => R[f] \subseteq R[e]
  <2> SUFFICES ASSUME NEW e \in S, NEW f \in S, f \in R[e], NEW g \in R[f] PROVE g \in R[e]
    OBVIOUS
  <2>1. g \in S /\ Cheaper(g, f) /\ Cheaper(f, e)
    OBVIOUS
  <2>2. Cheaper(g, e)
    BY <1>1, <2>1 DEF Cheaper
  <2> QED
    BY <2>1, <2>2
<1>5. \A e, f \in S : e # f => e \in R[f] \/ f \in R[e]
  <2>1. \A e, f \in S : e # f => Cheaper(e, f) \/ Cheaper(f, e)
    BY <1>1 DEF Table, Cheaper
  <2> QED
    BY <2>1
<1>6. IsFiniteSet(S)
  BY DEF Table
<1> HIDE DEF R
<1> QED
  BY <1>2, <1>3, <1>4, <1>5, <1>6 DEF Ordered

(* LIMIT and OFFSET: so many rows are on a page.                           *)
LEMMA PageCount ==
  ASSUME NEW S, Table(S), NEW offset \in Nat, NEW limit \in Nat
  PROVE  Cardinality(PageRows(S, limit, offset))
           = IF offset + limit <= Cardinality(S) THEN limit
             ELSE IF offset <= Cardinality(S) THEN Cardinality(S) - offset ELSE 0
<1> DEFINE R == [e \in S |-> Ahead(S, e)]
<1>1. PageRows(S, limit, offset) = {e \in S : Cardinality(R[e]) \in offset .. offset + limit - 1}
  BY DEF PageRows
<1>2. Ordered(S, R)
  BY PopularityOrders
<1> HIDE DEF R
<1> QED
  BY <1>1, <1>2, PlacesTaken

(* A list that is shorter than its limit has every row.                    *)
LEMMA PageNotFull ==
  ASSUME NEW S, Table(S), NEW limit \in Int, Cardinality(PageRows(S, limit, 0)) < limit
  PROVE  PageRows(S, limit, 0) = S
<1>1. PageRows(S, limit, 0) \subseteq S /\ IsFiniteSet(S)
  BY DEF PageRows, Table
<1>2. Cardinality(PageRows(S, limit, 0)) \in Nat /\ Cardinality(S) \in Nat
  BY <1>1, FS_Subset, FS_CardinalityType
<1>3. limit \in Nat
  BY <1>2
<1>4. Cardinality(PageRows(S, limit, 0)) = Cardinality(S)
  <2>1. Cardinality(PageRows(S, limit, 0))
          = IF 0 + limit <= Cardinality(S) THEN limit
            ELSE IF 0 <= Cardinality(S) THEN Cardinality(S) - 0 ELSE 0
    BY <1>3, PageCount
  <2> QED
    BY <1>2, <1>3, <2>1
<1> QED
  BY <1>1, <1>4, FS_Subset

LEMMA TopIsPage ==
  ASSUME NEW S, Table(S), NEW n \in Nat
  PROVE  Top(S, n) = PageRows(S, n, 0)
<1>1. \A e \in S : Cardinality(Ahead(S, e)) \in Nat
  BY FS_Subset, FS_CardinalityType DEF Table, Ahead
<1> QED
  BY <1>1 DEF Top, PageRows

LEMMA TopLimits ==
  ASSUME NEW S, Table(S), NEW n \in Nat
  PROVE  /\ Top(S, n) \subseteq S /\ Cardinality(Top(S, n)) <= n
         /\ Cardinality(Top(S, n)) < n => Top(S, n) = S
<1>1. Cardinality(S) \in Nat
  BY FS_CardinalityType DEF Table
<1>2. Cardinality(Top(S, n)) <= n
  BY <1>1, TopIsPage, PageCount
<1> QED
  BY <1>2, TopIsPage, PageNotFull DEF Top

LEMMA CheapestLimits ==
  ASSUME NEW S, Table(S), NEW n \in Nat
  PROVE  /\ Cheapest(S, n) \subseteq S /\ Cardinality(Cheapest(S, n)) <= n
         /\ Cardinality(Cheapest(S, n)) < n => Cheapest(S, n) = S
<1> DEFINE R == [e \in S |-> {f \in S : Cheaper(f, e)}]
<1>1. Cardinality(S) \in Nat /\ IsFiniteSet(S)
  BY FS_CardinalityType DEF Table
<1>2. \A e \in S : Cardinality(R[e]) \in Nat
  BY <1>1, FS_Subset, FS_CardinalityType
<1>3. Cheapest(S, n) = {e \in S : Cardinality(R[e]) \in 0 .. 0 + n - 1}
  BY <1>2 DEF Cheapest
<1>4. Ordered(S, R)
  BY RentOrders
<1>5. Cardinality(Cheapest(S, n)) = IF n <= Cardinality(S) THEN n ELSE Cardinality(S)
  <2> HIDE DEF R
  <2>1. 0 \in Nat /\ 0 + n = n
    OBVIOUS
  <2>2. Cardinality(Cheapest(S, n))
          = IF 0 + n <= Cardinality(S) THEN n
            ELSE IF 0 <= Cardinality(S) THEN Cardinality(S) - 0 ELSE 0
    BY <1>3, <1>4, <2>1, PlacesTaken
  <2> QED
    BY <1>1, <2>2
<1>6. Cheapest(S, n) \subseteq S
  BY DEF Cheapest
<1> QED
  BY <1>1, <1>5, <1>6, FS_Subset

-----------------------------------------------------------------------------
(* EstateShop.                                                             *)

(* A product an int can hold is kept.                                      *)
LEMMA WrapKeeps ==
  /\ \A x \in MachineInt : WrapInt(x) = x
  /\ \A x \in Int : WrapInt(x) \in Int
<1>1. \A m \in Nat : \A y \in 0 .. 2 * m + 1 : y % (2 * m + 2) = y
  OBVIOUS
<1>2. \A m \in Nat : \A y \in Int : y % (2 * m + 2) \in Int
  OBVIOUS
<1> QED
  BY <1>1, <1>2, LimitsAssumption DEF WrapInt, MachineInt

LEMMA SearchQuestion ==
  ASSUME NEW q \in Questions, q.kind = "search"
  PROVE  /\ q.height \subseteq Int /\ q.width \subseteq Int /\ q.rent \subseteq Int
         /\ q.page \in Int /\ q.perPage \in Int /\ q.page * q.perPage \in Int
         /\ Offset(q.page, q.perPage) \in Int
<1>1. q \in [kind : {"search"}, height : SUBSET Int, width : SUBSET Int, rent : SUBSET Int,
             features : SUBSET STRING, page : MachineInt, perPage : MachineInt]
  BY QuestionsAssumption DEF Question
<1>2. MachineInt \subseteq Int
  BY DEF MachineInt
<1>3. q.page \in Int /\ q.perPage \in Int
  BY <1>1, <1>2
<1>4. q.page * q.perPage \in Int
  BY <1>3
<1> QED
  BY <1>1, <1>3, <1>4, WrapKeeps DEF Offset

(* The conditions over the generated columns are those over the ranges, no *)
(* row fits a range that does not exist, and the features are those LIKE   *)
(* finds unless it finds one inside another.                               *)
LEMMA FoundIsReference ==
  ASSUME NEW q \in Questions, q.kind = "search", NEW S, S \subseteq Lots,
         \A e \in S : \A f \in q.features : Mentions(e, f) => f \in e.features
  PROVE  Found(S, q)
           = IF KnownRanges(q) THEN {e \in S : EstateReferenceFits(e, q)} ELSE {}
<1>0. S \subseteq Lot
  BY LotsAssumption
<1>1. \A e \in S : e.height \in Int /\ e.width \in Int /\ e.rent \in Int
  BY <1>0 DEF Lot
<1>2. CASE KnownRanges(q)
  <2>1. \A i \in q.height \cup q.width \cup q.rent : i \in 0 .. 3
    BY <1>2 DEF KnownRanges
  <2>2. \A e \in S : q.features \subseteq e.features <=> \A f \in q.features : Mentions(e, f)
    BY LotsAssumption DEF Mentions
  <2>3. \A e \in S : EstateFits(e, q) <=> EstateReferenceFits(e, q)
    BY <1>1, <2>1, <2>2, SizeRangeIsReference, RentRangeIsReference
       DEF EstateFits, EstateReferenceFits
  <2> QED
    BY <1>2, <2>3 DEF Found
<1>3. CASE ~KnownRanges(q)
  <2>1. PICK i \in q.height \cup q.width \cup q.rent : i \notin 0 .. 3
    BY <1>3 DEF KnownRanges
  <2>2. \A v \in Int : SizeRange(v) \in 0 .. 3 /\ RentRange(v) \in 0 .. 3
    BY DEF SizeRange, RentRange
  <2>3. \A e \in S : ~EstateFits(e, q)
    BY <1>1, <2>1, <2>2 DEF EstateFits
  <2> QED
    BY <1>3, <2>3 DEF Found
<1> QED
  BY <1>2, <1>3

(* The box around a ring loses none of the estates in it.                  *)
LEMMA NazotteIsTop ==
  ASSUME NEW S, S \subseteq Lot, NEW ring, Ring(ring)
  PROVE  Nazotte(S, ring) = Top({e \in S : RingContains(ring, PointOf(e))}, NazotteLimit)
<1>1. \A e \in S : PointOf(e) \in Point
  BY DEF Lot, PointOf, Point
<1>2. \A e \in S : RingContains(ring, PointOf(e)) => InBox(BoundingBox(ring), PointOf(e))
  BY <1>1, RingInBox
<1>3. {e \in {f \in S : InBox(BoundingBox(ring), PointOf(f))} : RingContains(ring, PointOf(e))}
        = {e \in S : RingContains(ring, PointOf(e))}
  BY <1>2
<1> QED
  BY <1>3 DEF Nazotte

LEMMA QuestionRing ==
  ASSUME NEW q \in Questions, q.kind = "nazotte", ~Refusable(q)
  PROVE  Ring(q.ring)
<1>1. q \in [kind : {"nazotte"}, ring : Seq(Int \X Int)]
  BY QuestionsAssumption DEF Question
<1> QED
  BY <1>1 DEF Refusable, Ring, Point
-----------------------------------------------------------------------------
(* What holds between the steps: what was answered 201 is in the table, a  *)
(* statement is made only for a question that is not refused, and the      *)
(* count of a search is of the table while it does not change.             *)
EstateInv ==
  /\ EstateTypeOK /\ known \subseteq lots
  /\ vpc # "idle" => question \in Questions /\ ~Refusable(question)
  /\ vpc = "select" =>
       question.kind = "search" /\ (~moved => total = Cardinality(Found(lots, question)))

LEMMA LotsAreTable == EstateTypeOK => Table(lots)
BY LotsAssumption, FS_Subset DEF EstateTypeOK, Table

(* The rows of the data file.                                              *)
LEMMA FileIsLots ==
  /\ UNION Range(FileInserts) \subseteq Lots
  /\ \A i \in 1 .. Len(FileInserts) :
       /\ FileInserts[i] \subseteq Lots
       /\ \A e, f \in FileInserts[i] : e.id = f.id => e = f
BY FileAssumption DEF Range

LEMMA EstateStart == EstateInit => EstateInv
<1> SUFFICES ASSUME EstateInit PROVE EstateInv
  OBVIOUS
<1>1. reply.rows = {} /\ Cardinality({}) = 0
  BY FS_EmptySet DEF EstateInit
<1>2. EstateTypeOK
  <2>1. /\ lots \subseteq Lots /\ known \subseteq Lots
        /\ \A e, f \in lots : e.id = f.id => e = f
    BY FileIsLots, FileAssumption DEF EstateInit
  <2>2. 0 \in 0 .. Len(FileInserts)
    BY FileAssumption
  <2> QED
    BY <1>1, <2>1, <2>2, LimitsAssumption DEF EstateInit, EstateTypeOK
<1> QED
  BY <1>2 DEF EstateInit, EstateInv

LEMMA BatchIsLots ==
  ASSUME NEW p \in EstatePosters
  PROVE  /\ BatchLots(p) \subseteq Lots
         /\ Insertable(p) => \A e, f \in BatchLots(p) : e.id = f.id => e = f
<1> DEFINE B == EstateBatch[p]
           Records == [lot : Lots, cells : Seq({"int", "float", "text"})]
<1>1. B \in Seq(Records)
  BY BatchAssumption
<1>2. \A i \in DOMAIN B : B[i].lot \in Lots
  <2>1. \A i \in DOMAIN B : B[i] \in Records
    <3> HIDE DEF B, Records
    <3> QED
      BY <1>1
  <2> QED
    BY <2>1
<1>3. BatchLots(p) \subseteq Lots
  BY <1>2 DEF BatchLots
<1>4. ASSUME Insertable(p), NEW i \in DOMAIN B, NEW j \in DOMAIN B, B[i].lot.id = B[j].lot.id
      PROVE  B[i].lot = B[j].lot
  <2> DEFINE ids == [k \in DOMAIN B |-> B[k].lot.id]
  <2>1. IsInjective(ids)
    BY <1>4 DEF Insertable
  <2>2. ids[i] = ids[j]
    BY <1>4
  <2>3. i = j
    BY <2>1, <2>2 DEF IsInjective
  <2> QED
    BY <2>3
<1> QED
  BY <1>3, <1>4 DEF BatchLots

(* A row is added only with an id of its own.                              *)
LEMMA KeysStay ==
  ASSUME NEW S, NEW T, KeysOf(S) \cap KeysOf(T) = {},
         \A e, f \in S : e.id = f.id => e = f, \A e, f \in T : e.id = f.id => e = f
  PROVE  \A e, f \in S \cup T : e.id = f.id => e = f
BY DEF KeysOf

LEMMA TableStays ==
  ASSUME EstateInv, UNCHANGED <<lots, known, moved, ppc, pstatus, visitorVars>>,
         ipc' \in 0 .. Len(FileInserts)
  PROVE  EstateInv'
BY DEF EstateInv, EstateTypeOK, visitorVars, Found

(* A post and initialize leave what the visitor asked and got alone.       *)
LEMMA WritersKeep ==
  ASSUME EstateInv,
         \/ \E p \in EstatePosters :
              EstatePostArrive(p) \/ EstatePostInsert(p) \/ EstatePostFails(p)
         \/ EstateTruncate \/ EstateLoad
  PROVE  EstateInv'
<1> USE DEF EstateInv, EstateTypeOK, PostDone, visitorVars
<1>1. ASSUME NEW p \in EstatePosters, EstatePostArrive(p) PROVE EstateInv'
  BY <1>1 DEF EstatePostArrive
<1>2. ASSUME NEW p \in EstatePosters, EstatePostInsert(p) \/ EstatePostFails(p)
      PROVE  EstateInv'
  <2>1. CASE UNCHANGED lots /\ UNCHANGED <<known, moved>>
    BY <1>2, <2>1 DEF EstatePostInsert, EstatePostFails
  <2>2. CASE Insertable(p) /\ lots' = lots \cup BatchLots(p) /\ moved' = (vpc = "select")
             /\ known' \in {known, known \cup BatchLots(p)}
    <3>1. \A e, f \in lots' : e.id = f.id => e = f
      <4>1. /\ KeysOf(BatchLots(p)) \cap KeysOf(lots) = {}
            /\ \A e, f \in BatchLots(p) : e.id = f.id => e = f
            /\ \A e, f \in lots : e.id = f.id => e = f
        BY <2>2, BatchIsLots DEF Insertable
      <4>2. \A e, f \in BatchLots(p) \cup lots : e.id = f.id => e = f
        BY <4>1, KeysStay
      <4> QED
        BY <2>2, <4>2
    <3>2. lots' \subseteq Lots /\ known' \subseteq lots' /\ known' \subseteq Lots
      BY <2>2, BatchIsLots
    <3>3. moved' \in BOOLEAN /\ (vpc = "select" => moved')
      BY <2>2
    <3> QED
      BY <1>2, <2>2, <3>1, <3>2, <3>3 DEF EstatePostInsert, EstatePostFails
  <2> QED
    BY <1>2, <2>1, <2>2 DEF EstatePostInsert, EstatePostFails
<1>3. CASE EstateTruncate
  <2>1. {0, Len(FileInserts)} \subseteq 0 .. Len(FileInserts)
    BY FileAssumption
  <2>2. CASE UNCHANGED <<lots, known, moved>>
    BY <1>3, <2>1, <2>2, TableStays DEF EstateTruncate
  <2>3. CASE lots' = {} /\ known' = {} /\ moved' = (vpc = "select")
    <3>1. moved' \in BOOLEAN /\ (vpc = "select" => moved')
      BY <2>3
    <3>2. lots' = {} /\ known' = {}
      BY <2>3
    <3> QED
      BY <1>3, <2>1, <3>1, <3>2 DEF EstateTruncate
  <2> QED
    BY <1>3, <2>2, <2>3 DEF EstateTruncate
<1>4. CASE EstateLoad
  <2> DEFINE i == Len(FileInserts) - ipc + 1
             rows == FileInserts[i]
  <2>1. ipc \in 1 .. Len(FileInserts) /\ Len(FileInserts) \in Nat
    BY <1>4, FileAssumption DEF EstateLoad
  <2>2. /\ i \in 1 .. Len(FileInserts)
        /\ {0, ipc - 1} \subseteq 0 .. Len(FileInserts)
    BY <2>1
  <2>3. rows \subseteq Lots /\ \A e, f \in rows : e.id = f.id => e = f
    BY <2>2, FileIsLots
  <2>4. /\ ipc' \in {0, ipc - 1} /\ UNCHANGED <<ppc, pstatus, visitorVars, known>>
        /\ \/ /\ KeysOf(lots) \cap KeysOf(rows) = {}
              /\ lots' = lots \cup rows /\ moved' = (vpc = "select")
           \/ UNCHANGED <<lots, moved>>
    BY <1>4 DEF EstateLoad
  <2> HIDE DEF rows
  <2>5. \A e, f \in lots' : e.id = f.id => e = f
    <3>1. CASE KeysOf(lots) \cap KeysOf(rows) = {} /\ lots' = lots \cup rows
      <4>1. \A e, f \in lots : e.id = f.id => e = f
        OBVIOUS
      <4>2. \A e, f \in lots \cup rows : e.id = f.id => e = f
        BY <2>3, <3>1, <4>1, KeysStay
      <4> QED
        BY <3>1, <4>2
    <3>2. CASE UNCHANGED lots
      BY <3>2
    <3> QED
      BY <2>4, <3>1, <3>2
  <2>6. lots' \subseteq Lots /\ known' \subseteq lots' /\ known' \subseteq Lots
    BY <2>3, <2>4
  <2>7. ipc' \in 0 .. Len(FileInserts)
    BY <2>2, <2>4
  <2>8. CASE UNCHANGED <<lots, moved>>
    BY <2>4, <2>7, <2>8, TableStays
  <2>9. CASE moved' = (vpc = "select")
    <3>1. moved' \in BOOLEAN /\ (vpc = "select" => moved')
      BY <2>9
    <3> QED
      BY <2>4, <2>5, <2>6, <2>7, <3>1
  <2> QED
    BY <2>4, <2>8, <2>9
<1> QED
  BY <1>1, <1>2, <1>3, <1>4

LEMMA AskKeeps ==
  ASSUME EstateInv, NEW q \in Questions, VisitorAsks(q)
  PROVE  EstateInv'
<1>1. reply'.rows = {} /\ reply'.status \in {0, 400, 500} /\ Cardinality({}) = 0
  <2>1. q.kind = "garbled" => q.status \in {400, 500}
    BY QuestionsAssumption DEF Question
  <2> QED
    BY <2>1, FS_EmptySet DEF VisitorAsks, NoContent, Answers, Answer
<1>2. total' \in Nat /\ vpc' \in {"idle", "ask"} /\ (vpc' = "ask" => ~Refusable(q))
  BY DEF VisitorAsks, NoContent, Answers, EstateInv, EstateTypeOK
<1>3. question' = q /\ UNCHANGED <<lots, ppc, pstatus, ipc, known, moved>>
  BY DEF VisitorAsks
<1> QED
  BY <1>1, <1>2, <1>3, LimitsAssumption DEF EstateInv, EstateTypeOK

(* A list is of rows of the table, and no longer than its limit.           *)
LEMMA ReadKeeps ==
  ASSUME EstateInv, VisitorStep
  PROVE  EstateInv'
<1>1. /\ UNCHANGED <<lots, ppc, pstatus, ipc, question, known>> /\ moved' \in BOOLEAN
      /\ vpc # "idle" /\ vpc' \in {"idle", "select"}
  BY DEF VisitorStep, EstateInv, EstateTypeOK, ReadOne, ReadLowPriced, ReadNazotte, CountFound,
     SelectFound, StatementFails, NoContent, Answers, Asked
<1>2. Table(lots)
  BY LotsAreTable DEF EstateInv
<1>3. ASSUME vpc' = "idle", UNCHANGED total, reply'.status \in {200, 404, 500},
             reply'.rows \subseteq Lots,
             question.kind = "nazotte" => Cardinality(reply'.rows) <= NazotteLimit,
             question.kind = "low" => Cardinality(reply'.rows) <= ListLimit
      PROVE  EstateInv'
  BY <1>1, <1>3 DEF EstateInv, EstateTypeOK
<1>4. CASE ReadOne \/ StatementFails
  <2>1. /\ vpc' = "idle" /\ UNCHANGED total /\ reply'.status \in {200, 404, 500}
        /\ reply'.rows = {} /\ Cardinality({}) = 0
    BY <1>4, FS_EmptySet DEF ReadOne, StatementFails, NoContent, Answers, Answer
  <2> QED
    BY <1>3, <2>1, LimitsAssumption
<1>5. CASE ReadLowPriced
  <2>1. /\ vpc' = "idle" /\ UNCHANGED total /\ reply'.status = 200
        /\ reply'.rows = Cheapest(lots, ListLimit) /\ question.kind = "low"
    BY <1>5 DEF ReadLowPriced, Answers, Answer, Asked
  <2>2. reply'.rows \subseteq Lots /\ Cardinality(reply'.rows) <= ListLimit
    BY <1>2, <2>1, CheapestLimits, LimitsAssumption DEF EstateInv, EstateTypeOK
  <2> QED
    BY <1>3, <2>1, <2>2
<1>6. CASE ReadNazotte
  <2>1. /\ vpc' = "idle" /\ UNCHANGED total /\ reply'.status = 200
        /\ reply'.rows = Nazotte(lots, question.ring) /\ question.kind = "nazotte"
    BY <1>6 DEF ReadNazotte, Answers, Answer, Asked
  <2> DEFINE inside == {e \in {f \in lots : InBox(BoundingBox(question.ring), PointOf(f))} :
                          RingContains(question.ring, PointOf(e))}
  <2>2. Table(inside) /\ inside \subseteq lots
    BY <1>2, SubTable
  <2>3. reply'.rows = Top(inside, NazotteLimit)
    BY <2>1 DEF Nazotte
  <2>4. reply'.rows \subseteq Lots /\ Cardinality(reply'.rows) <= NazotteLimit
    <3> HIDE DEF inside
    <3> QED
      BY <2>2, <2>3, TopLimits, LimitsAssumption DEF EstateInv, EstateTypeOK
  <2> QED
    BY <1>3, <2>1, <2>4
<1>7. CASE CountFound
  <2>1. Found(lots, question) \subseteq lots
    BY DEF Found
  <2>2. Cardinality(Found(lots, question)) \in Nat
    BY <1>2, <2>1, FS_Subset, FS_CardinalityType DEF Table
  <2>3. /\ vpc' = "select" /\ total' = Cardinality(Found(lots, question)) /\ UNCHANGED reply
        /\ question.kind = "search"
    BY <1>7 DEF CountFound, Asked
  <2> QED
    BY <1>1, <2>2, <2>3 DEF EstateInv, EstateTypeOK, Found
<1>8. CASE SelectFound
  <2>1. PageRows(Found(lots, question), question.perPage, Offset(question.page, question.perPage))
          \subseteq Lots
    BY DEF PageRows, Found, EstateInv, EstateTypeOK
  <2>2. /\ vpc' = "idle" /\ UNCHANGED total /\ reply'.status \in {200, 500}
        /\ reply'.rows \subseteq Lots /\ question.kind = "search"
    BY <1>8, <2>1 DEF SelectFound, NoContent, Answers, Answer, EstateInv
  <2> QED
    BY <1>3, <2>2
<1> QED
  BY <1>4, <1>5, <1>6, <1>7, <1>8 DEF VisitorStep

LEMMA EstateStep == EstateInv /\ [EstateNext]_estateVars => EstateInv'
<1> SUFFICES ASSUME EstateInv, [EstateNext]_estateVars PROVE EstateInv'
  OBVIOUS
<1>1. CASE UNCHANGED estateVars
  BY <1>1 DEF estateVars, visitorVars, EstateInv, EstateTypeOK, Found
<1> QED
  BY <1>1, WritersKeep, AskKeeps, ReadKeeps DEF EstateNext

(* The table's ids are unique and no list is longer than its limit, for    *)
(* every file, posts, questions and limits.                                *)
THEOREM EstateTypeCorrect == EstateSpec => []EstateTypeOK
<1>1. EstateInv => EstateTypeOK
  BY DEF EstateInv
<1> QED
  BY <1>1, EstateStart, EstateStep, PTL DEF EstateSpec

(* The answers to the visitor, and the questions they are to.              *)
LEMMA AnswersCome ==
  ASSUME EstateInv, [EstateNext]_estateVars, vpc # "idle", vpc' = "idle"
  PROVE  /\ VisitorStep /\ question \in Questions /\ ~Refusable(question)
         /\ vpc = "ask" => ReadOne \/ ReadLowPriced \/ ReadNazotte \/ StatementFails
         /\ vpc = "select" => SelectFound \/ StatementFails
<1>1. ~UNCHANGED estateVars
  BY DEF estateVars, visitorVars
<1>2. \A p \in EstatePosters :
        ~(EstatePostArrive(p) \/ EstatePostInsert(p) \/ EstatePostFails(p))
  BY DEF EstatePostArrive, EstatePostInsert, EstatePostFails, visitorVars
<1>3. ~(EstateTruncate \/ EstateLoad) /\ \A q \in Questions : ~VisitorAsks(q)
  BY DEF EstateTruncate, EstateLoad, VisitorAsks, visitorVars
<1>4. VisitorStep
  BY <1>1, <1>2, <1>3 DEF EstateNext
<1>5. ~CountFound
  BY DEF CountFound
<1> QED
  BY <1>4, <1>5 DEF VisitorStep, ReadOne, ReadLowPriced, ReadNazotte, SelectFound, Asked,
     EstateInv

(* The answer to a search: the page of what is found, and its count.       *)
LEMMA SearchAnswers ==
  ASSUME EstateInv, [EstateNext]_estateVars, vpc = "select", vpc' = "idle", reply'.status = 200
  PROVE  LET offset == Offset(question.page, question.perPage)
         IN  /\ question \in Questions /\ question.kind = "search"
             /\ offset \in Nat /\ question.perPage \in Nat
             /\ reply'.rows = PageRows(Found(lots, question), question.perPage, offset)
             /\ reply'.count = total
<1>1. ~StatementFails
  BY DEF StatementFails, NoContent, Answers, Answer
<1>2. SelectFound /\ question \in Questions /\ question.kind = "search"
  BY <1>1, AnswersCome DEF EstateInv
<1>3. ~(Offset(question.page, question.perPage) < 0 \/ question.perPage < 0)
  BY <1>2 DEF SelectFound, NoContent, Answers, Answer
<1>4. Offset(question.page, question.perPage) \in Nat /\ question.perPage \in Nat
  BY <1>2, <1>3, SearchQuestion
<1> QED
  BY <1>2, <1>3, <1>4 DEF SelectFound, Answers, Answer

(* Every page of a search is the page the reference implementations answer *)
(* by LIKE and ranges, for every table and question, unless no int can     *)
(* hold its offset or a requested name is inside that of another feature.  *)
THEOREM EstatePagesAreReference == EstateSpec => EstatePageLikeReference
<1> DEFINE Right ==
      LET true == question.page * question.perPage
      IN  \/ true \notin MachineInt
          \/ ~WholeNames(question)
          \/ reply'.rows =
               IF KnownRanges(question)
                 THEN PageRows({e \in lots : EstateReferenceFits(e, question)},
                               question.perPage, true)
                 ELSE {}
<1>1. ASSUME EstateInv, [EstateNext]_estateVars,
             vpc = "select", vpc' = "idle", reply'.status = 200
      PROVE  Right
  <2>1. /\ question \in Questions /\ question.kind = "search"
        /\ reply'.rows = PageRows(Found(lots, question), question.perPage,
                                  Offset(question.page, question.perPage))
    BY <1>1, SearchAnswers
  <2>2. lots \subseteq Lots
    BY <1>1 DEF EstateInv, EstateTypeOK
  <2>3. question.page * question.perPage \in MachineInt
          => Offset(question.page, question.perPage) = question.page * question.perPage
    BY WrapKeeps DEF Offset
  <2>4. WholeNames(question)
          => Found(lots, question)
               = IF KnownRanges(question)
                   THEN {e \in lots : EstateReferenceFits(e, question)} ELSE {}
    BY <2>1, <2>2, FoundIsReference DEF WholeNames
  <2>5. \A limit, offset : PageRows({}, limit, offset) = {}
    BY DEF PageRows
  <2> QED
    BY <2>1, <2>3, <2>4, <2>5
<1>2. EstateInv /\ [EstateNext]_estateVars
        => [(vpc = "select" /\ vpc' = "idle" /\ reply'.status = 200) => Right]_estateVars
  <2> HIDE DEF Right
  <2> QED
    BY <1>1
<1>3. EstateInit /\ [][EstateNext]_estateVars
        => [][(vpc = "select" /\ vpc' = "idle" /\ reply'.status = 200) => Right]_estateVars
  <2> HIDE DEF Right
  <2> QED
    BY <1>2, EstateStart, EstateStep, PTL
<1> QED
  BY <1>3, PTL DEF EstateSpec, EstatePageLikeReference

(* A search whose table does not change between its two statements counts  *)
(* and answers the same estates: the page has what the count says is left. *)
THEOREM CountsAgree == EstateSpec => CountAgreesUnlessMoved
<1> DEFINE Right ==
      LET beyond == reply'.count - Offset(question.page, question.perPage)
      IN  Cardinality(reply'.rows) = Max({0, Min({question.perPage, beyond})})
<1>1. ASSUME EstateInv, [EstateNext]_estateVars,
             vpc = "select", vpc' = "idle", reply'.status = 200, ~moved
      PROVE  Right
  <2> DEFINE offset == Offset(question.page, question.perPage)
             limit == question.perPage
             all == Cardinality(Found(lots, question))
  <2>1. /\ offset \in Nat /\ limit \in Nat
        /\ reply'.rows = PageRows(Found(lots, question), limit, offset)
        /\ reply'.count = total
    BY <1>1, SearchAnswers
  <2>2. total = all /\ Table(Found(lots, question))
    BY <1>1, LotsAreTable, SubTable DEF EstateInv, Found
  <2>3. all \in Nat
    BY <2>2, FS_CardinalityType DEF Table
  <2>4. Cardinality(reply'.rows)
          = IF offset + limit <= all THEN limit ELSE IF offset <= all THEN all - offset ELSE 0
    BY <2>1, <2>2, PageCount
  <2>5. /\ Min({limit, all - offset}) = IF limit <= all - offset THEN limit ELSE all - offset
        /\ \A x \in Int : Max({0, x}) = IF 0 >= x THEN 0 ELSE x
    <3>1. limit \in Int /\ all - offset \in Int
      BY <2>1, <2>3
    <3>2. Min({limit, all - offset}) = IF limit <= all - offset THEN limit ELSE all - offset
      <4> HIDE DEF limit, all, offset
      <4> QED
        BY <3>1, MinMaxOfTwo
    <3>3. \A x \in Int : Max({0, x}) = IF 0 >= x THEN 0 ELSE x
      BY MinMaxOfTwo
    <3> QED
      BY <3>2, <3>3
  <2>6. Cardinality(reply'.rows) = Max({0, Min({limit, all - offset})})
    <3> HIDE DEF offset, limit, all
    <3> QED
      BY <2>1, <2>3, <2>4, <2>5
  <2> QED
    BY <2>1, <2>2, <2>6
<1>2. EstateInv /\ [EstateNext]_estateVars
        => [(vpc = "select" /\ vpc' = "idle" /\ reply'.status = 200 /\ ~moved) => Right]_estateVars
  <2> HIDE DEF Right
  <2> QED
    BY <1>1
<1>3. EstateInit /\ [][EstateNext]_estateVars
        => [][(vpc = "select" /\ vpc' = "idle" /\ reply'.status = 200 /\ ~moved)
                => Right]_estateVars
  <2> HIDE DEF Right
  <2> QED
    BY <1>2, EstateStart, EstateStep, PTL
<1> QED
  BY <1>3 DEF EstateSpec, CountAgreesUnlessMoved

LEMMA NazotteAnswer ==
  ASSUME EstateInv, [EstateNext]_estateVars,
         Asked("nazotte"), vpc' = "idle", reply'.status = 200
  PROVE  /\ Ring(question.ring) /\ lots \subseteq Lot
         /\ reply'.rows = Top({e \in lots : RingContains(question.ring, PointOf(e))}, NazotteLimit)
<1>1. ReadNazotte /\ Ring(question.ring)
  <2>1. vpc = "ask" /\ question.kind = "nazotte"
    BY DEF Asked
  <2>2. ~StatementFails /\ ~ReadOne /\ ~ReadLowPriced
    BY <2>1 DEF StatementFails, NoContent, Answers, Answer, ReadOne, ReadLowPriced, Asked
  <2> QED
    BY <2>1, <2>2, AnswersCome, QuestionRing
<1>2. reply'.rows = Nazotte(lots, question.ring)
  BY <1>1 DEF ReadNazotte, Answers, Answer
<1>3. lots \subseteq Lot
  BY LotsAreTable DEF EstateInv, Table
<1> QED
  BY <1>1, <1>2, <1>3, NazotteIsTop

(* The answer to a drawn ring has the most popular of all the estates in   *)
(* it, whatever its form: every point the ring test accepts is in the box. *)
THEOREM NazotteKeepsRing == EstateSpec => NazotteLosesNone
<1> DEFINE Right ==
      reply'.rows = Top({e \in lots : RingContains(question.ring, PointOf(e))}, NazotteLimit)
<1>1. EstateInv /\ [EstateNext]_estateVars
        => [(Asked("nazotte") /\ vpc' = "idle" /\ reply'.status = 200) => Right]_estateVars
  BY NazotteAnswer
<1>2. EstateInit /\ [][EstateNext]_estateVars
        => [][(Asked("nazotte") /\ vpc' = "idle" /\ reply'.status = 200) => Right]_estateVars
  <2> HIDE DEF Right
  <2> QED
    BY <1>1, EstateStart, EstateStep, PTL
<1> QED
  BY <1>2, PTL DEF EstateSpec, NazotteLosesNone

(* A ring that never turns the other way is the hull of its points.        *)
LEMMA OneWayIsHull ==
  ASSUME NEW ring, Ring(ring), TurnsOneWay(ring), NEW p \in Point
  PROVE  RingContains(ring, p) <=> HullContains(ToSet(ring), p)
<1> DEFINE T == {u \in [1 .. 3 -> DOMAIN ring] : u[1] < u[2] /\ u[2] < u[3]}
           turns == {Cross(ring[t[1]], ring[t[2]], ring[t[3]]) : t \in T}
<1>1. (\A x \in turns : x >= 0) \/ (\A x \in turns : x <= 0)
  BY DEF TurnsOneWay
<1>2. ASSUME NEW i \in DOMAIN ring, NEW j \in DOMAIN ring, NEW k \in DOMAIN ring, i < j, j < k
      PROVE  Cross(ring[i], ring[j], ring[k]) \in turns
  <2> DEFINE t == [x \in 1 .. 3 |-> IF x = 1 THEN i ELSE IF x = 2 THEN j ELSE k]
  <2>1. t[1] = i /\ t[2] = j /\ t[3] = k /\ t \in [1 .. 3 -> DOMAIN ring]
    OBVIOUS
  <2>2. t \in T
    BY <1>2, <2>1
  <2> HIDE DEF t, T
  <2> QED
    BY <2>1, <2>2
<1> HIDE DEF turns
<1> QED
  BY <1>1, <1>2, ConvexRingIsHull

(* The answer to a drawn ring that is convex has the most popular of all   *)
(* the estates in the convex hull of its corners.                          *)
THEOREM NazotteIsHull == EstateSpec => NazotteIsPolygon
<1> DEFINE Right ==
      reply'.rows = Top({e \in lots : HullContains(ToSet(question.ring), PointOf(e))},
                        NazotteLimit)
<1>1. ASSUME EstateInv, [EstateNext]_estateVars, Asked("nazotte"), vpc' = "idle",
             reply'.status = 200, TurnsOneWay(question.ring)
      PROVE  Right
  <2>1. Ring(question.ring) /\ lots \subseteq Lot
    BY <1>1, NazotteAnswer
  <2>2. \A e \in lots : RingContains(question.ring, PointOf(e))
                          <=> HullContains(ToSet(question.ring), PointOf(e))
    <3>1. \A e \in lots : PointOf(e) \in Point
      BY <2>1 DEF Lot, PointOf, Point
    <3> QED
      BY <1>1, <2>1, <3>1, OneWayIsHull
  <2>3. {e \in lots : RingContains(question.ring, PointOf(e))}
          = {e \in lots : HullContains(ToSet(question.ring), PointOf(e))}
    BY <2>2
  <2> QED
    BY <1>1, <2>3, NazotteAnswer
<1>2. EstateInv /\ [EstateNext]_estateVars
        => [(Asked("nazotte") /\ vpc' = "idle" /\ reply'.status = 200
              /\ TurnsOneWay(question.ring)) => Right]_estateVars
  <2> HIDE DEF Right
  <2> QED
    BY <1>1
<1>3. EstateInit /\ [][EstateNext]_estateVars
        => [][(Asked("nazotte") /\ vpc' = "idle" /\ reply'.status = 200
                /\ TurnsOneWay(question.ring)) => Right]_estateVars
  <2> HIDE DEF Right
  <2> QED
    BY <1>2, EstateStart, EstateStep, PTL
<1> QED
  BY <1>3, PTL DEF EstateSpec, NazotteIsPolygon

(* A list that is not full has every estate that fits.                     *)
LEMMA NothingMissing ==
  ASSUME EstateInv, [EstateNext]_estateVars, vpc # "idle", vpc' = "idle",
         reply'.status \in {200, 404}, NEW e \in known
  PROVE  ~Missing(question, reply', e)
<1>1. e \in lots /\ e \in Lot /\ Table(lots) /\ lots \subseteq Lot
  BY LotsAreTable, LotsAssumption DEF EstateInv, EstateTypeOK, Table
<1>2. ~StatementFails
  BY DEF StatementFails, NoContent, Answers, Answer
<1>3. CASE ReadOne
  <2>1. question.kind = "detail" /\ (question.id = e.id => reply'.status = 200)
    BY <1>1, <1>3 DEF ReadOne, NoContent, Answers, Answer, Asked
  <2> QED
    BY <2>1 DEF Missing
<1>4. CASE ReadLowPriced
  <2>1. /\ question.kind = "low" /\ reply'.rows = Cheapest(lots, ListLimit)
        /\ reply'.count = Cardinality(Cheapest(lots, ListLimit))
    BY <1>4 DEF ReadLowPriced, Answers, Answer, Asked
  <2>2. reply'.count < ListLimit => reply'.rows = lots
    BY <1>1, <2>1, CheapestLimits, LimitsAssumption
  <2> QED
    BY <1>1, <2>1, <2>2 DEF Missing
<1>5. CASE ReadNazotte
  <2> DEFINE inside == {f \in lots : RingContains(question.ring, PointOf(f))}
  <2>1. /\ question.kind = "nazotte" /\ reply'.rows = Nazotte(lots, question.ring)
        /\ reply'.count = Cardinality(reply'.rows) /\ Ring(question.ring)
    BY <1>5, AnswersCome, QuestionRing DEF ReadNazotte, Answers, Answer, Asked
  <2>2. reply'.rows = Top(inside, NazotteLimit) /\ Table(inside)
    BY <1>1, <2>1, NazotteIsTop, SubTable
  <2>3. reply'.count < NazotteLimit => reply'.rows = inside
    <3> HIDE DEF inside
    <3> QED
      BY <2>1, <2>2, TopLimits, LimitsAssumption
  <2> QED
    BY <1>1, <2>1, <2>3 DEF Missing
<1>6. CASE SelectFound
  <2>1. vpc = "select" /\ question.kind = "search"
    BY <1>6 DEF SelectFound, EstateInv
  <2>2. reply'.status = 200
    BY <1>6 DEF SelectFound, NoContent, Answers, Answer
  <2>3. /\ question \in Questions
        /\ reply'.rows = PageRows(Found(lots, question), question.perPage,
                                  Offset(question.page, question.perPage))
        /\ question.perPage \in Int
    BY <2>1, <2>2, SearchAnswers, SearchQuestion
  <2>4. question.page = 0 => Offset(question.page, question.perPage) = 0
    <3>1. 0 \in MachineInt /\ 0 * question.perPage = 0
      BY <2>3, LimitsAssumption DEF MachineInt
    <3> QED
      BY <3>1, WrapKeeps DEF Offset
  <2>5. Table(Found(lots, question))
    BY <1>1, SubTable DEF Found
  <2>6. question.page = 0 /\ Cardinality(reply'.rows) < question.perPage
          => reply'.rows = Found(lots, question)
    BY <2>3, <2>4, <2>5, PageNotFull
  <2> QED
    BY <1>1, <2>1, <2>6 DEF Missing, Found
<1> QED
  BY <1>2, <1>3, <1>4, <1>5, <1>6, AnswersCome DEF EstateInv, EstateTypeOK

(* An estate of a post answered 201 is found by every way to read the      *)
(* table until the next truncation, for any posts, resets and questions.   *)
THEOREM PostedEstatesAreFound == EstateSpec => PostedIsFound
<1> DEFINE Right == \A e \in known : ~Missing(question, reply', e)
<1>1. EstateInv /\ [EstateNext]_estateVars
        => [(vpc # "idle" /\ vpc' = "idle" /\ reply'.status \in {200, 404}) => Right]_estateVars
  BY NothingMissing
<1>2. EstateInit /\ [][EstateNext]_estateVars
        => [][(vpc # "idle" /\ vpc' = "idle" /\ reply'.status \in {200, 404})
                => Right]_estateVars
  <2> HIDE DEF Right
  <2> QED
    BY <1>1, EstateStart, EstateStep, PTL
<1> QED
  BY <1>2 DEF EstateSpec, PostedIsFound

-----------------------------------------------------------------------------
(* The recommendations, the shop and the query builders side by side keep  *)
(* their types.                                                            *)
THEOREM EstatesTypes == MCSpec => []EstatesTypeOK
<1>1. MCInit => RecTypeOK /\ EstateInv /\ BuilderInv
  BY RecStart, EstateStart, BuilderStart DEF MCInit
<1>2. RecTypeOK /\ EstateInv /\ BuilderInv /\ [MCNext]_<<recVars, estateVars, builderVars, part>>
        => (RecTypeOK /\ EstateInv /\ BuilderInv)'
  <2>1. [MCNext]_<<recVars, estateVars, builderVars, part>>
          => [RecNext]_recVars /\ [EstateNext]_estateVars /\ [BuilderNext]_builderVars
    BY DEF MCNext
  <2> QED
    BY <2>1, RecStep, EstateStep, BuilderStep
<1>3. RecTypeOK /\ EstateInv /\ BuilderInv => EstatesTypeOK
  BY BuilderTyped DEF EstateInv, EstatesTypeOK
<1> QED
  BY <1>1, <1>2, <1>3, PTL DEF MCSpec
=============================================================================
