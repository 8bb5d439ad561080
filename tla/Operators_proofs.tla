---------------------------- MODULE Operators_proofs ----------------------------
(***************************************************************************)
(* Theorems about the operators the models share.  Ranges: the generated   *)
(* columns number the ranges of the condition files.  Polygon: the test of *)
(* a ring and the convex hull, for all points of the grid.                 *)
(***************************************************************************)
EXTENDS Ranges, Polygon, FiniteSetTheorems, TLAPS

-----------------------------------------------------------------------------
(* Ranges.                                                                 *)

(* price_range numbers the ranges of chair_condition.json.                 *)
THEOREM PriceRangeIsReference ==
  ASSUME NEW v \in Int, NEW i \in 0 .. 5
  PROVE  PriceRange(v) = i <=> Within(RangeOf(PriceSeparators, i), v)
<1>1. i \in {0, 1, 2, 3, 4, 5}
  OBVIOUS
<1>2. Len(PriceSeparators) = 5
  BY DEF PriceSeparators
<1>3. /\ PriceSeparators[1] = 3000 /\ PriceSeparators[2] = 6000 /\ PriceSeparators[3] = 9000
      /\ PriceSeparators[4] = 12000 /\ PriceSeparators[5] = 15000
  BY DEF PriceSeparators
<1> QED
  BY <1>1, <1>2, <1>3 DEF PriceRange, Within, RangeOf

(* height_range, width_range, depth_range and the two of a door number the *)
(* ranges of their conditions.                                             *)
THEOREM SizeRangeIsReference ==
  ASSUME NEW v \in Int, NEW i \in 0 .. 3
  PROVE  SizeRange(v) = i <=> Within(RangeOf(SizeSeparators, i), v)
<1>1. i \in {0, 1, 2, 3}
  OBVIOUS
<1>2. Len(SizeSeparators) = 3
  BY DEF SizeSeparators
<1>3. SizeSeparators[1] = 80 /\ SizeSeparators[2] = 110 /\ SizeSeparators[3] = 150
  BY DEF SizeSeparators
<1> QED
  BY <1>1, <1>2, <1>3 DEF SizeRange, Within, RangeOf

(* rent_range numbers the ranges of estate_condition.json.                 *)
THEOREM RentRangeIsReference ==
  ASSUME NEW v \in Int, NEW i \in 0 .. 3
  PROVE  RentRange(v) = i <=> Within(RangeOf(RentSeparators, i), v)
<1>1. i \in {0, 1, 2, 3}
  OBVIOUS
<1>2. Len(RentSeparators) = 3
  BY DEF RentSeparators
<1>3. RentSeparators[1] = 50000 /\ RentSeparators[2] = 100000 /\ RentSeparators[3] = 150000
  BY DEF RentSeparators
<1> QED
  BY <1>1, <1>2, <1>3 DEF RentRange, Within, RangeOf

-----------------------------------------------------------------------------
(* Places in an order, the smallest and the largest.                       *)

(* The rows before each row, in an order of all the rows of S.             *)
Ordered(S, R) ==
  /\ IsFiniteSet(S) /\ R \in [S -> SUBSET S]
  /\ \A e \in S : e \notin R[e]
  /\ \A e, f \in S : f \in R[e] => R[f] \subseteq R[e]
  /\ \A e, f \in S : e # f => e \in R[f] \/ f \in R[e]

LEMMA PlacesAreNumbers ==
  ASSUME NEW S, NEW R, Ordered(S, R), NEW e \in S
  PROVE  /\ IsFiniteSet(R[e]) /\ Cardinality(S) \in Nat
         /\ Cardinality(R[e]) \in 0 .. Cardinality(S) - 1
<1>1. IsFiniteSet(S) /\ R[e] \subseteq S /\ e \in S /\ e \notin R[e]
  BY DEF Ordered
<1>2. IsFiniteSet(R[e]) /\ Cardinality(R[e]) <= Cardinality(S)
      /\ (Cardinality(S) = Cardinality(R[e]) => S = R[e])
  BY <1>1, FS_Subset
<1>3. Cardinality(R[e]) \in Nat /\ Cardinality(S) \in Nat
  BY <1>1, <1>2, FS_CardinalityType
<1> QED
  BY <1>1, <1>2, <1>3

(* Each row has a place of its own, and no place is left out.              *)
LEMMA Places ==
  ASSUME NEW S, NEW R, Ordered(S, R)
  PROVE  [e \in S |-> Cardinality(R[e])] \in Bijection(S, 0 .. Cardinality(S) - 1)
<1> DEFINE place == [e \in S |-> Cardinality(R[e])]
           T == 0 .. Cardinality(S) - 1
<1>1. ASSUME NEW e \in S, NEW f \in S, f \in R[e]
      PROVE  Cardinality(R[f]) # Cardinality(R[e])
  <2>1. R[f] \subseteq R[e] /\ R[f] # R[e] /\ IsFiniteSet(R[e])
    BY <1>1, PlacesAreNumbers DEF Ordered
  <2> QED
    BY <2>1, FS_Subset
<1>2. place \in [S -> T]
  BY PlacesAreNumbers
<1>3. place \in Injection(S, T)
  BY <1>1, <1>2 DEF Injection, IsInjective, Ordered
<1>4. IsFiniteSet(S) /\ Cardinality(S) \in Nat
  BY FS_CardinalityType DEF Ordered
<1>5. IsFiniteSet(T) /\ Cardinality(T) = Cardinality(S)
  <2>1. \A n \in Nat : IsFiniteSet(0 .. n - 1) /\ Cardinality(0 .. n - 1) = n
    BY FS_Interval
  <2> QED
    BY <1>4, <2>1
<1>6. place \in Surjection(S, T)
  <2> HIDE DEF place, T
  <2> QED
    BY <1>3, <1>5, FS_Injection
<1> QED
  BY <1>3, <1>6 DEF Bijection

(* A set in its order: at each place stands what has that place.           *)
Placed(s, S, R) ==
  /\ s = [k \in 1 .. Cardinality(S) |-> s[k]]
  /\ \A k \in 1 .. Cardinality(S) :
       (\E x \in S : Cardinality(R[x]) = k - 1) => s[k] \in S /\ Cardinality(R[s[k]]) = k - 1

LEMMA InTurn ==
  ASSUME NEW S, NEW R, Ordered(S, R), NEW s, Placed(s, S, R)
  PROVE  /\ Cardinality(S) \in Nat /\ s \in Seq(S) /\ Len(s) = Cardinality(S) /\ ToSet(s) = S
         /\ \A i, j \in DOMAIN s : i < j => s[i] \in R[s[j]]
<1> DEFINE n == Cardinality(S)
           place == [e \in S |-> Cardinality(R[e])]
<1>1. n \in Nat
  BY FS_CardinalityType DEF Ordered
<1>10. /\ s = [k \in 1 .. n |-> s[k]]
       /\ \A k \in 1 .. n :
            (\E x \in S : Cardinality(R[x]) = k - 1) => s[k] \in S /\ Cardinality(R[s[k]]) = k - 1
  BY DEF Placed
<1>2. place \in Bijection(S, 0 .. n - 1)
  BY Places
<1>3. ASSUME NEW k \in 1 .. n PROVE s[k] \in S /\ Cardinality(R[s[k]]) = k - 1
  <2>1. k - 1 \in 0 .. n - 1
    BY <1>1
  <2> HIDE DEF n
  <2>2. \E x \in S : place[x] = k - 1
    <3> HIDE DEF place
    <3> QED
      BY <1>2, <2>1 DEF Bijection, Surjection
  <2>3. \E x \in S : Cardinality(R[x]) = k - 1
    BY <2>2
  <2> QED
    BY <1>10, <2>3
<1>4. DOMAIN s = 1 .. n
  BY <1>10
<1>5. s \in [1 .. n -> S]
  <2> HIDE DEF n
  <2> QED
    BY <1>3, <1>10
<1> HIDE DEF n
<1>6. s \in Seq(S) /\ Len(s) = n
  <2>1. \A t \in [1 .. n -> S] : t \in Seq(S) /\ Len(t) = n
    BY <1>1
  <2> QED
    BY <1>5, <2>1
<1>7. ASSUME NEW x \in S PROVE \E k \in 1 .. n : s[k] = x
  <2>1. place[x] \in 0 .. n - 1
    <3> HIDE DEF place
    <3> QED
      BY <1>2 DEF Bijection, Injection
  <2> DEFINE k == place[x] + 1
  <2>2. k \in 1 .. n /\ k - 1 = place[x]
    <3>1. \A y \in 0 .. n - 1 : y + 1 \in 1 .. n /\ (y + 1) - 1 = y
      BY <1>1
    <3> HIDE DEF place
    <3> QED
      BY <2>1, <3>1
  <2>3. s[k] \in S /\ place[s[k]] = place[x]
    <3> HIDE DEF k
    <3>1. s[k] \in S /\ Cardinality(R[s[k]]) = k - 1
      BY <1>3, <2>2
    <3>2. place[s[k]] = Cardinality(R[s[k]])
      BY <3>1
    <3> HIDE DEF place
    <3> QED
      BY <2>2, <3>1, <3>2
  <2>4. s[k] = x
    <3> HIDE DEF place, k
    <3> QED
      BY <1>2, <2>3 DEF Bijection, Injection, IsInjective
  <2> HIDE DEF k
  <2> QED
    BY <2>2, <2>4
<1>8. ToSet(s) = S
  BY <1>3, <1>4, <1>7 DEF ToSet
<1>9. ASSUME NEW i \in 1 .. n, NEW j \in 1 .. n, i < j PROVE s[i] \in R[s[j]]
  <2>1. s[i] \in S /\ Cardinality(R[s[i]]) = i - 1 /\ s[j] \in S /\ Cardinality(R[s[j]]) = j - 1
    BY <1>3
  <2>2. s[i] # s[j]
    <3>1. i - 1 # j - 1
      BY <1>9
    <3> QED
      BY <2>1, <3>1
  <2>3. ASSUME s[j] \in R[s[i]] PROVE FALSE
    <3>1. R[s[j]] \subseteq R[s[i]]
      BY <2>1, <2>3 DEF Ordered
    <3>2. IsFiniteSet(R[s[i]])
      BY <2>1, PlacesAreNumbers
    <3>3. Cardinality(R[s[j]]) <= Cardinality(R[s[i]])
      BY <3>1, <3>2, FS_Subset
    <3> QED
      BY <1>9, <2>1, <3>3
  <2> QED
    BY <2>1, <2>2, <2>3 DEF Ordered
<1> QED
  BY <1>1, <1>4, <1>6, <1>8, <1>9 DEF n

(* Numbers are ordered.                                                    *)
LEMMA NumbersOrdered ==
  ASSUME NEW X, X \subseteq Int, IsFiniteSet(X)
  PROVE  Ordered(X, [x \in X |-> {y \in X : y < x}])
<1> DEFINE R == [x \in X |-> {y \in X : y < x}]
<1>1. R \in [X -> SUBSET X]
  OBVIOUS
<1>2. \A e \in X : e \notin R[e]
  OBVIOUS
<1>3. \A e, f \in X : f \in R[e] => R[f] \subseteq R[e]
  <2> SUFFICES ASSUME NEW e \in X, NEW f \in X, f \in R[e], NEW g \in R[f] PROVE g \in R[e]
    OBVIOUS
  <2>1. e \in Int /\ f \in Int /\ g \in Int
    OBVIOUS
  <2> QED
    BY <2>1
<1>4. \A e, f \in X : e # f => e \in R[f] \/ f \in R[e]
  OBVIOUS
<1> HIDE DEF R
<1>5. Ordered(X, R)
  BY <1>1, <1>2, <1>3, <1>4 DEF Ordered
<1> QED
  BY <1>5 DEF R

(* A finite set of numbers has its smallest and its largest.               *)
LEMMA MinIs ==
  ASSUME NEW X, X \subseteq Int, IsFiniteSet(X), X # {}
  PROVE  Min(X) \in X /\ \A y \in X : Min(X) <= y
<1> DEFINE R == [x \in X |-> {y \in X : y < x}]
<1>1. Ordered(X, R)
  BY NumbersOrdered
<1>2. Cardinality(X) \in Nat /\ Cardinality(X) # 0
  BY FS_CardinalityType, FS_EmptySet
<1>3. PICK x \in X : Cardinality(R[x]) = 0
  <2> DEFINE place == [x \in X |-> Cardinality(R[x])]
  <2>1. place \in Bijection(X, 0 .. Cardinality(X) - 1)
    <3> HIDE DEF R
    <3> QED
      BY <1>1, Places
  <2>2. 0 \in 0 .. Cardinality(X) - 1
    BY <1>2
  <2>3. \E x \in X : place[x] = 0
    <3> HIDE DEF place
    <3> QED
      BY <2>1, <2>2 DEF Bijection, Surjection
  <2> QED
    BY <2>3
<1>4. R[x] = {}
  <2>1. IsFiniteSet(R[x])
    <3> HIDE DEF R
    <3> QED
      BY <1>1, PlacesAreNumbers
  <2> HIDE DEF R
  <2> QED
    BY <1>3, <2>1, FS_EmptySet
<1>5. \A y \in X : x <= y
  BY <1>4
<1> QED
  BY <1>5 DEF Min

LEMMA MaxIs ==
  ASSUME NEW X, X \subseteq Int, IsFiniteSet(X), X # {}
  PROVE  Max(X) \in X /\ \A y \in X : Max(X) >= y
<1> DEFINE R == [x \in X |-> {y \in X : y > x}]
<1>1. Ordered(X, R)
  <2>1. R \in [X -> SUBSET X]
    OBVIOUS
  <2>2. \A e \in X : e \notin R[e]
    OBVIOUS
  <2>3. \A e, f \in X : f \in R[e] => R[f] \subseteq R[e]
    <3> SUFFICES ASSUME NEW e \in X, NEW f \in X, f \in R[e], NEW g \in R[f] PROVE g \in R[e]
      OBVIOUS
    <3>1. e \in Int /\ f \in Int /\ g \in Int
      OBVIOUS
    <3> QED
      BY <3>1
  <2>4. \A e, f \in X : e # f => e \in R[f] \/ f \in R[e]
    OBVIOUS
  <2> HIDE DEF R
  <2> QED
    BY <2>1, <2>2, <2>3, <2>4 DEF Ordered
<1>2. Cardinality(X) \in Nat /\ Cardinality(X) # 0
  BY FS_CardinalityType, FS_EmptySet
<1>3. PICK x \in X : Cardinality(R[x]) = 0
  <2> DEFINE place == [x \in X |-> Cardinality(R[x])]
  <2>1. place \in Bijection(X, 0 .. Cardinality(X) - 1)
    <3> HIDE DEF R
    <3> QED
      BY <1>1, Places
  <2>2. 0 \in 0 .. Cardinality(X) - 1
    BY <1>2
  <2>3. \E x \in X : place[x] = 0
    <3> HIDE DEF place
    <3> QED
      BY <2>1, <2>2 DEF Bijection, Surjection
  <2> QED
    BY <2>3
<1>4. R[x] = {}
  <2>1. IsFiniteSet(R[x])
    <3> HIDE DEF R
    <3> QED
      BY <1>1, PlacesAreNumbers
  <2> HIDE DEF R
  <2> QED
    BY <1>3, <2>1, FS_EmptySet
<1>5. \A y \in X : x >= y
  BY <1>4
<1> QED
  BY <1>5 DEF Max

(* The points of the grid.                                                 *)
Point == Int \X Int
Ring(ring) == ring \in Seq(Point) /\ ring # <<>>

(* Min and Max of two numbers.                                             *)
LEMMA MinMaxOfTwo ==
  ASSUME NEW a \in Int, NEW b \in Int
  PROVE  Min({a, b}) = (IF a <= b THEN a ELSE b) /\ Max({a, b}) = (IF a >= b THEN a ELSE b)
<1>1. {a, b} \subseteq Int /\ {a, b} # {} /\ IsFiniteSet({a, b})
  <2>1. IsFiniteSet({a}) /\ {a, b} = {a} \cup {b}
    BY FS_Singleton
  <2> QED
    BY <2>1, FS_AddElement
<1>2. Min({a, b}) \in {a, b} /\ \A y \in {a, b} : Min({a, b}) <= y
  BY <1>1, MinIs
<1>3. Max({a, b}) \in {a, b} /\ \A y \in {a, b} : Max({a, b}) >= y
  BY <1>1, MaxIs
<1> QED
  BY <1>2, <1>3

-----------------------------------------------------------------------------
(* The box and the crossings of a ring.                                    *)

(* The box has an extreme point of the ring at each of its sides.          *)
LEMMA BoxBounds ==
  ASSUME NEW ring, Ring(ring), NEW d \in 1 .. 2
  PROVE  /\ \A i \in DOMAIN ring : /\ ring[i][d] \in Int
                                   /\ BoundingBox(ring).low[d] <= ring[i][d]
                                   /\ ring[i][d] <= BoundingBox(ring).high[d]
         /\ \E i \in DOMAIN ring : BoundingBox(ring).low[d] = ring[i][d]
         /\ \E i \in DOMAIN ring : BoundingBox(ring).high[d] = ring[i][d]
<1> DEFINE X == {p[d] : p \in ToSet(ring)}
           at == [i \in DOMAIN ring |-> ring[i][d]]
<1>1. /\ DOMAIN ring = 1 .. Len(ring) /\ Len(ring) \in Nat /\ Len(ring) # 0
      /\ \A i \in DOMAIN ring : ring[i] \in Point
  BY DEF Ring
<1>2. \A i \in DOMAIN ring : ring[i][d] \in Int
  BY <1>1 DEF Point
<1>3. X = {ring[i][d] : i \in DOMAIN ring} /\ X \subseteq Int /\ X # {}
  BY <1>1, <1>2 DEF ToSet
<1>4. at \in Surjection(DOMAIN ring, X)
  BY <1>3 DEF Surjection
<1>5. IsFiniteSet(X)
  <2>1. IsFiniteSet(DOMAIN ring)
    BY <1>1, FS_Interval
  <2> HIDE DEF at, X
  <2> QED
    BY <1>4, <2>1, FS_Surjection
<1>6. BoundingBox(ring).low[d] = Min(X) /\ BoundingBox(ring).high[d] = Max(X)
  <2>1. CASE d = 1
    BY <2>1 DEF BoundingBox
  <2>2. CASE d = 2
    BY <2>2 DEF BoundingBox
  <2> QED
    BY <2>1, <2>2
<1>7. /\ Min(X) \in X /\ \A y \in X : Min(X) <= y
      /\ Max(X) \in X /\ \A y \in X : Max(X) >= y
  <2> HIDE DEF X
  <2> QED
    BY <1>3, <1>5, MinIs, MaxIs
<1> QED
  BY <1>2, <1>3, <1>6, <1>7

(* Twice the area, split where the point lies.                             *)
LEMMA Coordinates == \A a \in Point : a[1] \in Int /\ a[2] \in Int
BY DEF Point

LEMMA CrossSplit ==
  ASSUME NEW a \in Point, NEW b \in Point, NEW p \in Point
  PROVE  Cross(a, b, p) = (b[1] - p[1]) * (p[2] - a[2]) + (p[1] - a[1]) * (p[2] - b[2])
BY Coordinates DEF Cross

LEMMA SignsOfProducts ==
  /\ \A u, v \in Int : u > 0 /\ v > 0 => u * v > 0
  /\ \A u, v \in Int : u > 0 /\ v < 0 => u * v < 0
  /\ \A u, v \in Int : u >= 0 /\ v > 0 => u * v >= 0
  /\ \A u, v \in Int : u >= 0 /\ v < 0 => u * v <= 0
  /\ \A u, v \in Int : u * v \in Int
OBVIOUS

(* An edge above the point is crossed when it goes over it, one below      *)
(* never.                                                                  *)
LEMMA EdgeAbove ==
  ASSUME NEW a \in Point, NEW b \in Point, NEW p \in Point, p[2] < a[2], p[2] < b[2],
         a[1] <= p[1], p[1] < b[1]
  PROVE  Cross(a, b, p) < 0
<1>1. /\ b[1] - p[1] \in Int /\ b[1] - p[1] > 0 /\ p[2] - a[2] \in Int /\ p[2] - a[2] < 0
      /\ p[1] - a[1] \in Int /\ p[1] - a[1] >= 0 /\ p[2] - b[2] \in Int /\ p[2] - b[2] < 0
  BY Coordinates
<1>2. (b[1] - p[1]) * (p[2] - a[2]) < 0 /\ (p[1] - a[1]) * (p[2] - b[2]) <= 0
  BY <1>1, SignsOfProducts
<1>3. (b[1] - p[1]) * (p[2] - a[2]) \in Int /\ (p[1] - a[1]) * (p[2] - b[2]) \in Int
  BY <1>1, SignsOfProducts
<1> QED
  BY <1>2, <1>3, CrossSplit

LEMMA EdgeBelow ==
  ASSUME NEW a \in Point, NEW b \in Point, NEW p \in Point, p[2] > a[2], p[2] > b[2],
         a[1] <= p[1], p[1] < b[1]
  PROVE  Cross(a, b, p) > 0
<1>1. /\ b[1] - p[1] \in Int /\ b[1] - p[1] > 0 /\ p[2] - a[2] \in Int /\ p[2] - a[2] > 0
      /\ p[1] - a[1] \in Int /\ p[1] - a[1] >= 0 /\ p[2] - b[2] \in Int /\ p[2] - b[2] > 0
  BY Coordinates
<1>2. (b[1] - p[1]) * (p[2] - a[2]) > 0 /\ (p[1] - a[1]) * (p[2] - b[2]) >= 0
  BY <1>1, SignsOfProducts
<1>3. (b[1] - p[1]) * (p[2] - a[2]) \in Int /\ (p[1] - a[1]) * (p[2] - b[2]) \in Int
  BY <1>1, SignsOfProducts
<1> QED
  BY <1>2, <1>3, CrossSplit

LEMMA AboveCrosses ==
  ASSUME NEW a \in Point, NEW b \in Point, NEW p \in Point, p[2] < a[2], p[2] < b[2]
  PROVE  Crosses(a, b, p) <=> (a[1] <= p[1] /\ ~(b[1] <= p[1]))
                              \/ (~(a[1] <= p[1]) /\ b[1] <= p[1])
<1>1. (p[1] < b[1] <=> ~(b[1] <= p[1])) /\ (p[1] < a[1] <=> ~(a[1] <= p[1]))
  BY Coordinates
<1>2. a[1] <= p[1] /\ p[1] < b[1] => Cross(a, b, p) < 0
  BY EdgeAbove
<1>3. b[1] <= p[1] /\ p[1] < a[1] => Cross(b, a, p) < 0
  BY EdgeAbove
<1> QED
  BY <1>1, <1>2, <1>3 DEF Crosses

LEMMA BelowCrossesNot ==
  ASSUME NEW a \in Point, NEW b \in Point, NEW p \in Point, p[2] > a[2], p[2] > b[2]
  PROVE  ~Crosses(a, b, p)
<1>1. Cross(a, b, p) \in Int /\ Cross(b, a, p) \in Int
  BY Coordinates DEF Cross
<1>2. a[1] <= p[1] /\ p[1] < b[1] => Cross(a, b, p) > 0
  BY EdgeBelow
<1>3. b[1] <= p[1] /\ p[1] < a[1] => Cross(b, a, p) > 0
  BY EdgeBelow
<1> QED
  BY <1>1, <1>2, <1>3 DEF Crosses

(* Around a ring one goes into a set of places as often as out of it.      *)
After(i, n) == (i % n) + 1

LEMMA AfterIs ==
  ASSUME NEW n \in Nat \ {0}, NEW i \in 1 .. n
  PROVE  After(i, n) = (IF i = n THEN 1 ELSE i + 1) /\ After(i, n) \in 1 .. n
<1>1. i % n = IF i = n THEN 0 ELSE i
  OBVIOUS
<1> QED
  BY <1>1 DEF After

LEMMA DisjointUnion ==
  ASSUME NEW S, NEW T, IsFiniteSet(S), IsFiniteSet(T), S \cap T = {}
  PROVE  Cardinality(S \cup T) = Cardinality(S) + Cardinality(T)
<1>1. Cardinality(S) \in Nat /\ Cardinality(T) \in Nat
  BY FS_CardinalityType
<1>2. Cardinality(S \cap T) = 0
  BY FS_EmptySet
<1>3. Cardinality(S \cup T) = Cardinality(S) + Cardinality(T) - Cardinality(S \cap T)
  BY FS_Union
<1> QED
  BY <1>1, <1>2, <1>3

LEMMA EvenChanges ==
  ASSUME NEW n \in Nat \ {0}, NEW A, A \subseteq 1 .. n
  PROVE  LET C == {i \in 1 .. n : \/ i \in A /\ After(i, n) \notin A
                                  \/ i \notin A /\ After(i, n) \in A}
         IN  Cardinality(C) \in Nat /\ Cardinality(C) % 2 = 0
<1> DEFINE D == 1 .. n
           In == {i \in D : i \notin A /\ After(i, n) \in A}
           Out == {i \in D : i \in A /\ After(i, n) \notin A}
           Stay == {i \in D : i \in A /\ After(i, n) \in A}
           Pre == {i \in D : After(i, n) \in A}
           C == {i \in D : \/ i \in A /\ After(i, n) \notin A
                           \/ i \notin A /\ After(i, n) \in A}
           next == [i \in Pre |-> After(i, n)]
<1>1. IsFiniteSet(D)
  BY FS_Interval
<1>2. IsFiniteSet(In) /\ IsFiniteSet(Out) /\ IsFiniteSet(Stay) /\ IsFiniteSet(Pre)
  BY <1>1, FS_Subset
<1>3. /\ Cardinality(In) \in Nat /\ Cardinality(Out) \in Nat /\ Cardinality(Stay) \in Nat
      /\ Cardinality({}) = 0
  BY <1>2, FS_CardinalityType, FS_EmptySet
<1>4. next \in Bijection(Pre, A)
  <2>1. next \in [Pre -> A]
    OBVIOUS
  <2>2. \A i, j \in Pre : next[i] = next[j] => i = j
    BY AfterIs
  <2>3. \A j \in A : \E i \in Pre : next[i] = j
    <3> SUFFICES ASSUME NEW j \in A PROVE \E i \in D : After(i, n) = j
      OBVIOUS
    <3>1. CASE j = 1
      BY <3>1, AfterIs
    <3>2. CASE j # 1
      <4>1. j - 1 \in D /\ j - 1 # n /\ j - 1 + 1 = j
        BY <3>2
      <4> QED
        BY <4>1, AfterIs
    <3> QED
      BY <3>1, <3>2
  <2> HIDE DEF next, Pre
  <2> QED
    BY <2>1, <2>2, <2>3 DEF Bijection, Injection, Surjection, IsInjective
<1>5. Cardinality(A) = Cardinality(Pre)
  <2>1. ExistsBijection(Pre, A)
    BY <1>4 DEF ExistsBijection
  <2> HIDE DEF Pre
  <2> QED
    BY <1>2, <2>1, FS_Bijection
<1>6. /\ Stay \cup Out = A /\ Stay \cap Out = {}
      /\ Stay \cup In = Pre /\ Stay \cap In = {}
      /\ Out \cup In = C /\ Out \cap In = {}
  OBVIOUS
<1>7. /\ Cardinality(A) = Cardinality(Stay) + Cardinality(Out)
      /\ Cardinality(Pre) = Cardinality(Stay) + Cardinality(In)
      /\ Cardinality(C) = Cardinality(Out) + Cardinality(In)
  <2> HIDE DEF Stay, Out, In, Pre, C
  <2>1. Cardinality(A) = Cardinality(Stay) + Cardinality(Out)
    BY <1>2, <1>6, DisjointUnion
  <2>2. Cardinality(Pre) = Cardinality(Stay) + Cardinality(In)
    BY <1>2, <1>6, DisjointUnion
  <2>3. Cardinality(C) = Cardinality(Out) + Cardinality(In)
    BY <1>2, <1>6, DisjointUnion
  <2> QED
    BY <2>1, <2>2, <2>3
<1>8. Cardinality(C) = 2 * Cardinality(Out)
  <2> HIDE DEF Stay, Out, In, Pre, C
  <2>1. Cardinality(Stay) + Cardinality(Out) = Cardinality(Stay) + Cardinality(In)
    BY <1>5, <1>7
  <2>2. Cardinality(Out) = Cardinality(In)
    BY <1>3, <2>1
  <2> QED
    BY <1>3, <1>7, <2>2
<1>9. \A k \in Nat : 2 * k \in Nat /\ (2 * k) % 2 = 0
  OBVIOUS
<1>10. Cardinality(C) \in Nat /\ Cardinality(C) % 2 = 0
  <2> HIDE DEF Out, C
  <2> QED
    BY <1>3, <1>8, <1>9
<1> QED
  BY <1>10

(* The edges a point crosses are as many as their first ends.              *)
LEMMA EdgesAreSteps ==
  ASSUME NEW ring, Ring(ring), NEW p \in Point
  PROVE  Cardinality({e \in Edges(ring) : Crosses(ring[e[1]], ring[e[2]], p)})
           = Cardinality({i \in DOMAIN ring : Crosses(ring[i], ring[After(i, Len(ring))], p)})
<1> DEFINE E == {e \in Edges(ring) : Crosses(ring[e[1]], ring[e[2]], p)}
           I == {i \in DOMAIN ring : Crosses(ring[i], ring[After(i, Len(ring))], p)}
           edge == [i \in I |-> <<i, After(i, Len(ring))>>]
<1>1. DOMAIN ring = 1 .. Len(ring) /\ Len(ring) \in Nat
  BY DEF Ring
<1>2. IsFiniteSet(I)
  <2>1. IsFiniteSet(DOMAIN ring)
    BY <1>1, FS_Interval
  <2> QED
    BY <2>1, FS_Subset
<1>3. edge \in Bijection(I, E)
  <2>1. edge \in [I -> E]
    BY DEF Edges, After
  <2>2. \A i, j \in I : edge[i] = edge[j] => i = j
    OBVIOUS
  <2>3. \A e \in E : \E i \in I : edge[i] = e
    BY DEF Edges, After
  <2> HIDE DEF edge, I, E
  <2> QED
    BY <2>1, <2>2, <2>3 DEF Bijection, Injection, Surjection, IsInjective
<1>4. ExistsBijection(I, E)
  BY <1>3 DEF ExistsBijection
<1>5. Cardinality(E) = Cardinality(I)
  <2> HIDE DEF I, E
  <2> QED
    BY <1>2, <1>4, FS_Bijection
<1> QED
  BY <1>5

(* A point in a ring is in the box around it.                              *)
LEMMA RingInBox ==
  ASSUME NEW ring, Ring(ring), NEW p \in Point, RingContains(ring, p)
  PROVE  InBox(BoundingBox(ring), p)
<1> DEFINE n == Len(ring)
           low == BoundingBox(ring).low
           high == BoundingBox(ring).high
<1>1. /\ DOMAIN ring = 1 .. n /\ n \in Nat \ {0}
      /\ \A i \in DOMAIN ring : ring[i] \in Point /\ After(i, n) \in DOMAIN ring
  <2>1. DOMAIN ring = 1 .. n /\ n \in Nat /\ n # 0 /\ \A i \in DOMAIN ring : ring[i] \in Point
    BY DEF Ring
  <2> QED
    BY <2>1, AfterIs
<1>2. ASSUME NEW i \in DOMAIN ring, OnEdge(ring[i], ring[After(i, n)], p)
      PROVE  InBox(BoundingBox(ring), p)
  <2> DEFINE two == <<ring[i], ring[After(i, n)]>>
  <2>1. /\ Ring(two) /\ DOMAIN two = {1, 2}
        /\ two[1] = ring[i] /\ two[2] = ring[After(i, n)]
    BY <1>1, <1>2 DEF Ring
  <2>2. InBox(BoundingBox(two), p)
    BY <1>2 DEF OnEdge
  <2> SUFFICES ASSUME NEW d \in 1 .. 2 PROVE low[d] <= p[d] /\ p[d] <= high[d]
    BY DEF InBox
  <2>3. p[d] \in Int
    BY Coordinates
  <2>4. \E j \in DOMAIN ring : ring[j][d] = BoundingBox(two).low[d]
    <3> HIDE DEF two
    <3>1. \E j \in {1, 2} : BoundingBox(two).low[d] = two[j][d]
      BY <2>1, BoxBounds
    <3> QED
      BY <1>1, <2>1, <3>1
  <2>5. \E j \in DOMAIN ring : ring[j][d] = BoundingBox(two).high[d]
    <3> HIDE DEF two
    <3>1. \E j \in {1, 2} : BoundingBox(two).high[d] = two[j][d]
      BY <2>1, BoxBounds
    <3> QED
      BY <1>1, <2>1, <3>1
  <2>6. \A j \in DOMAIN ring : ring[j][d] \in Int /\ low[d] <= ring[j][d] /\ ring[j][d] <= high[d]
    BY BoxBounds
  <2>7. BoundingBox(two).low[d] <= p[d] /\ p[d] <= BoundingBox(two).high[d]
    BY <2>2 DEF InBox
  <2>8. low[d] \in Int /\ high[d] \in Int
    <3>1. \E j \in DOMAIN ring : low[d] = ring[j][d]
      BY BoxBounds
    <3>2. \E j \in DOMAIN ring : high[d] = ring[j][d]
      BY BoxBounds
    <3> QED
      BY <2>6, <3>1, <3>2
  <2> HIDE DEF two, low, high
  <2> QED
    BY <2>3, <2>4, <2>5, <2>6, <2>7, <2>8
<1>3. ASSUME Cardinality({e \in Edges(ring) : Crosses(ring[e[1]], ring[e[2]], p)}) % 2 = 1
      PROVE  InBox(BoundingBox(ring), p)
  <2> DEFINE I == {i \in DOMAIN ring : Crosses(ring[i], ring[After(i, n)], p)}
             A == {i \in 1 .. n : ring[i][1] <= p[1]}
  <2>1. Cardinality(I) % 2 = 1
    BY <1>3, EdgesAreSteps
  <2>2. I # {}
    BY <2>1, FS_EmptySet
  <2>3. PICK i \in DOMAIN ring : Crosses(ring[i], ring[After(i, n)], p)
    BY <2>2
  <2>4. /\ p[1] \in Int /\ p[2] \in Int
        /\ \A d \in 1 .. 2 : low[d] \in Int /\ high[d] \in Int
    <3>1. \A d \in 1 .. 2 : \E j \in DOMAIN ring : low[d] = ring[j][d] /\ ring[j][d] \in Int
      BY BoxBounds
    <3>2. \A d \in 1 .. 2 : \E j \in DOMAIN ring : high[d] = ring[j][d] /\ ring[j][d] \in Int
      BY BoxBounds
    <3> QED
      BY <3>1, <3>2, Coordinates
  <2>5. \A d \in 1 .. 2 : \A j \in DOMAIN ring :
          ring[j][d] \in Int /\ low[d] <= ring[j][d] /\ ring[j][d] <= high[d]
    BY BoxBounds
  <2>6. low[1] <= p[1] /\ p[1] <= high[1]
    <3>1. \/ ring[i][1] <= p[1] /\ p[1] < ring[After(i, n)][1]
          \/ ring[After(i, n)][1] <= p[1] /\ p[1] < ring[i][1]
      BY <2>3 DEF Crosses
    <3>2. After(i, n) \in DOMAIN ring /\ 1 \in 1 .. 2
      BY <1>1
    <3> HIDE DEF low, high, n
    <3> QED
      BY <2>4, <2>5, <3>1, <3>2
  <2>7. p[2] <= high[2]
    <3> SUFFICES ASSUME p[2] > high[2] PROVE FALSE
      BY <2>4
    <3>1. p[2] > ring[i][2] /\ p[2] > ring[After(i, n)][2]
      <4>1. After(i, n) \in DOMAIN ring /\ 2 \in 1 .. 2
        BY <1>1
      <4> HIDE DEF low, high, n
      <4> QED
        BY <2>4, <2>5, <4>1
    <3> QED
      BY <1>1, <2>3, <3>1, BelowCrossesNot
  <2>8. low[2] <= p[2]
    <3> SUFFICES ASSUME p[2] < low[2] PROVE FALSE
      BY <2>4
    <3>1. ASSUME NEW j \in DOMAIN ring
          PROVE  p[2] < ring[j][2] /\ p[2] < ring[After(j, n)][2]
      <4>1. After(j, n) \in DOMAIN ring /\ 2 \in 1 .. 2
        BY <1>1
      <4> HIDE DEF low, high, n
      <4> QED
        BY <2>4, <2>5, <4>1
    <3>2. I = {j \in 1 .. n : \/ j \in A /\ After(j, n) \notin A
                              \/ j \notin A /\ After(j, n) \in A}
      <4>1. ASSUME NEW j \in DOMAIN ring
            PROVE  Crosses(ring[j], ring[After(j, n)], p)
                     <=> \/ j \in A /\ After(j, n) \notin A
                         \/ j \notin A /\ After(j, n) \in A
        <5>1. (j \in A <=> ring[j][1] <= p[1])
              /\ (After(j, n) \in A <=> ring[After(j, n)][1] <= p[1])
          BY <1>1
        <5>2. Crosses(ring[j], ring[After(j, n)], p)
                <=> (ring[j][1] <= p[1] /\ ~(ring[After(j, n)][1] <= p[1]))
                    \/ (~(ring[j][1] <= p[1]) /\ ring[After(j, n)][1] <= p[1])
          BY <1>1, <3>1, AboveCrosses
        <5> QED
          BY <5>1, <5>2
      <4> QED
        BY <1>1, <4>1
    <3>3. A \subseteq 1 .. n
      OBVIOUS
    <3>4. Cardinality(I) % 2 = 0
      <4> HIDE DEF A, I, n
      <4> QED
        BY <1>1, <3>2, <3>3, EvenChanges
    <3> QED
      BY <2>1, <3>4
  <2> QED
    <3>1. \A d \in 1 .. 2 : d = 1 \/ d = 2
      OBVIOUS
    <3> QED
      BY <2>6, <2>7, <2>8, <3>1 DEF InBox
<1> QED
  <2>1. CASE \E e \in Edges(ring) : OnEdge(ring[e[1]], ring[e[2]], p)
    <3>1. PICK i \in DOMAIN ring : OnEdge(ring[i], ring[After(i, n)], p)
      BY <2>1 DEF Edges, After
    <3> QED
      BY <1>2, <3>1
  <2> QED
    BY <1>3, <2>1 DEF RingContains

-----------------------------------------------------------------------------
(* The plane.                                                              *)

LEMMA CrossType == \A a, b, c \in Point : Cross(a, b, c) \in Int
BY Coordinates DEF Cross

LEMMA CrossTurns ==
  ASSUME NEW a \in Point, NEW b \in Point, NEW c \in Point
  PROVE  /\ Cross(a, b, c) = Cross(b, c, a) /\ Cross(a, b, c) = Cross(c, a, b)
         /\ Cross(b, a, c) = - Cross(a, b, c)
         /\ Cross(a, a, c) = 0 /\ Cross(a, c, a) = 0 /\ Cross(c, a, a) = 0
BY Coordinates DEF Cross

LEMMA CrossSum ==
  ASSUME NEW a \in Point, NEW b \in Point, NEW c \in Point, NEW d \in Point
  PROVE  Cross(a, b, d) + Cross(b, c, d) + Cross(c, a, d) = Cross(a, b, c)
BY Coordinates DEF Cross

(* Three vectors of the plane depend on each other.                        *)
LEMMA Plane ==
  ASSUME NEW a \in Point, NEW b \in Point, NEW c \in Point, NEW d \in Point, NEW k \in 1 .. 2
  PROVE  (b[k] - a[k]) * Cross(a, c, d) + (c[k] - a[k]) * Cross(a, d, b)
           + (d[k] - a[k]) * Cross(a, b, c) = 0
<1>1. CASE k = 1
  BY <1>1, Coordinates DEF Cross
<1>2. CASE k = 2
  BY <1>2, Coordinates DEF Cross
<1> QED
  BY <1>1, <1>2

(* A level of the plane, which a line divides in a low and a high side.    *)
Level(A, B, C, q) == A * q[1] + B * q[2] + C

(* The level varies evenly between two points.                             *)
LEMMA Between ==
  ASSUME NEW A \in Int, NEW B \in Int, NEW C \in Int,
         NEW lo \in Point, NEW hi \in Point, NEW p \in Point
  PROVE  /\ (hi[1] - lo[1]) * Level(A, B, C, p)
              = (hi[1] - p[1]) * Level(A, B, C, lo) + (p[1] - lo[1]) * Level(A, B, C, hi)
                + B * Cross(lo, hi, p)
         /\ (hi[2] - lo[2]) * Level(A, B, C, p)
              = (hi[2] - p[2]) * Level(A, B, C, lo) + (p[2] - lo[2]) * Level(A, B, C, hi)
                - A * Cross(lo, hi, p)
BY Coordinates DEF Cross, Level

(* A point weighs the corners of a triangle with the areas across.         *)
LEMMA WeightsOfCoordinates ==
  ASSUME NEW a \in Point, NEW b \in Point, NEW c \in Point, NEW p \in Point, NEW k \in 1 .. 2
  PROVE  Cross(a, b, c) * p[k]
           = Cross(b, c, p) * a[k] + Cross(c, a, p) * b[k] + Cross(a, b, p) * c[k]
<1>1. CASE k = 1
  BY <1>1, Coordinates DEF Cross
<1>2. CASE k = 2
  BY <1>2, Coordinates DEF Cross
<1> QED
  BY <1>1, <1>2

LEMMA Weights ==
  ASSUME NEW a \in Point, NEW b \in Point, NEW c \in Point, NEW p \in Point,
         NEW A \in Int, NEW B \in Int, NEW C \in Int
  PROVE  Cross(a, b, c) * Level(A, B, C, p)
           = Cross(b, c, p) * Level(A, B, C, a) + Cross(c, a, p) * Level(A, B, C, b)
             + Cross(a, b, p) * Level(A, B, C, c)
<1>1. Cross(a, b, c) = Cross(b, c, p) + Cross(c, a, p) + Cross(a, b, p)
  BY CrossSum, CrossType
<1>2. \A k \in 1 .. 2 : Cross(a, b, c) * p[k]
                          = Cross(b, c, p) * a[k] + Cross(c, a, p) * b[k] + Cross(a, b, p) * c[k]
  BY WeightsOfCoordinates
<1> DEFINE u == Cross(b, c, p)
           v == Cross(c, a, p)
           w == Cross(a, b, p)
           s == Cross(a, b, c)
<1>3. /\ s * p[1] = u * a[1] + v * b[1] + w * c[1]
      /\ s * p[2] = u * a[2] + v * b[2] + w * c[2]
  BY <1>2
<1>4. s = u + v + w /\ u \in Int /\ v \in Int /\ w \in Int /\ s \in Int
  BY <1>1, CrossType
<1>5. /\ a[1] \in Int /\ a[2] \in Int /\ b[1] \in Int /\ b[2] \in Int
      /\ c[1] \in Int /\ c[2] \in Int /\ p[1] \in Int /\ p[2] \in Int
  BY Coordinates
<1> HIDE DEF u, v, w, s
<1>6. s * Level(A, B, C, p) = A * (s * p[1]) + B * (s * p[2]) + C * s
  BY <1>4, <1>5 DEF Level
<1>7. A * (s * p[1]) + B * (s * p[2]) + C * s
        = A * (u * a[1] + v * b[1] + w * c[1]) + B * (u * a[2] + v * b[2] + w * c[2])
          + C * (u + v + w)
  BY <1>3, <1>4
<1>8. A * (u * a[1] + v * b[1] + w * c[1]) + B * (u * a[2] + v * b[2] + w * c[2])
          + C * (u + v + w)
        = u * Level(A, B, C, a) + v * Level(A, B, C, b) + w * Level(A, B, C, c)
  BY <1>4, <1>5 DEF Level
<1> QED
  BY <1>6, <1>7, <1>8 DEF u, v, w, s

LEMMA Products ==
  /\ \A u, v \in Int : u * v \in Int
  /\ \A u, v \in Int : u >= 0 /\ v >= 0 => u * v >= 0
  /\ \A u, v \in Int : u >= 0 /\ v <= 0 => u * v <= 0
  /\ \A u, v \in Int : u <= 0 /\ v >= 0 => u * v <= 0
  /\ \A u, v \in Int : u <= 0 /\ v <= 0 => u * v >= 0
  /\ \A u, v \in Int : u > 0 /\ v > 0 => u * v > 0
  /\ \A u, v \in Int : u > 0 /\ v < 0 => u * v < 0
  /\ \A u, v \in Int : u < 0 /\ v > 0 => u * v < 0
  /\ \A u, v \in Int : u < 0 /\ v < 0 => u * v > 0
OBVIOUS

(* In a box, a triangle, and the half plane of a line.                     *)
LEMMA InBoxIs ==
  ASSUME NEW ring, Ring(ring), NEW p \in Point
  PROVE  InBox(BoundingBox(ring), p)
           <=> \A k \in 1 .. 2 : /\ \E q \in ToSet(ring) : q[k] <= p[k]
                                 /\ \E q \in ToSet(ring) : p[k] <= q[k]
<1> DEFINE low == BoundingBox(ring).low
           high == BoundingBox(ring).high
<1>1. ToSet(ring) = {ring[i] : i \in DOMAIN ring}
  BY DEF ToSet
<1>2. ASSUME NEW k \in 1 .. 2
      PROVE  low[k] <= p[k] /\ p[k] <= high[k]
               <=> /\ \E q \in ToSet(ring) : q[k] <= p[k]
                   /\ \E q \in ToSet(ring) : p[k] <= q[k]
  <2>1. p[k] \in Int
    BY Coordinates
  <2>2. /\ \A i \in DOMAIN ring : /\ ring[i][k] \in Int
                                  /\ low[k] <= ring[i][k] /\ ring[i][k] <= high[k]
        /\ \E i \in DOMAIN ring : low[k] = ring[i][k]
        /\ \E i \in DOMAIN ring : high[k] = ring[i][k]
    BY BoxBounds
  <2> HIDE DEF low, high
  <2> QED
    BY <1>1, <2>1, <2>2
<1> QED
  BY <1>2 DEF InBox

LEMMA TriangleIs ==
  ASSUME NEW a \in Point, NEW b \in Point, NEW c \in Point, NEW p \in Point
  PROVE  InTriangle(a, b, c, p)
           <=> /\ \/ Cross(a, b, p) >= 0 /\ Cross(b, c, p) >= 0 /\ Cross(c, a, p) >= 0
                  \/ Cross(a, b, p) <= 0 /\ Cross(b, c, p) <= 0 /\ Cross(c, a, p) <= 0
               /\ \A k \in 1 .. 2 : /\ \E q \in {a, b, c} : q[k] <= p[k]
                                    /\ \E q \in {a, b, c} : p[k] <= q[k]
<1>1. Ring(<<a, b, c>>) /\ ToSet(<<a, b, c>>) = {a, b, c}
  BY DEF Ring, ToSet
<1>2. InBox(BoundingBox(<<a, b, c>>), p)
        <=> \A k \in 1 .. 2 : /\ \E q \in {a, b, c} : q[k] <= p[k]
                              /\ \E q \in {a, b, c} : p[k] <= q[k]
  BY <1>1, InBoxIs
<1> QED
  BY <1>2 DEF InTriangle

LEMMA OnEdgeIs ==
  ASSUME NEW a \in Point, NEW b \in Point, NEW p \in Point
  PROVE  OnEdge(a, b, p)
           <=> /\ Cross(a, b, p) = 0
               /\ \A k \in 1 .. 2 : /\ \E q \in {a, b} : q[k] <= p[k]
                                    /\ \E q \in {a, b} : p[k] <= q[k]
<1>1. Ring(<<a, b>>) /\ ToSet(<<a, b>>) = {a, b}
  BY DEF Ring, ToSet
<1>2. InBox(BoundingBox(<<a, b>>), p)
        <=> \A k \in 1 .. 2 : /\ \E q \in {a, b} : q[k] <= p[k]
                              /\ \E q \in {a, b} : p[k] <= q[k]
  BY <1>1, InBoxIs
<1> QED
  BY <1>2 DEF OnEdge

(* A triangle is not below its corners.                                    *)
LEMMA NotBelow ==
  ASSUME NEW a \in Point, NEW b \in Point, NEW c \in Point, NEW p \in Point,
         NEW A \in Int, NEW B \in Int, NEW C \in Int, InTriangle(a, b, c, p),
         \A q \in {a, b, c} : Level(A, B, C, q) >= 0
  PROVE  Level(A, B, C, p) >= 0
<1> DEFINE u == Cross(b, c, p)
           v == Cross(c, a, p)
           w == Cross(a, b, p)
           s == Cross(a, b, c)
           f(q) == Level(A, B, C, q)
<1>1. /\ u \in Int /\ v \in Int /\ w \in Int /\ s \in Int
      /\ f(a) \in Int /\ f(b) \in Int /\ f(c) \in Int /\ f(p) \in Int
  <2>1. \A q \in Point : Level(A, B, C, q) \in Int
    BY Coordinates DEF Level
  <2> QED
    BY <2>1, CrossType
<1>2. (u >= 0 /\ v >= 0 /\ w >= 0) \/ (u <= 0 /\ v <= 0 /\ w <= 0)
  BY TriangleIs
<1>3. s = u + v + w
  BY CrossSum, CrossType
<1>4. s * f(p) = u * f(a) + v * f(b) + w * f(c)
  BY Weights
<1>5. f(a) >= 0 /\ f(b) >= 0 /\ f(c) >= 0
  OBVIOUS
<1>6. CASE s # 0
  <2> HIDE DEF u, v, w, s, f
  <2>1. CASE u >= 0 /\ v >= 0 /\ w >= 0
    <3>1. u * f(a) >= 0 /\ v * f(b) >= 0 /\ w * f(c) >= 0
      BY <1>1, <1>5, <2>1, Products
    <3>2. u * f(a) \in Int /\ v * f(b) \in Int /\ w * f(c) \in Int
      BY <1>1
    <3>3. s * f(p) >= 0 /\ s > 0
      BY <1>1, <1>3, <1>4, <1>6, <2>1, <3>1, <3>2
    <3>4. f(p) >= 0
      BY <1>1, <3>3, Products
    <3> QED
      BY <3>4 DEF f
  <2>2. CASE u <= 0 /\ v <= 0 /\ w <= 0
    <3>1. u * f(a) <= 0 /\ v * f(b) <= 0 /\ w * f(c) <= 0
      BY <1>1, <1>5, <2>2, Products
    <3>2. u * f(a) \in Int /\ v * f(b) \in Int /\ w * f(c) \in Int
      BY <1>1
    <3>3. s * f(p) <= 0 /\ s < 0
      BY <1>1, <1>3, <1>4, <1>6, <2>2, <3>1, <3>2
    <3>4. f(p) >= 0
      BY <1>1, <3>3, Products
    <3> QED
      BY <3>4 DEF f
  <2> QED
    BY <1>2, <2>1, <2>2
<1>7. CASE s = 0
  <2>1. u = 0 /\ v = 0 /\ w = 0
    <3> HIDE DEF u, v, w, s, f
    <3> QED
      BY <1>1, <1>2, <1>3, <1>7
  <2>2. ASSUME NEW lo \in {a, b, c}, NEW hi \in {a, b, c} PROVE Cross(lo, hi, p) = 0
    <3>1. Cross(a, b, p) = 0 /\ Cross(b, c, p) = 0 /\ Cross(c, a, p) = 0
      BY <2>1
    <3>2. Cross(b, a, p) = 0 /\ Cross(c, b, p) = 0 /\ Cross(a, c, p) = 0
      BY <3>1, CrossTurns
    <3>3. Cross(a, a, p) = 0 /\ Cross(b, b, p) = 0 /\ Cross(c, c, p) = 0
      BY CrossTurns
    <3> QED
      BY <3>1, <3>2, <3>3
  <2>3. ASSUME NEW lo \in {a, b, c}, NEW hi \in {a, b, c}, NEW k \in 1 .. 2,
               lo[k] <= p[k], p[k] <= hi[k], lo[k] < hi[k]
        PROVE  f(p) >= 0
    <3>1. (hi[k] - lo[k]) * f(p) = (hi[k] - p[k]) * f(lo) + (p[k] - lo[k]) * f(hi)
      <4>1. lo \in Point /\ hi \in Point /\ Cross(lo, hi, p) = 0 /\ (k = 1 \/ k = 2)
        BY <2>2
      <4>2. /\ (hi[1] - lo[1]) * f(p) = (hi[1] - p[1]) * f(lo) + (p[1] - lo[1]) * f(hi) + B * 0
            /\ (hi[2] - lo[2]) * f(p) = (hi[2] - p[2]) * f(lo) + (p[2] - lo[2]) * f(hi) - A * 0
        BY <4>1, Between
      <4>3. /\ \A m \in 1 .. 2 : lo[m] \in Int /\ hi[m] \in Int /\ p[m] \in Int
            /\ f(lo) \in Int /\ f(hi) \in Int
        BY <1>1, <4>1, Coordinates
      <4> HIDE DEF f
      <4> QED
        BY <4>1, <4>2, <4>3
    <3>2. /\ hi[k] - lo[k] \in Int /\ hi[k] - lo[k] > 0 /\ hi[k] - p[k] \in Int
          /\ hi[k] - p[k] >= 0 /\ p[k] - lo[k] \in Int /\ p[k] - lo[k] >= 0
      BY <2>3, Coordinates
    <3>3. f(lo) \in Int /\ f(hi) \in Int /\ f(p) \in Int /\ f(lo) >= 0 /\ f(hi) >= 0
      BY <1>1, <1>5
    <3> HIDE DEF f
    <3>4. (hi[k] - p[k]) * f(lo) >= 0 /\ (p[k] - lo[k]) * f(hi) >= 0
      BY <3>2, <3>3, Products
    <3>5. (hi[k] - p[k]) * f(lo) \in Int /\ (p[k] - lo[k]) * f(hi) \in Int
      BY <3>2, <3>3
    <3>6. (hi[k] - lo[k]) * f(p) >= 0
      BY <3>1, <3>4, <3>5
    <3> QED
      BY <3>2, <3>3, <3>6, Products
  <2>4. \A k \in 1 .. 2 : /\ \E q \in {a, b, c} : q[k] <= p[k]
                          /\ \E q \in {a, b, c} : p[k] <= q[k]
    BY TriangleIs
  <2>5. CASE \A k \in 1 .. 2 : a[k] = p[k]
    <3>1. a = p
      BY <2>5 DEF Point
    <3> QED
      BY <3>1
  <2>6. CASE \E k \in 1 .. 2 : a[k] # p[k]
    <3>1. PICK k \in 1 .. 2 : a[k] # p[k]
      BY <2>6
    <3>2. PICK q \in {a, b, c} : q[k] <= p[k]
      BY <2>4
    <3>3. PICK r \in {a, b, c} : p[k] <= r[k]
      BY <2>4
    <3>4. /\ a[k] \in Int /\ p[k] \in Int /\ q[k] \in Int /\ r[k] \in Int
      BY Coordinates
    <3>5. CASE a[k] < p[k]
      BY <2>3, <3>3, <3>4, <3>5
    <3>6. CASE a[k] > p[k]
      BY <2>3, <3>2, <3>4, <3>6
    <3> QED
      BY <3>1, <3>4, <3>5, <3>6
  <2> QED
    BY <2>5, <2>6
<1> QED
  BY <1>6, <1>7

(* What three points have on their left, their triangle has.               *)
LEMMA HalfPlane ==
  ASSUME NEW a \in Point, NEW b \in Point, NEW c \in Point, NEW p \in Point,
         NEW d \in Point, NEW e \in Point, InTriangle(a, b, c, p),
         \A q \in {a, b, c} : Cross(d, e, q) >= 0
  PROVE  Cross(d, e, p) >= 0
<1> DEFINE A == d[2] - e[2]
           B == e[1] - d[1]
           C == (e[2] - d[2]) * d[1] - (e[1] - d[1]) * d[2]
<1>1. A \in Int /\ B \in Int /\ C \in Int
  BY Coordinates
<1>2. \A q \in Point : Cross(d, e, q) = Level(A, B, C, q)
  BY Coordinates DEF Cross, Level
<1>3. {a, b, c} \subseteq Point
  OBVIOUS
<1> HIDE DEF A, B, C
<1>4. \A q \in {a, b, c} : Level(A, B, C, q) >= 0
  BY <1>2, <1>3
<1> QED
  BY <1>1, <1>2, <1>4, NotBelow

(* The only lowest of some points is in no triangle of the others.         *)
LEMMA Lowest ==
  ASSUME NEW P, P \subseteq Point, NEW p \in Point,
         NEW A \in Int, NEW B \in Int, NEW C \in Int,
         \A q \in P : Level(A, B, C, p) < Level(A, B, C, q)
  PROVE  ~HullContains(P, p)
<1> DEFINE D == C - Level(A, B, C, p) - 1
<1>1. SUFFICES ASSUME NEW a \in P, NEW b \in P, NEW c \in P, InTriangle(a, b, c, p) PROVE FALSE
  BY DEF HullContains
<1>2. \A q \in Point : Level(A, B, C, q) \in Int
  BY Coordinates DEF Level
<1>3. D \in Int
  BY <1>2
<1>4. \A q \in Point : Level(A, B, D, q) = Level(A, B, C, q) - Level(A, B, C, p) - 1
  <2>1. \A q \in Point : Level(A, B, D, q) = A * q[1] + B * q[2] + D
    BY DEF Level
  <2>2. \A q \in Point : Level(A, B, C, q) = A * q[1] + B * q[2] + C
    BY DEF Level
  <2>3. \A q \in Point : A * q[1] + B * q[2] \in Int
    BY Coordinates
  <2> QED
    BY <1>2, <2>1, <2>2, <2>3
<1> HIDE DEF D
<1>5. \A q \in {a, b, c} : Level(A, B, D, q) >= 0
  <2> SUFFICES ASSUME NEW q \in {a, b, c} PROVE Level(A, B, D, q) >= 0
    OBVIOUS
  <2>1. q \in P /\ q \in Point
    OBVIOUS
  <2> QED
    BY <1>2, <1>4, <2>1
<1>6. Level(A, B, D, p) >= 0
  BY <1>1, <1>3, <1>5, NotBelow
<1> QED
  BY <1>2, <1>4, <1>6

(* One corner of a triangle apart from the others: a point that crosses    *)
(* one of its edges and not the other is in the triangle.                  *)
LEMMA Alone ==
  ASSUME NEW u \in Point, NEW v \in Point, NEW w \in Point, NEW p \in Point,
         (u[1] <= p[1]) # (v[1] <= p[1]), (v[1] <= p[1]) = (w[1] <= p[1]),
         Crosses(u, v, p), ~Crosses(u, w, p)
  PROVE  InTriangle(u, v, w, p)
<1> DEFINE f == Cross(u, v, p)
           g == Cross(u, w, p)
           t == Cross(u, v, w)
           s == Cross(v, w, p)
           V == v[1] - u[1]
           W == w[1] - u[1]
           P == p[1] - u[1]
<1>0. /\ u[1] \in Int /\ u[2] \in Int /\ v[1] \in Int /\ v[2] \in Int
      /\ w[1] \in Int /\ w[2] \in Int /\ p[1] \in Int /\ p[2] \in Int
  BY Coordinates
<1>1. f \in Int /\ g \in Int /\ t \in Int /\ s \in Int /\ V \in Int /\ W \in Int /\ P \in Int
  BY <1>0, CrossType
<1>2. s = t - f + g
  <2>1. Cross(u, v, p) + Cross(v, w, p) + Cross(w, u, p) = Cross(u, v, w)
    BY CrossSum
  <2>2. Cross(w, u, p) = - g
    BY CrossTurns
  <2> HIDE DEF f, g, t, s
  <2> QED
    BY <1>1, <2>1, <2>2 DEF f, g, t, s
<1>3. P * t = W * f - V * g
  <2>1. V * Cross(u, w, p) + W * Cross(u, p, v) + P * Cross(u, v, w) = 0
    <3>1. 1 \in 1 .. 2
      OBVIOUS
    <3> QED
      BY <3>1, Plane
  <2>2. Cross(u, p, v) = - f
    BY CrossTurns, CrossType
  <2>3. V * g + W * (-f) + P * t = 0
    BY <2>1, <2>2
  <2> HIDE DEF f, g, t, V, W, P
  <2> QED
    BY <1>1, <2>3
<1>4. P * s = (W - P) * f - (V - P) * g
  <2> HIDE DEF f, g, t, s, V, W, P
  <2>1. P * s = P * t - P * f + P * g
    BY <1>1, <1>2
  <2> QED
    BY <1>1, <1>3, <2>1
<1>5. \/ f <= 0 /\ s <= 0 /\ g >= 0
      \/ f >= 0 /\ s >= 0 /\ g <= 0
  <2>1. CASE u[1] <= p[1]
    <3>1. /\ f < 0 /\ g >= 0 /\ P >= 0 /\ W - P > 0 /\ V - P > 0 /\ W > 0
      BY <1>0, <1>1, <2>1 DEF Crosses
    <3> HIDE DEF f, g, t, s, V, W, P
    <3>2. P # 0
      <4>1. W * f < 0 /\ V * g >= 0 /\ W * f \in Int /\ V * g \in Int
        BY <1>1, <3>1, Products
      <4> QED
        BY <1>1, <1>3, <4>1
    <3>3. /\ (W - P) * f < 0 /\ (V - P) * g >= 0
          /\ (W - P) * f \in Int /\ (V - P) * g \in Int
      BY <1>1, <3>1, Products
    <3>4. P * s < 0
      BY <1>4, <3>3
    <3>5. s < 0
      BY <1>1, <3>1, <3>2, <3>4, Products
    <3> QED
      BY <1>1, <3>1, <3>5
  <2>2. CASE ~(u[1] <= p[1])
    <3>1. Cross(v, u, p) = - f /\ Cross(w, u, p) = - g
      BY CrossTurns
    <3>2. /\ f > 0 /\ g <= 0 /\ P < 0 /\ W - P <= 0 /\ V - P <= 0
      BY <1>0, <1>1, <2>2, <3>1 DEF Crosses
    <3> HIDE DEF f, g, t, s, V, W, P
    <3>3. /\ (W - P) * f <= 0 /\ (V - P) * g >= 0
          /\ (W - P) * f \in Int /\ (V - P) * g \in Int
      BY <1>1, <3>2, Products
    <3>4. P * s <= 0
      BY <1>4, <3>3
    <3>5. s >= 0
      BY <1>1, <3>2, <3>4, Products
    <3> QED
      BY <1>1, <3>2, <3>5
  <2> QED
    BY <2>1, <2>2
<1>6. Cross(w, u, p) = - g
  BY CrossTurns
<1>7. (\E q \in {u, v, w} : q[1] <= p[1]) /\ (\E q \in {u, v, w} : p[1] <= q[1])
  BY <1>0
<1>8. \E q \in {u, v, w} : p[2] <= q[2]
  <2> SUFFICES ASSUME p[2] > u[2], p[2] > v[2] PROVE FALSE
    BY <1>0
  <2> QED
    BY BelowCrossesNot
<1>9. \E q \in {u, v, w} : q[2] <= p[2]
  <2> SUFFICES ASSUME p[2] < u[2], p[2] < w[2] PROVE FALSE
    BY <1>0
  <2> QED
    BY AboveCrosses
<1>10. \A k \in 1 .. 2 : k = 1 \/ k = 2
  OBVIOUS
<1>11. \A k \in 1 .. 2 : /\ \E q \in {u, v, w} : q[k] <= p[k]
                         /\ \E q \in {u, v, w} : p[k] <= q[k]
  BY <1>7, <1>8, <1>9, <1>10
<1>12. \/ Cross(u, v, p) >= 0 /\ Cross(v, w, p) >= 0 /\ Cross(w, u, p) >= 0
       \/ Cross(u, v, p) <= 0 /\ Cross(v, w, p) <= 0 /\ Cross(w, u, p) <= 0
  BY <1>1, <1>5, <1>6
<1> QED
  BY <1>11, <1>12, TriangleIs

LEMMA CrossesIs ==
  ASSUME NEW a \in Point, NEW b \in Point, NEW p \in Point
  PROVE  /\ Crosses(a, b, p) <=> Crosses(b, a, p)
         /\ (a[1] <= p[1]) = (b[1] <= p[1]) => ~Crosses(a, b, p)
<1>1. a[1] \in Int /\ b[1] \in Int /\ p[1] \in Int
  BY Coordinates
<1> QED
  BY <1>1 DEF Crosses

(* Outside a triangle an even number of its edges is crossed.              *)
LEMMA EvenTriangle ==
  ASSUME NEW Q, Q \subseteq Point, NEW a \in Q, NEW b \in Q, NEW c \in Q, NEW p \in Point,
         ~HullContains(Q, p)
  PROVE  Crosses(b, c, p) <=> (Crosses(a, b, p) <=> ~Crosses(a, c, p))
<1>1. ASSUME NEW u \in Q, NEW v \in Q, NEW w \in Q,
             (u[1] <= p[1]) # (v[1] <= p[1]), (v[1] <= p[1]) = (w[1] <= p[1])
      PROVE  Crosses(u, v, p) <=> Crosses(u, w, p)
  <2>1. ~InTriangle(u, v, w, p) /\ ~InTriangle(u, w, v, p)
    BY DEF HullContains
  <2>2. (u[1] <= p[1]) # (w[1] <= p[1]) /\ (w[1] <= p[1]) = (v[1] <= p[1])
    BY <1>1
  <2>3. u \in Point /\ v \in Point /\ w \in Point
    OBVIOUS
  <2>4. ~(Crosses(u, v, p) /\ ~Crosses(u, w, p))
    BY <1>1, <2>1, <2>3, Alone
  <2>5. ~(Crosses(u, w, p) /\ ~Crosses(u, v, p))
    BY <2>1, <2>2, <2>3, Alone
  <2> QED
    BY <2>4, <2>5
<1>2. a \in Point /\ b \in Point /\ c \in Point
  OBVIOUS
<1>3. /\ Crosses(a, b, p) <=> Crosses(b, a, p)
      /\ Crosses(a, c, p) <=> Crosses(c, a, p)
      /\ Crosses(b, c, p) <=> Crosses(c, b, p)
      /\ (a[1] <= p[1]) = (b[1] <= p[1]) => ~Crosses(a, b, p)
      /\ (a[1] <= p[1]) = (c[1] <= p[1]) => ~Crosses(a, c, p)
      /\ (b[1] <= p[1]) = (c[1] <= p[1]) => ~Crosses(b, c, p)
  BY <1>2, CrossesIs
<1>4. (a[1] <= p[1]) \in BOOLEAN /\ (b[1] <= p[1]) \in BOOLEAN /\ (c[1] <= p[1]) \in BOOLEAN
  OBVIOUS
<1>5. CASE (a[1] <= p[1]) = (b[1] <= p[1]) /\ (a[1] <= p[1]) = (c[1] <= p[1])
  BY <1>3, <1>5
<1>6. CASE (a[1] <= p[1]) # (b[1] <= p[1]) /\ (b[1] <= p[1]) = (c[1] <= p[1])
  BY <1>1, <1>3, <1>6
<1>7. CASE (b[1] <= p[1]) # (a[1] <= p[1]) /\ (a[1] <= p[1]) = (c[1] <= p[1])
  <2>1. Crosses(b, a, p) <=> Crosses(b, c, p)
    BY <1>1, <1>7
  <2> QED
    BY <1>3, <1>7, <2>1
<1>8. CASE (c[1] <= p[1]) # (a[1] <= p[1]) /\ (a[1] <= p[1]) = (b[1] <= p[1])
  <2>1. Crosses(c, a, p) <=> Crosses(c, b, p)
    BY <1>1, <1>8
  <2> QED
    BY <1>3, <1>8, <2>1
<1> QED
  BY <1>4, <1>5, <1>6, <1>7, <1>8

(* What a ring contains is in the hull of its points.                      *)
LEMMA RingInHull ==
  ASSUME NEW ring, Ring(ring), NEW p \in Point, RingContains(ring, p)
  PROVE  HullContains(ToSet(ring), p)
<1> DEFINE n == Len(ring)
           Q == ToSet(ring)
           A == {i \in 1 .. n : Crosses(ring[1], ring[i], p)}
           I == {i \in DOMAIN ring : Crosses(ring[i], ring[After(i, n)], p)}
<1>1. /\ DOMAIN ring = 1 .. n /\ n \in Nat \ {0} /\ 1 \in 1 .. n
      /\ \A i \in 1 .. n : ring[i] \in Point /\ ring[i] \in Q /\ After(i, n) \in 1 .. n
  <2>1. DOMAIN ring = 1 .. n /\ n \in Nat /\ n # 0 /\ \A i \in DOMAIN ring : ring[i] \in Point
    BY DEF Ring
  <2>2. \A i \in 1 .. n : After(i, n) \in 1 .. n
    BY <2>1, AfterIs
  <2>3. \A i \in DOMAIN ring : ring[i] \in Q
    BY DEF ToSet
  <2> HIDE DEF n, Q
  <2> QED
    BY <2>1, <2>2, <2>3
<1>2. Q \subseteq Point
  BY <1>1 DEF ToSet
<1>3. CASE \E e \in Edges(ring) : OnEdge(ring[e[1]], ring[e[2]], p)
  <2>1. PICK i \in DOMAIN ring : OnEdge(ring[i], ring[After(i, n)], p)
    BY <1>3 DEF Edges, After
  <2> DEFINE a == ring[i]
             b == ring[After(i, n)]
  <2>2. a \in Point /\ b \in Point /\ a \in Q /\ b \in Q
    BY <1>1
  <2>3. Cross(b, b, p) = 0 /\ Cross(b, a, p) = - Cross(a, b, p)
    BY <2>2, CrossTurns
  <2>4. /\ Cross(a, b, p) = 0
        /\ \A k \in 1 .. 2 : /\ \E q \in {a, b} : q[k] <= p[k]
                             /\ \E q \in {a, b} : p[k] <= q[k]
    BY <2>1, <2>2, OnEdgeIs
  <2>5. InTriangle(a, b, b, p)
    <3> HIDE DEF a, b, n, Q
    <3> QED
      BY <2>2, <2>3, <2>4, TriangleIs
  <2> QED
    BY <2>2, <2>5 DEF HullContains
<1>4. CASE Cardinality({e \in Edges(ring) : Crosses(ring[e[1]], ring[e[2]], p)}) % 2 = 1
  <2> SUFFICES ASSUME ~HullContains(Q, p) PROVE FALSE
    OBVIOUS
  <2>1. Cardinality(I) % 2 = 1
    BY <1>4, EdgesAreSteps
  <2>2. \A i, j \in 1 .. n : Crosses(ring[i], ring[j], p)
          <=> (Crosses(ring[1], ring[i], p) <=> ~Crosses(ring[1], ring[j], p))
    <3> HIDE DEF Q
    <3> QED
      BY <1>1, <1>2, EvenTriangle
  <2>3. I = {i \in 1 .. n : \/ i \in A /\ After(i, n) \notin A
                            \/ i \notin A /\ After(i, n) \in A}
    BY <1>1, <2>2
  <2>4. A \subseteq 1 .. n
    OBVIOUS
  <2>5. Cardinality(I) % 2 = 0
    <3> HIDE DEF A, I, n
    <3> QED
      BY <1>1, <2>3, <2>4, EvenChanges
  <2> QED
    BY <2>1, <2>5
<1> QED
  BY <1>3, <1>4 DEF RingContains

LEMMA SamePoint ==
  ASSUME NEW a \in Point, NEW b \in Point, a[1] = b[1], a[2] = b[2]
  PROVE  a = b
BY DEF Point

LEMMA CrossAtLatitude ==
  ASSUME NEW a \in Point, NEW b \in Point, NEW p \in Point, a[1] = p[1]
  PROVE  /\ Cross(a, b, p) = (b[1] - a[1]) * (p[2] - a[2])
         /\ b[1] - a[1] \in Int /\ p[2] - a[2] \in Int
         /\ b[1] = p[1] => Cross(a, b, p) = 0
<1>1. /\ a[1] \in Int /\ a[2] \in Int /\ b[1] \in Int /\ b[2] \in Int
      /\ p[1] \in Int /\ p[2] \in Int
  BY Coordinates
<1>2. b[1] - a[1] \in Int /\ p[2] - a[2] \in Int /\ b[2] - a[2] \in Int /\ p[1] - a[1] = 0
  BY <1>1
<1>3. (b[2] - a[2]) * (p[1] - a[1]) = 0
  BY <1>2
<1>4. (b[1] - a[1]) * (p[2] - a[2]) \in Int
  BY <1>2
<1>5. Cross(a, b, p) = (b[1] - a[1]) * (p[2] - a[2])
  BY <1>3, <1>4 DEF Cross
<1>6. b[1] = p[1] => (b[1] - a[1]) * (p[2] - a[2]) = 0
  <2>1. b[1] = p[1] => b[1] - a[1] = 0
    BY <1>1
  <2> QED
    BY <1>2, <2>1
<1> QED
  BY <1>2, <1>5, <1>6

(* A spanning edge through a point has it between its ends.                *)
LEMMA SpanningEdge ==
  ASSUME NEW a \in Point, NEW b \in Point, NEW p \in Point, Cross(a, b, p) = 0,
         (a[1] <= p[1] /\ p[1] < b[1]) \/ (b[1] <= p[1] /\ p[1] < a[1])
  PROVE  OnEdge(a, b, p)
<1>1. /\ a[1] \in Int /\ a[2] \in Int /\ b[1] \in Int /\ b[2] \in Int
      /\ p[1] \in Int /\ p[2] \in Int
  BY Coordinates
<1>2. Cross(b, a, p) = 0
  BY CrossTurns
<1>3. ~(p[2] < a[2] /\ p[2] < b[2])
  BY <1>1, <1>2, EdgeAbove
<1>4. ~(p[2] > a[2] /\ p[2] > b[2])
  BY <1>1, <1>2, EdgeBelow
<1>5. \A k \in 1 .. 2 : k = 1 \/ k = 2
  OBVIOUS
<1>6. /\ \E q \in {a, b} : q[1] <= p[1]
      /\ \E q \in {a, b} : p[1] <= q[1]
      /\ \E q \in {a, b} : q[2] <= p[2]
      /\ \E q \in {a, b} : p[2] <= q[2]
  BY <1>1, <1>3, <1>4
<1> QED
  BY <1>5, <1>6, OnEdgeIs

(* Around a ring one comes into a set of places that is neither empty nor  *)
(* everything.                                                             *)
LEMMA Entering ==
  ASSUME NEW n \in Nat \ {0}, NEW A, NEW i \in 1 .. n, i \in A, NEW j \in 1 .. n, j \notin A
  PROVE  \E k \in 1 .. n : k \notin A /\ After(k, n) \in A
<1>1. IsFiniteSet(1 .. n)
  BY FS_Interval
<1>2. CASE 1 \in A
  <2> DEFINE B == {k \in 1 .. n : k \notin A}
  <2>1. B \subseteq Int /\ B # {} /\ IsFiniteSet(B)
    BY <1>1, FS_Subset
  <2>2. Max(B) \in B /\ \A y \in B : Max(B) >= y
    <3> HIDE DEF B
    <3> QED
      BY <2>1, MaxIs
  <2>3. PICK k \in B : \A y \in B : k >= y
    BY <2>2
  <2>4. CASE k = n
    BY <1>2, <2>3, <2>4, AfterIs
  <2>5. CASE k # n
    <3>1. After(k, n) = k + 1 /\ k + 1 \in 1 .. n
      BY <2>3, <2>5, AfterIs
    <3>2. k + 1 \notin B
      BY <2>3, <3>1
    <3> QED
      BY <2>3, <3>1, <3>2
  <2> QED
    BY <2>4, <2>5
<1>3. CASE 1 \notin A
  <2> DEFINE B == {k \in 1 .. n : k \in A}
  <2>1. B \subseteq Int /\ B # {} /\ IsFiniteSet(B)
    BY <1>1, FS_Subset
  <2>2. Min(B) \in B /\ \A y \in B : Min(B) <= y
    <3> HIDE DEF B
    <3> QED
      BY <2>1, MinIs
  <2>3. PICK k \in B : \A y \in B : k <= y
    BY <2>2
  <2>4. k # 1 /\ k - 1 \in 1 .. n /\ k - 1 # n
    BY <1>3, <2>3
  <2>5. After(k - 1, n) = k
    BY <2>4, AfterIs
  <2>6. k - 1 \notin B
    BY <2>3, <2>4
  <2> QED
    BY <2>3, <2>4, <2>5, <2>6
<1> QED
  BY <1>2, <1>3

(* The edge from place i of a ring goes down past the latitude of p, with  *)
(* p strictly on its left.                                                 *)
Falls(ring, i, p) ==
  LET b == ring[After(i, Len(ring))]
  IN  p[1] < ring[i][1] /\ b[1] <= p[1] /\ Cross(ring[i], b, p) > 0

(* A ring holds what is on the left of all its edges, when it goes around  *)
(* it once.                                                                *)
LEMMA RingHolds ==
  ASSUME NEW ring, Ring(ring), NEW p \in Point,
         \A i \in DOMAIN ring : Cross(ring[i], ring[After(i, Len(ring))], p) >= 0,
         \E i \in DOMAIN ring : ring[i][1] <= p[1],
         \E i \in DOMAIN ring : p[1] <= ring[i][1],
         (\A i \in DOMAIN ring : ring[i][1] = p[1])
           => /\ \E i \in DOMAIN ring : ring[i][2] <= p[2]
              /\ \E i \in DOMAIN ring : p[2] <= ring[i][2],
         \A i, j \in DOMAIN ring : Falls(ring, i, p) /\ Falls(ring, j, p) => i = j
  PROVE  RingContains(ring, p)
<1> DEFINE n == Len(ring)
           nxt(i) == After(i, n)
           I == {i \in DOMAIN ring : Crosses(ring[i], ring[After(i, n)], p)}
<1>1. /\ DOMAIN ring = 1 .. n /\ n \in Nat \ {0}
      /\ \A i \in 1 .. n : ring[i] \in Point /\ nxt(i) \in 1 .. n
  <2>1. DOMAIN ring = 1 .. n /\ n \in Nat /\ n # 0 /\ \A i \in DOMAIN ring : ring[i] \in Point
    BY DEF Ring
  <2> QED
    BY <2>1, AfterIs
<1>2. \A i \in 1 .. n : ring[i][1] \in Int /\ ring[i][2] \in Int
  BY <1>1, Coordinates
<1>3. p[1] \in Int /\ p[2] \in Int
  BY Coordinates
<1> SUFFICES ASSUME \A i \in 1 .. n : ~OnEdge(ring[i], ring[nxt(i)], p)
             PROVE  RingContains(ring, p)
  <2> SUFFICES ASSUME NEW i \in 1 .. n, OnEdge(ring[i], ring[nxt(i)], p)
               PROVE  RingContains(ring, p)
    OBVIOUS
  <2> DEFINE e == <<i, nxt(i)>>
  <2>1. e \in Edges(ring) /\ e[1] = i /\ e[2] = nxt(i)
    BY <1>1 DEF Edges, After
  <2> QED
    BY <2>1 DEF RingContains
<1>4. CASE \E i \in 1 .. n : p[1] < ring[i][1]
  <2> DEFINE A == {i \in 1 .. n : ring[i][1] <= p[1]}
  <2>1. PICK i \in 1 .. n : i \notin A /\ nxt(i) \in A
    <3>1. PICK a \in 1 .. n : ring[a][1] <= p[1]
      BY <1>1
    <3>2. PICK b \in 1 .. n : p[1] < ring[b][1]
      BY <1>4
    <3>3. a \in A /\ b \notin A
      BY <1>2, <1>3, <3>1, <3>2
    <3> HIDE DEF A
    <3> QED
      BY <1>1, <3>3, Entering
  <2>2. p[1] < ring[i][1] /\ ring[nxt(i)][1] <= p[1]
    <3>1. nxt(i) \in 1 .. n
      BY <1>1
    <3> HIDE DEF nxt, n
    <3> QED
      BY <1>2, <1>3, <2>1, <3>1
  <2>3. \A j \in 1 .. n : j \in I <=> Falls(ring, j, p)
    <3> SUFFICES ASSUME NEW j \in 1 .. n PROVE j \in I <=> Falls(ring, j, p)
      OBVIOUS
    <3> DEFINE a == ring[j]
               b == ring[nxt(j)]
    <3>1. a \in Point /\ b \in Point /\ a[1] \in Int /\ b[1] \in Int
      BY <1>1, Coordinates
    <3>2. Cross(a, b, p) \in Int /\ Cross(a, b, p) >= 0 /\ Cross(b, a, p) = - Cross(a, b, p)
      BY <1>1, <3>1, CrossType, CrossTurns
    <3>3. j \in I <=> Crosses(a, b, p)
      BY <1>1
    <3>4. Falls(ring, j, p) <=> p[1] < a[1] /\ b[1] <= p[1] /\ Cross(a, b, p) > 0
      BY DEF Falls
    <3>5. Crosses(a, b, p) <=> p[1] < a[1] /\ b[1] <= p[1] /\ Cross(a, b, p) > 0
      <4> HIDE DEF a, b
      <4> QED
        BY <3>1, <3>2 DEF Crosses
    <3> QED
      BY <3>3, <3>4, <3>5
  <2>4. Falls(ring, i, p)
    <3>1. ring[i] \in Point /\ ring[nxt(i)] \in Point
      BY <1>1
    <3>2. Cross(ring[i], ring[nxt(i)], p) # 0
      BY <2>2, <3>1, SpanningEdge
    <3>3. Cross(ring[i], ring[nxt(i)], p) \in Int /\ Cross(ring[i], ring[nxt(i)], p) >= 0
      BY <1>1, <3>1, CrossType
    <3> QED
      BY <2>2, <3>2, <3>3 DEF Falls
  <2>5. I = {i}
    BY <1>1, <2>3, <2>4
  <2>6. Cardinality(I) = 1
    BY <2>5, FS_Singleton
  <2>7. Cardinality(I) % 2 = 1
    <3>1. 1 % 2 = 1
      OBVIOUS
    <3> QED
      BY <2>6, <3>1
  <2> QED
    BY <2>7, EdgesAreSteps DEF RingContains
<1>5. CASE \A i \in 1 .. n : ring[i][1] <= p[1]
  <2> DEFINE Under == {i \in 1 .. n : ring[i][1] = p[1] /\ ring[i][2] < p[2]}
             Over == {i \in 1 .. n : ring[i][1] = p[1] /\ ring[i][2] > p[2]}
  <2>2. ASSUME NEW i \in 1 .. n, ring[i][1] = p[1], ring[nxt(i)][1] = p[1]
        PROVE  \/ ring[i][2] < p[2] /\ ring[nxt(i)][2] < p[2]
               \/ ring[i][2] > p[2] /\ ring[nxt(i)][2] > p[2]
    <3> DEFINE a == ring[i]
               b == ring[nxt(i)]
    <3>1. a \in Point /\ b \in Point /\ nxt(i) \in 1 .. n
      BY <1>1
    <3>2. Cross(a, b, p) = 0
      BY <2>2, <3>1, CrossAtLatitude
    <3>3. ~ \A k \in 1 .. 2 : /\ \E q \in {a, b} : q[k] <= p[k]
                              /\ \E q \in {a, b} : p[k] <= q[k]
      <4>1. ~OnEdge(a, b, p)
        OBVIOUS
      <4> HIDE DEF a, b
      <4> QED
        BY <3>1, <3>2, <4>1, OnEdgeIs
    <3>4. PICK k \in 1 .. 2 : ~ (/\ \E q \in {a, b} : q[k] <= p[k]
                                 /\ \E q \in {a, b} : p[k] <= q[k])
      BY <3>3
    <3>5. a[1] = p[1] /\ b[1] = p[1] /\ a[2] \in Int /\ b[2] \in Int
      BY <1>2, <2>2, <3>1
    <3>6. k = 2
      <4> HIDE DEF a, b
      <4> QED
        BY <1>3, <3>4, <3>5
    <3> HIDE DEF a, b
    <3>7. \/ a[2] < p[2] /\ b[2] < p[2]
          \/ a[2] > p[2] /\ b[2] > p[2]
      BY <1>3, <3>4, <3>5, <3>6
    <3> QED
      BY <3>7 DEF a, b
  <2>3. ASSUME NEW i \in 1 .. n, i \in Under PROVE nxt(i) \in Under
    <3> DEFINE a == ring[i]
               b == ring[nxt(i)]
    <3>1. /\ a \in Point /\ b \in Point /\ nxt(i) \in 1 .. n
          /\ a[1] = p[1] /\ a[2] < p[2] /\ b[1] <= p[1]
          /\ a[1] \in Int /\ a[2] \in Int /\ b[1] \in Int
      BY <1>1, <1>2, <1>5, <2>3
    <3>2. CASE b[1] < p[1]
      <4>1. Cross(a, b, p) >= 0
        BY <1>1
      <4>2. Cross(a, b, p) = (b[1] - a[1]) * (p[2] - a[2])
        BY <3>1, CrossAtLatitude
      <4> HIDE DEF a, b
      <4>3. (b[1] - a[1]) * (p[2] - a[2]) < 0
        <5>1. b[1] - a[1] < 0 /\ p[2] - a[2] > 0 /\ b[1] - a[1] \in Int /\ p[2] - a[2] \in Int
          BY <1>3, <3>1, <3>2
        <5> QED
          BY <5>1, Products
      <4>4. Cross(a, b, p) \in Int
        BY <3>1, CrossType
      <4> QED
        BY <4>1, <4>2, <4>3, <4>4
    <3>3. CASE b[1] = p[1]
      BY <1>2, <1>3, <2>2, <3>1, <3>3
    <3> QED
      BY <1>3, <3>1, <3>2, <3>3
  <2>4. ASSUME NEW i \in 1 .. n, nxt(i) \in Over PROVE i \in Over
    <3> DEFINE a == ring[i]
               b == ring[nxt(i)]
    <3>1. /\ a \in Point /\ b \in Point /\ nxt(i) \in 1 .. n
          /\ b[1] = p[1] /\ b[2] > p[2] /\ a[1] <= p[1]
          /\ b[1] \in Int /\ b[2] \in Int /\ a[1] \in Int
      BY <1>1, <1>2, <1>5, <2>4
    <3>2. CASE a[1] < p[1]
      <4>1. Cross(a, b, p) >= 0 /\ Cross(b, a, p) = - Cross(a, b, p)
        BY <1>1, <3>1, CrossTurns
      <4>2. Cross(b, a, p) = (a[1] - b[1]) * (p[2] - b[2])
        BY <3>1, CrossAtLatitude
      <4> HIDE DEF a, b
      <4>3. (a[1] - b[1]) * (p[2] - b[2]) > 0
        <5>1. a[1] - b[1] < 0 /\ p[2] - b[2] < 0 /\ a[1] - b[1] \in Int /\ p[2] - b[2] \in Int
          BY <1>3, <3>1, <3>2
        <5> QED
          BY <5>1, Products
      <4>4. Cross(a, b, p) \in Int /\ Cross(b, a, p) \in Int
        BY <3>1, CrossType
      <4> QED
        BY <4>1, <4>2, <4>3, <4>4
    <3>3. CASE a[1] = p[1]
      BY <1>2, <1>3, <2>2, <3>1, <3>3
    <3> QED
      BY <1>3, <3>1, <3>2, <3>3
  <2>5. Under = {}
    <3> SUFFICES ASSUME NEW i \in Under PROVE FALSE
      OBVIOUS
    <3>1. PICK j \in 1 .. n : j \notin Under
      <4> SUFFICES ASSUME \A j \in 1 .. n : j \in Under PROVE FALSE
        OBVIOUS
      <4>1. PICK j \in 1 .. n : p[2] <= ring[j][2]
        BY <1>1
      <4> QED
        BY <1>2, <1>3, <4>1
    <3> DEFINE Rest == (1 .. n) \ Under
    <3>2. i \in 1 .. n /\ i \notin Rest /\ j \in Rest
      BY <3>1
    <3>3. \E k \in 1 .. n : k \notin Rest /\ nxt(k) \in Rest
      <4> HIDE DEF Rest
      <4> QED
        BY <1>1, <3>2, Entering
    <3> QED
      BY <1>1, <2>3, <3>3
  <2>6. Over = {}
    <3> SUFFICES ASSUME NEW i \in Over PROVE FALSE
      OBVIOUS
    <3>1. PICK j \in 1 .. n : j \notin Over
      <4> SUFFICES ASSUME \A j \in 1 .. n : j \in Over PROVE FALSE
        OBVIOUS
      <4>1. PICK j \in 1 .. n : ring[j][2] <= p[2]
        BY <1>1
      <4> QED
        BY <1>2, <1>3, <4>1
    <3>2. i \in 1 .. n
      OBVIOUS
    <3>3. \E k \in 1 .. n : k \notin Over /\ nxt(k) \in Over
      <4> HIDE DEF Over
      <4> QED
        BY <1>1, <3>1, <3>2, Entering
    <3> QED
      BY <2>4, <3>3
  <2>7. PICK i \in 1 .. n : p[1] <= ring[i][1]
    BY <1>1
  <2>8. ring[i][1] = p[1] /\ ring[i][2] = p[2]
    BY <1>2, <1>3, <1>5, <2>5, <2>6, <2>7
  <2>9. OnEdge(ring[i], ring[nxt(i)], p)
    <3>1. ring[i] = p
      BY <1>1, <2>8, SamePoint
    <3>2. ring[nxt(i)] \in Point
      BY <1>1
    <3>3. Cross(p, ring[nxt(i)], p) = 0
      BY <3>2, CrossTurns
    <3>4. \A k \in 1 .. 2 : p[k] <= p[k]
      BY Coordinates
    <3> QED
      BY <3>1, <3>2, <3>3, <3>4, OnEdgeIs
  <2> QED
    BY <2>9
<1> QED
  BY <1>2, <1>3, <1>4, <1>5

(* Two edges going down past p with all of each other on their left lie on *)
(* one line, and what is left of it is right of the ways back.             *)
LEMMA TwoFalls ==
  ASSUME NEW a \in Point, NEW b \in Point, NEW c \in Point, NEW d \in Point,
         NEW p \in Point, NEW q \in Point,
         p[1] < a[1], b[1] <= p[1], p[1] < c[1], d[1] <= p[1],
         Cross(a, b, c) >= 0, Cross(a, b, d) >= 0, Cross(c, d, a) >= 0, Cross(c, d, b) >= 0,
         Cross(a, b, q) > 0
  PROVE  /\ Cross(a, b, c) = 0 /\ Cross(a, b, d) = 0
         /\ Cross(b, c, q) < 0 /\ Cross(d, a, q) < 0
<1> DEFINE A == a[1] - b[1]
           C == c[1] - d[1]
           D == (b[1] - a[1]) * (d[2] - c[2]) - (b[2] - a[2]) * (d[1] - c[1])
           AD == a[1] - d[1]
           BC == b[1] - c[1]
           fc == Cross(a, b, c)
           fd == Cross(a, b, d)
           fq == Cross(a, b, q)
           ga == Cross(c, d, a)
           gb == Cross(c, d, b)
<1>1. /\ A \in Int /\ C \in Int /\ D \in Int /\ AD \in Int /\ BC \in Int
      /\ fc \in Int /\ fd \in Int /\ fq \in Int /\ ga \in Int /\ gb \in Int
  BY Coordinates, CrossType
<1>2. A > 0 /\ C > 0 /\ AD > 0 /\ BC < 0
  BY Coordinates
<1>3. A * ga + C * fd = AD * D
  BY Coordinates DEF Cross
<1>4. A * gb + C * fc = BC * D
  BY Coordinates DEF Cross
<1>5. ga >= 0 /\ gb >= 0 /\ fc >= 0 /\ fd >= 0 /\ fq > 0
  OBVIOUS
<1>6. D = 0 /\ fc = 0 /\ fd = 0
  <2> HIDE DEF A, C, D, AD, BC, fc, fd, fq, ga, gb
  <2>1. A * ga >= 0 /\ C * fd >= 0 /\ A * gb >= 0 /\ C * fc >= 0
    BY <1>1, <1>2, <1>5, Products
  <2>2. A * ga \in Int /\ C * fd \in Int /\ A * gb \in Int /\ C * fc \in Int
    BY <1>1
  <2>3. AD * D >= 0 /\ BC * D >= 0
    BY <1>3, <1>4, <2>1, <2>2
  <2>4. D = 0
    BY <1>1, <1>2, <2>3, Products
  <2>5. AD * D = 0 /\ BC * D = 0
    BY <1>1, <2>4
  <2>6. C * fd = 0 /\ C * fc = 0
    BY <1>3, <1>4, <2>1, <2>2, <2>5
  <2>7. fc = 0 /\ fd = 0
    BY <1>1, <1>2, <2>6, Products
  <2> QED
    BY <2>4, <2>7
<1>7. Cross(b, c, q) < 0
  <2>1. A * Cross(b, c, q) = fc * (q[1] - b[1]) + BC * fq
    BY Coordinates DEF Cross
  <2>2. fc * (q[1] - b[1]) = 0
    BY <1>6, Coordinates
  <2>3. Cross(b, c, q) \in Int
    BY CrossType
  <2> HIDE DEF A, C, D, AD, BC, fc, fd, fq, ga, gb
  <2>4. BC * fq < 0 /\ BC * fq \in Int
    BY <1>1, <1>2, <1>5, Products
  <2>5. A * Cross(b, c, q) < 0
    BY <2>1, <2>2, <2>4
  <2> QED
    BY <1>1, <1>2, <2>3, <2>5, Products
<1>8. Cross(d, a, q) < 0
  <2>1. A * Cross(d, a, q) = - (fd * (q[1] - a[1])) - AD * fq
    BY Coordinates DEF Cross
  <2>2. fd * (q[1] - a[1]) = 0
    BY <1>6, Coordinates
  <2>3. Cross(d, a, q) \in Int
    BY CrossType
  <2> HIDE DEF A, C, D, AD, BC, fc, fd, fq, ga, gb
  <2>4. AD * fq > 0 /\ AD * fq \in Int
    BY <1>1, <1>2, <1>5, Products
  <2>5. A * Cross(d, a, q) < 0
    BY <2>1, <2>2, <2>4
  <2> QED
    BY <1>1, <1>2, <2>3, <2>5, Products
<1> QED
  BY <1>6, <1>7, <1>8

(* A ring none of whose triples of points turns right.                     *)
TurnsLeft(ring) ==
  \A i, j, k \in DOMAIN ring : i < j /\ j < k => Cross(ring[i], ring[j], ring[k]) >= 0

LEMMA EdgesOfConvex ==
  ASSUME NEW ring, Ring(ring), TurnsLeft(ring), NEW i \in DOMAIN ring, NEW k \in DOMAIN ring
  PROVE  Cross(ring[i], ring[After(i, Len(ring))], ring[k]) >= 0
<1> DEFINE n == Len(ring)
<1>1. DOMAIN ring = 1 .. n /\ n \in Nat \ {0} /\ \A j \in 1 .. n : ring[j] \in Point
  BY DEF Ring
<1>2. CASE i # n
  <2>1. After(i, n) = i + 1 /\ i + 1 \in 1 .. n
    BY <1>1, <1>2, AfterIs
  <2>2. CASE k < i
    <3>1. Cross(ring[k], ring[i], ring[i + 1]) >= 0
      BY <1>1, <2>1, <2>2 DEF TurnsLeft
    <3> QED
      BY <1>1, <2>1, <3>1, CrossTurns
  <2>3. CASE k > i + 1
    BY <1>1, <2>1, <2>3 DEF TurnsLeft
  <2>4. CASE k = i \/ k = i + 1
    <3>1. Cross(ring[i], ring[i + 1], ring[k]) = 0
      BY <1>1, <2>1, <2>4, CrossTurns
    <3> QED
      BY <2>1, <3>1
  <2>5. i \in Int /\ k \in Int
    BY <1>1
  <2> QED
    BY <2>2, <2>3, <2>4, <2>5
<1>3. CASE i = n
  <2>1. After(i, n) = 1 /\ 1 \in 1 .. n /\ n \in 1 .. n
    BY <1>1, <1>3, AfterIs
  <2>2. CASE 1 < k /\ k < n
    <3>1. Cross(ring[1], ring[k], ring[n]) >= 0
      BY <1>1, <2>1, <2>2 DEF TurnsLeft
    <3> QED
      BY <1>1, <1>3, <2>1, <3>1, CrossTurns
  <2>3. CASE k = 1 \/ k = n
    <3>1. Cross(ring[n], ring[1], ring[k]) = 0
      BY <1>1, <2>1, <2>3, CrossTurns
    <3> QED
      BY <1>3, <2>1, <3>1
  <2>4. k \in 1 .. n
    BY <1>1
  <2> QED
    BY <1>1, <2>2, <2>3, <2>4
<1> QED
  BY <1>2, <1>3

(* Such a ring goes around once.                                           *)
LEMMA OnceAround ==
  ASSUME NEW ring, Ring(ring), TurnsLeft(ring), NEW p \in Point,
         NEW m \in DOMAIN ring, NEW i \in DOMAIN ring, NEW j \in DOMAIN ring, i < j,
         Falls(ring, i, p), Falls(ring, j, p),
         Cross(ring[i], ring[After(i, Len(ring))], ring[m]) > 0
  PROVE  FALSE
<1> DEFINE n == Len(ring)
           a == ring[i]
           b == ring[After(i, n)]
           c == ring[j]
           d == ring[After(j, n)]
           q == ring[m]
<1>1. DOMAIN ring = 1 .. n /\ n \in Nat \ {0} /\ \A k \in 1 .. n : ring[k] \in Point
  BY DEF Ring
<1>2. After(i, n) = i + 1 /\ i + 1 \in 1 .. n /\ After(j, n) \in 1 .. n
  <2>1. i \in 1 .. n /\ j \in 1 .. n /\ i # n
    BY <1>1
  <2>2. i + 1 \in 1 .. n
    BY <1>1, <2>1
  <2> HIDE DEF n
  <2> QED
    BY <1>1, <2>1, <2>2, AfterIs
<1>3. /\ a \in Point /\ b \in Point /\ c \in Point /\ d \in Point /\ q \in Point
      /\ a[1] \in Int /\ b[1] \in Int /\ c[1] \in Int /\ d[1] \in Int /\ p[1] \in Int
  BY <1>1, <1>2, Coordinates
<1>4. p[1] < a[1] /\ b[1] <= p[1] /\ p[1] < c[1] /\ d[1] <= p[1]
  BY DEF Falls
<1>5. /\ Cross(a, b, c) >= 0 /\ Cross(a, b, d) >= 0 /\ Cross(c, d, a) >= 0 /\ Cross(c, d, b) >= 0
      /\ Cross(a, b, q) > 0
  BY <1>1, <1>2, EdgesOfConvex
<1>6. Cross(a, b, c) = 0 /\ ~(Cross(b, c, q) >= 0) /\ ~(Cross(d, a, q) >= 0)
  <2> HIDE DEF a, b, c, d, q
  <2>1. Cross(a, b, c) = 0 /\ Cross(b, c, q) < 0 /\ Cross(d, a, q) < 0
    BY <1>3, <1>4, <1>5, TwoFalls
  <2>2. Cross(b, c, q) \in Int /\ Cross(d, a, q) \in Int
    BY <1>3, CrossType
  <2> QED
    BY <2>1, <2>2
<1>7. i + 1 # j /\ i + 1 <= j
  BY <1>1, <1>2, <1>3, <1>4
<1>8. m # i + 1 /\ m # j
  <2>1. Cross(a, b, b) = 0
    BY <1>3, CrossTurns
  <2> QED
    BY <1>2, <1>5, <1>6, <2>1
<1>9. Cross(b, c, q) = Cross(q, b, c) /\ Cross(d, a, q) = Cross(a, q, d)
  BY <1>3, CrossTurns
<1>10. b = ring[i + 1]
  BY <1>2
<1>11. CASE m < i + 1
  <2>1. Cross(q, b, c) >= 0
    BY <1>1, <1>2, <1>7, <1>10, <1>11 DEF TurnsLeft
  <2> QED
    BY <1>6, <1>9, <2>1
<1>12. CASE m > j
  <2>1. Cross(b, c, q) >= 0
    BY <1>1, <1>2, <1>7, <1>10, <1>12 DEF TurnsLeft
  <2> QED
    BY <1>6, <2>1
<1>13. CASE i + 1 < m /\ m < j
  <2>1. CASE j # n
    <3>1. After(j, n) = j + 1 /\ j + 1 \in 1 .. n
      BY <1>1, <2>1, AfterIs
    <3>2. Cross(a, q, d) >= 0
      BY <1>1, <1>13, <3>1 DEF TurnsLeft
    <3> QED
      BY <1>6, <1>9, <3>2
  <2>2. CASE j = n
    <3>1. After(j, n) = 1 /\ 1 \in 1 .. n
      BY <1>1, <2>2, AfterIs
    <3>2. i # 1
      BY <1>3, <1>4, <3>1
    <3>3. Cross(d, a, q) >= 0
      BY <1>1, <1>13, <3>1, <3>2 DEF TurnsLeft
    <3> QED
      BY <1>6, <3>3
  <2> QED
    BY <2>1, <2>2
<1>14. m \in Int /\ i \in Int /\ j \in Int
  BY <1>1
<1> QED
  BY <1>7, <1>8, <1>11, <1>12, <1>13, <1>14

LEMMA ConvexRingHolds ==
  ASSUME NEW ring, Ring(ring), TurnsLeft(ring), NEW p \in Point, HullContains(ToSet(ring), p)
  PROVE  RingContains(ring, p)
<1> DEFINE n == Len(ring)
           Q == ToSet(ring)
<1>1. /\ DOMAIN ring = 1 .. n /\ n \in Nat \ {0}
      /\ \A i \in 1 .. n : ring[i] \in Point /\ After(i, n) \in 1 .. n
  <2>1. DOMAIN ring = 1 .. n /\ n \in Nat /\ n # 0 /\ \A i \in DOMAIN ring : ring[i] \in Point
    BY DEF Ring
  <2> QED
    BY <2>1, AfterIs
<1>2. Q = {ring[i] : i \in 1 .. n} /\ Q \subseteq Point
  BY <1>1 DEF ToSet
<1>3. PICK a \in Q, b \in Q, c \in Q : InTriangle(a, b, c, p)
  BY DEF HullContains
<1>4. a \in Point /\ b \in Point /\ c \in Point
  BY <1>2
<1>5. ASSUME NEW d \in Point, NEW e \in Point, \A q \in Q : Cross(d, e, q) >= 0
      PROVE  Cross(d, e, p) >= 0
  <2>1. \A q \in {a, b, c} : Cross(d, e, q) >= 0
    BY <1>3, <1>5
  <2> QED
    BY <1>3, <1>4, <2>1, HalfPlane
<1>6. ASSUME NEW i \in 1 .. n PROVE Cross(ring[i], ring[After(i, n)], p) >= 0
  <2>1. \A q \in Q : Cross(ring[i], ring[After(i, n)], q) >= 0
    BY <1>1, <1>2, EdgesOfConvex
  <2>2. ring[i] \in Point /\ ring[After(i, n)] \in Point
    BY <1>1
  <2> HIDE DEF Q
  <2> QED
    BY <1>5, <2>1, <2>2
<1>7. \A k \in 1 .. 2 : /\ \E i \in 1 .. n : ring[i][k] <= p[k]
                        /\ \E i \in 1 .. n : p[k] <= ring[i][k]
  <2>1. \A k \in 1 .. 2 : /\ \E q \in {a, b, c} : q[k] <= p[k]
                          /\ \E q \in {a, b, c} : p[k] <= q[k]
    BY <1>3, <1>4, TriangleIs
  <2> QED
    BY <1>2, <2>1
<1>8. ASSUME NEW i \in 1 .. n, NEW j \in 1 .. n, i < j, Falls(ring, i, p), Falls(ring, j, p)
      PROVE  FALSE
  <2> DEFINE d == ring[i]
             e == ring[After(i, n)]
  <2>1. d \in Point /\ e \in Point /\ Cross(d, e, p) > 0
    BY <1>1, <1>8 DEF Falls
  <2>2. PICK q \in Q : ~(Cross(e, d, q) >= 0)
    <3> SUFFICES ASSUME \A q \in Q : Cross(e, d, q) >= 0 PROVE FALSE
      OBVIOUS
    <3> HIDE DEF d, e, Q
    <3>1. Cross(e, d, p) >= 0
      BY <1>5, <2>1
    <3>2. Cross(e, d, p) = - Cross(d, e, p) /\ Cross(d, e, p) \in Int
      BY <2>1, CrossTurns, CrossType
    <3> QED
      BY <2>1, <3>1, <3>2
  <2>3. PICK m \in 1 .. n : q = ring[m]
    BY <1>2
  <2>4. Cross(d, e, q) > 0
    <3>1. q \in Point
      BY <1>2
    <3> HIDE DEF d, e, Q
    <3>2. Cross(e, d, q) = - Cross(d, e, q) /\ Cross(d, e, q) \in Int
      BY <2>1, <3>1, CrossTurns, CrossType
    <3> QED
      BY <2>2, <3>2
  <2>5. Cross(ring[i], ring[After(i, n)], ring[m]) > 0
    BY <2>3, <2>4
  <2> HIDE DEF d, e, Q
  <2> QED
    BY <1>1, <1>8, <2>5, OnceAround
<1>9. \A i, j \in DOMAIN ring : Falls(ring, i, p) /\ Falls(ring, j, p) => i = j
  <2>1. \A i, j \in 1 .. n : i < j \/ j < i \/ i = j
    OBVIOUS
  <2> QED
    BY <1>1, <1>8, <2>1
<1>10. 1 \in 1 .. 2 /\ 2 \in 1 .. 2
  OBVIOUS
<1> HIDE DEF Q
<1> QED
  BY <1>1, <1>6, <1>7, <1>9, <1>10, RingHolds

(* The ring gone around the other way.                                     *)
Backwards(ring) == [i \in 1 .. Len(ring) |-> ring[Len(ring) + 1 - i]]

LEMMA BackwardsIsRing ==
  ASSUME NEW ring, Ring(ring)
  PROVE  /\ Ring(Backwards(ring)) /\ Len(Backwards(ring)) = Len(ring)
         /\ ToSet(Backwards(ring)) = ToSet(ring)
<1> DEFINE n == Len(ring)
           back == Backwards(ring)
<1>1. /\ DOMAIN ring = 1 .. n /\ n \in Nat \ {0} /\ \A i \in 1 .. n : ring[i] \in Point
  BY DEF Ring
<1>2. /\ DOMAIN back = 1 .. n /\ \A i \in 1 .. n : back[i] = ring[n + 1 - i] /\ n + 1 - i \in 1 .. n
  BY <1>1 DEF Backwards
<1>3. back \in Seq(Point) /\ Len(back) = n /\ back # <<>>
  <2>1. back \in [1 .. n -> Point]
    BY <1>1, <1>2 DEF Backwards
  <2> HIDE DEF back, n
  <2> QED
    BY <1>1, <2>1
<1>4. {back[i] : i \in 1 .. n} = {ring[i] : i \in 1 .. n}
  <2>1. \A i \in 1 .. n : n + 1 - i \in 1 .. n /\ n + 1 - (n + 1 - i) = i
    BY <1>1
  <2>2. \A i \in 1 .. n : ring[i] = back[n + 1 - i]
    BY <1>2, <2>1
  <2> HIDE DEF back
  <2> QED
    BY <1>2, <2>1, <2>2
<1>5. ToSet(back) = {back[i] : i \in 1 .. n} /\ ToSet(ring) = {ring[i] : i \in 1 .. n}
  BY <1>1, <1>2 DEF ToSet
<1> QED
  BY <1>3, <1>4, <1>5 DEF Ring

LEMMA BackwardsContains ==
  ASSUME NEW ring, Ring(ring), NEW p \in Point, RingContains(Backwards(ring), p)
  PROVE  RingContains(ring, p)
<1> DEFINE n == Len(ring)
           back == Backwards(ring)
           turn(i) == IF i = n THEN n ELSE n - i
           I == {i \in 1 .. n : Crosses(ring[i], ring[After(i, n)], p)}
           J == {i \in 1 .. n : Crosses(back[i], back[After(i, n)], p)}
<1>1. /\ DOMAIN ring = 1 .. n /\ n \in Nat \ {0} /\ \A i \in 1 .. n : ring[i] \in Point
  BY DEF Ring
<1>2. /\ DOMAIN back = 1 .. n /\ Len(back) = n /\ Ring(back)
      /\ \A i \in 1 .. n : back[i] = ring[n + 1 - i]
  BY <1>1, BackwardsIsRing DEF Backwards
<1>3. ASSUME NEW i \in 1 .. n
      PROVE  /\ turn(i) \in 1 .. n /\ turn(turn(i)) = i
             /\ back[i] = ring[After(turn(i), n)] /\ back[After(i, n)] = ring[turn(i)]
             /\ ring[turn(i)] \in Point /\ ring[After(turn(i), n)] \in Point
  <2>1. CASE i = n
    <3>1. After(i, n) = 1 /\ turn(i) = n /\ turn(turn(i)) = i /\ n + 1 - i = 1 /\ n + 1 - 1 = n
          /\ 1 \in 1 .. n /\ n \in 1 .. n
      BY <1>1, <2>1, AfterIs
    <3> HIDE DEF n, turn, back
    <3> QED
      BY <1>1, <1>2, <2>1, <3>1
  <2>2. CASE i # n
    <3>1. /\ i + 1 \in 1 .. n /\ n - i \in 1 .. n /\ n - i # n /\ n - (n - i) = i
          /\ n - i + 1 = n + 1 - i /\ n + 1 - (i + 1) = n - i /\ n - i + 1 \in 1 .. n
      <4>1. n \in Nat \ {0}
        BY <1>1
      <4> HIDE DEF n
      <4>2. i \in Nat /\ 1 <= i /\ i < n
        BY <2>2, <4>1
      <4> QED
        BY <4>1, <4>2
    <3>2. After(i, n) = i + 1 /\ After(n - i, n) = n - i + 1
      BY <1>1, <2>2, <3>1, AfterIs
    <3>3. turn(i) = n - i /\ turn(n - i) = i
      BY <2>2, <3>1
    <3> HIDE DEF n, turn, back
    <3> QED
      BY <1>1, <1>2, <3>1, <3>2, <3>3
  <2> QED
    BY <2>1, <2>2
<1>4. CASE \E e \in Edges(back) : OnEdge(back[e[1]], back[e[2]], p)
  <2>1. PICK i \in 1 .. n : OnEdge(back[i], back[After(i, n)], p)
    BY <1>2, <1>4 DEF Edges, After
  <2> DEFINE a == ring[turn(i)]
             b == ring[After(turn(i), n)]
             e == <<turn(i), After(turn(i), n)>>
  <2>2. a \in Point /\ b \in Point /\ OnEdge(b, a, p)
    BY <1>3, <2>1
  <2>3. OnEdge(a, b, p)
    <3>1. /\ Cross(b, a, p) = 0
          /\ \A k \in 1 .. 2 : /\ \E q \in {b, a} : q[k] <= p[k]
                               /\ \E q \in {b, a} : p[k] <= q[k]
      BY <2>2, OnEdgeIs
    <3>2. Cross(a, b, p) = 0
      BY <2>2, <3>1, CrossTurns, CrossType
    <3>3. {a, b} = {b, a}
      OBVIOUS
    <3> HIDE DEF a, b
    <3> QED
      BY <2>2, <3>1, <3>2, <3>3, OnEdgeIs
  <2>4. e \in Edges(ring) /\ e[1] = turn(i) /\ e[2] = After(turn(i), n)
    BY <1>1, <1>3 DEF Edges, After
  <2> HIDE DEF e, turn
  <2> QED
    BY <2>3, <2>4 DEF RingContains
<1>5. CASE Cardinality({e \in Edges(back) : Crosses(back[e[1]], back[e[2]], p)}) % 2 = 1
  <2>1. Cardinality(J) % 2 = 1
    <3> HIDE DEF back
    <3>1. Cardinality({i \in DOMAIN back : Crosses(back[i], back[After(i, Len(back))], p)}) % 2 = 1
      BY <1>2, <1>5, EdgesAreSteps
    <3> QED
      BY <1>2, <3>1
  <2>2. \A i \in 1 .. n : i \in J <=> turn(i) \in I
    <3> SUFFICES ASSUME NEW i \in 1 .. n PROVE i \in J <=> turn(i) \in I
      OBVIOUS
    <3>1. Crosses(ring[turn(i)], ring[After(turn(i), n)], p)
            <=> Crosses(ring[After(turn(i), n)], ring[turn(i)], p)
      BY <1>3, CrossesIs
    <3> QED
      BY <1>3, <3>1
  <2> DEFINE f == [i \in J |-> turn(i)]
  <2>3. f \in Bijection(J, I)
    <3>1. f \in [J -> I]
      <4> HIDE DEF turn, I
      <4> QED
        BY <2>2
    <3>2. \A i, j \in J : f[i] = f[j] => i = j
      <4>1. \A i \in J : f[i] = turn(i) /\ turn(turn(i)) = i
        BY <1>3
      <4> HIDE DEF turn, f, J
      <4> QED
        BY <4>1
    <3>3. \A j \in I : \E i \in J : f[i] = j
      <4> SUFFICES ASSUME NEW j \in I PROVE \E i \in J : f[i] = j
        OBVIOUS
      <4>1. turn(j) \in 1 .. n /\ turn(turn(j)) = j /\ j \in 1 .. n
        BY <1>3
      <4> HIDE DEF turn, J
      <4>2. turn(j) \in J
        BY <2>2, <4>1
      <4> QED
        BY <4>1, <4>2
    <3> HIDE DEF f, I, J
    <3> QED
      BY <3>1, <3>2, <3>3 DEF Bijection, Injection, Surjection, IsInjective
  <2>4. IsFiniteSet(J) /\ IsFiniteSet(I)
    <3>1. IsFiniteSet(1 .. n) /\ J \subseteq 1 .. n /\ I \subseteq 1 .. n
      BY <1>1, FS_Interval
    <3> HIDE DEF I, J, n
    <3> QED
      BY <3>1, FS_Subset
  <2>5. Cardinality(I) = Cardinality(J)
    <3>1. ExistsBijection(J, I)
      BY <2>3 DEF ExistsBijection
    <3> HIDE DEF I, J
    <3> QED
      BY <2>4, <3>1, FS_Bijection
  <2>6. Cardinality({i \in DOMAIN ring : Crosses(ring[i], ring[After(i, Len(ring))], p)}) % 2 = 1
    BY <1>1, <2>1, <2>5
  <2> QED
    BY <2>6, EdgesAreSteps DEF RingContains
<1> QED
  BY <1>4, <1>5 DEF RingContains

(* The test of a ring is the hull of its points, when its corners never    *)
(* turn the other way.                                                     *)
THEOREM ConvexRingIsHull ==
  ASSUME NEW ring, Ring(ring), NEW p \in Point,
         \/ \A i, j, k \in DOMAIN ring :
              i < j /\ j < k => Cross(ring[i], ring[j], ring[k]) >= 0
         \/ \A i, j, k \in DOMAIN ring :
              i < j /\ j < k => Cross(ring[i], ring[j], ring[k]) <= 0
  PROVE  RingContains(ring, p) <=> HullContains(ToSet(ring), p)
<1> DEFINE n == Len(ring)
           back == Backwards(ring)
<1>1. RingContains(ring, p) => HullContains(ToSet(ring), p)
  BY RingInHull
<1>2. ASSUME HullContains(ToSet(ring), p), TurnsLeft(ring)
      PROVE  RingContains(ring, p)
  BY <1>2, ConvexRingHolds
<1>3. ASSUME HullContains(ToSet(ring), p),
             \A i, j, k \in DOMAIN ring :
               i < j /\ j < k => Cross(ring[i], ring[j], ring[k]) <= 0
      PROVE  RingContains(ring, p)
  <2>1. /\ DOMAIN ring = 1 .. n /\ n \in Nat \ {0} /\ \A i \in 1 .. n : ring[i] \in Point
    BY DEF Ring
  <2>2. /\ Ring(back) /\ ToSet(back) = ToSet(ring) /\ DOMAIN back = 1 .. n
        /\ \A i \in 1 .. n : back[i] = ring[n + 1 - i]
    BY <2>1, BackwardsIsRing DEF Backwards
  <2>3. TurnsLeft(back)
    <3> SUFFICES ASSUME NEW i \in 1 .. n, NEW j \in 1 .. n, NEW k \in 1 .. n, i < j, j < k
                 PROVE  Cross(back[i], back[j], back[k]) >= 0
      BY <2>2 DEF TurnsLeft
    <3> DEFINE a == ring[n + 1 - i]
               b == ring[n + 1 - j]
               c == ring[n + 1 - k]
    <3>1. /\ n + 1 - k \in 1 .. n /\ n + 1 - j \in 1 .. n /\ n + 1 - i \in 1 .. n
          /\ n + 1 - k < n + 1 - j /\ n + 1 - j < n + 1 - i
      BY <2>1
    <3>2. Cross(c, b, a) <= 0
      BY <1>3, <2>1, <3>1
    <3>3. a \in Point /\ b \in Point /\ c \in Point
      BY <2>1, <3>1
    <3>4. Cross(a, b, c) >= 0
      <4> HIDE DEF a, b, c
      <4>1. Cross(a, b, c) = - Cross(b, a, c) /\ Cross(b, a, c) = Cross(c, b, a)
        BY <3>3, CrossTurns
      <4>2. Cross(c, b, a) \in Int
        BY <3>3, CrossType
      <4> QED
        BY <3>2, <4>1, <4>2
    <3> QED
      BY <2>2, <3>4
  <2>4. HullContains(ToSet(back), p)
    BY <1>3, <2>2
  <2>5. RingContains(back, p)
    <3> HIDE DEF back
    <3> QED
      BY <2>2, <2>3, <2>4, ConvexRingHolds
  <2> QED
    BY <2>5, BackwardsContains
<1> QED
  BY <1>1, <1>2, <1>3 DEF TurnsLeft

-----------------------------------------------------------------------------
(* The hull that convexHull computes.                                      *)

(* The chain after each of the points.                                     *)
LEMMA ChainSteps ==
  ASSUME NEW h, NEW t, NEW pts, Len(pts) \in Nat
  PROVE  \E c : /\ c[0] = h /\ Chain(h, t, pts) = c[Len(pts)]
                /\ \A k \in 1 .. Len(pts) : c[k] = Append(Pop(c[k - 1], t, pts[k]), pts[k])
<1> DEFINE n == Len(pts)
           Next1(g, k) == Append(Pop(g, t, pts[k]), pts[k])
           IsChain(f, m) == f = [k \in 0 .. m |-> IF k = 0 THEN h ELSE Next1(f[k - 1], k)]
           Bad == {m \in 0 .. n : \A f : ~IsChain(f, m)}
           Body(f) == f = [k \in 0 .. n |-> IF k = 0 THEN h
                                ELSE Append(Pop(f[k - 1], t, pts[k]), pts[k])]
<1>1. Bad = {}
  <2> SUFFICES ASSUME Bad # {} PROVE FALSE
    OBVIOUS
  <2>1. Bad \subseteq Int /\ IsFiniteSet(Bad)
    <3>1. IsFiniteSet(0 .. n) /\ Bad \subseteq 0 .. n /\ 0 .. n \subseteq Int
      BY FS_Interval
    <3> HIDE DEF Bad, n
    <3> QED
      BY <3>1, FS_Subset
  <2>2. PICK m \in Bad : \A l \in Bad : m <= l
    <3> HIDE DEF Bad
    <3> QED
      BY <2>1, MinIs
  <2>3. m # 0
    <3> SUFFICES ASSUME m = 0 PROVE FALSE
      OBVIOUS
    <3> DEFINE f == [k \in 0 .. 0 |-> h]
    <3>1. f = [k \in 0 .. 0 |-> IF k = 0 THEN h ELSE Next1(f[k - 1], k)]
      OBVIOUS
    <3> QED
      BY <2>2, <3>1
  <2>4. m - 1 \in 0 .. n /\ m - 1 \notin Bad
    <3>1. m \in 0 .. n
      OBVIOUS
    <3> HIDE DEF Bad
    <3> QED
      BY <2>2, <2>3, <3>1
  <2>5. PICK f : IsChain(f, m - 1)
    BY <2>4
  <2> DEFINE g == [k \in 0 .. m |-> IF k < m THEN f[k] ELSE Next1(f[m - 1], m)]
  <2>6. \A k \in 0 .. m - 1 : f[k] = IF k = 0 THEN h ELSE Next1(f[k - 1], k)
    <3> HIDE DEF Next1
    <3> QED
      BY <2>5
  <2>7. g = [k \in 0 .. m |-> IF k = 0 THEN h ELSE Next1(g[k - 1], k)]
    <3> HIDE DEF Next1
    <3>1. \A k \in 0 .. m : g[k] = IF k = 0 THEN h ELSE Next1(g[k - 1], k)
      BY <2>3, <2>4, <2>6
    <3> QED
      BY <3>1
  <2> QED
    BY <2>2, <2>7
<1>2. PICK f : IsChain(f, n)
  BY <1>1
<1>3. Body(f)
  BY <1>2
<1>4. Body(CHOOSE g : Body(g))
  BY <1>3
<1> DEFINE c == CHOOSE g : Body(g)
<1>5. Chain(h, t, pts) = c[n]
  BY DEF Chain
<1>6. \A k \in 0 .. n : c[k] = IF k = 0 THEN h ELSE Append(Pop(c[k - 1], t, pts[k]), pts[k])
  <2>1. c = [k \in 0 .. n |-> IF k = 0 THEN h ELSE Append(Pop(c[k - 1], t, pts[k]), pts[k])]
    BY <1>4
  <2> HIDE DEF c
  <2> QED
    BY <2>1
<1> HIDE DEF c
<1>7. c[0] = h /\ \A k \in 1 .. n : c[k] = Append(Pop(c[k - 1], t, pts[k]), pts[k])
  <2>1. 0 \in 0 .. n /\ \A k \in 1 .. n : k \in 0 .. n /\ k # 0
    OBVIOUS
  <2> HIDE DEF n
  <2>2. \A k \in 1 .. n : c[k] = Append(Pop(c[k - 1], t, pts[k]), pts[k])
    BY <1>6, <2>1
  <2> QED
    BY <1>6, <2>1, <2>2
<1> QED
  BY <1>5, <1>7

(* Popping keeps the first b points, and ends at a left turn or there.     *)
LEMMA PopIs ==
  ASSUME NEW h \in Seq(Point), NEW b \in 1 .. Len(h), NEW pt
  PROVE  \E m \in b .. Len(h) :
           /\ Pop(h, b + 1, pt) = SubSeq(h, 1, m)
           /\ m > b => Ccw(h[m - 1], h[m], pt)
           /\ m < Len(h) => ~Ccw(h[m], h[m + 1], pt)
<1> DEFINE n == Len(h)
           K == {k \in 0 .. n : k < b + 1 \/ Ccw(h[k - 1], h[k], pt)}
<1>1. n \in Nat /\ b \in 1 .. n
  OBVIOUS
<1> HIDE DEF n
<1>2. K \subseteq Int /\ IsFiniteSet(K) /\ b \in K
  <2>1. IsFiniteSet(0 .. n) /\ K \subseteq 0 .. n /\ 0 .. n \subseteq Int
    BY <1>1, FS_Interval
  <2>2. b \in K
    BY <1>1
  <2> HIDE DEF K
  <2> QED
    BY <2>1, <2>2, FS_Subset
<1>3. Max(K) \in K /\ \A k \in K : Max(K) >= k
  <2> HIDE DEF K
  <2> QED
    BY <1>2, MaxIs
<1> DEFINE m == Max(K)
<1>4. Pop(h, b + 1, pt) = SubSeq(h, 1, m)
  BY DEF Pop, n
<1> HIDE DEF m
<1>5. m \in K /\ \A k \in K : m >= k
  BY <1>3 DEF m
<1>6. m \in b .. n /\ (m > b => Ccw(h[m - 1], h[m], pt))
  BY <1>1, <1>2, <1>5
<1>7. m < n => ~Ccw(h[m], h[m + 1], pt)
  <2> SUFFICES ASSUME m < n, Ccw(h[m], h[m + 1], pt) PROVE FALSE
    OBVIOUS
  <2>1. m + 1 \in 0 .. n /\ (m + 1) - 1 = m
    BY <1>1, <1>6
  <2>2. m + 1 \in K
    BY <2>1
  <2> QED
    BY <1>5, <1>6, <2>2
<1> QED
  BY <1>4, <1>6, <1>7 DEF n

(* The coordinates of a sweep up the latitudes (s = 1) or down (s = -1).   *)
Sides == {1, 0 - 1}
Far(s, p) == s * p[1]
Off(s, p) == s * p[2]

LEMMA SweepCoordinates ==
  ASSUME NEW s \in Sides
  PROVE  /\ \A p \in Point : Far(s, p) \in Int /\ Off(s, p) \in Int
         /\ \A p, q \in Point : Far(s, p) = Far(s, q) /\ Off(s, p) = Off(s, q) => p = q
         /\ \A a, b, c \in Point :
              Cross(a, b, c) = (Far(s, b) - Far(s, a)) * (Off(s, c) - Off(s, a))
                               - (Off(s, b) - Off(s, a)) * (Far(s, c) - Far(s, a))
<1>1. CASE s = 1
  <2>1. \A p \in Point : Far(s, p) = p[1] /\ Off(s, p) = p[2]
    BY <1>1, Coordinates DEF Far, Off
  <2> QED
    BY <2>1, Coordinates, SamePoint DEF Cross
<1>2. CASE s = 0 - 1
  <2>1. \A p \in Point : Far(s, p) = 0 - p[1] /\ Off(s, p) = 0 - p[2]
    BY <1>2, Coordinates DEF Far, Off
  <2>2. ASSUME NEW p \in Point, NEW q \in Point, Far(s, p) = Far(s, q), Off(s, p) = Off(s, q)
        PROVE  p = q
    <3>1. p[1] = q[1] /\ p[2] = q[2]
      BY <2>1, <2>2, Coordinates
    <3> QED
      BY <3>1, SamePoint
  <2>3. ASSUME NEW a \in Point, NEW b \in Point, NEW c \in Point
        PROVE  Cross(a, b, c) = (Far(s, b) - Far(s, a)) * (Off(s, c) - Off(s, a))
                               - (Off(s, b) - Off(s, a)) * (Far(s, c) - Far(s, a))
    <3>1. /\ Far(s, b) - Far(s, a) = 0 - (b[1] - a[1])
          /\ Far(s, c) - Far(s, a) = 0 - (c[1] - a[1])
          /\ Off(s, b) - Off(s, a) = 0 - (b[2] - a[2])
          /\ Off(s, c) - Off(s, a) = 0 - (c[2] - a[2])
      BY <2>1, Coordinates
    <3>2. \A u, v \in Int : (0 - u) * (0 - v) = u * v
      OBVIOUS
    <3>3. /\ b[1] - a[1] \in Int /\ c[1] - a[1] \in Int
          /\ b[2] - a[2] \in Int /\ c[2] - a[2] \in Int
      BY Coordinates
    <3> QED
      BY <3>1, <3>2, <3>3 DEF Cross
  <2> QED
    BY <2>1, <2>2, <2>3, Coordinates
<1> QED
  BY <1>1, <1>2 DEF Sides

(* A path that turns left twice also turns left over the middle point.     *)
LEMMA TurnsOn ==
  ASSUME NEW s \in Sides, NEW a \in Point, NEW b \in Point, NEW c \in Point, NEW p \in Point,
         Far(s, a) <= Far(s, b), Far(s, b) <= Far(s, c), Far(s, c) <= Far(s, p),
         Cross(a, b, c) > 0, Cross(b, c, p) > 0
  PROVE  Cross(a, b, p) > 0
<1> DEFINE ux == Far(s, b) - Far(s, a)
           uy == Off(s, b) - Off(s, a)
           vx == Far(s, c) - Far(s, b)
           vy == Off(s, c) - Off(s, b)
           ex == Far(s, p) - Far(s, b)
           ey == Off(s, p) - Off(s, b)
           uv == ux * vy - uy * vx
           ve == vx * ey - vy * ex
           ue == ux * ey - uy * ex
<1>1. /\ ux \in Int /\ uy \in Int /\ vx \in Int /\ vy \in Int /\ ex \in Int /\ ey \in Int
      /\ ux >= 0 /\ vx >= 0 /\ ex >= vx
  <2>1. /\ Far(s, a) \in Int /\ Far(s, b) \in Int /\ Far(s, c) \in Int /\ Far(s, p) \in Int
        /\ Off(s, a) \in Int /\ Off(s, b) \in Int /\ Off(s, c) \in Int /\ Off(s, p) \in Int
    BY SweepCoordinates
  <2> QED
    BY <2>1
<1>2. Cross(b, c, a) = uv /\ Cross(b, c, p) = ve /\ Cross(a, b, p) = ue
  <2>1. /\ Far(s, a) \in Int /\ Far(s, b) \in Int /\ Far(s, c) \in Int /\ Far(s, p) \in Int
        /\ Off(s, a) \in Int /\ Off(s, b) \in Int /\ Off(s, c) \in Int /\ Off(s, p) \in Int
    BY SweepCoordinates
  <2>2. /\ Cross(b, c, a) = (Far(s, c) - Far(s, b)) * (Off(s, a) - Off(s, b))
                               - (Off(s, c) - Off(s, b)) * (Far(s, a) - Far(s, b))
        /\ Cross(a, b, p) = (Far(s, b) - Far(s, a)) * (Off(s, p) - Off(s, a))
                               - (Off(s, b) - Off(s, a)) * (Far(s, p) - Far(s, a))
        /\ Cross(b, c, p) = ve
    BY SweepCoordinates
  <2> QED
    BY <2>1, <2>2
<1>3. Cross(b, c, a) > 0
  BY CrossTurns
<1> HIDE DEF ux, uy, vx, vy, ex, ey
<1>4. uv \in Int /\ ve \in Int /\ ue \in Int /\ uv > 0 /\ ve > 0
  BY <1>1, <1>2, <1>3
<1>5. vx * ue = ex * uv + ux * ve
  BY <1>1
<1>6. vx # 0
  <2> SUFFICES ASSUME vx = 0 PROVE FALSE
    OBVIOUS
  <2>1. uv = ux * vy /\ ve = 0 - vy * ex
    BY <1>1
  <2>2. ~(vy <= 0)
    BY <1>1, <1>4, <2>1, Products
  <2>3. vy * ex >= 0 /\ vy * ex \in Int
    BY <1>1, <2>2, Products
  <2> QED
    BY <1>4, <2>1, <2>3
<1>7. ex * uv > 0 /\ ux * ve >= 0 /\ ex * uv \in Int /\ ux * ve \in Int
  <2>1. ex > 0
    BY <1>1, <1>6
  <2> HIDE DEF uv, ve
  <2> QED
    BY <1>1, <1>4, <2>1, Products
<1>8. ue > 0
  <2>1. vx * ue > 0
    BY <1>5, <1>7
  <2> HIDE DEF ue
  <2> QED
    BY <1>1, <1>4, <2>1, Products
<1> QED
  BY <1>2, <1>8

(* A new edge has on its left what lies behind its first point, ...        *)
LEMMA LeftBehind ==
  ASSUME NEW s \in Sides, NEW a \in Point, NEW b \in Point, NEW p \in Point, NEW q \in Point,
         Far(s, a) <= Far(s, b), Far(s, b) <= Far(s, p), Far(s, q) <= Far(s, b),
         Cross(a, b, p) > 0, Cross(a, b, q) >= 0,
         Far(s, a) = Far(s, b) /\ Far(s, q) = Far(s, b) /\ Off(s, b) < Off(s, a)
           => Off(s, b) <= Off(s, q)
  PROVE  Cross(b, p, q) >= 0
<1> DEFINE ux == Far(s, b) - Far(s, a)
           uy == Off(s, b) - Off(s, a)
           ex == Far(s, p) - Far(s, b)
           ey == Off(s, p) - Off(s, b)
           zx == Far(s, q) - Far(s, b)
           zy == Off(s, q) - Off(s, b)
           ue == ux * ey - uy * ex
           uz == ux * zy - uy * zx
           ez == ex * zy - ey * zx
<1>1. /\ Far(s, a) \in Int /\ Far(s, b) \in Int /\ Far(s, q) \in Int /\ Far(s, p) \in Int
      /\ Off(s, a) \in Int /\ Off(s, b) \in Int /\ Off(s, q) \in Int /\ Off(s, p) \in Int
  BY SweepCoordinates
<1>2. /\ ux \in Int /\ uy \in Int /\ ex \in Int /\ ey \in Int /\ zx \in Int /\ zy \in Int
      /\ ux >= 0 /\ ex >= 0 /\ zx <= 0
      /\ ux = 0 /\ zx = 0 /\ uy < 0 => zy >= 0
  BY <1>1
<1>3. Cross(a, b, p) = ue /\ Cross(a, b, q) = uz /\ Cross(b, p, q) = ez
  <2>1. /\ Cross(a, b, p) = (Far(s, b) - Far(s, a)) * (Off(s, p) - Off(s, a))
                               - (Off(s, b) - Off(s, a)) * (Far(s, p) - Far(s, a))
        /\ Cross(a, b, q) = (Far(s, b) - Far(s, a)) * (Off(s, q) - Off(s, a))
                               - (Off(s, b) - Off(s, a)) * (Far(s, q) - Far(s, a))
        /\ Cross(b, p, q) = ez
    BY SweepCoordinates
  <2> QED
    BY <1>1, <2>1
<1> HIDE DEF ux, uy, ex, ey, zx, zy
<1>4. ue \in Int /\ uz \in Int /\ ez \in Int /\ ue > 0 /\ uz >= 0
  BY <1>2, <1>3
<1>5. ux * ez = ex * uz - zx * ue
  BY <1>2
<1>6. CASE ux # 0
  <2> HIDE DEF ue, uz, ez
  <2>1. ex * uz >= 0 /\ zx * ue <= 0 /\ ex * uz \in Int /\ zx * ue \in Int /\ ux > 0
    BY <1>2, <1>4, <1>6, Products
  <2>2. ux * ez >= 0
    BY <1>5, <2>1
  <2>3. ez >= 0
    BY <1>2, <1>4, <2>1, <2>2, Products
  <2> QED
    BY <1>3, <2>3
<1>7. CASE ux = 0
  <2>1. ue = 0 - uy * ex /\ uz = 0 - uy * zx
    BY <1>2, <1>7
  <2>2. uy < 0
    <3>1. uy >= 0 => uy * ex >= 0
      BY <1>2, Products
    <3>2. uy * ex \in Int
      BY <1>2
    <3> QED
      BY <1>2, <1>4, <2>1, <3>1, <3>2
  <2>3. zx = 0
    <3>1. zx < 0 => uy * zx > 0
      BY <1>2, <2>2, Products
    <3>2. uy * zx \in Int
      BY <1>2
    <3> QED
      BY <1>2, <1>4, <2>1, <3>1, <3>2
  <2>4. zy >= 0 /\ ez = ex * zy
    BY <1>2, <1>7, <2>2, <2>3
  <2>5. ez >= 0
    BY <1>2, <2>4, Products
  <2> QED
    BY <1>3, <2>5
<1> QED
  BY <1>6, <1>7

(* what lies before it, over the edge that was popped, ...                 *)
LEMMA LeftBefore ==
  ASSUME NEW s \in Sides, NEW b \in Point, NEW c \in Point, NEW p \in Point, NEW q \in Point,
         b # c, Far(s, b) <= Far(s, c), Far(s, b) < Far(s, q), Far(s, q) <= Far(s, p),
         Cross(b, c, p) <= 0, Cross(b, c, q) >= 0
  PROVE  Cross(b, p, q) >= 0
<1> DEFINE vx == Far(s, c) - Far(s, b)
           vy == Off(s, c) - Off(s, b)
           ex == Far(s, p) - Far(s, b)
           ey == Off(s, p) - Off(s, b)
           zx == Far(s, q) - Far(s, b)
           zy == Off(s, q) - Off(s, b)
           ve == vx * ey - vy * ex
           vz == vx * zy - vy * zx
           ez == ex * zy - ey * zx
<1>1. /\ Far(s, c) \in Int /\ Far(s, b) \in Int /\ Far(s, q) \in Int /\ Far(s, p) \in Int
      /\ Off(s, c) \in Int /\ Off(s, b) \in Int /\ Off(s, q) \in Int /\ Off(s, p) \in Int
  BY SweepCoordinates
<1>2. /\ vx \in Int /\ vy \in Int /\ ex \in Int /\ ey \in Int /\ zx \in Int /\ zy \in Int
      /\ vx >= 0 /\ ex > 0 /\ zx > 0
  BY <1>1
<1>3. vx # 0 \/ vy # 0
  <2>1. ~(Far(s, b) = Far(s, c) /\ Off(s, b) = Off(s, c))
    BY SweepCoordinates
  <2> QED
    BY <1>1, <2>1
<1>4. Cross(b, c, p) = ve /\ Cross(b, c, q) = vz /\ Cross(b, p, q) = ez
  BY SweepCoordinates
<1> HIDE DEF vx, vy, ex, ey, zx, zy
<1>5. ve \in Int /\ vz \in Int /\ ez \in Int /\ ve <= 0 /\ vz >= 0
  BY <1>2, <1>4
<1>6. vx * ez = ex * vz - zx * ve
  BY <1>2
<1>7. vx > 0
  <2> SUFFICES ASSUME vx = 0 PROVE FALSE
    BY <1>2
  <2>1. ve = 0 - vy * ex /\ vz = 0 - vy * zx
    BY <1>2
  <2>2. vy < 0 => vy * ex < 0
    BY <1>2, Products
  <2>3. vy > 0 => vy * zx > 0
    BY <1>2, Products
  <2>4. vy * ex \in Int /\ vy * zx \in Int
    BY <1>2
  <2> QED
    BY <1>2, <1>3, <1>5, <2>1, <2>2, <2>3, <2>4
<1>8. ez >= 0
  <2> HIDE DEF ve, vz, ez
  <2>1. ex * vz >= 0 /\ zx * ve <= 0 /\ ex * vz \in Int /\ zx * ve \in Int
    BY <1>2, <1>5, Products
  <2>2. vx * ez >= 0
    BY <1>6, <2>1
  <2> QED
    BY <1>2, <1>5, <1>7, <2>2, Products
<1> QED
  BY <1>4, <1>8

(* and what lies on the latitude of its first point.                       *)
LEMMA LeftAbreast ==
  ASSUME NEW s \in Sides, NEW b \in Point, NEW p \in Point, NEW q \in Point,
         Far(s, q) = Far(s, b), Far(s, b) <= Far(s, p),
         Far(s, b) < Far(s, p) => Off(s, b) <= Off(s, q)
  PROVE  Cross(b, p, q) >= 0
<1>1. /\ Far(s, p) \in Int /\ Far(s, b) \in Int /\ Off(s, p) \in Int
      /\ Off(s, q) \in Int /\ Off(s, b) \in Int
  BY SweepCoordinates
<1> DEFINE ex == Far(s, p) - Far(s, b)
           zy == Off(s, q) - Off(s, b)
<1>2. Cross(b, p, q) = ex * zy - (Off(s, p) - Off(s, b)) * (Far(s, q) - Far(s, b))
  BY SweepCoordinates
<1>3. Cross(b, p, q) = ex * zy
  BY <1>1, <1>2
<1>4. ex \in Int /\ zy \in Int /\ ex >= 0 /\ (ex > 0 => zy >= 0)
  BY <1>1
<1> HIDE DEF ex, zy
<1>5. ex * zy >= 0
  BY <1>4, Products
<1> QED
  BY <1>3, <1>5

(* What a popped edge has on the latitude of its first point goes up.      *)
LEMMA PoppedUpwards ==
  ASSUME NEW s \in Sides, NEW b \in Point, NEW c \in Point, NEW p \in Point, NEW q \in Point,
         b # c, Far(s, b) <= Far(s, c), Far(s, b) < Far(s, p),
         Far(s, q) = Far(s, b), Off(s, q) < Off(s, b),
         Cross(b, c, p) <= 0, Cross(b, c, q) >= 0
  PROVE  Far(s, c) = Far(s, b) /\ Off(s, b) < Off(s, c)
<1> DEFINE vx == Far(s, c) - Far(s, b)
           vy == Off(s, c) - Off(s, b)
           ex == Far(s, p) - Far(s, b)
           ey == Off(s, p) - Off(s, b)
           zy == Off(s, q) - Off(s, b)
<1>1. /\ Far(s, c) \in Int /\ Far(s, b) \in Int /\ Far(s, q) \in Int /\ Far(s, p) \in Int
      /\ Off(s, c) \in Int /\ Off(s, b) \in Int /\ Off(s, q) \in Int /\ Off(s, p) \in Int
  BY SweepCoordinates
<1>2. /\ vx \in Int /\ vy \in Int /\ ex \in Int /\ ey \in Int /\ zy \in Int
      /\ vx >= 0 /\ ex > 0 /\ zy < 0
  BY <1>1
<1>3. vx # 0 \/ vy # 0
  <2>1. ~(Far(s, b) = Far(s, c) /\ Off(s, b) = Off(s, c))
    BY SweepCoordinates
  <2> QED
    BY <1>1, <2>1
<1>4. Cross(b, c, p) = vx * ey - vy * ex /\ Cross(b, c, q) = vx * zy
  <2>1. Cross(b, c, q) = vx * zy - vy * (Far(s, q) - Far(s, b))
    BY SweepCoordinates
  <2>2. Cross(b, c, p) = vx * ey - vy * ex
    BY SweepCoordinates
  <2> QED
    BY <1>1, <2>1, <2>2
<1>5. vx = 0 /\ vy > 0
  <2> HIDE DEF vx, vy, ex, ey, zy
  <2>1. vx > 0 => vx * zy < 0
    BY <1>2, Products
  <2>2. vx = 0
    BY <1>2, <1>4, <2>1
  <2>3. vx * ey - vy * ex = 0 - vy * ex /\ vy * ex \in Int
    BY <1>2, <2>2
  <2>4. vy < 0 => vy * ex < 0
    BY <1>2, Products
  <2> QED
    BY <1>2, <1>3, <1>4, <2>2, <2>3, <2>4
<1> QED
  BY <1>1, <1>5

(* A sweep over the points: along the latitudes, three of one latitude in  *)
(* the order of their longitudes.                                          *)
Sweep(s, w) ==
  /\ s \in Sides /\ w \in Seq(Point)
  /\ \A i, j \in DOMAIN w : i < j => w[i] # w[j] /\ Far(s, w[i]) <= Far(s, w[j])
  /\ \A i, j, k \in DOMAIN w :
       i < j /\ j < k /\ Far(s, w[i]) = Far(s, w[k])
         => Off(s, w[i]) < Off(s, w[j]) /\ Off(s, w[j]) < Off(s, w[k])

(* Of two points of one latitude that come downwards there is no third.    *)
LEMMA Descent ==
  ASSUME NEW s, NEW w, Sweep(s, w), NEW i \in DOMAIN w, NEW j \in DOMAIN w, NEW l \in DOMAIN w,
         i < j, Far(s, w[i]) = Far(s, w[j]), Far(s, w[l]) = Far(s, w[i]), Off(s, w[j]) < Off(s, w[i])
  PROVE  l = i \/ l = j
<1>1. DOMAIN w = 1 .. Len(w) /\ Len(w) \in Nat /\ \A k \in DOMAIN w : w[k] \in Point
  BY DEF Sweep
<1>2. /\ Off(s, w[i]) \in Int /\ Off(s, w[j]) \in Int /\ Off(s, w[l]) \in Int
  BY <1>1, SweepCoordinates DEF Sweep
<1>3. i \in Int /\ j \in Int /\ l \in Int
  BY <1>1
<1>4. ~(l < i)
  <2> SUFFICES ASSUME l < i PROVE FALSE
    OBVIOUS
  <2>1. Off(s, w[i]) < Off(s, w[j])
    BY DEF Sweep
  <2> QED
    BY <1>2, <2>1
<1>5. ~(j < l)
  <2> SUFFICES ASSUME j < l PROVE FALSE
    OBVIOUS
  <2>1. Off(s, w[i]) < Off(s, w[j])
    BY DEF Sweep
  <2> QED
    BY <1>2, <2>1
<1>6. ~(i < l /\ l < j)
  <2> SUFFICES ASSUME i < l, l < j PROVE FALSE
    OBVIOUS
  <2>1. Off(s, w[i]) < Off(s, w[l]) /\ Off(s, w[l]) < Off(s, w[j])
    BY DEF Sweep
  <2> QED
    BY <1>2, <2>1
<1> QED
  BY <1>3, <1>4, <1>5, <1>6

(* What the chain is after k points of a sweep: its places from b on hold  *)
(* some of them in their order, the first and the last; it turns left at   *)
(* each, and all of them are on the left of each edge.                     *)
Swept(s, w, g, h, b, k) ==
  /\ h \in Seq(Point) /\ b \in 1 .. Len(h)
  /\ \A i \in 1 .. b : h[i] = g[i]
  /\ h[b] = w[1] /\ h[Len(h)] = w[k]
  /\ \A i \in b .. Len(h) : \E d \in 1 .. k : h[i] = w[d]
  /\ \A i, j \in b .. Len(h) :
       i < j => \E d, e \in 1 .. k : d < e /\ h[i] = w[d] /\ h[j] = w[e]
  /\ \A i \in b .. Len(h) - 1 : \A j \in 1 .. k : Cross(h[i], h[i + 1], w[j]) >= 0
  /\ \A i \in b + 1 .. Len(h) - 1 : Cross(h[i - 1], h[i], h[i + 1]) > 0

LEMMA SweptAhead ==
  ASSUME NEW s, NEW w, Sweep(s, w), NEW g, NEW h, NEW b, NEW k \in DOMAIN w, Swept(s, w, g, h, b, k)
  PROVE  /\ \A i, j \in b .. Len(h) : i < j => h[i] # h[j] /\ Far(s, h[i]) <= Far(s, h[j])
         /\ \A j \in 1 .. k : Far(s, w[j]) <= Far(s, h[Len(h)]) /\ Far(s, h[b]) <= Far(s, w[j])
         /\ \A i \in b .. Len(h), l \in DOMAIN w : k < l => Far(s, h[i]) <= Far(s, w[l])
         /\ \A j \in 1 .. k, l \in DOMAIN w : k < l => Far(s, w[j]) <= Far(s, w[l])
<1>1. /\ DOMAIN w = 1 .. Len(w) /\ Len(w) \in Nat /\ \A i \in DOMAIN w : w[i] \in Point
      /\ \A i \in DOMAIN w : Far(s, w[i]) \in Int
  <2>1. s \in Sides /\ w \in Seq(Point)
    BY DEF Sweep
  <2>2. \A i \in DOMAIN w : w[i] \in Point
    BY <2>1
  <2>3. \A i \in DOMAIN w : Far(s, w[i]) \in Int
    BY <2>1, <2>2, SweepCoordinates
  <2> QED
    BY <2>1, <2>2, <2>3
<1>2. k \in Int /\ 1 \in DOMAIN w /\ \A d \in 1 .. k : d \in DOMAIN w /\ d \in Int
  BY <1>1
<1>3. \A d, e \in DOMAIN w : d < e => w[d] # w[e] /\ Far(s, w[d]) <= Far(s, w[e])
  BY DEF Sweep
<1>4. ASSUME NEW i \in b .. Len(h), NEW j \in b .. Len(h), i < j
      PROVE  h[i] # h[j] /\ Far(s, h[i]) <= Far(s, h[j])
  <2>1. PICK d \in 1 .. k, e \in 1 .. k : d < e /\ h[i] = w[d] /\ h[j] = w[e]
    BY <1>4 DEF Swept
  <2> QED
    BY <1>2, <1>3, <2>1
<1>5. ASSUME NEW j \in 1 .. k
      PROVE  Far(s, w[j]) <= Far(s, h[Len(h)]) /\ Far(s, h[b]) <= Far(s, w[j])
  <2>1. h[Len(h)] = w[k] /\ h[b] = w[1]
    BY DEF Swept
  <2>2. (j < k \/ j = k) /\ (1 < j \/ 1 = j) /\ j \in DOMAIN w
    BY <1>1, <1>2
  <2> QED
    BY <1>1, <1>2, <1>3, <2>1, <2>2
<1>6. ASSUME NEW j \in 1 .. k, NEW l \in DOMAIN w, k < l
      PROVE  Far(s, w[j]) <= Far(s, w[l])
  <2>1. j < l
    BY <1>1, <1>6
  <2> QED
    BY <1>2, <1>3, <2>1
<1>7. ASSUME NEW i \in b .. Len(h), NEW l \in DOMAIN w, k < l
      PROVE  Far(s, h[i]) <= Far(s, w[l])
  <2>1. PICK d \in 1 .. k : h[i] = w[d]
    BY DEF Swept
  <2> QED
    BY <1>6, <1>7, <2>1
<1> QED
  BY <1>4, <1>5, <1>6, <1>7

(* After popping for the next point, the edges left turn left to it, ...   *)
LEMMA OldEdges ==
  ASSUME NEW s, NEW w, Sweep(s, w), NEW g, NEW h, NEW b, NEW k \in DOMAIN w,
         Swept(s, w, g, h, b, k), NEW l \in DOMAIN w, k < l, NEW m \in b .. Len(h),
         m > b => Ccw(h[m - 1], h[m], w[l])
  PROVE  \A i \in b .. m - 1 : Cross(h[i], h[i + 1], w[l]) > 0
<1> DEFINE p == w[l]
           n == Len(h)
           Bad == {i \in b .. m - 1 : ~(Cross(h[i], h[i + 1], p) > 0)}
<1>1. /\ n \in Nat /\ b \in 1 .. n /\ \A i \in 1 .. n : h[i] \in Point
      /\ p \in Point /\ s \in Sides /\ m \in Int
  BY DEF Swept, Sweep
<1>2. /\ \A i, j \in b .. n : i < j => Far(s, h[i]) <= Far(s, h[j])
      /\ \A i \in b .. n : Far(s, h[i]) <= Far(s, p)
  BY SweptAhead
<1>3. \A i \in b + 1 .. n - 1 : Cross(h[i - 1], h[i], h[i + 1]) > 0
  BY DEF Swept
<1> SUFFICES ASSUME Bad # {} PROVE FALSE
  OBVIOUS
<1>4. PICK i \in Bad : \A j \in Bad : i >= j
  <2>1. IsFiniteSet(b .. m - 1) /\ Bad \subseteq b .. m - 1 /\ b .. m - 1 \subseteq Int
    BY <1>1, FS_Interval
  <2> HIDE DEF Bad
  <2>2. Bad \subseteq Int /\ IsFiniteSet(Bad)
    BY <2>1, FS_Subset
  <2> QED
    BY <2>2, MaxIs
<1>5. i \in b .. m - 1 /\ ~(Cross(h[i], h[i + 1], p) > 0)
  OBVIOUS
<1> HIDE DEF n, p
<1>6. i # m - 1
  <2> SUFFICES ASSUME i = m - 1 PROVE FALSE
    OBVIOUS
  <2>1. m > b /\ i + 1 = m
    BY <1>1, <1>5
  <2>2. Ccw(h[m - 1], h[m], p)
    BY <2>1 DEF p
  <2> QED
    BY <1>5, <2>1, <2>2 DEF Ccw
<1>7. i + 1 \in b .. m - 1 /\ i + 2 \in b .. n /\ i \in b .. n /\ i + 1 \in b + 1 .. n - 1
  BY <1>1, <1>5, <1>6 DEF n
<1>8. i + 1 \notin Bad
  <2>1. ~(i >= i + 1)
    BY <1>5, <1>1
  <2> HIDE DEF Bad
  <2> QED
    BY <1>4, <2>1
<1>9. Cross(h[i + 1], h[i + 2], p) > 0
  <2>1. (i + 1) + 1 = i + 2
    BY <1>5, <1>1
  <2> QED
    BY <1>7, <1>8, <2>1 DEF p
<1>10. Cross(h[i], h[i + 1], h[i + 2]) > 0
  <2>1. (i + 1) - 1 = i /\ (i + 1) + 1 = i + 2
    BY <1>5, <1>1
  <2> QED
    BY <1>3, <1>7, <2>1
<1>11. /\ Far(s, h[i]) <= Far(s, h[i + 1]) /\ Far(s, h[i + 1]) <= Far(s, h[i + 2])
       /\ Far(s, h[i + 2]) <= Far(s, p)
  <2>1. i < i + 1 /\ i + 1 < i + 2 /\ i + 1 \in b .. n
    BY <1>1, <1>5, <1>7
  <2> QED
    BY <1>2, <1>7, <2>1
<1>12. h[i] \in Point /\ h[i + 1] \in Point /\ h[i + 2] \in Point
  BY <1>1, <1>5, <1>7
<1> QED
  BY <1>1, <1>5, <1>9, <1>10, <1>11, <1>12, TurnsOn

(* and so does the new edge to the points before.                          *)
LEMMA NewEdge ==
  ASSUME NEW s, NEW w, Sweep(s, w), NEW g, NEW h, NEW b, NEW k \in DOMAIN w,
         Swept(s, w, g, h, b, k), NEW l \in DOMAIN w, k < l, NEW m \in b .. Len(h),
         m > b => Ccw(h[m - 1], h[m], w[l]),
         m < Len(h) => ~Ccw(h[m], h[m + 1], w[l]),
         NEW j \in 1 .. k
  PROVE  Cross(h[m], w[l], w[j]) >= 0
<1> DEFINE p == w[l]
           q == w[j]
           n == Len(h)
           a == h[m - 1]
           c == h[m + 1]
<1>1. /\ n \in Nat /\ b \in 1 .. n /\ \A i \in 1 .. n : h[i] \in Point
      /\ p \in Point /\ q \in Point /\ s \in Sides /\ m \in 1 .. n /\ k \in Nat
      /\ j \in DOMAIN w /\ DOMAIN w = 1 .. Len(w) /\ h[m] \in Point
  BY DEF Swept, Sweep
<1>2. /\ \A i, e \in b .. n : i < e => h[i] # h[e] /\ Far(s, h[i]) <= Far(s, h[e])
      /\ \A i \in b .. n : Far(s, h[i]) <= Far(s, p)
      /\ Far(s, q) <= Far(s, p) /\ Far(s, q) <= Far(s, h[n]) /\ Far(s, h[b]) <= Far(s, q)
  BY SweptAhead
<1>3. \A i \in b .. n - 1 : Cross(h[i], h[i + 1], q) >= 0
  BY DEF Swept
<1>4. \A i, e \in b .. n :
        i < e => \E d, f \in 1 .. k : d < f /\ h[i] = w[d] /\ h[e] = w[f]
  BY DEF Swept
<1>5. h[b] = w[1] /\ h[n] = w[k]
  BY DEF Swept
<1>6. ASSUME m < n
      PROVE  /\ m + 1 \in b .. n /\ c \in Point /\ h[m] # c /\ Far(s, h[m]) <= Far(s, c)
             /\ Cross(h[m], c, p) <= 0 /\ Cross(h[m], c, q) >= 0
  <2>1. m + 1 \in b .. n /\ m \in b .. n - 1 /\ m < m + 1
    BY <1>1, <1>6
  <2>2. c \in Point /\ h[m] # c /\ Far(s, h[m]) <= Far(s, c) /\ Cross(h[m], c, q) >= 0
    BY <1>1, <1>2, <1>3, <2>1
  <2>3. ~Ccw(h[m], c, p)
    BY <1>6
  <2>4. Cross(h[m], c, p) \in Int
    <3> HIDE DEF c, p
    <3> QED
      BY <1>1, <2>2, CrossType
  <2>5. Cross(h[m], c, p) <= 0
    <3> HIDE DEF c, p
    <3> QED
      BY <2>3, <2>4 DEF Ccw
  <2> QED
    BY <2>1, <2>2, <2>5
<1>7. /\ Far(s, h[m]) <= Far(s, p) /\ Far(s, h[m]) \in Int /\ Far(s, p) \in Int
      /\ Far(s, q) \in Int /\ Off(s, q) \in Int /\ Off(s, h[m]) \in Int
  <2>1. Far(s, h[m]) <= Far(s, p)
    BY <1>2
  <2> HIDE DEF p, q, n
  <2> QED
    BY <1>1, <2>1, SweepCoordinates
<1>8. CASE Far(s, h[m]) < Far(s, q)
  <2>1. m < n
    <3> SUFFICES ASSUME m = n PROVE FALSE
      BY <1>1
    <3>1. Far(s, q) <= Far(s, h[m])
      BY <1>2
    <3> QED
      BY <1>7, <1>8, <3>1
  <2> HIDE DEF p, q, n, c
  <2> QED
    BY <1>1, <1>2, <1>6, <1>8, <2>1, LeftBefore DEF p, q
<1>9. CASE Far(s, q) <= Far(s, h[m]) /\ m > b
  <2>1. m - 1 \in b .. n - 1 /\ m - 1 < m /\ (m - 1) + 1 = m /\ m - 1 \in b .. n
    BY <1>1, <1>9
  <2>2. a \in Point /\ Far(s, a) <= Far(s, h[m]) /\ Cross(a, h[m], q) >= 0
    BY <1>1, <1>2, <1>3, <2>1
  <2>3. Cross(a, h[m], p) > 0
    BY <1>9 DEF Ccw
  <2>4. ASSUME Far(s, a) = Far(s, h[m]), Far(s, q) = Far(s, h[m]), Off(s, h[m]) < Off(s, a)
        PROVE  Off(s, h[m]) <= Off(s, q)
    <3>1. PICK d \in 1 .. k, f \in 1 .. k : d < f /\ a = w[d] /\ h[m] = w[f]
      BY <1>4, <2>1
    <3>2. d \in DOMAIN w /\ f \in DOMAIN w
      BY <1>1
    <3>3. j = d \/ j = f
      BY <1>1, <2>4, <3>1, <3>2, Descent
    <3>4. Off(s, a) \in Int
      <4> HIDE DEF a
      <4> QED
        BY <1>1, <2>2, SweepCoordinates
    <3> QED
      BY <1>7, <2>4, <3>1, <3>3, <3>4
  <2>5. Cross(h[m], p, q) >= 0
    <3> HIDE DEF a, p, q, n
    <3> QED
      BY <1>1, <1>7, <1>9, <2>2, <2>3, <2>4, LeftBehind
  <2> QED
    BY <2>5
<1>10. CASE Far(s, q) <= Far(s, h[m]) /\ m = b
  <2>1. Far(s, q) = Far(s, h[m])
    BY <1>2, <1>7, <1>10
  <2>2. ASSUME Far(s, h[m]) < Far(s, p), Off(s, q) < Off(s, h[m])
        PROVE  FALSE
    <3>1. j # 1
      BY <1>5, <1>7, <1>10, <2>2
    <3>2. m < n
      <4> SUFFICES ASSUME m = n PROVE FALSE
        BY <1>1
      <4>1. w[1] = w[k] /\ 1 \in DOMAIN w /\ k \in DOMAIN w /\ 1 < k
        BY <1>1, <1>5, <1>10, <3>1
      <4> QED
        BY <4>1 DEF Sweep
    <3>3. Far(s, c) = Far(s, h[m]) /\ Off(s, h[m]) < Off(s, c)
      <4> HIDE DEF p, q, n, c
      <4> QED
        BY <1>1, <1>6, <2>1, <2>2, <3>2, PoppedUpwards
    <3>4. PICK f \in 1 .. k : c = w[f]
      <4>1. m < m + 1 /\ m \in b .. n /\ m + 1 \in b .. n
        BY <1>1, <1>6, <3>2
      <4> QED
        BY <1>4, <4>1
    <3>5. Off(s, c) \in Int
      <4>1. c \in Point
        BY <1>6, <3>2
      <4> HIDE DEF c
      <4> QED
        BY <1>1, <4>1, SweepCoordinates
    <3>6. 1 \in DOMAIN w /\ f \in DOMAIN w /\ 1 < j /\ h[m] = w[1]
      BY <1>1, <1>5, <1>10, <3>1
    <3>7. f = 1 \/ f = j
      BY <1>1, <2>1, <2>2, <3>3, <3>4, <3>6, Descent
    <3> QED
      BY <1>7, <2>2, <3>3, <3>4, <3>5, <3>6, <3>7
  <2>3. Far(s, h[m]) < Far(s, p) => Off(s, h[m]) <= Off(s, q)
    BY <1>7, <2>2
  <2>4. Cross(h[m], p, q) >= 0
    <3> HIDE DEF p, q, n
    <3> QED
      BY <1>1, <1>7, <2>1, <2>3, LeftAbreast
  <2> QED
    BY <2>4
<1> QED
  BY <1>1, <1>7, <1>8, <1>9, <1>10

LEMMA SweptStep ==
  ASSUME NEW s, NEW w, Sweep(s, w), NEW g, NEW h, NEW b, NEW k \in DOMAIN w,
         Swept(s, w, g, h, b, k), k + 1 \in DOMAIN w
  PROVE  Swept(s, w, g, Append(Pop(h, b + 1, w[k + 1]), w[k + 1]), b, k + 1)
<1> DEFINE l == k + 1
           p == w[l]
           n == Len(h)
<1>1. /\ n \in Nat /\ b \in 1 .. n /\ h \in Seq(Point) /\ p \in Point
      /\ k \in Nat /\ k < l /\ DOMAIN w = 1 .. Len(w) /\ l \in DOMAIN w
  BY DEF Swept, Sweep
<1>2. PICK m \in b .. n : /\ Pop(h, b + 1, p) = SubSeq(h, 1, m)
                          /\ m > b => Ccw(h[m - 1], h[m], p)
                          /\ m < n => ~Ccw(h[m], h[m + 1], p)
  <2> HIDE DEF p
  <2> QED
    BY <1>1, PopIs
<1> DEFINE new == Append(SubSeq(h, 1, m), p)
<1>3. /\ new \in Seq(Point) /\ Len(new) = m + 1 /\ new[m + 1] = p
      /\ \A i \in 1 .. m : new[i] = h[i]
  <2>1. m \in 1 .. n
    BY <1>1
  <2>2. /\ SubSeq(h, 1, m) \in Seq(Point) /\ Len(SubSeq(h, 1, m)) = m
        /\ \A i \in 1 .. m : SubSeq(h, 1, m)[i] = h[i]
    BY <1>1, <2>1
  <2> DEFINE f == SubSeq(h, 1, m)
  <2> HIDE DEF f, p
  <2>3. /\ Append(f, p) \in Seq(Point) /\ Len(Append(f, p)) = m + 1
        /\ Append(f, p)[m + 1] = p
        /\ \A i \in 1 .. m : Append(f, p)[i] = f[i]
    BY <1>1, <2>1, <2>2 DEF f
  <2> QED
    BY <2>2, <2>3 DEF f
<1>4. \A i \in b .. m - 1 : Cross(h[i], h[i + 1], p) > 0
  BY <1>1, <1>2, OldEdges
<1>5. \A j \in 1 .. k : Cross(h[m], p, w[j]) >= 0
  BY <1>1, <1>2, NewEdge
<1>6. /\ \A i \in 1 .. b : h[i] = g[i]
      /\ h[b] = w[1]
      /\ \A i \in b .. n : \E d \in 1 .. k : h[i] = w[d]
      /\ \A i, j \in b .. n :
           i < j => \E d, e \in 1 .. k : d < e /\ h[i] = w[d] /\ h[j] = w[e]
      /\ \A i \in b .. n - 1 : \A j \in 1 .. k : Cross(h[i], h[i + 1], w[j]) >= 0
      /\ \A i \in b + 1 .. n - 1 : Cross(h[i - 1], h[i], h[i + 1]) > 0
  BY DEF Swept
<1>7. m \in 1 .. n /\ m \in Nat /\ h[m] \in Point
  BY <1>1
<1> HIDE DEF new, n
<1>8. \A i \in 1 .. b : new[i] = g[i]
  <2>1. \A i \in 1 .. b : i \in 1 .. m
    BY <1>1, <1>7
  <2> QED
    BY <1>3, <1>6, <2>1
<1>9. new[b] = w[1] /\ new[Len(new)] = p /\ b \in 1 .. Len(new)
  BY <1>1, <1>3, <1>6, <1>7
<1>10. ASSUME NEW i \in b .. Len(new)
       PROVE  \E d \in 1 .. l : new[i] = w[d]
  <2>1. CASE i = m + 1
    BY <1>1, <1>3, <2>1
  <2>2. CASE i # m + 1
    <3>1. i \in b .. n /\ i \in 1 .. m
      BY <1>1, <1>3, <1>7, <2>2
    <3>2. PICK d \in 1 .. k : h[i] = w[d]
      BY <1>6, <3>1
    <3> QED
      BY <1>1, <1>3, <3>1, <3>2
  <2> QED
    BY <2>1, <2>2
<1>11. ASSUME NEW i \in b .. Len(new), NEW j \in b .. Len(new), i < j
       PROVE  \E d, e \in 1 .. l : d < e /\ new[i] = w[d] /\ new[j] = w[e]
  <2>1. i \in b .. n /\ i \in 1 .. m /\ new[i] = h[i]
    BY <1>1, <1>3, <1>7, <1>11
  <2>2. CASE j = m + 1
    <3>1. PICK d \in 1 .. k : h[i] = w[d]
      BY <1>6, <2>1
    <3>2. new[j] = w[l] /\ d \in 1 .. l /\ l \in 1 .. l /\ d < l
      BY <1>1, <1>3, <2>2
    <3> QED
      BY <2>1, <3>1, <3>2
  <2>3. CASE j # m + 1
    <3>1. j \in b .. n /\ j \in 1 .. m
      BY <1>1, <1>3, <1>7, <2>3
    <3>2. PICK d \in 1 .. k, e \in 1 .. k : d < e /\ h[i] = w[d] /\ h[j] = w[e]
      BY <1>6, <1>11, <2>1, <3>1
    <3>3. d \in 1 .. l /\ e \in 1 .. l
      BY <1>1
    <3> QED
      BY <1>3, <2>1, <3>1, <3>2, <3>3
  <2> QED
    BY <2>2, <2>3
<1>12. ASSUME NEW i \in b .. Len(new) - 1, NEW j \in 1 .. l
       PROVE  Cross(new[i], new[i + 1], w[j]) >= 0
  <2>1. i \in 1 .. m /\ i \in b .. m /\ new[i] = h[i] /\ h[i] \in Point
    BY <1>1, <1>3, <1>7 DEF n
  <2>2. CASE i = m /\ j = l
    <3>1. Cross(h[m], p, p) = 0
      <4> HIDE DEF p
      <4> QED
        BY <1>1, <1>7, CrossTurns
    <3> QED
      BY <1>3, <2>1, <2>2, <3>1
  <2>3. CASE i = m /\ j # l
    <3>1. j \in 1 .. k
      BY <1>1, <2>3
    <3> QED
      BY <1>3, <1>5, <2>1, <2>3, <3>1
  <2>4. CASE i # m
    <3>1. /\ i \in b .. n - 1 /\ i \in b .. m - 1 /\ i + 1 \in 1 .. m
          /\ new[i + 1] = h[i + 1] /\ h[i + 1] \in Point
      BY <1>1, <1>3, <1>7, <2>1, <2>4 DEF n
    <3>2. CASE j = l
      <4>1. Cross(h[i], h[i + 1], p) > 0
        BY <1>4, <3>1
      <4>2. Cross(h[i], h[i + 1], p) \in Int
        <5> HIDE DEF p
        <5> QED
          BY <1>1, <2>1, <3>1, CrossType
      <4> QED
        BY <2>1, <3>1, <3>2, <4>1, <4>2
    <3>3. CASE j # l
      <4>1. j \in 1 .. k
        BY <1>1, <3>3
      <4> QED
        BY <1>6, <2>1, <3>1, <4>1
    <3> QED
      BY <3>2, <3>3
  <2> QED
    BY <2>2, <2>3, <2>4
<1>13. ASSUME NEW i \in b + 1 .. Len(new) - 1
       PROVE  Cross(new[i - 1], new[i], new[i + 1]) > 0
  <2>1. /\ i \in 1 .. m /\ i - 1 \in 1 .. m /\ i > b
        /\ new[i] = h[i] /\ new[i - 1] = h[i - 1]
    BY <1>1, <1>3, <1>7
  <2>2. CASE i = m
    <3>1. Ccw(h[m - 1], h[m], p)
      BY <1>2, <2>1, <2>2
    <3> QED
      BY <1>3, <2>1, <2>2, <3>1 DEF Ccw
  <2>3. CASE i # m
    <3>1. i + 1 \in 1 .. m /\ new[i + 1] = h[i + 1] /\ i \in b + 1 .. n - 1
      BY <1>1, <1>3, <1>7, <2>1, <2>3
    <3> QED
      BY <1>6, <2>1, <3>1
  <2> QED
    BY <2>2, <2>3
<1>14. Swept(s, w, g, new, b, l)
  <2> HIDE DEF l
  <2> QED
    BY <1>3, <1>8, <1>9, <1>10, <1>11, <1>12, <1>13 DEF Swept
<1> QED
  BY <1>2, <1>14 DEF new

(* A chain that popped its way over a sweep.                               *)
LEMMA SweptAll ==
  ASSUME NEW s, NEW w, Sweep(s, w), NEW g, NEW b, NEW c, Len(w) # 0,
         Swept(s, w, g, c[1], b, 1),
         \A k \in 1 .. Len(w) - 1 :
           c[k + 1] = Append(Pop(c[k], b + 1, w[k + 1]), w[k + 1])
  PROVE  Swept(s, w, g, c[Len(w)], b, Len(w))
<1> DEFINE n == Len(w)
           Bad == {k \in 1 .. n : ~Swept(s, w, g, c[k], b, k)}
<1>1. n \in Nat \ {0} /\ DOMAIN w = 1 .. n
  BY DEF Sweep
<1> SUFFICES ASSUME Bad # {} PROVE FALSE
  BY <1>1
<1>2. PICK k \in Bad : \A j \in Bad : k <= j
  <2>1. IsFiniteSet(1 .. n) /\ Bad \subseteq 1 .. n /\ 1 .. n \subseteq Int
    BY <1>1, FS_Interval
  <2> HIDE DEF Bad
  <2>2. Bad \subseteq Int /\ IsFiniteSet(Bad)
    BY <2>1, FS_Subset
  <2> QED
    BY <2>2, MinIs
<1>3. k \in 1 .. n /\ ~Swept(s, w, g, c[k], b, k) /\ k # 1
  OBVIOUS
<1>4. k - 1 \in 1 .. n - 1 /\ k - 1 \in 1 .. n /\ (k - 1) + 1 = k /\ ~(k <= k - 1)
  BY <1>1, <1>3
<1>5. Swept(s, w, g, c[k - 1], b, k - 1)
  <2>1. k - 1 \notin Bad
    <3> HIDE DEF Bad
    <3> QED
      BY <1>2, <1>4
  <2> QED
    BY <1>4, <2>1
<1>6. c[k] = Append(Pop(c[k - 1], b + 1, w[k]), w[k])
  <2>1. c[(k - 1) + 1] = Append(Pop(c[k - 1], b + 1, w[(k - 1) + 1]), w[(k - 1) + 1])
    BY <1>4
  <2> QED
    BY <1>4, <2>1
<1>7. Swept(s, w, g, c[k], b, k)
  <2> HIDE DEF Bad, n
  <2> DEFINE e == k - 1
  <2>1. e \in DOMAIN w /\ e + 1 = k /\ k \in DOMAIN w
    BY <1>1, <1>3, <1>4
  <2>2. Swept(s, w, g, c[e], b, e) /\ c[k] = Append(Pop(c[e], b + 1, w[e + 1]), w[e + 1])
    BY <1>5, <1>6, <2>1
  <2> HIDE DEF e
  <2>3. Swept(s, w, g, Append(Pop(c[e], b + 1, w[e + 1]), w[e + 1]), b, e + 1)
    BY <2>1, <2>2, SweptStep
  <2> QED
    BY <2>1, <2>2, <2>3
<1> QED
  BY <1>3, <1>7

LEMMA LowerChain ==
  ASSUME NEW w, Sweep(1, w), Len(w) # 0
  PROVE  Swept(1, w, w, Chain(<<>>, 2, w), 1, Len(w))
<1>1. /\ Len(w) \in Nat \ {0} /\ DOMAIN w = 1 .. Len(w)
      /\ 1 \in 1 .. Len(w) /\ w[1] \in Point
  BY DEF Sweep
<1> DEFINE none == <<>>
<1> HIDE DEF none
<1>2. PICK c : /\ c[0] = none /\ Chain(none, 2, w) = c[Len(w)]
               /\ \A k \in 1 .. Len(w) : c[k] = Append(Pop(c[k - 1], 2, w[k]), w[k])
  <2>1. Len(w) \in Nat
    BY <1>1
  <2> QED
    BY <2>1, ChainSteps
<1>3. c[1] = <<w[1]>>
  <2> DEFINE K == {k \in 0 .. Len(none) : k < 2 \/ Ccw(none[k - 1], none[k], w[1])}
  <2>0. Len(none) = 0 /\ none = <<>>
    BY DEF none
  <2>1. K = {0}
    BY <2>0
  <2>2. Max({0}) = 0
    <3>1. IsFiniteSet({0})
      BY FS_Singleton
    <3>2. {0} \subseteq Int /\ {0} # {}
      OBVIOUS
    <3>3. Max({0}) \in {0}
      BY <3>1, <3>2, MaxIs
    <3> QED
      BY <3>3
  <2>3. Pop(none, 2, w[1]) = <<>>
    <3>1. Pop(none, 2, w[1]) = SubSeq(none, 1, Max(K))
      BY DEF Pop
    <3> HIDE DEF K
    <3>2. Pop(none, 2, w[1]) = SubSeq(none, 1, 0)
      BY <2>1, <2>2, <3>1
    <3> QED
      BY <2>0, <3>2
  <2>4. 1 - 1 = 0
    OBVIOUS
  <2>5. c[1] = Append(Pop(none, 2, w[1]), w[1])
    BY <1>1, <1>2, <2>4
  <2>6. \A p : Append(<<>>, p) = <<p>>
    OBVIOUS
  <2> QED
    BY <2>3, <2>5, <2>6
<1>4. Swept(1, w, w, <<w[1]>>, 1, 1)
  <2> DEFINE h == <<w[1]>>
  <2>1. h \in Seq(Point) /\ Len(h) = 1 /\ h[1] = w[1]
    BY <1>1
  <2> HIDE DEF h
  <2>2. \A i \in 1 .. Len(h) : i = 1
    BY <2>1
  <2>3. 1 .. Len(h) - 1 = {} /\ 1 + 1 .. Len(h) - 1 = {} /\ 1 \in 1 .. 1
    BY <2>1
  <2>4. Swept(1, w, w, h, 1, 1)
    BY <2>1, <2>2, <2>3 DEF Swept
  <2> QED
    BY <2>4 DEF h
<1>5. \A k \in 1 .. Len(w) - 1 : c[k + 1] = Append(Pop(c[k], 1 + 1, w[k + 1]), w[k + 1])
  <2>1. \A k \in 1 .. Len(w) - 1 : k + 1 \in 1 .. Len(w) /\ (k + 1) - 1 = k
    BY <1>1
  <2>2. 1 + 1 = 2
    OBVIOUS
  <2> QED
    BY <1>2, <2>1, <2>2
<1>6. Swept(1, w, w, c[1], 1, 1)
  BY <1>3, <1>4
<1>7. Swept(1, w, w, c[Len(w)], 1, Len(w))
  BY <1>1, <1>5, <1>6, SweptAll
<1> QED
  BY <1>2, <1>7 DEF none

LEMMA UpperChain ==
  ASSUME NEW v, Sweep(0 - 1, v), Len(v) # 0,
         NEW h \in Seq(Point), h # <<>>, h[Len(h)] = v[1]
  PROVE  Swept(0 - 1, v, h, Chain(h, Len(h) + 1, Tail(v)), Len(h), Len(v))
<1> DEFINE b == Len(h)
           n == Len(v)
           pts == Tail(v)
<1>1. /\ n \in Nat \ {0} /\ DOMAIN v = 1 .. n /\ v \in Seq(Point)
      /\ 1 \in 1 .. n /\ v[1] \in Point /\ b \in Nat \ {0}
  BY DEF Sweep
<1>2. Len(pts) = n - 1 /\ \A k \in 1 .. n - 1 : pts[k] = v[k + 1]
  BY <1>1
<1>3. Len(pts) \in Nat
  BY <1>1, <1>2
<1> HIDE DEF pts
<1>4. PICK c : /\ c[0] = h /\ Chain(h, b + 1, pts) = c[Len(pts)]
               /\ \A k \in 1 .. Len(pts) : c[k] = Append(Pop(c[k - 1], b + 1, pts[k]), pts[k])
  BY <1>3, ChainSteps
<1> DEFINE d == [k \in 1 .. n |-> c[k - 1]]
<1>5. d[1] = h /\ d[n] = Chain(h, b + 1, pts)
  <2>1. 1 - 1 = 0 /\ n \in 1 .. n
    BY <1>1
  <2> HIDE DEF n
  <2> QED
    BY <1>1, <1>2, <1>4, <2>1
<1>6. \A k \in 1 .. n - 1 : d[k + 1] = Append(Pop(d[k], b + 1, v[k + 1]), v[k + 1])
  <2> SUFFICES ASSUME NEW k \in 1 .. n - 1
               PROVE  d[k + 1] = Append(Pop(d[k], b + 1, v[k + 1]), v[k + 1])
    OBVIOUS
  <2>1. k + 1 \in 1 .. n /\ k \in 1 .. n /\ (k + 1) - 1 = k
    BY <1>1
  <2>2. d[k + 1] = c[k] /\ d[k] = c[k - 1]
    BY <2>1
  <2>3. c[k] = Append(Pop(c[k - 1], b + 1, pts[k]), pts[k])
    BY <1>2, <1>4
  <2> QED
    BY <1>2, <2>2, <2>3
<1>7. Swept(0 - 1, v, h, h, b, 1)
  <2>1. b \in 1 .. b /\ b .. b - 1 = {} /\ b + 1 .. b - 1 = {} /\ 1 \in 1 .. 1
    BY <1>1
  <2>2. \A i \in b .. b : i = b
    BY <1>1
  <2>3. \A i, j \in b .. b : ~(i < j)
    BY <1>1
  <2> QED
    BY <2>1, <2>2, <2>3 DEF Swept
<1> HIDE DEF d
<1>8. Swept(0 - 1, v, h, d[1], b, 1)
  BY <1>5, <1>7
<1>9. Swept(0 - 1, v, h, d[n], b, n)
  BY <1>6, <1>8, SweptAll
<1> QED
  BY <1>5, <1>9 DEF pts

(* The way back of a sweep is a sweep.                                     *)
LEMMA SweepBack ==
  ASSUME NEW w, Sweep(1, w)
  PROVE  Sweep(0 - 1, Reverse(w))
<1> DEFINE n == Len(w)
           v == Reverse(w)
           at(i) == n - i + 1
<1>1. n \in Nat /\ DOMAIN w = 1 .. n /\ \A i \in 1 .. n : w[i] \in Point
  BY DEF Sweep
<1>2. DOMAIN v = 1 .. n /\ Len(v) = n /\ \A i \in 1 .. n : v[i] = w[at(i)]
  BY <1>1 DEF Reverse
<1>3. \A i \in 1 .. n : at(i) \in 1 .. n /\ \A j \in 1 .. n : i < j => at(j) < at(i)
  BY <1>1
<1>4. v \in Seq(Point)
  <2>1. v \in [1 .. n -> Point]
    BY <1>1, <1>3 DEF Reverse
  <2> HIDE DEF v, n
  <2> QED
    BY <1>1, <2>1
<1>5. \A i \in 1 .. n : /\ Far(1, w[i]) \in Int /\ Off(1, w[i]) \in Int
                        /\ Far(0 - 1, w[i]) = 0 - Far(1, w[i])
                        /\ Off(0 - 1, w[i]) = 0 - Off(1, w[i])
  <2>1. \A q \in Point : /\ Far(1, q) \in Int /\ Off(1, q) \in Int
                        /\ Far(0 - 1, q) = 0 - Far(1, q)
                        /\ Off(0 - 1, q) = 0 - Off(1, q)
    BY Coordinates DEF Far, Off
  <2> QED
    BY <1>1, <2>1
<1>6. /\ \A i, j \in 1 .. n : i < j => w[i] # w[j] /\ Far(1, w[i]) <= Far(1, w[j])
      /\ \A i, j, k \in 1 .. n :
           i < j /\ j < k /\ Far(1, w[i]) = Far(1, w[k])
             => Off(1, w[i]) < Off(1, w[j]) /\ Off(1, w[j]) < Off(1, w[k])
  BY <1>1 DEF Sweep
<1> HIDE DEF v, n, at
<1>7. ASSUME NEW i \in 1 .. n, NEW j \in 1 .. n, i < j
      PROVE  v[i] # v[j] /\ Far(0 - 1, v[i]) <= Far(0 - 1, v[j])
  <2>1. at(i) \in 1 .. n /\ at(j) \in 1 .. n /\ at(j) < at(i) /\ v[i] = w[at(i)] /\ v[j] = w[at(j)]
    BY <1>2, <1>3, <1>7
  <2>2. w[at(j)] # w[at(i)] /\ Far(1, w[at(j)]) <= Far(1, w[at(i)])
    BY <1>6, <2>1
  <2>3. /\ Far(0 - 1, v[i]) = 0 - Far(1, w[at(i)]) /\ Far(1, w[at(i)]) \in Int
        /\ Far(0 - 1, v[j]) = 0 - Far(1, w[at(j)]) /\ Far(1, w[at(j)]) \in Int
    BY <1>5, <2>1
  <2> QED
    BY <2>1, <2>2, <2>3
<1>8. ASSUME NEW i \in 1 .. n, NEW j \in 1 .. n, NEW k \in 1 .. n, i < j, j < k,
             Far(0 - 1, v[i]) = Far(0 - 1, v[k])
      PROVE  Off(0 - 1, v[i]) < Off(0 - 1, v[j]) /\ Off(0 - 1, v[j]) < Off(0 - 1, v[k])
  <2>1. Far(1, w[at(k)]) = Far(1, w[at(i)])
    <3>1. at(i) \in 1 .. n /\ at(k) \in 1 .. n /\ v[i] = w[at(i)] /\ v[k] = w[at(k)]
      BY <1>2, <1>3
    <3>2. /\ Far(0 - 1, v[i]) = 0 - Far(1, w[at(i)]) /\ Far(1, w[at(i)]) \in Int
          /\ Far(0 - 1, v[k]) = 0 - Far(1, w[at(k)]) /\ Far(1, w[at(k)]) \in Int
      BY <1>5, <3>1
    <3> QED
      BY <1>8, <3>2
  <2>2. at(k) < at(j) /\ at(j) < at(i) /\ at(i) \in 1 .. n /\ at(j) \in 1 .. n /\ at(k) \in 1 .. n
    BY <1>3, <1>8
  <2>3. Off(1, w[at(k)]) < Off(1, w[at(j)]) /\ Off(1, w[at(j)]) < Off(1, w[at(i)])
    BY <1>6, <2>1, <2>2
  <2>4. /\ Off(0 - 1, v[i]) = 0 - Off(1, w[at(i)]) /\ Off(1, w[at(i)]) \in Int
        /\ Off(0 - 1, v[j]) = 0 - Off(1, w[at(j)]) /\ Off(1, w[at(j)]) \in Int
        /\ Off(0 - 1, v[k]) = 0 - Off(1, w[at(k)]) /\ Off(1, w[at(k)]) \in Int
    BY <1>2, <1>5, <2>2
  <2> QED
    BY <2>3, <2>4
<1>9. Sweep(0 - 1, v)
  <2>1. 0 - 1 \in Sides
    BY DEF Sides
  <2> QED
    BY <1>2, <1>4, <1>7, <1>8, <2>1 DEF Sweep
<1> QED
  BY <1>9 DEF v

(* The way around: up the latitudes to place b, and down again.            *)
Around(P, u, b) ==
  /\ u \in Seq(Point) /\ Len(u) >= 3 /\ b \in 2 .. Len(u) - 1
  /\ u[Len(u)] = u[1] /\ \A i \in 1 .. Len(u) : u[i] \in P
  /\ \A i \in 1 .. Len(u) - 1 : \A q \in P : Cross(u[i], u[i + 1], q) >= 0
  /\ \A i, j \in 1 .. b : i < j => u[i] # u[j] /\ u[i][1] <= u[j][1]
  /\ \A i, j \in b .. Len(u) : i < j => u[i] # u[j] /\ u[j][1] <= u[i][1]
  /\ \A i \in 2 .. Len(u) - 1 : i # b => Cross(u[i - 1], u[i], u[i + 1]) > 0
  /\ \A q \in P : u[1][1] <= q[1] /\ q[1] <= u[b][1]

LEMMA HullAround ==
  ASSUME NEW w, Sweep(1, w), Len(w) >= 2
  PROVE  \E u, b : /\ Around(ToSet(w), u, b) /\ HullOf(w) = Front(u)
                   /\ u[1] = w[1] /\ u[b] = w[Len(w)]
                   /\ \A i, j \in 1 .. b :
                        i < j => \E d, e \in DOMAIN w : d < e /\ u[i] = w[d] /\ u[j] = w[e]
                   /\ \A i, j \in b .. Len(u) :
                        i < j => \E d, e \in DOMAIN w : d < e /\ u[j] = w[d] /\ u[i] = w[e]
<1> DEFINE n == Len(w)
           v == Reverse(w)
           lower == Chain(<<>>, 2, w)
           b == Len(lower)
           u == Chain(lower, b + 1, Tail(v))
           m == Len(u)
           P == ToSet(w)
<1>1. n \in Nat /\ n >= 2 /\ DOMAIN w = 1 .. n /\ w \in Seq(Point) /\ \A i \in 1 .. n : w[i] \in Point
  BY DEF Sweep
<1>2. Len(v) = n /\ DOMAIN v = 1 .. n /\ v[1] = w[n] /\ v[n] = w[1]
  BY <1>1 DEF Reverse
<1>3. P = {w[i] : i \in 1 .. n} /\ P = {v[i] : i \in 1 .. n} /\ P \subseteq Point
  <2>1. P = {w[i] : i \in 1 .. n} /\ P \subseteq Point
    BY <1>1 DEF ToSet
  <2>2. \A i \in 1 .. n : n - i + 1 \in 1 .. n /\ n - (n - i + 1) + 1 = i
    BY <1>1
  <2>3. \A i \in 1 .. n : v[i] = w[n - i + 1]
    BY DEF Reverse
  <2> HIDE DEF v, P, n
  <2> QED
    BY <2>1, <2>2, <2>3
<1>4. HullOf(w) = Front(u)
  BY DEF HullOf
<1>5. Swept(1, w, w, lower, 1, n)
  BY <1>1, LowerChain
<1>6. /\ lower \in Seq(Point) /\ b \in Nat \ {0} /\ lower[1] = w[1] /\ lower[b] = w[n]
      /\ \A i \in 1 .. b : \E d \in 1 .. n : lower[i] = w[d]
      /\ \A i \in 1 .. b - 1 : \A j \in 1 .. n : Cross(lower[i], lower[i + 1], w[j]) >= 0
      /\ \A i \in 2 .. b - 1 : Cross(lower[i - 1], lower[i], lower[i + 1]) > 0
  <2>1. 1 + 1 = 2 /\ 1 \in 1 .. 1
    OBVIOUS
  <2> HIDE DEF lower
  <2>2. lower \in Seq(Point) /\ 1 \in 1 .. Len(lower)
    BY <1>5 DEF Swept
  <2>3. b \in Nat \ {0}
    BY <2>2
  <2>4. lower[1] = w[1] /\ lower[b] = w[n]
    BY <1>5 DEF Swept
  <2> QED
    BY <1>5, <2>1, <2>2, <2>3, <2>4 DEF Swept
<1> HIDE DEF lower, v
<1>7. w[1] # w[n] /\ b # 1
  <2>1. 1 \in 1 .. n /\ n \in 1 .. n /\ 1 < n
    BY <1>1
  <2>2. w[1] # w[n]
    BY <1>1, <2>1 DEF Sweep
  <2> QED
    BY <1>6, <2>2
<1>8. Swept(0 - 1, v, lower, u, b, n)
  <2>1. lower # <<>> /\ Len(v) # 0 /\ lower[Len(lower)] = v[1] /\ Sweep(0 - 1, v)
    BY <1>1, <1>2, <1>6, SweepBack DEF v
  <2> QED
    BY <1>2, <1>6, <2>1, UpperChain
<1> HIDE DEF u, b, n
<1>9. /\ u \in Seq(Point) /\ b \in 1 .. m /\ u[b] = v[1] /\ u[m] = v[n]
      /\ \A i \in 1 .. b : u[i] = lower[i]
      /\ \A i \in b .. m : \E d \in 1 .. n : u[i] = v[d]
      /\ \A i \in b .. m - 1 : \A j \in 1 .. n : Cross(u[i], u[i + 1], v[j]) >= 0
      /\ \A i \in b + 1 .. m - 1 : Cross(u[i - 1], u[i], u[i + 1]) > 0
  BY <1>8 DEF Swept
<1>10. m \in Nat /\ b \in 2 .. m /\ b # m /\ u[1] = w[1] /\ u[m] = w[1] /\ u[b] = w[n]
  <2>1. m \in Nat
    BY <1>9
  <2>2. u[1] = w[1]
    BY <1>6, <1>9
  <2> HIDE DEF m
  <2> QED
    BY <1>2, <1>6, <1>7, <1>9, <2>1, <2>2
<1>11. n \in DOMAIN w /\ n \in DOMAIN v
  BY <1>1, <1>2
<1>12. \A i, j \in 1 .. b : i < j => u[i] # u[j] /\ u[i][1] <= u[j][1]
  <2>1. \A i, j \in 1 .. b : i < j => lower[i] # lower[j] /\ Far(1, lower[i]) <= Far(1, lower[j])
    BY <1>5, <1>11, SweptAhead DEF b
  <2>2. \A i \in 1 .. b : lower[i] \in Point
    BY <1>6 DEF b
  <2>3. \A i \in 1 .. b : Far(1, lower[i]) = lower[i][1]
    BY <2>2, Coordinates DEF Far
  <2> SUFFICES ASSUME NEW i \in 1 .. b, NEW j \in 1 .. b, i < j
               PROVE  u[i] # u[j] /\ u[i][1] <= u[j][1]
    OBVIOUS
  <2>4. u[i] = lower[i] /\ u[j] = lower[j]
    BY <1>9
  <2>5. lower[i] # lower[j] /\ Far(1, lower[i]) <= Far(1, lower[j])
    BY <2>1
  <2> QED
    BY <2>3, <2>4, <2>5
<1>13. \A i, j \in b .. m : i < j => u[i] # u[j] /\ u[j][1] <= u[i][1]
  <2>1. \A i, j \in b .. m : i < j => u[i] # u[j] /\ Far(0 - 1, u[i]) <= Far(0 - 1, u[j])
    BY <1>8, <1>11, SweptAhead, SweepBack DEF v
  <2>2. \A i \in b .. m : u[i] \in Point
    BY <1>9
  <2>3. \A i \in b .. m : Far(0 - 1, u[i]) = 0 - u[i][1] /\ u[i][1] \in Int
    BY <2>2, Coordinates DEF Far
  <2> QED
    BY <2>1, <2>3
<1>14. ASSUME NEW i \in 1 .. m PROVE u[i] \in P
  <2>1. CASE i <= b
    <3>1. i \in 1 .. b
      BY <1>6, <2>1
    <3> QED
      BY <1>3, <1>6, <1>9, <3>1
  <2>2. CASE i > b
    <3>1. i \in b .. m
      BY <1>6, <1>10, <2>2
    <3> QED
      BY <1>3, <1>9, <3>1
  <2> QED
    BY <1>10, <2>1, <2>2
<1>15. ASSUME NEW i \in 1 .. m - 1, NEW q \in P PROVE Cross(u[i], u[i + 1], q) >= 0
  <2>1. CASE i < b
    <3>1. i \in 1 .. b - 1 /\ i \in 1 .. b /\ i + 1 \in 1 .. b
      BY <1>10, <2>1
    <3> QED
      BY <1>3, <1>6, <1>9, <3>1
  <2>2. CASE i >= b
    <3>1. i \in b .. m - 1
      BY <1>10, <2>2
    <3> QED
      BY <1>3, <1>9, <3>1
  <2> QED
    BY <1>10, <2>1, <2>2
<1>16. ASSUME NEW i \in 2 .. m - 1, i # b PROVE Cross(u[i - 1], u[i], u[i + 1]) > 0
  <2>1. CASE i < b
    <3>1. i \in 2 .. b - 1 /\ i \in 1 .. b /\ i + 1 \in 1 .. b /\ i - 1 \in 1 .. b
      BY <1>10, <2>1
    <3> QED
      BY <1>6, <1>9, <3>1
  <2>2. CASE i > b
    <3>1. i \in b + 1 .. m - 1
      BY <1>10, <2>2
    <3> QED
      BY <1>9, <3>1
  <2> QED
    BY <1>10, <1>16, <2>1, <2>2
<1>17. ASSUME NEW q \in P PROVE u[1][1] <= q[1] /\ q[1] <= u[b][1]
  <2>1. PICK j \in 1 .. n : q = w[j]
    BY <1>3
  <2>2. \A i \in 1 .. n : Far(1, w[i]) = w[i][1] /\ w[i][1] \in Int
    BY <1>1, Coordinates DEF Far
  <2>3. /\ 1 \in 1 .. n /\ n \in 1 .. n /\ (1 < j \/ 1 = j) /\ (j < n \/ j = n)
    BY <1>1
  <2>4. \A i, l \in 1 .. n : i < l => w[i][1] <= w[l][1]
    <3>1. \A i, l \in 1 .. n : i < l => Far(1, w[i]) <= Far(1, w[l])
      BY <1>1 DEF Sweep
    <3> QED
      BY <2>2, <3>1
  <2>5. w[1][1] <= w[j][1] /\ w[j][1] <= w[n][1]
    BY <2>2, <2>3, <2>4
  <2> QED
    BY <1>10, <2>1, <2>5
<1>18. m >= 3 /\ b \in 2 .. m - 1
  BY <1>10
<1>19. Around(P, u, b)
  <2> HIDE DEF P
  <2> QED
    BY <1>9, <1>10, <1>12, <1>13, <1>14, <1>15, <1>16, <1>17, <1>18 DEF Around
<1>20. ASSUME NEW i \in 1 .. b, NEW j \in 1 .. b, i < j
       PROVE  \E d, e \in 1 .. n : d < e /\ u[i] = w[d] /\ u[j] = w[e]
  <2>1. \E d, e \in 1 .. n : d < e /\ lower[i] = w[d] /\ lower[j] = w[e]
    BY <1>5, <1>20 DEF Swept, b
  <2> QED
    BY <1>9, <2>1
<1>21. ASSUME NEW i \in b .. m, NEW j \in b .. m, i < j
       PROVE  \E d, e \in 1 .. n : d < e /\ u[j] = w[d] /\ u[i] = w[e]
  <2>1. PICK d, e \in 1 .. n : d < e /\ u[i] = v[d] /\ u[j] = v[e]
    BY <1>8, <1>21 DEF Swept
  <2>2. n - d + 1 \in 1 .. n /\ n - e + 1 \in 1 .. n /\ n - e + 1 < n - d + 1
    BY <1>1, <2>1
  <2>3. v[d] = w[n - d + 1] /\ v[e] = w[n - e + 1]
    BY <1>1, <2>1 DEF v, Reverse, n
  <2> QED
    BY <2>1, <2>2, <2>3
<1>22. DOMAIN w = 1 .. n
  BY <1>1
<1> QED
  <2>1. /\ \A i, j \in 1 .. b : i < j => \E d, e \in DOMAIN w : d < e /\ u[i] = w[d] /\ u[j] = w[e]
        /\ \A i, j \in b .. Len(u) : i < j => \E d, e \in DOMAIN w : d < e /\ u[j] = w[d] /\ u[i] = w[e]
    BY <1>20, <1>21, <1>22
  <2>2. Around(P, u, b) /\ HullOf(w) = Front(u) /\ u[1] = w[1] /\ u[b] = w[Len(w)]
    BY <1>4, <1>10, <1>19 DEF n
  <2> QED
    BY <2>1, <2>2

(* Such a way around holds the hull of the points.                         *)
LEMMA AroundHolds ==
  ASSUME NEW P, P \subseteq Point, NEW u, NEW b, Around(P, u, b), NEW p \in Point, HullContains(P, p),
         u[1][1] = u[b][1]
           => \A q \in P : /\ u[1][2] <= q[2] \/ u[b][2] <= q[2]
                           /\ q[2] <= u[1][2] \/ q[2] <= u[b][2]
  PROVE  RingContains(u, p)
<1> DEFINE n == Len(u)
<1>1. /\ u \in Seq(Point) /\ DOMAIN u = 1 .. n /\ n \in Nat /\ n >= 3
      /\ b \in 2 .. n - 1 /\ u[n] = u[1] /\ \A i \in 1 .. n : u[i] \in P /\ u[i] \in Point
  BY DEF Around
<1>2. /\ Ring(u) /\ 1 \in 1 .. n /\ b \in 1 .. n /\ n \in 1 .. n /\ n \in Nat \ {0}
      /\ \A i \in 1 .. n : After(i, n) \in 1 .. n
  <2>1. Ring(u)
    BY <1>1 DEF Ring
  <2> HIDE DEF n
  <2>2. 1 \in 1 .. n /\ b \in 1 .. n /\ n \in 1 .. n /\ n \in Nat \ {0}
    BY <1>1
  <2> QED
    BY <2>1, <2>2, AfterIs
<1>3. PICK x \in P, y \in P, z \in P : InTriangle(x, y, z, p)
  BY DEF HullContains
<1>4. x \in Point /\ y \in Point /\ z \in Point
  OBVIOUS
<1>5. \A i \in 1 .. n : u[i][1] \in Int /\ u[i][2] \in Int
  BY <1>1, Coordinates
<1>6. p[1] \in Int /\ p[2] \in Int /\ \A q \in P : q[1] \in Int /\ q[2] \in Int
  BY Coordinates
<1>7. /\ \A i \in 1 .. n - 1 : \A q \in P : Cross(u[i], u[i + 1], q) >= 0
      /\ \A i, j \in 1 .. b : i < j => u[i][1] <= u[j][1]
      /\ \A i, j \in b .. n : i < j => u[j][1] <= u[i][1]
      /\ \A q \in P : u[1][1] <= q[1] /\ q[1] <= u[b][1]
  BY DEF Around
<1> HIDE DEF n
<1>8. ASSUME NEW i \in 1 .. n PROVE Cross(u[i], u[After(i, n)], p) >= 0
  <2>1. \A q \in P : Cross(u[i], u[After(i, n)], q) >= 0
    <3>1. CASE i # n
      <4>1. i \in 1 .. n - 1 /\ After(i, n) = i + 1
        BY <1>2, <3>1, AfterIs
      <4> QED
        BY <1>7, <4>1
    <3>2. CASE i = n
      <4>1. After(i, n) = 1
        BY <1>2, <3>2, AfterIs
      <4>2. \A q \in P : Cross(u[1], u[1], q) = 0
        BY <1>1, <1>2, CrossTurns
      <4> QED
        BY <1>1, <3>2, <4>1, <4>2
    <3> QED
      BY <3>1, <3>2
  <2>2. \A q \in {x, y, z} : Cross(u[i], u[After(i, n)], q) >= 0
    BY <2>1
  <2>3. u[i] \in Point /\ u[After(i, n)] \in Point
    BY <1>1, <1>2
  <2> QED
    BY <1>3, <1>4, <2>2, <2>3, HalfPlane
<1>9. \A k \in 1 .. 2 : /\ \E q \in {x, y, z} : q[k] <= p[k]
                        /\ \E q \in {x, y, z} : p[k] <= q[k]
  BY <1>3, <1>4, TriangleIs
<1>10. 1 \in 1 .. 2 /\ 2 \in 1 .. 2
  OBVIOUS
<1>11. u[1][1] <= p[1] /\ p[1] <= u[b][1]
  <2>1. PICK q \in P : q[1] <= p[1]
    BY <1>9, <1>10
  <2>2. PICK r \in P : p[1] <= r[1]
    BY <1>9, <1>10
  <2>3. u[1][1] <= q[1] /\ r[1] <= u[b][1]
    BY <1>7
  <2> QED
    BY <1>2, <1>5, <1>6, <2>1, <2>2, <2>3
<1>12. ASSUME \A i \in 1 .. n : u[i][1] = p[1]
       PROVE  /\ \E i \in 1 .. n : u[i][2] <= p[2]
              /\ \E i \in 1 .. n : p[2] <= u[i][2]
  <2>1. PICK q \in P : q[2] <= p[2]
    BY <1>9, <1>10
  <2>2. PICK r \in P : p[2] <= r[2]
    BY <1>9, <1>10
  <2>3. u[1][1] = u[b][1]
    BY <1>2, <1>12
  <2>4. u[1][2] <= q[2] \/ u[b][2] <= q[2]
    BY <2>3
  <2>5. r[2] <= u[1][2] \/ r[2] <= u[b][2]
    BY <2>3
  <2>6. u[1][2] <= p[2] \/ u[b][2] <= p[2]
    BY <1>2, <1>5, <1>6, <2>1, <2>4
  <2>7. p[2] <= u[1][2] \/ p[2] <= u[b][2]
    BY <1>2, <1>5, <1>6, <2>2, <2>5
  <2> QED
    BY <1>2, <2>6, <2>7
<1>13. ASSUME NEW i \in 1 .. n, Falls(u, i, p)
       PROVE  i \in b .. n - 1 /\ u[i + 1][1] <= p[1] /\ p[1] < u[i][1]
  <2>1. p[1] < u[i][1] /\ u[After(i, n)][1] <= p[1]
    BY <1>13 DEF Falls, n
  <2>2. i # n
    <3> SUFFICES ASSUME i = n PROVE FALSE
      OBVIOUS
    <3>1. After(i, n) = 1
      BY <1>2, AfterIs
    <3>2. u[1][1] <= p[1] /\ p[1] < u[n][1]
      BY <2>1, <3>1
    <3>3. u[n][1] = u[1][1] /\ u[1][1] \in Int
      BY <1>1, <1>2, <1>5
    <3> QED
      BY <1>6, <3>2, <3>3
  <2>3. After(i, n) = i + 1 /\ i + 1 \in 1 .. n
    BY <1>2, <2>2, AfterIs
  <2>4. ~(i < b)
    <3> SUFFICES ASSUME i < b PROVE FALSE
      OBVIOUS
    <3>1. i \in 1 .. b /\ i + 1 \in 1 .. b /\ i < i + 1
      BY <1>1
    <3>2. u[i][1] <= u[i + 1][1]
      BY <1>7, <3>1
    <3> QED
      BY <1>5, <1>6, <2>1, <2>3, <3>2
  <2> QED
    BY <1>1, <2>1, <2>2, <2>3, <2>4
<1>14. ASSUME NEW i \in 1 .. n, NEW j \in 1 .. n, Falls(u, i, p), Falls(u, j, p), i < j
       PROVE  FALSE
  <2>1. i \in b .. n - 1 /\ u[i + 1][1] <= p[1] /\ p[1] < u[j][1] /\ j \in b .. n - 1
    BY <1>13, <1>14
  <2>2. i + 1 \in b .. n /\ i + 1 \in 1 .. n /\ j \in b .. n /\ (i + 1 < j \/ i + 1 = j)
    BY <1>1, <1>14, <2>1
  <2>3. u[j][1] <= u[i + 1][1]
    BY <1>5, <1>7, <2>2
  <2> QED
    BY <1>5, <1>6, <2>1, <2>2, <2>3
<1>15. \A i, j \in 1 .. n : Falls(u, i, p) /\ Falls(u, j, p) => i = j
  <2>1. \A i, j \in 1 .. n : i < j \/ j < i \/ i = j
    BY <1>1
  <2> QED
    BY <1>14, <2>1
<1>16. \A i \in DOMAIN u : Cross(u[i], u[After(i, Len(u))], p) >= 0
  BY <1>1, <1>8 DEF n
<1>17. (\E i \in DOMAIN u : u[i][1] <= p[1]) /\ \E i \in DOMAIN u : p[1] <= u[i][1]
  BY <1>1, <1>2, <1>11
<1>18. (\A i \in DOMAIN u : u[i][1] = p[1])
         => /\ \E i \in DOMAIN u : u[i][2] <= p[2]
            /\ \E i \in DOMAIN u : p[2] <= u[i][2]
  BY <1>1, <1>12
<1>19. \A i, j \in DOMAIN u : Falls(u, i, p) /\ Falls(u, j, p) => i = j
  BY <1>1, <1>15
<1> QED
  BY <1>2, <1>16, <1>17, <1>18, <1>19, RingHolds

LEMMA FrontClosed ==
  ASSUME NEW u \in Seq(Point), Len(u) >= 2, u[Len(u)] = u[1]
  PROVE  /\ Append(Front(u), Front(u)[1]) = u /\ Front(u) \in Seq(Point)
         /\ Len(Front(u)) = Len(u) - 1 /\ \A i \in 1 .. Len(u) - 1 : Front(u)[i] = u[i]
<1> DEFINE n == Len(u)
           f == Front(u)
<1>1. n \in Nat /\ n >= 2
  OBVIOUS
<1>2. n - 1 \in 1 .. n
  BY <1>1
<1>3. f \in Seq(Point) /\ Len(f) = n - 1 /\ \A i \in 1 .. n - 1 : f[i] = u[i]
  <2>1. f = SubSeq(u, 1, n - 1)
    BY DEF Front
  <2> HIDE DEF f
  <2> QED
    BY <1>2, <2>1
<1> HIDE DEF f
<1>4. Append(f, f[1]) = u
  <2>1. f[1] = u[1] /\ u[1] \in Point
    BY <1>1, <1>3
  <2> DEFINE g == Append(f, u[1])
  <2>2. Len(g) = n /\ g \in Seq(Point) /\ g[n] = u[1] /\ \A i \in 1 .. n - 1 : g[i] = f[i]
    BY <1>1, <1>3, <2>1
  <2>3. g = [i \in 1 .. n |-> g[i]] /\ u = [i \in 1 .. n |-> u[i]]
    <3> HIDE DEF g
    <3> QED
      BY <2>2
  <2>4. \A i \in 1 .. n : g[i] = u[i]
    <3> HIDE DEF g
    <3>1. \A i \in 1 .. n : i = n \/ i \in 1 .. n - 1
      BY <1>1
    <3> QED
      BY <1>3, <2>2, <3>1
  <2>5. g = u
    <3> HIDE DEF g, n
    <3> QED
      BY <2>3, <2>4
  <2> QED
    BY <2>1, <2>5
<1> QED
  BY <1>3, <1>4 DEF f

(* The ring of convexHull, closed, is the hull of a swept set of points.   *)
LEMMA HullRing ==
  ASSUME NEW w, Sweep(1, w), Len(w) >= 2, NEW p \in Point
  PROVE  RingContains(Append(HullOf(w), HullOf(w)[1]), p) <=> HullContains(ToSet(w), p)
<1> DEFINE n == Len(w)
           P == ToSet(w)
<1>1. PICK u, b : Around(P, u, b) /\ HullOf(w) = Front(u) /\ u[1] = w[1] /\ u[b] = w[n]
  BY HullAround
<1>2. /\ n \in Nat /\ n >= 2 /\ DOMAIN w = 1 .. n /\ P = {w[i] : i \in 1 .. n}
      /\ \A i \in 1 .. n : w[i] \in Point
  BY DEF Sweep, ToSet
<1>3. P \subseteq Point
  BY <1>2
<1>4. Append(HullOf(w), HullOf(w)[1]) = u
  <2>1. u \in Seq(Point) /\ Len(u) >= 2 /\ u[Len(u)] = u[1]
    BY <1>1 DEF Around
  <2> QED
    BY <1>1, <2>1, FrontClosed
<1>5. ASSUME RingContains(u, p) PROVE HullContains(P, p)
  <2>1. Ring(u) /\ \A i \in DOMAIN u : u[i] \in P
    BY <1>1 DEF Around, Ring
  <2>2. ToSet(u) \subseteq P
    BY <2>1 DEF ToSet
  <2>3. HullContains(ToSet(u), p)
    BY <1>5, <2>1, RingInHull
  <2> HIDE DEF P
  <2> QED
    BY <2>2, <2>3 DEF HullContains
<1>6. ASSUME u[1][1] = u[b][1], NEW q \in P
      PROVE  /\ u[1][2] <= q[2] \/ u[b][2] <= q[2]
             /\ q[2] <= u[1][2] \/ q[2] <= u[b][2]
  <2>1. PICK j \in 1 .. n : q = w[j]
    BY <1>2
  <2>2. 1 \in 1 .. n /\ n \in 1 .. n /\ (j = 1 \/ j = n \/ (1 < j /\ j < n))
    <3>1. n \in Nat /\ n >= 2 /\ j \in 1 .. n
      BY <1>2
    <3> HIDE DEF n
    <3> QED
      BY <3>1
  <2>3. \A i \in 1 .. n : /\ Far(1, w[i]) = w[i][1] /\ Off(1, w[i]) = w[i][2]
                          /\ w[i][1] \in Int /\ w[i][2] \in Int
    BY <1>2, Coordinates DEF Far, Off
  <2>4. Far(1, w[1]) = Far(1, w[n])
    BY <1>1, <1>6, <2>2, <2>3
  <2>5. CASE j = 1 \/ j = n
    BY <1>1, <2>1, <2>2, <2>3, <2>5
  <2>6. CASE 1 < j /\ j < n
    <3>1. Off(1, w[1]) < Off(1, w[j]) /\ Off(1, w[j]) < Off(1, w[n])
      BY <1>2, <2>2, <2>4, <2>6 DEF Sweep
    <3> QED
      BY <1>1, <2>1, <2>2, <2>3, <3>1
  <2> QED
    BY <2>2, <2>5, <2>6
<1>7. ASSUME HullContains(P, p) PROVE RingContains(u, p)
  <2> HIDE DEF P
  <2> QED
    BY <1>1, <1>3, <1>6, <1>7, AroundHolds
<1> QED
  BY <1>4, <1>5, <1>7

(* The points in the order of sort.Slice are a sweep, when no three of     *)
(* them share their latitude.                                              *)
LEMMA SortedSweeps ==
  ASSUME NEW P, P \subseteq Point, IsFiniteSet(P), NEW w \in SortedAs(P),
         \A a \in P : ~(Cardinality({b \in P : b[1] = a[1]}) > 2)
  PROVE  Sweep(1, w) /\ ToSet(w) = P /\ Len(w) = Cardinality(P)
<1> DEFINE n == Cardinality(P)
<1>1. /\ n \in Nat /\ w \in [1 .. n -> P]
      /\ \A i, j \in 1 .. n : i # j => w[i] # w[j]
      /\ \A i, j \in DOMAIN w : i < j => ~Less(w[j], w[i])
  BY FS_CardinalityType DEF SortedAs, SetToSeqs
<1>2. Len(w) = n /\ DOMAIN w = 1 .. n /\ w \in Seq(Point) /\ \A i \in 1 .. n : w[i] \in Point
  <2> HIDE DEF n
  <2>1. w \in [1 .. n -> Point]
    BY <1>1
  <2> QED
    BY <1>1, <2>1
<1>3. ToSet(w) = P
  <2>1. w \in Injection(1 .. n, P)
    BY <1>1 DEF Injection, IsInjective
  <2>2. IsFiniteSet(1 .. n) /\ Cardinality(1 .. n) = n
    <3>1. \A a, b \in Int : IsFiniteSet(a .. b) /\ Cardinality(a .. b) = IF a > b THEN 0 ELSE b - a + 1
      BY FS_Interval
    <3> HIDE DEF n
    <3> QED
      BY <1>1, <3>1
  <2>3. w \in Surjection(1 .. n, P)
    BY <2>1, <2>2, FS_Injection
  <2> HIDE DEF n
  <2>4. \A q \in P : \E i \in 1 .. n : w[i] = q
    BY <2>3 DEF Surjection
  <2> QED
    BY <1>1, <1>2, <2>4 DEF ToSet
<1>4. \A i \in 1 .. n : /\ Far(1, w[i]) = w[i][1] /\ Off(1, w[i]) = w[i][2]
                        /\ w[i][1] \in Int /\ w[i][2] \in Int
  BY <1>2, Coordinates DEF Far, Off
<1>5. ASSUME NEW i \in 1 .. n, NEW j \in 1 .. n, i < j
      PROVE  w[i] # w[j] /\ Far(1, w[i]) <= Far(1, w[j])
  <2>1. w[i] # w[j] /\ ~Less(w[j], w[i])
    BY <1>1, <1>2, <1>5
  <2> QED
    BY <1>4, <2>1 DEF Less
<1>6. ASSUME NEW i \in 1 .. n, NEW j \in 1 .. n, NEW k \in 1 .. n, i < j, j < k,
             Far(1, w[i]) = Far(1, w[k])
      PROVE  FALSE
  <2> DEFINE a == w[i]
             b == w[j]
             c == w[k]
             C == {q \in P : q[1] = a[1]}
  <2>1. Far(1, a) = Far(1, b) /\ Far(1, b) = Far(1, c)
    BY <1>4, <1>5, <1>6
  <2>2. a \in P /\ b \in P /\ c \in P /\ b[1] = a[1] /\ c[1] = a[1]
    BY <1>1, <1>4, <2>1
  <2>3. a # b /\ b # c /\ a # c
    BY <1>5, <1>6
  <2> HIDE DEF a, b, c
  <2>4. IsFiniteSet(C) /\ Cardinality(C) \in Nat /\ ~(Cardinality(C) > 2)
    <3>1. IsFiniteSet(C)
      BY FS_Subset
    <3> QED
      BY <2>2, <3>1, FS_CardinalityType
  <2>5. {a, b, c} \subseteq C
    BY <2>2
  <2> HIDE DEF C
  <2>6. IsFiniteSet({a}) /\ Cardinality({a}) = 1
    BY FS_Singleton
  <2>7. IsFiniteSet({a} \cup {b}) /\ Cardinality({a} \cup {b}) = 2
    <3>1. b \notin {a}
      BY <2>3
    <3>2. IsFiniteSet({a} \cup {b}) /\ Cardinality({a} \cup {b}) = Cardinality({a}) + 1
      BY <2>6, <3>1, FS_AddElement
    <3> QED
      BY <2>6, <3>2
  <2>8. Cardinality(({a} \cup {b}) \cup {c}) = 3
    <3>1. c \notin {a} \cup {b}
      BY <2>3
    <3>2. Cardinality(({a} \cup {b}) \cup {c}) = Cardinality({a} \cup {b}) + 1
      BY <2>7, <3>1, FS_AddElement
    <3> QED
      BY <2>7, <3>2
  <2>9. {a, b, c} = ({a} \cup {b}) \cup {c}
    OBVIOUS
  <2>10. Cardinality({a, b, c}) <= Cardinality(C)
    BY <2>4, <2>5, FS_Subset
  <2> QED
    BY <2>4, <2>8, <2>9, <2>10
<1>7. 1 \in Sides
  BY DEF Sides
<1>8. Sweep(1, w)
  <2> HIDE DEF n
  <2> QED
    BY <1>2, <1>5, <1>6, <1>7 DEF Sweep
<1> QED
  BY <1>2, <1>3, <1>8

(* convexHull, closed, is the hull of points no three of which share their *)
(* latitude, whatever order sort.Slice leaves those of one latitude in.    *)
THEOREM SortedHullIsHull ==
  ASSUME NEW P, P \subseteq Int \X Int, IsFiniteSet(P), Cardinality(P) >= 2, NEW w \in SortedAs(P),
         \A a \in P : ~(Cardinality({b \in P : b[1] = a[1]}) > 2), NEW p \in Int \X Int
  PROVE  RingContains(Append(HullOf(w), HullOf(w)[1]), p) <=> HullContains(P, p)
<1>1. P \subseteq Point /\ p \in Point
  BY DEF Point
<1>2. Sweep(1, w) /\ ToSet(w) = P /\ Len(w) >= 2
  BY <1>1, SortedSweeps
<1> QED
  BY <1>1, <1>2, HullRing

-----------------------------------------------------------------------------
(* One point before another, seen from a side: by the latitude, then by    *)
(* the longitude.                                                          *)
Climbs(s, a, b) == Far(s, a) < Far(s, b) \/ (Far(s, a) = Far(s, b) /\ Off(s, a) < Off(s, b))

LEMMA ClimbsOnce ==
  ASSUME NEW s \in Sides, NEW a \in Point, NEW b \in Point
  PROVE  /\ a # b => Climbs(s, a, b) \/ Climbs(s, b, a)
         /\ Climbs(s, a, b) => a # b /\ ~Climbs(s, b, a)
         /\ 0 - s \in Sides /\ (Climbs(0 - s, a, b) <=> Climbs(s, b, a))
<1>1. /\ Far(s, a) \in Int /\ Far(s, b) \in Int /\ Off(s, a) \in Int /\ Off(s, b) \in Int
      /\ Far(s, a) = Far(s, b) /\ Off(s, a) = Off(s, b) => a = b
  BY SweepCoordinates
<1>2. /\ 0 - s \in Sides /\ Far(0 - s, a) = 0 - Far(s, a) /\ Far(0 - s, b) = 0 - Far(s, b)
      /\ Off(0 - s, a) = 0 - Off(s, a) /\ Off(0 - s, b) = 0 - Off(s, b)
  BY Coordinates DEF Sides, Far, Off
<1>3. Climbs(0 - s, a, b) <=> Climbs(s, b, a)
  BY <1>1, <1>2 DEF Climbs
<1>4. a # b => Climbs(s, a, b) \/ Climbs(s, b, a)
  BY <1>1 DEF Climbs
<1>5. Climbs(s, a, b) => a # b /\ ~Climbs(s, b, a)
  BY <1>1 DEF Climbs
<1> QED
  BY <1>2, <1>3, <1>4, <1>5

(* What is on the left of a climb, ahead of its end and behind it, makes   *)
(* no right turn there.                                                    *)
LEMMA Wedge ==
  ASSUME NEW e \in Point, NEW u \in Point, NEW v \in Point,
         e[1] > 0 \/ (e[1] = 0 /\ e[2] > 0), u[1] > 0 \/ (u[1] = 0 /\ u[2] >= 0), v[1] <= 0,
         e[1] * u[2] - e[2] * u[1] >= 0, e[1] * v[2] - e[2] * v[1] >= 0
  PROVE  u[1] * v[2] - u[2] * v[1] >= 0
<1> DEFINE e1 == e[1]
           e2 == e[2]
           u1 == u[1]
           u2 == u[2]
           v1 == v[1]
           v2 == v[2]
           x == e1 * u2 - e2 * u1
           y == e1 * v2 - e2 * v1
           z == u1 * v2 - u2 * v1
<1>5. /\ e1 \in Int /\ e2 \in Int /\ u1 \in Int /\ u2 \in Int /\ v1 \in Int /\ v2 \in Int
      /\ e1 > 0 \/ (e1 = 0 /\ e2 > 0)
      /\ u1 > 0 \/ (u1 = 0 /\ u2 >= 0)
      /\ v1 <= 0 /\ x >= 0 /\ y >= 0
  BY Coordinates
<1>6. SUFFICES z >= 0
  OBVIOUS
<1> HIDE DEF e1, e2, u1, u2, v1, v2
<1>1. x \in Int /\ y \in Int /\ z \in Int /\ x >= 0 /\ y >= 0
  BY <1>5
<1>2. CASE e1 > 0
  <2>1. e1 * z = u1 * y - v1 * x
    BY <1>5
  <2> HIDE DEF x, y, z
  <2>2. u1 * y >= 0 /\ v1 * x <= 0 /\ u1 * y \in Int /\ v1 * x \in Int
    BY <1>1, <1>5, Products
  <2>3. e1 * z >= 0
    BY <2>1, <2>2
  <2>4. z >= 0
    BY <1>1, <1>2, <1>5, <2>3, Products
  <2> QED
    BY <2>4 DEF z
<1>3. CASE e1 = 0
  <2>1. x = 0 - e2 * u1 /\ e2 > 0
    BY <1>3, <1>5
  <2>2. u1 = 0
    <3> HIDE DEF x
    <3> QED
      BY <1>1, <1>5, <2>1, Products
  <2>3. z = 0 - u2 * v1
    BY <1>5, <2>2
  <2>4. u2 * v1 <= 0 /\ u2 * v1 \in Int
    BY <1>5, <2>2, Products
  <2> QED
    BY <2>3, <2>4
<1> QED
  BY <1>2, <1>3, <1>5

(* From the start of a climb, and from its end.                            *)
LEMMA WedgeOfStart ==
  ASSUME NEW s \in Sides, NEW a \in Point, NEW b \in Point, NEW x \in Point, NEW y \in Point,
         Climbs(s, a, b), Climbs(s, a, x), Climbs(s, y, a), Cross(a, b, x) >= 0, Cross(a, b, y) >= 0
  PROVE  Cross(a, x, y) >= 0
<1> DEFINE e1 == Far(s, b) - Far(s, a)
           e2 == Off(s, b) - Off(s, a)
           u1 == Far(s, x) - Far(s, a)
           u2 == Off(s, x) - Off(s, a)
           v1 == Far(s, y) - Far(s, a)
           v2 == Off(s, y) - Off(s, a)
<1>1. \A p \in Point : Far(s, p) \in Int /\ Off(s, p) \in Int
  BY SweepCoordinates
<1>2. /\ e1 \in Int /\ e2 \in Int /\ u1 \in Int /\ u2 \in Int /\ v1 \in Int /\ v2 \in Int
      /\ e1 > 0 \/ (e1 = 0 /\ e2 > 0)
      /\ u1 > 0 \/ (u1 = 0 /\ u2 >= 0)
      /\ v1 <= 0
  BY <1>1 DEF Climbs
<1>3. /\ Cross(a, b, x) = e1 * u2 - e2 * u1
      /\ Cross(a, b, y) = e1 * v2 - e2 * v1
      /\ Cross(a, x, y) = u1 * v2 - u2 * v1
  BY SweepCoordinates
<1> HIDE DEF e1, e2, u1, u2, v1, v2
<1>4. u1 * v2 - u2 * v1 >= 0
  <2>1. e1 * u2 - e2 * u1 >= 0 /\ e1 * v2 - e2 * v1 >= 0
    BY <1>3
  <2> DEFINE e == <<e1, e2>>
             u == <<u1, u2>>
             v == <<v1, v2>>
  <2>2. /\ e \in Point /\ u \in Point /\ v \in Point
        /\ e[1] = e1 /\ e[2] = e2 /\ u[1] = u1 /\ u[2] = u2 /\ v[1] = v1 /\ v[2] = v2
    BY <1>2 DEF Point
  <2> HIDE DEF e, u, v
  <2>3. u[1] * v[2] - u[2] * v[1] >= 0
    BY <1>2, <2>1, <2>2, Wedge
  <2> QED
    BY <2>2, <2>3
<1> QED
  BY <1>3, <1>4

LEMMA WedgeOfEnd ==
  ASSUME NEW s \in Sides, NEW a \in Point, NEW b \in Point, NEW x \in Point, NEW y \in Point,
         Climbs(s, a, b), ~Climbs(s, x, b), Climbs(s, y, b), Cross(a, b, x) >= 0, Cross(a, b, y) >= 0
  PROVE  Cross(b, x, y) >= 0
<1> DEFINE e1 == Far(s, b) - Far(s, a)
           e2 == Off(s, b) - Off(s, a)
           u1 == Far(s, x) - Far(s, b)
           u2 == Off(s, x) - Off(s, b)
           v1 == Far(s, y) - Far(s, b)
           v2 == Off(s, y) - Off(s, b)
<1>1. \A p \in Point : Far(s, p) \in Int /\ Off(s, p) \in Int
  BY SweepCoordinates
<1>2. /\ e1 \in Int /\ e2 \in Int /\ u1 \in Int /\ u2 \in Int /\ v1 \in Int /\ v2 \in Int
      /\ e1 > 0 \/ (e1 = 0 /\ e2 > 0)
      /\ u1 > 0 \/ (u1 = 0 /\ u2 >= 0)
      /\ v1 <= 0
  <2>1. /\ Far(s, a) \in Int /\ Far(s, b) \in Int /\ Far(s, x) \in Int /\ Far(s, y) \in Int
        /\ Off(s, a) \in Int /\ Off(s, b) \in Int /\ Off(s, x) \in Int /\ Off(s, y) \in Int
    BY <1>1
  <2> QED
    BY <2>1 DEF Climbs
<1>3. /\ Cross(a, b, x) = Cross(b, x, a) /\ Cross(a, b, y) = Cross(b, y, a)
  BY CrossTurns
<1>4. /\ Cross(b, x, a) = (Far(s, x) - Far(s, b)) * (Off(s, a) - Off(s, b))
                          - (Off(s, x) - Off(s, b)) * (Far(s, a) - Far(s, b))
      /\ Cross(b, y, a) = (Far(s, y) - Far(s, b)) * (Off(s, a) - Off(s, b))
                          - (Off(s, y) - Off(s, b)) * (Far(s, a) - Far(s, b))
      /\ Cross(b, x, y) = u1 * v2 - u2 * v1
  BY SweepCoordinates
<1>5. Cross(a, b, x) = e1 * u2 - e2 * u1 /\ Cross(a, b, y) = e1 * v2 - e2 * v1
  BY <1>1, <1>3, <1>4
<1> HIDE DEF e1, e2, u1, u2, v1, v2
<1>6. u1 * v2 - u2 * v1 >= 0
  <2>1. e1 * u2 - e2 * u1 >= 0 /\ e1 * v2 - e2 * v1 >= 0
    BY <1>5
  <2> DEFINE e == <<e1, e2>>
             u == <<u1, u2>>
             v == <<v1, v2>>
  <2>2. /\ e \in Point /\ u \in Point /\ v \in Point
        /\ e[1] = e1 /\ e[2] = e2 /\ u[1] = u1 /\ u[2] = u2 /\ v[1] = v1 /\ v[2] = v2
    BY <1>2 DEF Point
  <2> HIDE DEF e, u, v
  <2>3. u[1] * v[2] - u[2] * v[1] >= 0
    BY <1>2, <2>1, <2>2, Wedge
  <2> QED
    BY <2>2, <2>3
<1> QED
  BY <1>4, <1>6

(* Two points of a chain have on their left a point that is not between    *)
(* them, and one that begins an edge the other way.                        *)
LEMMA ChordOfChain ==
  ASSUME NEW s \in Sides, NEW P, P \subseteq Point, NEW u \in Seq(Point),
         NEW lo \in Nat, NEW hi \in Nat, lo .. hi \subseteq DOMAIN u,
         \A k \in lo .. hi : u[k] \in P,
         \A k, l \in lo .. hi : k < l => Climbs(s, u[k], u[l]),
         \A k \in lo .. hi - 1 : \A p \in P : Cross(u[k], u[k + 1], p) >= 0,
         NEW i \in lo .. hi, NEW j \in lo .. hi, i < j, NEW q \in P,
         \/ ~Climbs(s, u[i], q)
         \/ ~Climbs(s, q, u[j])
         \/ \E d \in P : Climbs(s, d, q) /\ \A p \in P : Cross(q, d, p) >= 0
  PROVE  Cross(u[i], u[j], q) >= 0
<1> DEFINE a == u[i]
           b == u[j]
<1>1. a \in P /\ b \in P /\ q \in P /\ a \in Point /\ b \in Point /\ q \in Point /\ Climbs(s, a, b)
  OBVIOUS
<1>2. CASE a = q \/ q = b
  BY <1>1, <1>2, CrossTurns
<1>3. CASE a # q /\ Climbs(s, q, a)
  <2>1. i + 1 \in lo .. hi /\ i \in lo .. hi - 1 /\ i < i + 1
    OBVIOUS
  <2>2. u[i + 1] \in P /\ Climbs(s, a, u[i + 1]) /\ \A p \in P : Cross(a, u[i + 1], p) >= 0
    BY <2>1
  <2> QED
    BY <1>1, <1>3, <2>2, WedgeOfStart
<1>4. CASE q # b /\ ~Climbs(s, q, b)
  <2>1. j - 1 \in lo .. hi /\ j - 1 \in lo .. hi - 1 /\ j - 1 < j /\ (j - 1) + 1 = j
    OBVIOUS
  <2>2. u[j - 1] \in P /\ Climbs(s, u[j - 1], b) /\ \A p \in P : Cross(u[j - 1], b, p) >= 0
    BY <2>1
  <2>3. Cross(b, q, a) >= 0
    BY <1>1, <1>4, <2>2, WedgeOfEnd
  <2> QED
    BY <1>1, <2>3, CrossTurns
<1>5. CASE Climbs(s, a, q) /\ Climbs(s, q, b)
  <2>1. PICK d \in P : Climbs(s, d, q) /\ \A p \in P : Cross(q, d, p) >= 0
    BY <1>5
  <2> DEFINE t == 0 - s
  <2>2. t \in Sides /\ Climbs(t, q, d) /\ Climbs(t, q, a) /\ Climbs(t, b, q)
    BY <1>1, <1>5, <2>1, ClimbsOnce
  <2>3. Cross(q, d, a) >= 0 /\ Cross(q, d, b) >= 0 /\ d \in Point
    BY <1>1, <2>1
  <2> HIDE DEF t
  <2>4. Cross(q, a, b) >= 0
    BY <1>1, <2>2, <2>3, WedgeOfStart
  <2> QED
    BY <1>1, <2>4, CrossTurns
<1>6. a # q => Climbs(s, a, q) \/ Climbs(s, q, a)
  BY <1>1, ClimbsOnce
<1> QED
  BY <1>2, <1>3, <1>4, <1>5, <1>6

(* Points from the first on: a sweep in which no two are abreast.          *)
Rising(w) == w \in Seq(Point) /\ \A i, j \in DOMAIN w : i < j => Climbs(1, w[i], w[j])

LEMMA RisingSweeps ==
  ASSUME NEW w, Rising(w)
  PROVE  Sweep(1, w)
<1>1. 1 \in Sides /\ w \in Seq(Point) /\ \A i \in DOMAIN w : w[i] \in Point
  BY DEF Sides, Rising
<1>2. ASSUME NEW i \in DOMAIN w, NEW j \in DOMAIN w, i < j
      PROVE  /\ w[i] # w[j] /\ Far(1, w[i]) <= Far(1, w[j])
             /\ Far(1, w[i]) = Far(1, w[j]) => Off(1, w[i]) < Off(1, w[j])
  <2>1. Climbs(1, w[i], w[j])
    BY <1>2 DEF Rising
  <2>2. w[i] # w[j]
    BY <1>1, <2>1, ClimbsOnce
  <2>3. Far(1, w[i]) \in Int /\ Far(1, w[j]) \in Int
    BY <1>1, SweepCoordinates
  <2> QED
    BY <2>1, <2>2, <2>3 DEF Climbs
<1>3. ASSUME NEW i \in DOMAIN w, NEW j \in DOMAIN w, NEW k \in DOMAIN w, i < j, j < k,
             Far(1, w[i]) = Far(1, w[k])
      PROVE  Off(1, w[i]) < Off(1, w[j]) /\ Off(1, w[j]) < Off(1, w[k])
  <2>1. Far(1, w[i]) \in Int /\ Far(1, w[j]) \in Int /\ Far(1, w[k]) \in Int
    BY <1>1, SweepCoordinates
  <2>2. Far(1, w[i]) <= Far(1, w[j]) /\ Far(1, w[j]) <= Far(1, w[k])
    BY <1>2, <1>3
  <2>3. Far(1, w[i]) = Far(1, w[j]) /\ Far(1, w[j]) = Far(1, w[k])
    BY <1>3, <2>1, <2>2
  <2> QED
    BY <1>2, <1>3, <2>3
<1> QED
  BY <1>1, <1>2, <1>3 DEF Sweep

(* The way around points that are not all one: it climbs to the last of    *)
(* them, and back.                                                         *)
Corners(P, u, b) ==
  /\ Around(P, u, b)
  /\ \A i, j \in 1 .. b : i < j => Climbs(1, u[i], u[j])
  /\ \A i, j \in b .. Len(u) : i < j => Climbs(0 - 1, u[i], u[j])
  /\ \A q \in P : /\ q = u[1] \/ Climbs(1, u[1], q)
                  /\ q = u[b] \/ Climbs(0 - 1, u[b], q)

LEMMA HullCorners ==
  ASSUME NEW w, Rising(w), Len(w) >= 2
  PROVE  \E u, b : Corners(ToSet(w), u, b) /\ HullOf(w) = Front(u) /\ u[1] = w[1]
<1> DEFINE n == Len(w)
           P == ToSet(w)
<1>1. PICK u, b : /\ Around(P, u, b) /\ HullOf(w) = Front(u) /\ u[1] = w[1] /\ u[b] = w[n]
                  /\ \A i, j \in 1 .. b :
                       i < j => \E d, e \in DOMAIN w : d < e /\ u[i] = w[d] /\ u[j] = w[e]
                  /\ \A i, j \in b .. Len(u) :
                       i < j => \E d, e \in DOMAIN w : d < e /\ u[j] = w[d] /\ u[i] = w[e]
  BY RisingSweeps, HullAround
<1>2. /\ DOMAIN w = 1 .. n /\ n \in Nat /\ P = {w[i] : i \in 1 .. n}
      /\ \A i \in DOMAIN w : w[i] \in Point
      /\ \A i, j \in DOMAIN w : i < j => Climbs(1, w[i], w[j])
  BY DEF Rising, ToSet
<1>3. ASSUME NEW i \in DOMAIN w, NEW j \in DOMAIN w, i < j
      PROVE  Climbs(1, w[i], w[j]) /\ Climbs(0 - 1, w[j], w[i])
  <2>1. 1 \in Sides /\ w[i] \in Point /\ w[j] \in Point /\ Climbs(1, w[i], w[j])
    BY <1>2, <1>3 DEF Sides
  <2> QED
    BY <2>1, ClimbsOnce
<1>4. \A i, j \in 1 .. b : i < j => Climbs(1, u[i], u[j])
  BY <1>1, <1>3
<1>5. \A i, j \in b .. Len(u) : i < j => Climbs(0 - 1, u[i], u[j])
  BY <1>1, <1>3
<1>6. ASSUME NEW q \in P
      PROVE  /\ q = u[1] \/ Climbs(1, u[1], q)
             /\ q = u[b] \/ Climbs(0 - 1, u[b], q)
  <2>1. PICK k \in DOMAIN w : q = w[k]
    BY <1>2
  <2>2. 1 \in DOMAIN w /\ n \in DOMAIN w /\ (k = 1 \/ 1 < k) /\ (k = n \/ k < n)
    BY <1>2
  <2> QED
    BY <1>1, <1>3, <2>1, <2>2
<1> QED
  BY <1>1, <1>4, <1>5, <1>6 DEF Corners

LEMMA CornersAre ==
  ASSUME NEW P, P \subseteq Point, NEW u, NEW b, Corners(P, u, b)
  PROVE  /\ u \in Seq(Point) /\ Len(u) \in Nat /\ DOMAIN u = 1 .. Len(u)
         /\ Len(u) >= 3 /\ b \in 2 .. Len(u) - 1 /\ b \in Nat /\ u[Len(u)] = u[1]
         /\ \A i \in 1 .. Len(u) : u[i] \in P /\ u[i] \in Point
         /\ \A i \in 1 .. Len(u) - 1 : \A q \in P : Cross(u[i], u[i + 1], q) >= 0
         /\ \A i \in 2 .. Len(u) - 1 : i # b => Cross(u[i - 1], u[i], u[i + 1]) > 0
<1>1. u \in Seq(Point) /\ Len(u) >= 3 /\ b \in 2 .. Len(u) - 1
  BY DEF Corners, Around
<1>2. Len(u) \in Nat
  BY <1>1
<1> QED
  BY <1>1, <1>2 DEF Corners, Around

(* A chord of one of the two chains has the corners of the other on its    *)
(* left, so that the way around turns left all the way.                    *)
LEMMA CornersTurnLeft ==
  ASSUME NEW P, P \subseteq Point, NEW u, NEW b, Corners(P, u, b)
  PROVE  TurnsLeft(u)
<1> DEFINE m == Len(u)
<1>1. /\ u \in Seq(Point) /\ m \in Nat /\ DOMAIN u = 1 .. m
      /\ m >= 3 /\ b \in 2 .. m - 1 /\ b \in Nat /\ u[m] = u[1]
      /\ \A i \in 1 .. m : u[i] \in P /\ u[i] \in Point
      /\ \A i \in 1 .. m - 1 : \A q \in P : Cross(u[i], u[i + 1], q) >= 0
  BY CornersAre
<1>2. /\ \A i, j \in 1 .. b : i < j => Climbs(1, u[i], u[j])
      /\ \A i, j \in b .. m : i < j => Climbs(0 - 1, u[i], u[j])
  BY DEF Corners
<1>3. 1 \in Sides /\ 0 - 1 \in Sides
  BY DEF Sides
<1> HIDE DEF m
<1>4. ASSUME NEW i \in 1 .. m, NEW j \in 1 .. m, NEW k \in 1 .. m, i < j, j < k
      PROVE  Cross(u[i], u[j], u[k]) >= 0
  <2>1. u[i] \in Point /\ u[j] \in Point /\ u[k] \in Point /\ u[i] \in P /\ u[k] \in P
    BY <1>1
  <2>2. CASE j <= b
    <3>1. i \in 1 .. b /\ j \in 1 .. b /\ 1 \in 1 .. b /\ 1 .. b \subseteq DOMAIN u /\ 1 \in Nat
      BY <1>1, <1>4, <2>2
    <3>2. /\ \A x \in 1 .. b : u[x] \in P
          /\ \A x \in 1 .. b - 1 : \A p \in P : Cross(u[x], u[x + 1], p) >= 0
      BY <1>1
    <3>3. \/ ~Climbs(1, u[i], u[k])
          \/ ~Climbs(1, u[k], u[j])
          \/ \E d \in P : Climbs(1, d, u[k]) /\ \A p \in P : Cross(u[k], d, p) >= 0
      <4>1. CASE k <= b
        <5>1. k \in 1 .. b
          BY <1>1, <4>1
        <5>2. Climbs(1, u[j], u[k])
          BY <1>2, <1>4, <3>1, <5>1
        <5> QED
          BY <1>3, <2>1, <5>2, ClimbsOnce
      <4>2. CASE k > b /\ k # m
        <5>1. k \in b .. m /\ k + 1 \in b .. m /\ k < k + 1 /\ k \in 1 .. m - 1 /\ k + 1 \in 1 .. m
          BY <1>1, <4>2
        <5>2. u[k + 1] \in P /\ u[k + 1] \in Point /\ Climbs(0 - 1, u[k], u[k + 1])
              /\ \A p \in P : Cross(u[k], u[k + 1], p) >= 0
          BY <1>1, <1>2, <5>1
        <5>3. Climbs(1, u[k + 1], u[k])
          BY <1>3, <2>1, <5>2, ClimbsOnce
        <5> QED
          BY <5>2, <5>3
      <4>3. CASE k = m
        <5>1. u[k] = u[1] /\ (i = 1 \/ 1 < i)
          BY <1>1, <3>1, <4>3
        <5>2. i = 1 \/ Climbs(1, u[1], u[i])
          BY <1>2, <3>1, <5>1
        <5> QED
          BY <1>3, <2>1, <5>1, <5>2, ClimbsOnce
      <4> QED
        BY <1>1, <4>1, <4>2, <4>3
    <3> QED
      BY <1>1, <1>2, <1>3, <1>4, <2>1, <3>1, <3>2, <3>3, ChordOfChain
  <2>3. CASE j > b
    <3>1. j \in b .. m /\ k \in b .. m /\ b .. m \subseteq DOMAIN u
      BY <1>1, <1>4, <2>3
    <3>2. /\ \A x \in b .. m : u[x] \in P
          /\ \A x \in b .. m - 1 : \A p \in P : Cross(u[x], u[x + 1], p) >= 0
      BY <1>1
    <3>3. \/ ~Climbs(0 - 1, u[j], u[i])
          \/ ~Climbs(0 - 1, u[i], u[k])
          \/ \E d \in P : Climbs(0 - 1, d, u[i]) /\ \A p \in P : Cross(u[i], d, p) >= 0
      <4>1. CASE i >= b
        <5>1. i \in b .. m
          BY <1>1, <4>1
        <5>2. Climbs(0 - 1, u[i], u[j])
          BY <1>2, <1>4, <3>1, <5>1
        <5> QED
          BY <1>3, <2>1, <5>2, ClimbsOnce
      <4>2. CASE i < b
        <5>1. i \in 1 .. b /\ i + 1 \in 1 .. b /\ i < i + 1 /\ i \in 1 .. m - 1 /\ i + 1 \in 1 .. m
          BY <1>1, <4>2
        <5>2. u[i + 1] \in P /\ u[i + 1] \in Point /\ Climbs(1, u[i], u[i + 1])
              /\ \A p \in P : Cross(u[i], u[i + 1], p) >= 0
          BY <1>1, <1>2, <5>1
        <5>3. Climbs(0 - 1, u[i + 1], u[i])
          BY <1>3, <2>1, <5>2, ClimbsOnce
        <5> QED
          BY <5>2, <5>3
      <4> QED
        BY <1>1, <4>1, <4>2
    <3>4. Cross(u[j], u[k], u[i]) >= 0
      BY <1>1, <1>2, <1>3, <1>4, <2>1, <3>1, <3>2, <3>3, ChordOfChain
    <3> QED
      BY <2>1, <3>4, CrossTurns
  <2> QED
    BY <1>1, <2>2, <2>3
<1> QED
  BY <1>1, <1>4 DEF TurnsLeft

(* No corner is met twice on the way around.                               *)
LEMMA CornersOnce ==
  ASSUME NEW P, P \subseteq Point, NEW u, NEW b, Corners(P, u, b),
         NEW i \in 1 .. Len(u) - 1, NEW j \in 1 .. Len(u) - 1, i < j
  PROVE  u[i] # u[j]
<1> DEFINE m == Len(u)
<1>1. /\ u \in Seq(Point) /\ m \in Nat /\ DOMAIN u = 1 .. m
      /\ m >= 3 /\ b \in 2 .. m - 1 /\ b \in Nat /\ u[m] = u[1]
      /\ \A k \in 1 .. m : u[k] \in P /\ u[k] \in Point
      /\ \A k \in 1 .. m - 1 : \A q \in P : Cross(u[k], u[k + 1], q) >= 0
      /\ \A k \in 2 .. m - 1 : k # b => Cross(u[k - 1], u[k], u[k + 1]) > 0
  BY CornersAre
<1>2. /\ \A k, l \in 1 .. b : k < l => Climbs(1, u[k], u[l])
      /\ \A k, l \in b .. m : k < l => Climbs(0 - 1, u[k], u[l])
  BY DEF Corners
<1>3. 1 \in Sides /\ 0 - 1 \in Sides
  BY DEF Sides
<1>4. SUFFICES ASSUME u[i] = u[j] PROVE FALSE
  OBVIOUS
<1>5. i \in 1 .. m - 1 /\ j \in 1 .. m - 1 /\ i \in 1 .. m /\ j \in 1 .. m
  BY <1>1
<1> HIDE DEF m
<1>6. CASE j <= b
  <2>1. i \in 1 .. b /\ j \in 1 .. b
    BY <1>1, <1>5, <1>6
  <2> QED
    BY <1>1, <1>2, <1>3, <1>4, <1>5, <2>1, ClimbsOnce
<1>7. CASE i >= b
  <2>1. i \in b .. m /\ j \in b .. m
    BY <1>1, <1>5, <1>7
  <2> QED
    BY <1>1, <1>2, <1>3, <1>4, <1>5, <2>1, ClimbsOnce
<1>8. CASE i < b /\ b < j
  <2>1. i # 1
    <3>1. j \in b .. m /\ m \in b .. m /\ j < m
      BY <1>1, <1>5, <1>8
    <3>2. Climbs(0 - 1, u[j], u[m])
      BY <1>2, <3>1
    <3>3. u[j] # u[m]
      BY <1>1, <1>3, <1>5, <3>1, <3>2, ClimbsOnce
    <3> QED
      BY <1>1, <1>4, <3>3
  <2>2. /\ i - 1 \in 1 .. b /\ i \in 1 .. b /\ i + 1 \in 1 .. b /\ i - 1 < i /\ i < i + 1 /\ i - 1 < i + 1
        /\ i \in 2 .. m - 1 /\ i # b /\ i - 1 \in 1 .. m /\ i + 1 \in 1 .. m
    BY <1>1, <1>5, <1>8, <2>1
  <2>3. /\ j \in b .. m /\ j + 1 \in b .. m /\ j < j + 1 /\ j + 1 \in 1 .. m
        /\ 1 .. b \subseteq DOMAIN u /\ 1 \in Nat
    BY <1>1, <1>5, <1>8
  <2>4. Cross(u[i - 1], u[i], u[i + 1]) > 0
    BY <1>1, <2>2
  <2>5. /\ u[j + 1] \in P /\ u[j + 1] \in Point /\ Climbs(0 - 1, u[j], u[j + 1])
        /\ \A p \in P : Cross(u[j], u[j + 1], p) >= 0
    BY <1>1, <1>2, <1>5, <2>3
  <2>6. Climbs(1, u[j + 1], u[j]) /\ u[j] \in P
    BY <1>1, <1>3, <1>5, <2>5, ClimbsOnce
  <2>7. /\ \A x \in 1 .. b : u[x] \in P
        /\ \A x \in 1 .. b - 1 : \A p \in P : Cross(u[x], u[x + 1], p) >= 0
    BY <1>1
  <2>8. Cross(u[i - 1], u[i + 1], u[j]) >= 0
    <3>1. \E d \in P : Climbs(1, d, u[j]) /\ \A p \in P : Cross(u[j], d, p) >= 0
      BY <2>5, <2>6
    <3> DEFINE x == i - 1
               y == i + 1
               q == u[j]
    <3>2. x \in 1 .. b /\ y \in 1 .. b /\ x < y /\ q \in P
      BY <2>2, <2>6
    <3> HIDE DEF x, y, q
    <3>3. Cross(u[x], u[y], q) >= 0
      BY <1>1, <1>2, <1>3, <2>3, <2>7, <3>1, <3>2, ChordOfChain DEF q
    <3> QED
      BY <3>3 DEF x, y, q
  <2>9. /\ Cross(u[i - 1], u[i], u[i + 1]) = Cross(u[i + 1], u[i - 1], u[i])
        /\ Cross(u[i + 1], u[i - 1], u[i]) = 0 - Cross(u[i - 1], u[i + 1], u[i])
        /\ Cross(u[i - 1], u[i + 1], u[i]) \in Int
    <3>1. u[i - 1] \in Point /\ u[i] \in Point /\ u[i + 1] \in Point
      BY <1>1, <1>5, <2>2
    <3> QED
      BY <3>1, CrossTurns, CrossType
  <2> QED
    BY <1>4, <2>4, <2>8, <2>9
<1> QED
  BY <1>1, <1>5, <1>6, <1>7, <1>8

(* The first point, and a corner between two others, are outside of the    *)
(* hull of the other points.                                               *)
LEMMA FirstOutside ==
  ASSUME NEW s \in Sides, NEW P, P \subseteq Point, NEW p \in Point, \A q \in P : Climbs(s, p, q)
  PROVE  ~HullContains(P, p)
<1>1. SUFFICES ASSUME NEW a \in P, NEW b \in P, NEW c \in P, InTriangle(a, b, c, p) PROVE FALSE
  BY DEF HullContains
<1>2. \A q \in Point : Far(s, q) \in Int /\ Off(s, q) \in Int
  BY SweepCoordinates
<1>3. PICK M \in Nat : \A q \in {a, b, c} : Off(s, p) - Off(s, q) < M
  <2> DEFINE f(q) == IF Off(s, p) >= Off(s, q) THEN Off(s, p) - Off(s, q) ELSE 0
  <2>1. \A q \in {a, b, c} : f(q) \in Nat /\ Off(s, p) - Off(s, q) <= f(q) /\ q \in Point
    BY <1>2
  <2>2. f(a) \in Nat /\ f(b) \in Nat /\ f(c) \in Nat
    BY <2>1
  <2> DEFINE M == f(a) + f(b) + f(c) + 1
  <2>3. M \in Nat
    BY <2>2
  <2>4. \A q \in {a, b, c} : Off(s, p) - Off(s, q) \in Int /\ f(q) < M
    <3>1. \A q \in {a, b, c} : Off(s, p) - Off(s, q) \in Int
      BY <1>2, <2>1
    <3>2. f(a) < M /\ f(b) < M /\ f(c) < M
      <4> HIDE DEF f
      <4> QED
        BY <2>2
    <3> QED
      BY <3>1, <3>2
  <2>5. \A q \in {a, b, c} : Off(s, p) - Off(s, q) < M
    <3> SUFFICES ASSUME NEW q \in {a, b, c} PROVE Off(s, p) - Off(s, q) < M
      OBVIOUS
    <3>1. Off(s, p) - Off(s, q) \in Int /\ Off(s, p) - Off(s, q) <= f(q) /\ f(q) < M /\ f(q) \in Nat
      BY <2>1, <2>4
    <3> HIDE DEF f, M
    <3> QED
      BY <2>3, <3>1
  <2> HIDE DEF M
  <2> QED
    BY <2>3, <2>5
<1>4. M * s \in Int /\ s \in Int
  BY DEF Sides
<1>5. \A q \in Point : Level(M * s, s, 0, q) = M * Far(s, q) + Off(s, q)
  BY <1>4, Coordinates DEF Sides, Level, Far, Off
<1>6. \A q \in {a, b, c} : Level(M * s, s, 0, p) < Level(M * s, s, 0, q)
  <2> SUFFICES ASSUME NEW q \in {a, b, c} PROVE Level(M * s, s, 0, p) < Level(M * s, s, 0, q)
    OBVIOUS
  <2>1. q \in Point /\ Climbs(s, p, q) /\ Off(s, p) - Off(s, q) < M
    BY <1>3
  <2> DEFINE x == Far(s, p)
             y == Off(s, p)
             v == Far(s, q)
             w == Off(s, q)
  <2>2. /\ x \in Int /\ y \in Int /\ v \in Int /\ w \in Int /\ y - w < M /\ M \in Int /\ M >= 0
        /\ x < v \/ (x = v /\ y < w)
    BY <1>2, <1>3, <2>1 DEF Climbs
  <2> HIDE DEF x, y, v, w
  <2>3. M * x + y < M * v + w
    <3>1. CASE x < v
      <4>1. v - x - 1 >= 0 /\ v - x - 1 \in Int /\ M >= 0 /\ M \in Int
        BY <2>2, <3>1
      <4>2. M * (v - x - 1) >= 0
        BY <4>1, Products
      <4>3. M * (v - x - 1) = M * v - M * x - M /\ M * v \in Int /\ M * x \in Int
        BY <2>2
      <4> QED
        BY <2>2, <4>2, <4>3
    <3>2. CASE x = v /\ y < w
      <4>1. M * x \in Int /\ M * v = M * x
        BY <2>2, <3>2
      <4> QED
        BY <2>2, <3>2, <4>1
    <3> QED
      BY <2>2, <3>1, <3>2
  <2> QED
    BY <1>5, <2>1, <2>3 DEF x, y, v, w
<1>7. {a, b, c} \subseteq Point /\ 0 \in Int
  OBVIOUS
<1>8. ~HullContains({a, b, c}, p)
  BY <1>4, <1>6, <1>7, Lowest
<1> QED
  BY <1>1, <1>8 DEF HullContains

LEMMA TurnOutside ==
  ASSUME NEW P, P \subseteq Point, NEW a \in Point, NEW p \in Point, NEW c \in Point, Cross(a, p, c) > 0,
         \A q \in P : Cross(a, p, q) >= 0 /\ Cross(p, c, q) >= 0
  PROVE  ~HullContains(P \ {p}, p)
<1> DEFINE A == a[2] - c[2]
           B == c[1] - a[1]
<1>1. A \in Int /\ B \in Int /\ 0 \in Int
  BY Coordinates
<1>2. \A q \in Point : Cross(a, p, q) + Cross(p, c, q) = Level(A, B, 0, q) - Level(A, B, 0, p)
  BY Coordinates DEF Cross, Level
<1>3. \A q \in Point : Level(A, B, 0, q) \in Int
  BY <1>1, Coordinates DEF Level
<1> HIDE DEF A, B
<1>4. ASSUME NEW q \in P \ {p} PROVE Level(A, B, 0, p) < Level(A, B, 0, q)
  <2>1. /\ q \in Point /\ Cross(a, p, q) \in Int /\ Cross(p, c, q) \in Int
        /\ Cross(a, p, q) >= 0 /\ Cross(p, c, q) >= 0
    BY CrossType
  <2>2. Cross(a, p, q) # 0 \/ Cross(p, c, q) # 0
    <3>1. SUFFICES ASSUME Cross(a, p, q) = 0, Cross(p, c, q) = 0 PROVE q = p
      OBVIOUS
    <3>2. Cross(p, q, a) = 0 /\ Cross(p, a, c) < 0 /\ Cross(p, a, c) \in Int
      <4>1. Cross(p, q, a) = Cross(a, p, q) /\ Cross(p, a, c) = - Cross(a, p, c)
        BY <2>1, CrossTurns
      <4> QED
        BY <3>1, <4>1, CrossType
    <3>3. ASSUME NEW k \in 1 .. 2 PROVE q[k] = p[k]
      <4>1. (a[k] - p[k]) * Cross(p, c, q) + (c[k] - p[k]) * Cross(p, q, a)
              + (q[k] - p[k]) * Cross(p, a, c) = 0
        BY <2>1, Plane
      <4>2. a[k] \in Int /\ p[k] \in Int /\ c[k] \in Int /\ q[k] \in Int
        BY <2>1, Coordinates
      <4>3. (q[k] - p[k]) * Cross(p, a, c) = 0
        BY <3>1, <3>2, <4>1, <4>2
      <4>4. q[k] - p[k] \in Int
        BY <4>2
      <4>5. ~(q[k] - p[k] > 0) /\ ~(q[k] - p[k] < 0)
        BY <3>2, <4>3, <4>4, Products
      <4> QED
        BY <4>2, <4>4, <4>5
    <3>4. q[1] = p[1] /\ q[2] = p[2]
      BY <3>3
    <3> QED
      BY <2>1, <3>4, SamePoint
  <2>3. Level(A, B, 0, p) \in Int /\ Level(A, B, 0, q) \in Int
        /\ Cross(a, p, q) + Cross(p, c, q) = Level(A, B, 0, q) - Level(A, B, 0, p)
    BY <1>2, <1>3, <2>1
  <2> QED
    BY <2>1, <2>2, <2>3
<1>5. P \ {p} \subseteq Point
  OBVIOUS
<1> QED
  BY <1>1, <1>4, <1>5, Lowest

LEMMA CornersOutside ==
  ASSUME NEW P, P \subseteq Point, NEW u, NEW b, Corners(P, u, b), NEW k \in 1 .. Len(u)
  PROVE  ~HullContains(P \ {u[k]}, u[k])
<1> DEFINE m == Len(u)
           Q == P \ {u[k]}
<1>1. /\ m \in Nat /\ m >= 3 /\ b \in 2 .. m - 1 /\ b \in Nat /\ u[m] = u[1]
      /\ \A i \in 1 .. m : u[i] \in P /\ u[i] \in Point
      /\ \A i \in 1 .. m - 1 : \A q \in P : Cross(u[i], u[i + 1], q) >= 0
      /\ \A i \in 2 .. m - 1 : i # b => Cross(u[i - 1], u[i], u[i + 1]) > 0
  BY CornersAre
<1>2. \A q \in P : (q = u[1] \/ Climbs(1, u[1], q)) /\ (q = u[b] \/ Climbs(0 - 1, u[b], q))
  BY DEF Corners
<1>3. u[k] \in Point /\ Q \subseteq Point /\ 1 \in Sides /\ 0 - 1 \in Sides
  BY <1>1 DEF Sides
<1>4. CASE u[k] = u[1]
  <2>1. \A q \in Q : Climbs(1, u[k], q)
    BY <1>2, <1>4
  <2> QED
    BY <1>3, <2>1, FirstOutside
<1>5. CASE u[k] = u[b]
  <2>1. \A q \in Q : Climbs(0 - 1, u[k], q)
    BY <1>2, <1>5
  <2> QED
    BY <1>3, <2>1, FirstOutside
<1>6. CASE u[k] # u[1] /\ u[k] # u[b]
  <2>1. k \in 1 .. m
    OBVIOUS
  <2> HIDE DEF m
  <2>2. /\ k \in 2 .. m - 1 /\ k # b /\ k - 1 \in 1 .. m /\ k + 1 \in 1 .. m
        /\ k - 1 \in 1 .. m - 1 /\ k \in 1 .. m - 1 /\ (k - 1) + 1 = k
    <3>1. k # 1 /\ k # m /\ k # b
      BY <1>1, <1>6
    <3> QED
      BY <1>1, <2>1, <3>1
  <2>3. /\ u[k - 1] \in Point /\ u[k + 1] \in Point /\ Cross(u[k - 1], u[k], u[k + 1]) > 0
        /\ \A q \in P : Cross(u[k - 1], u[k], q) >= 0 /\ Cross(u[k], u[k + 1], q) >= 0
    BY <1>1, <2>2
  <2> QED
    BY <1>3, <2>3, TurnOutside
<1> QED
  BY <1>4, <1>5, <1>6

(* The closed hull of points from the first on, one point included.        *)
LEMMA ClosedHull ==
  ASSUME NEW w, Rising(w), Len(w) >= 1
  PROVE  \E u : /\ u \in Seq(Point) /\ Len(u) >= 2 /\ u[Len(u)] = u[1] /\ TurnsLeft(u) /\ u[1] = w[1]
                /\ Front(u) = (IF Len(w) = 1 THEN w ELSE HullOf(w))
                /\ \A i \in DOMAIN u : u[i] \in ToSet(w) /\ ~HullContains(ToSet(w) \ {u[i]}, u[i])
                /\ \A i, j \in 1 .. Len(u) - 1 : i < j => u[i] # u[j]
                /\ \A p \in Point : HullContains(ToSet(u), p) <=> HullContains(ToSet(w), p)
<1> DEFINE P == ToSet(w)
<1>1. w \in Seq(Point) /\ Len(w) \in Nat /\ DOMAIN w = 1 .. Len(w) /\ P \subseteq Point
  BY DEF Rising, ToSet
<1>2. CASE Len(w) = 1
  <2> DEFINE c == w[1]
             u == <<c, c>>
  <2>1. c \in Point /\ w = <<c>> /\ P = {c}
    BY <1>1, <1>2 DEF ToSet
  <2>2. u \in Seq(Point) /\ Len(u) = 2 /\ u[1] = c /\ u[2] = c /\ DOMAIN u = 1 .. 2
    BY <2>1
  <2> HIDE DEF c, u
  <2>3. Front(u) = w
    <3>1. Append(Front(u), Front(u)[1]) = u /\ Front(u) \in Seq(Point) /\ Len(Front(u)) = 1 /\ Front(u)[1] = c
      <4>1. u \in Seq(Point) /\ Len(u) >= 2 /\ u[Len(u)] = u[1]
        BY <2>2
      <4>2. /\ Append(Front(u), Front(u)[1]) = u /\ Front(u) \in Seq(Point)
            /\ Len(Front(u)) = Len(u) - 1 /\ \A i \in 1 .. Len(u) - 1 : Front(u)[i] = u[i]
        BY <4>1, FrontClosed
      <4>3. 1 \in 1 .. Len(u) - 1
        BY <2>2
      <4> QED
        BY <2>2, <4>2, <4>3
    <3>2. Front(u) = <<c>>
      BY <3>1
    <3> QED
      BY <2>1, <3>2
  <2>4. TurnsLeft(u)
    <3>1. \A i, j, k \in 1 .. 2 : ~(i < j /\ j < k)
      OBVIOUS
    <3> QED
      BY <2>2, <3>1 DEF TurnsLeft
  <2>5. ToSet(u) = P /\ ~HullContains(P \ {c}, c)
    <3>1. ToSet(u) = {c}
      BY <2>2 DEF ToSet
    <3> HIDE DEF P
    <3>2. P \ {c} = {}
      BY <2>1
    <3> QED
      BY <2>1, <3>1, <3>2 DEF HullContains
  <2>6. \A i \in DOMAIN u : u[i] = c
    BY <2>2
  <2>7. u[1] = w[1]
    BY <2>2 DEF c
  <2>8. \A i, j \in 1 .. Len(u) - 1 : ~(i < j)
    BY <2>2
  <2>9. c \in P
    BY <2>1
  <2>10. Len(u) >= 2 /\ u[Len(u)] = u[1]
    BY <2>2
  <2> HIDE DEF P
  <2> QED
    BY <1>2, <2>2, <2>3, <2>4, <2>5, <2>6, <2>7, <2>8, <2>9, <2>10 DEF P
<1>3. CASE Len(w) # 1
  <2>1. Len(w) >= 2
    BY <1>1, <1>3
  <2>2. PICK u, b : Corners(P, u, b) /\ HullOf(w) = Front(u) /\ u[1] = w[1]
    BY <2>1, HullCorners
  <2> HIDE DEF P
  <2>3. /\ u \in Seq(Point) /\ Len(u) \in Nat /\ DOMAIN u = 1 .. Len(u) /\ Len(u) >= 3 /\ u[Len(u)] = u[1]
        /\ \A i \in 1 .. Len(u) : u[i] \in P /\ u[i] \in Point
    BY <1>1, <2>2, CornersAre
  <2>4. TurnsLeft(u)
    BY <1>1, <2>2, CornersTurnLeft
  <2>5. \A i \in 1 .. Len(u) : ~HullContains(P \ {u[i]}, u[i])
    BY <1>1, <2>2, CornersOutside
  <2>6. \A i, j \in 1 .. Len(u) - 1 : i < j => u[i] # u[j]
    BY <1>1, <2>2, CornersOnce
  <2>7. ASSUME NEW p \in Point PROVE HullContains(ToSet(u), p) <=> HullContains(P, p)
    <3>1. RingContains(Append(HullOf(w), HullOf(w)[1]), p) <=> HullContains(P, p)
      BY <2>1, RisingSweeps, HullRing DEF P
    <3>2. Append(HullOf(w), HullOf(w)[1]) = u
      <4>1. u \in Seq(Point) /\ Len(u) >= 2 /\ u[Len(u)] = u[1]
        BY <2>3
      <4> QED
        BY <2>2, <4>1, FrontClosed
    <3>3. Ring(u)
      BY <2>3 DEF Ring
    <3>4. RingContains(u, p) <=> HullContains(ToSet(u), p)
      BY <2>4, <3>3, ConvexRingIsHull DEF TurnsLeft
    <3> QED
      BY <3>1, <3>2, <3>4
  <2>8. Len(u) >= 2
    BY <2>3
  <2> QED
    BY <1>3, <2>2, <2>3, <2>4, <2>5, <2>6, <2>7, <2>8 DEF P
<1> QED
  BY <1>2, <1>3
=============================================================================
