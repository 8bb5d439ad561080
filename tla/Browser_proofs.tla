----------------------------- MODULE Browser_proofs -----------------------------
(***************************************************************************)
(* Theorems about SearchPage, for any criteria, any numbers of pages and   *)
(* any number of requests; about NazotteMap, for any points, any length of *)
(* a drawing and any number of requests; and about the two together.       *)
(***************************************************************************)
EXTENDS MCBrowser, Operators_proofs, TLAPS


Flight == [n : 1 .. asked, crit : Criteria, page : Nat]

(* The page numbers turn the pages of criteria that were chosen.           *)
Chosen == asked > 0 => params \in [crit : Criteria, page : Nat]

(* A request made with nothing outstanding is the only one in flight, and  *)
(* a blank screen waits for the newest request or lost it.                 *)
Newest(n, c, p) == n = asked /\ c = params.crit /\ p = params.page
Following ==
  /\ ~overlap => \A r \in flights : Newest(r.n, r.crit, r.page)
  /\ result # Nothing =>
       page = result.page /\ (~overlap => Newest(result.n, result.crit, result.page))
  /\ asked > 0 /\ result = Nothing =>
       asked \in failed \/ \E r \in flights : r.n = asked

PageInv == PageTypeOK /\ Chosen /\ Following

LEMMA PageStart == PageInit => PageInv
<1> SUFFICES ASSUME PageInit PROVE PageInv
  OBVIOUS
<1>1. PageTypeOK
  <2>1. overlap \in BOOLEAN
    BY DEF PageInit
  <2>2. asked \in 0 .. MaxRequests /\ page \in Nat
    BY PageAssumption DEF PageInit
  <2>3. params = NoParams /\ result = Nothing /\ flights = {} /\ failed = {}
    BY DEF PageInit
  <2> QED
    BY <2>1, <2>2, <2>3 DEF PageTypeOK
<1>2. Chosen /\ Following
  BY DEF PageInit, Chosen, Following
<1> QED
  BY <1>1, <1>2 DEF PageInv

LEMMA AskKeeps ==
  ASSUME PageInv, NEW c \in Criteria, NEW p \in Nat, Ask(c, p)
  PROVE  PageInv'
<1> DEFINE r == [n |-> asked + 1, crit |-> c, page |-> p]
<1> USE PageAssumption DEF PageInv, PageTypeOK
<1>1. /\ asked' = asked + 1 /\ asked' \in 1 .. MaxRequests
      /\ params' = [crit |-> c, page |-> p] /\ result' = Nothing
      /\ overlap' = (flights # {}) /\ flights' = flights \cup {r}
      /\ UNCHANGED <<page, failed>>
  BY DEF Ask
<1>2. \A f \in flights : f \in [n : 1 .. asked', crit : Criteria, page : Nat]
  BY <1>1
<1>3. r \in [n : 1 .. asked', crit : Criteria, page : Nat]
  BY <1>1
<1>4. PageTypeOK'
  BY <1>1, <1>2, <1>3
<1>5. Chosen'
  BY <1>1 DEF Chosen
<1>6. Following'
  <2>1. ~overlap' => flights' = {r}
    BY <1>1
  <2>2. \A f \in {r} : Newest(f.n, f.crit, f.page)'
    BY <1>1 DEF Newest
  <2>3. r \in flights' /\ r.n = asked'
    BY <1>1
  <2> QED
    BY <1>1, <2>1, <2>2, <2>3 DEF Following
<1> QED
  BY <1>4, <1>5, <1>6

(* The answer with number r.n never equals the blank screen, as n > 0.     *)
LEMMA AnswerKeeps ==
  ASSUME PageInv, NEW r \in flights, Answered(r)
  PROVE  PageInv'
<1> USE PageAssumption DEF PageInv, PageTypeOK
<1>1. PICK k \in Counts :
        result' = [n |-> r.n, crit |-> r.crit, page |-> r.page, pages |-> k]
  BY DEF Answered
<1>2. /\ flights' = flights \ {r} /\ page' = r.page
      /\ UNCHANGED <<params, asked, failed, overlap>>
  BY DEF Answered
<1>3. r \in Flight /\ r.n \in 1 .. asked
  BY DEF Flight
<1>4. result' # Nothing
  BY <1>1, <1>3 DEF Nothing
<1>5. result' \in [n : 1 .. asked, crit : Criteria, page : Nat, pages : Counts]
  BY <1>1, <1>3 DEF Flight
<1>6. PageTypeOK'
  BY <1>2, <1>3, <1>5 DEF Flight
<1>7. Chosen'
  BY <1>2 DEF Chosen
<1>8. Following'
  BY <1>1, <1>2, <1>4 DEF Following, Newest
<1> QED
  BY <1>6, <1>7, <1>8

LEMMA FailureKeeps ==
  ASSUME PageInv, NEW r \in flights, NotAnswered(r)
  PROVE  PageInv'
<1> USE PageAssumption DEF PageInv, PageTypeOK
<1>1. PageTypeOK' /\ Chosen'
  BY DEF NotAnswered, Chosen
<1>2. Following'
  BY DEF NotAnswered, Following, Newest
<1> QED
  BY <1>1, <1>2

LEMMA PageStep == PageInv /\ [PageNext]_pageVars => PageInv'
<1> SUFFICES ASSUME PageInv, [PageNext]_pageVars PROVE PageInv'
  OBVIOUS
<1>1. ASSUME NEW c \in Criteria, OnSearch(c) PROVE PageInv'
  BY <1>1, AskKeeps DEF OnSearch
<1>2. ASSUME NEW p \in 1 .. result.pages, OnPage(p) PROVE PageInv'
  <2>1. result # Nothing
    BY DEF Nothing
  <2>2. asked > 0 /\ result.pages \in Nat
    <3>1. result \in [n : 1 .. asked, crit : Criteria, page : Nat, pages : Counts]
      BY <2>1 DEF PageInv, PageTypeOK
    <3>2. result.n \in 1 .. asked /\ result.pages \in Counts
      BY <3>1
    <3> QED
      <4>1. asked \in Nat
        BY PageAssumption DEF PageInv, PageTypeOK
      <4>2. Counts \subseteq Nat
        BY PageAssumption
      <4>3. \A n \in 1 .. asked : asked > 0
        BY <4>1
      <4>4. asked > 0
        BY <3>2, <4>3
      <4>5. result.pages \in Nat
        BY <3>2, <4>2
      <4> QED
        BY <4>4, <4>5
  <2>3. params.crit \in Criteria /\ p - 1 \in Nat
    BY <2>2 DEF PageInv, Chosen
  <2> QED
    BY <1>2, <2>3, AskKeeps DEF OnPage
<1>3. ASSUME NEW r \in flights, Answered(r) \/ NotAnswered(r) PROVE PageInv'
  BY <1>3, AnswerKeeps, FailureKeeps
<1>4. CASE UNCHANGED pageVars
  BY <1>4 DEF pageVars, PageInv, PageTypeOK, Chosen, Following, Newest
<1> QED
  BY <1>1, <1>2, <1>3, <1>4 DEF PageNext

LEMMA PageCorrect == PageSpec => []PageInv
BY PageStart, PageStep, PTL DEF PageSpec

(* Whatever answers overtake each other, the page number is that of the    *)
(* rows, the rows answer the newest request unless it was made while       *)
(* another was outstanding, and the page spins for good only if its newest *)
(* request failed.                                                         *)
THEOREM ScreenIsNewest == PageSpec => []ScreenFollowsNewest
<1>1. PageInv => ScreenFollowsNewest
  BY DEF PageInv, Following, Newest, ScreenFollowsNewest
<1> QED
  BY <1>1, PageCorrect, PTL
-----------------------------------------------------------------------------
(* Unless the map is astray nothing is shown while a drawing is made, and  *)
(* the estates shown are those in the polygon on the map.                  *)
Drawing == isDragging => button = "map" /\ mode = "nazotte" /\ markers = NoMarkers
Shown ==
  markers # NoMarkers =>
    /\ markers.ring = vertexes /\ markers.found \subseteq PointsIn(vertexes)
    /\ markers.found = PointsIn(vertexes) \/ Cardinality(markers.found) = NazotteLimit
Truth == ~astray => Drawing /\ Shown

(* The newest request asks for the polygon on the map, until another is    *)
(* drawn; and a press on the map in the drawing mode has begun a drawing.  *)
Asked == ~isDragging => \A r \in posts : r.n = posted => r.ring = vertexes
Pressed == button = "map" /\ mode = "nazotte" => isDragging

MapInv == MapTypeOK /\ Asked /\ Pressed /\ Truth

LEMMA MapStart == MapInit => MapInv
<1> SUFFICES ASSUME MapInit PROVE MapInv
  OBVIOUS
<1>1. MapTypeOK
  <2>1. posted \in 0 .. MaxPosts
    BY MapAssumption DEF MapInit
  <2> QED
    BY <2>1 DEF MapInit, MapTypeOK, NoMarkers
<1>2. Asked /\ Pressed /\ Truth
  BY DEF MapInit, Asked, Pressed, Truth, Drawing, Shown, PointsIn
<1> QED
  BY <1>1, <1>2 DEF MapInv

(* A press in the drawing mode begins a drawing of one point; in the other *)
(* mode it changes the button only.                                        *)
LEMMA MouseDownKeeps ==
  ASSUME MapInv, NEW p \in Points, MouseDown(p)
  PROVE  MapInv'
<1> USE DEF MapInv
<1>1. CASE mode = "nazotte"
  <2>1. /\ button' = "map" /\ vertexes' = <<p>> /\ isDragging' = TRUE
        /\ markers' = NoMarkers /\ UNCHANGED <<mode, posts, posted>>
    BY <1>1 DEF MouseDown
  <2>2. astray' = FALSE
    BY <1>1 DEF MouseDown
  <2>3. <<p>> \in Seq(Points) /\ Len(<<p>>) \in 1 .. MaxPath
    BY MapAssumption
  <2>4. MapTypeOK'
    BY <2>1, <2>2, <2>3 DEF MapTypeOK, NoMarkers
  <2>5. Asked' /\ Pressed' /\ Truth'
    BY <1>1, <2>1, <2>2 DEF Asked, Pressed, Truth, Drawing, Shown, PointsIn
  <2> QED
    BY <2>4, <2>5
<1>2. CASE mode # "nazotte"
  <2>1. /\ button = "up" /\ button' = "map"
        /\ UNCHANGED <<mode, vertexes, isDragging, markers, posts, posted, astray>>
    BY <1>2 DEF MouseDown
  <2>2. MapTypeOK'
    BY <2>1 DEF MapTypeOK
  <2>3. Asked' /\ Pressed' /\ Truth'
    BY <1>2, <2>1 DEF Asked, Pressed, Truth, Drawing, Shown, PointsIn
  <2> QED
    BY <2>2, <2>3
<1> QED
  BY <1>1, <1>2

LEMMA MouseMoveKeeps ==
  ASSUME MapInv, NEW p \in Points, MouseMove(p)
  PROVE  MapInv'
<1> USE DEF MapInv
<1>1. /\ isDragging /\ vertexes' = Append(vertexes, p) /\ Len(vertexes) < MaxPath
      /\ UNCHANGED <<mode, isDragging, markers, button, posts, posted, astray>>
  BY DEF MouseMove
<1>2. vertexes' \in Seq(Points) /\ Len(vertexes') \in 1 .. MaxPath
  BY <1>1, MapAssumption DEF MapTypeOK
<1>3. MapTypeOK'
  BY <1>1, <1>2 DEF MapTypeOK
<1>4. Asked' /\ Pressed' /\ Truth'
  BY <1>1 DEF Asked, Pressed, Truth, Drawing, Shown, PointsIn
<1> QED
  BY <1>3, <1>4

(* The request of a drawing is the newest, and nothing is shown for it.    *)
LEMMA MouseUpKeeps ==
  ASSUME MapInv, NEW p \in Points, MouseUp(p)
  PROVE  MapInv'
<1> USE DEF MapInv
<1>1. CASE mode = "nazotte"
  <2> DEFINE new == [n |-> posted', ring |-> vertexes']
  <2>1. /\ button # "up" /\ button' = "up" /\ isDragging' = FALSE
        /\ posted < MaxPosts /\ posted' = posted + 1 /\ posts' = posts \cup {new}
        /\ UNCHANGED <<mode, markers>>
    BY <1>1 DEF MouseUp
  <2>2. astray' = (astray \/ (button = "outside" /\ markers # NoMarkers))
    BY <1>1 DEF MouseUp
  <2>3. /\ new.n = posted' /\ new.ring = vertexes'
        /\ posted' \in 1 .. MaxPosts
    BY <2>1, MapAssumption DEF MapTypeOK
  <2>4. \A r \in posts : r.n \in 1 .. posted' /\ r.n # posted'
    BY <2>1, MapAssumption DEF MapTypeOK
  <2> HIDE DEF new
  <2>5. MapTypeOK'
    <3>1. \A r \in posts' : r.n \in 1 .. posted'
      BY <2>1, <2>3, <2>4, MapAssumption
    <3>2. \A r, s \in posts' : r.n = s.n => r = s
      BY <2>1, <2>3, <2>4 DEF MapTypeOK
    <3>3. posted' \in 0 .. MaxPosts
      BY <2>3, MapAssumption
    <3>4. astray' \in BOOLEAN
      BY <2>2 DEF MapTypeOK
    <3>5. ~isDragging' /\ isDragging' \in BOOLEAN /\ button' \in {"up", "map", "outside"}
      BY <2>1
    <3>6. mode' \in {"drag", "nazotte"} /\ markers'.found \subseteq Points
      BY <2>1 DEF MapTypeOK
    <3> QED
      BY <3>1, <3>2, <3>3, <3>4, <3>5, <3>6 DEF MapTypeOK
  <2>6. Asked' /\ Pressed'
    <3>1. \A r \in posts' : r.n = posted' => r.ring = vertexes'
      BY <2>1, <2>3, <2>4
    <3> QED
      BY <2>1, <3>1 DEF Asked, Pressed
  <2>7. Truth'
    <3>1. SUFFICES ASSUME ~astray' PROVE (Drawing /\ Shown)'
      BY DEF Truth
    <3>2. ~astray /\ (button = "map" \/ markers = NoMarkers)
      BY <2>1, <2>2, <3>1 DEF MapTypeOK
    <3>3. markers = NoMarkers
      BY <1>1, <3>2 DEF Pressed, Truth, Drawing
    <3> QED
      BY <2>1, <3>3 DEF Drawing, Shown
  <2> QED
    BY <2>5, <2>6, <2>7
<1>2. CASE mode # "nazotte"
  <2>1. /\ button' = "up"
        /\ UNCHANGED <<mode, vertexes, isDragging, markers, posts, posted, astray>>
    BY <1>2 DEF MouseUp
  <2>2. MapTypeOK'
    BY <2>1 DEF MapTypeOK
  <2>3. Asked' /\ Pressed' /\ Truth'
    BY <1>2, <2>1 DEF Asked, Pressed, Truth, Drawing, Shown, PointsIn
  <2> QED
    BY <2>2, <2>3
<1> QED
  BY <1>1, <1>2

(* What happens away from the drawing: the button outside of the map, and  *)
(* the switch of the mode with the button up.                              *)
LEMMA ElsewhereKeeps ==
  ASSUME MapInv, PressOutside \/ ReleaseOutside \/ FabClick
  PROVE  MapInv'
<1> USE DEF MapInv
<1>1. CASE PressOutside
  <2>1. MapTypeOK'
    BY <1>1 DEF PressOutside, MapTypeOK
  <2> QED
    BY <1>1, <2>1 DEF PressOutside, Asked, Pressed, Truth, Drawing, Shown, PointsIn
<1>2. CASE ReleaseOutside
  <2>1. MapTypeOK'
    <3>1. astray' \in BOOLEAN
      BY <1>2 DEF ReleaseOutside, MapTypeOK
    <3> QED
      BY <1>2, <3>1 DEF ReleaseOutside, MapTypeOK
  <2> QED
    BY <1>2, <2>1 DEF ReleaseOutside, Asked, Pressed, Truth, Drawing, Shown, PointsIn
<1>3. CASE FabClick
  <2>1. MapTypeOK'
    BY <1>3 DEF FabClick, MapTypeOK
  <2> QED
    BY <1>3, <2>1 DEF FabClick, Asked, Pressed, Truth, Drawing, Shown, PointsIn
<1> QED
  BY <1>1, <1>2, <1>3

(* The newest answer meets the polygon it was asked for, and sets the map  *)
(* right, unless another drawing was begun before it came.                 *)
LEMMA FetchKeeps ==
  ASSUME MapInv, NEW r \in posts, FetchDone(r) \/ FetchFailed(r)
  PROVE  MapInv'
<1> USE DEF MapInv
<1>1. CASE FetchDone(r)
  <2>1. PICK found \in SUBSET PointsIn(r.ring) :
          /\ found = PointsIn(r.ring) \/ Cardinality(found) = NazotteLimit
          /\ markers' = [ring |-> r.ring, found |-> found]
    BY <1>1 DEF FetchDone
  <2>2. /\ posts' = posts \ {r} /\ mode' = "drag"
        /\ astray' = (r.n # posted \/ isDragging)
        /\ UNCHANGED <<vertexes, isDragging, button, posted>>
    BY <1>1 DEF FetchDone
  <2>3. MapTypeOK'
    <3>1. found \subseteq Points /\ markers'.found = found
      BY <2>1 DEF PointsIn
    <3>2. astray' \in BOOLEAN
      BY <2>2
    <3> QED
      BY <2>2, <3>1, <3>2 DEF MapTypeOK
  <2>4. Asked' /\ Pressed'
    BY <2>2 DEF Asked, Pressed
  <2>5. Truth'
    <3>1. SUFFICES ASSUME ~astray' PROVE (Drawing /\ Shown)'
      BY DEF Truth
    <3>2. ~isDragging /\ r.ring = vertexes
      BY <2>2, <3>1 DEF Asked
    <3>3. Shown'
      BY <2>1, <2>2, <3>2 DEF Shown, PointsIn
    <3> QED
      BY <2>2, <3>2, <3>3 DEF Drawing
  <2> QED
    BY <2>3, <2>4, <2>5
<1>2. CASE FetchFailed(r)
  <2>1. MapTypeOK'
    BY <1>2 DEF FetchFailed, MapTypeOK
  <2> QED
    BY <1>2, <2>1 DEF FetchFailed, Asked, Pressed, Truth, Drawing, Shown, PointsIn
<1> QED
  BY <1>1, <1>2

LEMMA MapStep == MapInv /\ [MapNext]_mapVars => MapInv'
<1> SUFFICES ASSUME MapInv, [MapNext]_mapVars PROVE MapInv'
  OBVIOUS
<1>1. CASE UNCHANGED mapVars
  BY <1>1 DEF mapVars, MapInv, MapTypeOK, Asked, Pressed, Truth, Drawing, Shown, PointsIn
<1> QED
  BY <1>1, MouseDownKeeps, MouseMoveKeeps, MouseUpKeeps, ElsewhereKeeps, FetchKeeps
  DEF MapNext

LEMMA MapCorrect == MapSpec => []MapInv
BY MapStart, MapStep, PTL DEF MapSpec

(* Unless an answer to an older drawing, or a button pressed or released   *)
(* outside, led it astray, the map draws only while its button is pressed  *)
(* and shows the estates of the polygon it shows, as many as the server    *)
(* answers; the next drawing, and the newest answer, set it right.         *)
THEOREM MapIsTrue == MapSpec => []MapIsTrueUnlessAstray
<1>1. MapInv => MapIsTrueUnlessAstray
  BY DEF MapInv, Truth, Drawing, Shown, MapIsTrueUnlessAstray
<1> QED
  BY <1>1, MapCorrect, PTL
-----------------------------------------------------------------------------
(* The package sorts the points of a path from the first on.               *)
LEMMA SortedRises ==
  ASSUME NEW P, P \subseteq Point, IsFiniteSet(P), P # {}
  PROVE  LET w == InOrder(P, LexLess)
         IN  Rising(w) /\ ToSet(w) = P /\ Len(w) >= 1
<1> DEFINE R == [x \in P |-> {y \in P : LexLess(y, x)}]
           w == InOrder(P, LexLess)
<1>1. \A x \in P : x \in Point /\ x[1] \in Int /\ x[2] \in Int
  BY Coordinates
<1>2. Ordered(P, R)
  <2>1. R \in [P -> SUBSET P]
    OBVIOUS
  <2>2. \A e \in P : e \notin R[e]
    BY <1>1 DEF LexLess
  <2>3. ASSUME NEW e \in P, NEW f \in P, f \in R[e], NEW g \in R[f] PROVE g \in R[e]
    <3>1. g \in P /\ LexLess(g, f) /\ LexLess(f, e)
      BY <2>3
    <3>2. LexLess(g, e)
      BY <1>1, <3>1 DEF LexLess
    <3> QED
      BY <3>1, <3>2
  <2>4. ASSUME NEW e \in P, NEW f \in P, e # f PROVE e \in R[f] \/ f \in R[e]
    <3>1. e[1] # f[1] \/ e[2] # f[2]
      BY <1>1, <2>4, SamePoint
    <3>2. LexLess(e, f) \/ LexLess(f, e)
      BY <1>1, <3>1 DEF LexLess
    <3> QED
      BY <3>2
  <2>5. \A e, f \in P : f \in R[e] => R[f] \subseteq R[e]
    <3> HIDE DEF R
    <3> QED
      BY <2>3
  <2> HIDE DEF R
  <2> QED
    BY <2>1, <2>2, <2>4, <2>5 DEF Ordered
<1>3. w = [k \in 1 .. Cardinality(P) |->
             CHOOSE x \in P : Cardinality({y \in P : LexLess(y, x)}) = k - 1]
  BY DEF InOrder
<1>4. /\ w \in Seq(P) /\ Len(w) = Cardinality(P) /\ Cardinality(P) \in Nat /\ ToSet(w) = P
      /\ \A i, j \in DOMAIN w : i < j => w[i] \in R[w[j]]
  <2>1. ASSUME NEW k \in 1 .. Cardinality(P), \E x \in P : Cardinality(R[x]) = k - 1
        PROVE  w[k] \in P /\ Cardinality(R[w[k]]) = k - 1
    <3>1. \E x \in P : Cardinality({y \in P : LexLess(y, x)}) = k - 1
      BY <2>1
    <3> HIDE DEF w
    <3>2. w[k] \in P /\ Cardinality({y \in P : LexLess(y, w[k])}) = k - 1
      BY <1>3, <3>1
    <3> QED
      BY <3>2
  <2>2. w = [k \in 1 .. Cardinality(P) |-> w[k]]
    <3> DEFINE at(k) == CHOOSE x \in P : Cardinality({y \in P : LexLess(y, x)}) = k - 1
    <3>1. w = [k \in 1 .. Cardinality(P) |-> at(k)]
      BY <1>3
    <3> HIDE DEF w, at
    <3> QED
      BY <3>1
  <2> HIDE DEF R, w
  <2>3. \A k \in 1 .. Cardinality(P) :
          (\E x \in P : Cardinality(R[x]) = k - 1) => w[k] \in P /\ Cardinality(R[w[k]]) = k - 1
    BY <2>1
  <2>4. Placed(w, P, R)
    BY <2>2, <2>3 DEF Placed
  <2> QED
    BY <1>2, <2>4, InTurn
<1>5. Cardinality(P) # 0
  BY FS_EmptySet
<1>6. ASSUME NEW i \in DOMAIN w, NEW j \in DOMAIN w, i < j PROVE Climbs(1, w[i], w[j])
  <2>1. w[i] \in P /\ w[j] \in P /\ w[i] \in R[w[j]]
    <3> HIDE DEF w, R
    <3> QED
      BY <1>4, <1>6
  <2>2. LexLess(w[i], w[j])
    <3> HIDE DEF w
    <3> QED
      BY <2>1
  <2>3. /\ Far(1, w[i]) = w[i][1] /\ Far(1, w[j]) = w[j][1] /\ Off(1, w[i]) = w[i][2] /\ Off(1, w[j]) = w[j][2]
    <3> HIDE DEF w
    <3> QED
      BY <1>1, <2>1 DEF Far, Off
  <2> QED
    BY <2>2, <2>3 DEF LexLess, Climbs
<1>7. w \in Seq(Point)
  <2> HIDE DEF w
  <2> QED
    BY <1>4
<1>8. Rising(w)
  <2> HIDE DEF w
  <2> QED
    BY <1>6, <1>7 DEF Rising
<1>9. Len(w) >= 1
  <2> HIDE DEF w
  <2> QED
    BY <1>4, <1>5
<1> QED
  BY <1>4, <1>8, <1>9

(* The corners of a path, and an index of each.                            *)
LEMMA ClosedIndexes ==
  ASSUME NEW path \in Seq(Point), path # <<>>
  PROVE  LET is == Append(ConvexHull(path), ConvexHull(path)[1])
             P == ToSet(path)
         IN  \E u : /\ u \in Seq(Point) /\ Len(u) >= 2 /\ TurnsLeft(u) /\ DOMAIN is = DOMAIN u
                    /\ \A i \in DOMAIN u : /\ is[i] \in DOMAIN path /\ path[is[i]] = u[i]
                                          /\ ~HullContains(P \ {u[i]}, u[i])
                    /\ \A i, j \in 1 .. Len(u) - 1 : i < j => u[i] # u[j]
                    /\ \A p \in Point : HullContains(ToSet(u), p) <=> HullContains(P, p)
<1> DEFINE P == ToSet(path)
           w == InOrder(P, LexLess)
           corners == IF Len(w) = 1 THEN w ELSE HullOf(w)
           Those(c) == {i \in DOMAIN path : path[i] = c}
           IndexOf(c) == IF c = w[1] THEN Min(Those(c)) ELSE Max(Those(c))
           hull == ConvexHull(path)
           is == Append(hull, hull[1])
<1>1. Len(path) \in Nat /\ DOMAIN path = 1 .. Len(path) /\ P \subseteq Point /\ P # {}
      /\ \A c \in P : \E i \in DOMAIN path : path[i] = c
  BY DEF ToSet
<1>2. IsFiniteSet(DOMAIN path)
  <2>1. \A n \in Nat : IsFiniteSet(1 .. n)
    BY FS_Interval
  <2> QED
    BY <1>1, <2>1
<1>3. IsFiniteSet(P)
  <2>1. path \in Surjection(DOMAIN path, P)
    <3>1. path \in [DOMAIN path -> P] /\ \A c \in P : \E i \in DOMAIN path : path[i] = c
      BY <1>1 DEF ToSet
    <3> HIDE DEF P
    <3> QED
      BY <3>1 DEF Surjection
  <2> HIDE DEF P
  <2> QED
    BY <1>2, <2>1, FS_Surjection
<1>4. hull = [k \in DOMAIN corners |-> IndexOf(corners[k])]
  BY DEF ConvexHull
<1>5. ASSUME NEW c \in P PROVE IndexOf(c) \in DOMAIN path /\ path[IndexOf(c)] = c
  <2>1. Those(c) \subseteq DOMAIN path /\ Those(c) # {} /\ Those(c) \subseteq Int
    BY <1>1, <1>5
  <2>2. IsFiniteSet(Those(c))
    <3> HIDE DEF Those
    <3> QED
      BY <1>2, <2>1, FS_Subset
  <2>3. Min(Those(c)) \in Those(c) /\ Max(Those(c)) \in Those(c)
    <3> HIDE DEF Those
    <3> QED
      BY <2>1, <2>2, MinIs, MaxIs
  <2> QED
    BY <2>3
<1> HIDE DEF IndexOf
<1>6. Rising(w) /\ ToSet(w) = P /\ Len(w) >= 1
  <2> HIDE DEF P
  <2> QED
    BY <1>1, <1>3, SortedRises
<1> HIDE DEF w, P
<1>7. PICK u : /\ u \in Seq(Point) /\ Len(u) >= 2 /\ u[Len(u)] = u[1] /\ TurnsLeft(u) /\ u[1] = w[1]
               /\ Front(u) = corners
               /\ \A i \in DOMAIN u : u[i] \in P /\ ~HullContains(P \ {u[i]}, u[i])
               /\ \A i, j \in 1 .. Len(u) - 1 : i < j => u[i] # u[j]
               /\ \A p \in Point : HullContains(ToSet(u), p) <=> HullContains(P, p)
  BY <1>6, ClosedHull
<1> HIDE DEF corners
<1>8. /\ corners \in Seq(Point) /\ Len(corners) = Len(u) - 1 /\ \A i \in 1 .. Len(u) - 1 : corners[i] = u[i]
  BY <1>7, FrontClosed
<1>9. Len(u) \in Nat /\ DOMAIN u = 1 .. Len(u) /\ DOMAIN corners = 1 .. Len(u) - 1
  BY <1>7, <1>8
<1>10. \A i \in DOMAIN u : IndexOf(u[i]) \in DOMAIN path /\ path[IndexOf(u[i])] = u[i]
  BY <1>5, <1>7
<1>11. hull \in [1 .. Len(u) - 1 -> Nat] /\ \A i \in 1 .. Len(u) - 1 : hull[i] = IndexOf(u[i])
  <2>1. \A i \in 1 .. Len(u) - 1 : i \in DOMAIN u
    BY <1>9
  <2>2. \A i \in 1 .. Len(u) - 1 : corners[i] = u[i] /\ IndexOf(u[i]) \in Nat
    <3>1. \A i \in DOMAIN path : i \in Nat
      BY <1>1
    <3> QED
      BY <1>8, <1>10, <2>1, <3>1
  <2> HIDE DEF hull
  <2> QED
    BY <1>4, <1>9, <2>2
<1> HIDE DEF hull
<1>12. hull \in Seq(Nat) /\ Len(hull) = Len(u) - 1
  <2>1. Len(u) - 1 \in Nat
    BY <1>7, <1>9
  <2>2. \A n \in Nat : \A t \in [1 .. n -> Nat] : t \in Seq(Nat) /\ Len(t) = n
    OBVIOUS
  <2> QED
    BY <1>11, <2>1, <2>2
<1>13. /\ DOMAIN is = 1 .. Len(u) /\ is[Len(u)] = hull[1]
       /\ \A i \in 1 .. Len(u) - 1 : is[i] = hull[i]
  <2>1. \A t \in Seq(Nat) : \A x :
          /\ DOMAIN Append(t, x) = 1 .. Len(t) + 1 /\ Append(t, x)[Len(t) + 1] = x
          /\ \A i \in 1 .. Len(t) : Append(t, x)[i] = t[i]
    OBVIOUS
  <2>2. Len(u) - 1 + 1 = Len(u)
    BY <1>9
  <2> QED
    BY <1>12, <2>1, <2>2
<1> HIDE DEF is
<1>14. ASSUME NEW i \in DOMAIN u PROVE is[i] = IndexOf(u[i])
  <2>1. i \in 1 .. Len(u) - 1 \/ i = Len(u)
    BY <1>9
  <2>2. 1 \in 1 .. Len(u) - 1
    BY <1>7, <1>9
  <2> QED
    BY <1>7, <1>11, <1>13, <2>1, <2>2
<1>15. \A i \in DOMAIN u : /\ is[i] \in DOMAIN path /\ path[is[i]] = u[i]
                          /\ ~HullContains(P \ {u[i]}, u[i])
  BY <1>7, <1>10, <1>14
<1>16. DOMAIN is = DOMAIN u
  BY <1>9, <1>13
<1> QED
  BY <1>7, <1>15, <1>16 DEF is, hull, P

(* What figures filters stays in its order.                                *)
LEMMA KeptAscends ==
  ASSUME NEW K, K \subseteq Int, IsFiniteSet(K)
  PROVE  LET t == InOrder(K, LAMBDA i, j : i < j)
         IN  t \in Seq(K) /\ ToSet(t) = K /\ \A i, j \in DOMAIN t : i < j => t[i] < t[j]
<1> DEFINE R == [x \in K |-> {y \in K : y < x}]
           at(k) == CHOOSE x \in K : Cardinality({y \in K : y < x}) = k - 1
           t == InOrder(K, LAMBDA i, j : i < j)
<1>1. Ordered(K, R)
  BY NumbersOrdered
<1>2. t = [k \in 1 .. Cardinality(K) |-> at(k)]
  BY DEF InOrder
<1>3. Placed(t, K, R)
  <2>1. t = [k \in 1 .. Cardinality(K) |-> t[k]]
    <3> HIDE DEF at, t
    <3> QED
      BY <1>2
  <2>2. ASSUME NEW k \in 1 .. Cardinality(K), NEW x \in K, Cardinality(R[x]) = k - 1
        PROVE  t[k] \in K /\ Cardinality(R[t[k]]) = k - 1
    <3>1. \E y \in K : Cardinality({z \in K : z < y}) = k - 1
      BY <2>2
    <3>2. at(k) \in K /\ Cardinality({y \in K : y < at(k)}) = k - 1
      BY <3>1
    <3> HIDE DEF at, t
    <3>3. t[k] = at(k)
      BY <1>2
    <3>4. R[at(k)] = {y \in K : y < at(k)}
      BY <3>2
    <3> QED
      BY <3>2, <3>3, <3>4
  <2> HIDE DEF R, at, t
  <2> QED
    BY <2>1, <2>2 DEF Placed
<1>4. t \in Seq(K) /\ ToSet(t) = K /\ \A i, j \in DOMAIN t : i < j => t[i] \in R[t[j]]
  <2> HIDE DEF R, at, t
  <2> QED
    BY <1>1, <1>3, InTurn
<1> HIDE DEF t
<1>5. ASSUME NEW i \in DOMAIN t, NEW j \in DOMAIN t, i < j PROVE t[i] < t[j]
  <2>1. t[i] \in K /\ t[j] \in K
    BY <1>4
  <2> QED
    BY <1>4, <1>5, <2>1
<1>6. t \in Seq(K) /\ ToSet(t) = K /\ \A i, j \in DOMAIN t : i < j => t[i] < t[j]
  BY <1>4, <1>5
<1> QED
  BY <1>6 DEF t

(* The polygon of a drawing: a closed hull of its points but the last, or  *)
(* without a corner that was the last.                                     *)
LEMMA FiguresAre ==
  ASSUME NEW vs \in Seq(Point), NEW last \in Point
  PROVE  LET r == Figures(vs, last)
             P == ToSet(vs) \cup {last}
         IN  /\ r \in Seq(Point) /\ ToSet(r) \subseteq ToSet(vs)
             /\ r # <<>> => IsInjective(Front(r))
             /\ \A p \in Point : (r # <<>> /\ RingContains(r, p)) <=> HullContains(ToSet(r), p)
             /\ HullContains(P \ {last}, last)
                  => \A p \in Point : HullContains(ToSet(r), p) <=> HullContains(P, p)
<1> DEFINE path == Append(vs, last)
           is == Append(ConvexHull(path), ConvexHull(path)[1])
           K == {k \in DOMAIN is : is[k] \in DOMAIN vs}
           kept == InOrder(K, LAMBDA i, j : i < j)
           r == Figures(vs, last)
           P == ToSet(vs) \cup {last}
           n == Len(vs)
<1>1. n \in Nat /\ DOMAIN vs = 1 .. n /\ \A i \in 1 .. n : vs[i] \in Point /\ vs[i] \in ToSet(vs)
  BY DEF ToSet
<1>2. /\ path \in Seq(Point) /\ path # <<>> /\ DOMAIN path = 1 .. n + 1
      /\ path[n + 1] = last /\ \A i \in 1 .. n : path[i] = vs[i]
  <2>1. path \in Seq(Point) /\ Len(path) = n + 1 /\ DOMAIN path = 1 .. n + 1
    OBVIOUS
  <2>2. path[n + 1] = last /\ \A i \in 1 .. n : path[i] = vs[i]
    OBVIOUS
  <2>3. path # <<>>
    <3> HIDE DEF path, n
    <3>1. Len(path) # 0
      BY <1>1, <2>1
    <3> QED
      BY <3>1
  <2> QED
    BY <2>1, <2>2, <2>3
<1>3. r = [k \in DOMAIN kept |-> vs[is[kept[k]]]]
  BY DEF Figures, Defined
<1> HIDE DEF path, n
<1>4. ToSet(path) = P
  <2>1. \A i \in 1 .. n + 1 : i \in 1 .. n \/ i = n + 1
    BY <1>1
  <2>2. \A i \in 1 .. n : i \in 1 .. n + 1
    BY <1>1
  <2>3. n + 1 \in 1 .. n + 1
    BY <1>1
  <2>4. ToSet(path) \subseteq P
    BY <1>1, <1>2, <2>1 DEF ToSet
  <2>5. P \subseteq ToSet(path)
    BY <1>1, <1>2, <2>2, <2>3 DEF ToSet
  <2> QED
    BY <2>4, <2>5
<1> HIDE DEF P
<1>5. PICK u : /\ u \in Seq(Point) /\ Len(u) >= 2 /\ TurnsLeft(u) /\ DOMAIN is = DOMAIN u
               /\ \A i \in DOMAIN u : /\ is[i] \in DOMAIN path /\ path[is[i]] = u[i]
                                     /\ ~HullContains(P \ {u[i]}, u[i])
               /\ \A i, j \in 1 .. Len(u) - 1 : i < j => u[i] # u[j]
               /\ \A p \in Point : HullContains(ToSet(u), p) <=> HullContains(P, p)
  BY <1>2, <1>4, ClosedIndexes
<1> DEFINE m == Len(u)
<1>6. m \in Nat /\ DOMAIN u = 1 .. m
  BY <1>5
<1> HIDE DEF is, m
<1>7. K \subseteq 1 .. m /\ \A k \in K : vs[is[k]] = u[k] /\ u[k] \in ToSet(vs) /\ u[k] \in Point
  BY <1>1, <1>2, <1>5, <1>6
<1>8. IsFiniteSet(K) /\ K \subseteq Int
  <2>1. IsFiniteSet(1 .. m)
    BY <1>6, FS_Interval
  <2> HIDE DEF K
  <2>2. K \subseteq Int
    BY <1>6, <1>7
  <2> QED
    BY <1>7, <2>1, <2>2, FS_Subset
<1>9. kept \in Seq(K) /\ ToSet(kept) = K /\ \A i, j \in DOMAIN kept : i < j => kept[i] < kept[j]
  <2> HIDE DEF K
  <2> QED
    BY <1>8, KeptAscends
<1> HIDE DEF kept
<1> DEFINE l == Len(kept)
<1>10. l \in Nat /\ DOMAIN kept = 1 .. l /\ \A k \in 1 .. l : kept[k] \in K
  BY <1>9
<1>11. \A k \in K : \E i \in 1 .. l : kept[i] = k
  <2> HIDE DEF K, l
  <2> QED
    BY <1>9, <1>10 DEF ToSet
<1> HIDE DEF l, r
<1>12. r \in [1 .. l -> Point] /\ \A k \in 1 .. l : r[k] = u[kept[k]]
  <2> HIDE DEF K
  <2>1. \A k \in 1 .. l : vs[is[kept[k]]] = u[kept[k]] /\ u[kept[k]] \in Point
    BY <1>7, <1>10
  <2> QED
    BY <1>3, <1>10, <2>1
<1>13. r \in Seq(Point) /\ Len(r) = l /\ DOMAIN r = 1 .. l
  <2>1. \A t \in [1 .. l -> Point] : t \in Seq(Point) /\ Len(t) = l /\ DOMAIN t = 1 .. l
    BY <1>10
  <2> QED
    BY <1>12, <2>1
<1>14. ToSet(r) = {u[k] : k \in K}
  <2> HIDE DEF K
  <2> QED
    BY <1>10, <1>11, <1>12, <1>13 DEF ToSet
<1>15. ToSet(r) \subseteq ToSet(vs)
  <2> HIDE DEF K
  <2> QED
    BY <1>7, <1>14
<1>16. ASSUME r # <<>> PROVE IsInjective(Front(r))
  <2>1. l # 0
    <3>1. Len(r) # 0
      BY <1>13, <1>16
    <3> QED
      BY <1>13, <3>1
  <2>2. Front(r) = SubSeq(r, 1, l - 1)
    BY <1>13 DEF Front
  <2>3. DOMAIN Front(r) = 1 .. l - 1 /\ \A i \in 1 .. l - 1 : Front(r)[i] = r[i]
    BY <1>10, <1>13, <2>1, <2>2
  <2>4. ASSUME NEW i \in 1 .. l - 1, NEW j \in 1 .. l - 1, i < j PROVE r[i] # r[j]
    <3>1. i \in 1 .. l /\ j \in 1 .. l /\ l \in 1 .. l /\ j < l
      BY <1>10, <2>1
    <3>2. kept[i] < kept[j] /\ kept[j] < kept[l]
      BY <1>9, <1>10, <2>4, <3>1
    <3>3. kept[i] \in 1 .. m /\ kept[j] \in 1 .. m /\ kept[l] \in 1 .. m
      <4> HIDE DEF K
      <4> QED
        BY <1>7, <1>10, <3>1
    <3>4. kept[i] \in 1 .. m - 1 /\ kept[j] \in 1 .. m - 1
      BY <1>6, <3>2, <3>3
    <3>5. u[kept[i]] # u[kept[j]]
      BY <1>5, <3>2, <3>4 DEF m
    <3> QED
      BY <1>12, <3>1, <3>5
  <2>5. \A i, j \in 1 .. l - 1 : i = j \/ i < j \/ j < i
    BY <1>10
  <2> HIDE DEF r
  <2>6. \A i, j \in 1 .. l - 1 : r[i] = r[j] => i = j
    BY <2>4, <2>5
  <2> QED
    BY <2>3, <2>6 DEF IsInjective
<1>17. ASSUME NEW p \in Point
       PROVE  (r # <<>> /\ RingContains(r, p)) <=> HullContains(ToSet(r), p)
  <2>1. CASE r = <<>>
    <3>1. ToSet(r) = {}
      BY <2>1 DEF ToSet
    <3> QED
      BY <2>1, <3>1 DEF HullContains
  <2>2. CASE r # <<>>
    <3>1. ASSUME NEW i \in 1 .. l, NEW j \in 1 .. l, NEW k \in 1 .. l, i < j, j < k
          PROVE  Cross(r[i], r[j], r[k]) >= 0
      <4>1. kept[i] < kept[j] /\ kept[j] < kept[k]
        BY <1>9, <1>10, <3>1
      <4>2. kept[i] \in 1 .. m /\ kept[j] \in 1 .. m /\ kept[k] \in 1 .. m
        <5> HIDE DEF K
        <5> QED
          BY <1>7, <1>10
      <4>3. Cross(u[kept[i]], u[kept[j]], u[kept[k]]) >= 0
        BY <1>5, <1>6, <4>1, <4>2 DEF TurnsLeft
      <4> QED
        BY <1>12, <4>3
    <3>2. Ring(r)
      BY <1>13, <2>2 DEF Ring
    <3>3. \A i, j, k \in DOMAIN r : i < j /\ j < k => Cross(r[i], r[j], r[k]) >= 0
      BY <1>13, <3>1
    <3>4. RingContains(r, p) <=> HullContains(ToSet(r), p)
      BY <3>2, <3>3, ConvexRingIsHull
    <3> QED
      BY <2>2, <3>4
  <2> QED
    BY <2>1, <2>2
<1>18. ASSUME HullContains(P \ {last}, last), NEW p \in Point
       PROVE  HullContains(ToSet(r), p) <=> HullContains(P, p)
  <2>1. \A k \in 1 .. m : is[k] \in DOMAIN vs
    <3> SUFFICES ASSUME NEW k \in 1 .. m, is[k] \notin DOMAIN vs PROVE FALSE
      OBVIOUS
    <3>1. is[k] = n + 1
      <4>1. is[k] \in 1 .. n + 1 /\ is[k] \notin 1 .. n
        BY <1>1, <1>2, <1>5, <1>6
      <4> QED
        BY <1>1, <4>1
    <3>2. u[k] = last
      BY <1>2, <1>5, <1>6, <3>1
    <3> QED
      BY <1>5, <1>6, <1>18, <3>2
  <2>2. K = 1 .. m
    BY <1>5, <1>6, <2>1
  <2>3. ToSet(u) = {u[k] : k \in 1 .. m}
    BY <1>6 DEF ToSet
  <2>4. ToSet(r) = ToSet(u)
    <3> HIDE DEF K
    <3> QED
      BY <1>14, <2>2, <2>3
  <2> QED
    BY <1>5, <2>4
<1> QED
  BY <1>13, <1>15, <1>16, <1>17, <1>18 DEF r, P

(* What PostedCoversDrawing says of a drawing, its last point and what is  *)
(* posted for them.                                                        *)
Covers(vs, p, r) ==
  LET drawn == ToSet(vs) \cup {p}
      Covered == {x \in Points : r # <<>> /\ RingContains(r, x)}
      Inside(P) == {x \in Points : HullContains(P, x)}
  IN  /\ ToSet(r) \subseteq ToSet(vs)
      /\ r # <<>> => IsInjective(Front(r))
      /\ Covered = Inside(ToSet(r))
      /\ HullContains(drawn \ {p}, p) => Covered = Inside(drawn)

LEMMA FiguresCover ==
  ASSUME NEW vs \in Seq(Points), NEW p \in Points
  PROVE  Covers(vs, p, Figures(vs, p))
<1>1. vs \in Seq(Point) /\ p \in Point /\ Points \subseteq Point
  BY MapAssumption DEF Point
<1> DEFINE r == Figures(vs, p)
           drawn == ToSet(vs) \cup {p}
<1>2. /\ r \in Seq(Point) /\ ToSet(r) \subseteq ToSet(vs)
      /\ r # <<>> => IsInjective(Front(r))
      /\ \A x \in Point : (r # <<>> /\ RingContains(r, x)) <=> HullContains(ToSet(r), x)
      /\ HullContains(drawn \ {p}, p)
           => \A x \in Point : HullContains(ToSet(r), x) <=> HullContains(drawn, x)
  BY <1>1, FiguresAre
<1> HIDE DEF r, drawn
<1>3. {x \in Points : r # <<>> /\ RingContains(r, x)} = {x \in Points : HullContains(ToSet(r), x)}
  BY <1>1, <1>2
<1>4. HullContains(drawn \ {p}, p)
        => {x \in Points : r # <<>> /\ RingContains(r, x)} = {x \in Points : HullContains(drawn, x)}
  BY <1>1, <1>2
<1> QED
  BY <1>2, <1>3, <1>4 DEF Covers, r, drawn

(* The polygon posted is the hull of its corners, and of the drawing when  *)
(* the last point is none of them.                                         *)
THEOREM PostedIsHull == MapSpec => PostedCoversDrawing
<1>1. ASSUME MapInv, NEW p \in Points, mode = "nazotte", button = "map", MouseUp(p)
      PROVE  Covers(vertexes, p, vertexes')
  <2>1. vertexes \in Seq(Points)
    BY <1>1 DEF MapInv, MapTypeOK, Pressed
  <2>2. vertexes' = Figures(vertexes, p)
    BY <1>1 DEF MouseUp
  <2> QED
    BY <2>1, <2>2, FiguresCover
<1>2. MapInv /\ [MapNext]_mapVars
        => [\A p \in Points : (mode = "nazotte" /\ button = "map" /\ MouseUp(p))
              => Covers(vertexes, p, vertexes')]_mapVars
  BY <1>1
<1>3. PostedCoversDrawing
        <=> [][\A p \in Points : (mode = "nazotte" /\ button = "map" /\ MouseUp(p))
                => Covers(vertexes, p, vertexes')]_mapVars
  BY DEF PostedCoversDrawing, Covers
<1> QED
  BY <1>2, <1>3, MapCorrect, PTL DEF MapSpec
-----------------------------------------------------------------------------
(* Side by side, the search page and the map keep their types.             *)
THEOREM BrowserTypes == MCSpec => []BrowserTypeOK
<1>1. MCInit => PageInv /\ MapInv
  BY PageStart, MapStart DEF MCInit
<1>2. PageInv /\ MapInv /\ [MCNext]_<<pageVars, mapVars, part>> => (PageInv /\ MapInv)'
  <2>1. [MCNext]_<<pageVars, mapVars, part>> => [PageNext]_pageVars /\ [MapNext]_mapVars
    BY DEF MCNext
  <2> QED
    BY <2>1, PageStep, MapStep
<1>3. PageInv /\ MapInv => BrowserTypeOK
  BY DEF PageInv, MapInv, BrowserTypeOK
<1> QED
  BY <1>1, <1>2, <1>3, PTL DEF MCSpec
=============================================================================
