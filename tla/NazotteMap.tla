------------------------------ MODULE NazotteMap ------------------------------
(***************************************************************************)
(* The map on which a visitor draws a polygon and gets the estates in it.  *)
(* The mouse may be released outside the map, and the fetch that ends a    *)
(* drawing does not stop the visitor from beginning another: its answer    *)
(* switches the mode whenever it comes.                                    *)
(***************************************************************************)
EXTENDS Polygon

CONSTANTS
  Points,       \* the points of the map: mouse positions and estates
  NazotteLimit, \* NazotteLimit of main.go, 50
  MaxPath,      \* bound on the points of a drawing
  MaxPosts      \* bound on the requests of a visit

ASSUME MapAssumption ==
  /\ Points \subseteq Int \X Int
  /\ NazotteLimit \in Nat /\ MaxPath \in Nat \ {0} /\ MaxPosts \in Nat

VARIABLES
  mode,       \* "drag" or "nazotte"
  vertexes,   \* the drawing, then the polygon posted for it
  isDragging, \* drawn as a line (TRUE) or as a polygon
  markers,    \* resultEstates: [ring, found], ring <<>> for none
  button,     \* the mouse button: "up", or where it was pressed
  posts,      \* the requests outstanding: [n, ring]
  posted,     \* the number of requests made
  astray      \* history: since the last drawing was begun, or the newest
              \* request answered, the map missed a press or a release, or
              \* got the answer to an older drawing

mapVars == <<mode, vertexes, isDragging, markers, button, posts, posted, astray>>

NoMarkers == [ring |-> <<>>, found |-> {}]
-----------------------------------------------------------------------------
(* The elements of S, each behind those that come before it: SetToSortSeq, *)
(* said so that proofs can expand it.                                      *)
InOrder(S, Before(_, _)) ==
  [k \in 1 .. Cardinality(S) |->
     CHOOSE x \in S : Cardinality({y \in S : Before(y, x)}) = k - 1]

(* The monotone-convex-hull-2d package: the corners from the smallest on.  *)
(* Of equal points it takes the last index, of the smallest point the      *)
(* first.                                                                  *)
LexLess(a, b) == a[1] < b[1] \/ (a[1] = b[1] /\ a[2] < b[2])
ConvexHull(path) ==
  LET sorted == InOrder(ToSet(path), LexLess)
      corners == IF Len(sorted) = 1 THEN sorted ELSE HullOf(sorted)
      IndexOf(c) ==
        LET is == {i \in DOMAIN path : path[i] = c}
        IN  IF c = sorted[1] THEN Min(is) ELSE Max(is)
  IN  [k \in DOMAIN corners |-> IndexOf(corners[k])]

(* figures: the indexes are of the path with its last point, the vertexes  *)
(* are without it, and what is undefined is filtered out.                  *)
Defined(vs, is) ==
  LET kept == InOrder({k \in DOMAIN is : is[k] \in DOMAIN vs}, LAMBDA i, j : i < j)
  IN  [k \in DOMAIN kept |-> vs[is[kept[k]]]]
(* Mutant: the first index is left out. *)
FiguresOpen(vs, last) == Defined(vs, Tail(ConvexHull(Append(vs, last))))
Figures(vs, last) ==
  LET hull == ConvexHull(Append(vs, last))
  IN  Defined(vs, Append(hull, hull[1]))

MapInit ==
  /\ mode = "drag" /\ vertexes = <<>> /\ isDragging = FALSE
  /\ markers = NoMarkers /\ button = "up"
  /\ posts = {} /\ posted = 0 /\ astray = FALSE

(* onNazotteStart.                                                         *)
(* Mutant: the markers of the polygon before are kept. *)
MouseDownKeeping(p) ==
  /\ button = "up" /\ button' = "map"
  /\ IF mode = "nazotte"
       THEN /\ vertexes' = <<p>> /\ isDragging' = TRUE
            /\ astray' = FALSE /\ UNCHANGED markers
       ELSE UNCHANGED <<vertexes, isDragging, markers, astray>>
  /\ UNCHANGED <<mode, posts, posted>>
MouseDown(p) ==
  /\ button = "up" /\ button' = "map"
  /\ IF mode = "nazotte"
       THEN /\ vertexes' = <<p>> /\ isDragging' = TRUE
            /\ markers' = NoMarkers
            /\ astray' = FALSE
       ELSE UNCHANGED <<vertexes, isDragging, markers, astray>>
  /\ UNCHANGED <<mode, posts, posted>>

(* onNazotte, with the button pressed or not.                              *)
MouseMove(p) ==
  /\ mode = "nazotte" /\ isDragging
  /\ Len(vertexes) < MaxPath
  /\ vertexes' = Append(vertexes, p)
  /\ UNCHANGED <<mode, isDragging, markers, button, posts, posted, astray>>

(* onNazotteEnd.                                                           *)
MouseUp(p) ==
  /\ button # "up" /\ button' = "up"
  /\ IF mode = "nazotte"
       THEN /\ posted < MaxPosts /\ posted' = posted + 1
            /\ vertexes' = Figures(vertexes, p)
            /\ isDragging' = FALSE
            /\ posts' = posts \cup {[n |-> posted', ring |-> vertexes']}
            /\ astray' = (astray \/ (button = "outside" /\ markers # NoMarkers))
       ELSE UNCHANGED <<vertexes, isDragging, posts, posted, astray>>
  /\ UNCHANGED <<mode, markers>>

(* The button goes down or up where the map does not see it.               *)
PressOutside ==
  /\ button = "up" /\ button' = "outside"
  /\ UNCHANGED <<mode, vertexes, isDragging, markers, posts, posted, astray>>
ReleaseOutside ==
  /\ button # "up" /\ button' = "up"
  /\ astray' = (astray \/ isDragging)
  /\ UNCHANGED <<mode, vertexes, isDragging, markers, posts, posted>>

(* onFabClick.                                                             *)
FabClick ==
  /\ button = "up"
  /\ mode' = IF mode = "drag" THEN "nazotte" ELSE "drag"
  /\ UNCHANGED <<vertexes, isDragging, markers, button, posts, posted, astray>>

(* searchEstateNazotte refuses a ring without points, and of the estates   *)
(* in the ring answers with NazotteLimit at most; the answer ends the mode.*)
(* A failure changes nothing.                                              *)
PointsIn(ring) == {p \in Points : RingContains(ring, p)}
FetchDone(r) ==
  /\ r \in posts /\ posts' = posts \ {r}
  /\ r.ring # <<>>
  /\ \E found \in SUBSET PointsIn(r.ring) :
       /\ Cardinality(found) <= NazotteLimit
       /\ found = PointsIn(r.ring) \/ Cardinality(found) = NazotteLimit
       /\ markers' = [ring |-> r.ring, found |-> found]
  /\ mode' = "drag"
  /\ astray' = (r.n # posted \/ isDragging)
  /\ UNCHANGED <<vertexes, isDragging, button, posted>>
FetchFailed(r) ==
  /\ r \in posts /\ posts' = posts \ {r}
  /\ UNCHANGED <<mode, vertexes, isDragging, markers, button, posted, astray>>

MapNext ==
  \/ \E p \in Points : MouseDown(p) \/ MouseMove(p) \/ MouseUp(p)
  \/ PressOutside \/ ReleaseOutside \/ FabClick
  \/ \E r \in posts : FetchDone(r) \/ FetchFailed(r)

MapSpec == MapInit /\ [][MapNext]_mapVars
-----------------------------------------------------------------------------
(* The variables have their types; a drawing is a path on the map; and the *)
(* requests outstanding were numbered as they were made.                   *)
MapTypeOK ==
  /\ mode \in {"drag", "nazotte"} /\ button \in {"up", "map", "outside"}
  /\ isDragging \in BOOLEAN /\ astray \in BOOLEAN
  /\ isDragging => vertexes \in Seq(Points) /\ Len(vertexes) \in 1 .. MaxPath
  /\ posted \in 0 .. MaxPosts
  /\ \A r \in posts : r.n \in 1 .. posted
  /\ \A r, s \in posts : r.n = s.n => r = s
  /\ markers.found \subseteq Points

(* The map draws only while its button is pressed, and the estates it     *)
(* shows are those in the polygon it shows, the border included: all of    *)
(* them, or as many as the server answers.  Only an answer to an older     *)
(* drawing, or a button that goes down or up outside, makes it lie, and    *)
(* only until the newest request is answered or the next drawing begun.    *)
MapIsTrueUnlessAstray ==
  ~astray =>
    /\ isDragging => button = "map" /\ mode = "nazotte"
    /\ markers # NoMarkers
         => /\ markers.ring = vertexes /\ markers.found \subseteq PointsIn(vertexes)
            /\ \/ markers.found = PointsIn(vertexes)
               \/ Cardinality(markers.found) = NazotteLimit

(* A drawing made on the map is posted as a polygon of its points, none    *)
(* twice but the last: it is the convex hull of them, covers no more than  *)
(* the drawing, and all of it when its last point is no corner.            *)
PostedCoversDrawing ==
  [][\A p \in Points : (mode = "nazotte" /\ button = "map" /\ MouseUp(p))
       => LET drawn == ToSet(vertexes) \cup {p}
              Covered == {x \in Points : vertexes' # <<>> /\ RingContains(vertexes', x)}
              Inside(P) == {x \in Points : HullContains(P, x)}
          IN  /\ ToSet(vertexes') \subseteq ToSet(vertexes)
              /\ vertexes' # <<>> => IsInjective(Front(vertexes'))
              /\ Covered = Inside(ToSet(vertexes'))
              /\ HullContains(drawn \ {p}, p) => Covered = Inside(drawn)]_mapVars
=============================================================================
