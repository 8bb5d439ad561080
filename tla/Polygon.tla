------------------------------- MODULE Polygon -------------------------------
(***************************************************************************)
(* The geometry of the drawn polygons on an integer grid: the bounding box *)
(* and the ring of searchEstateNazotte, the point-in-ring test of the orb  *)
(* library it calls, and convexHull of the verification data.  A point is  *)
(* <<latitude, longitude>>, a ring a sequence of points.                   *)
(***************************************************************************)
EXTENDS Integers, FiniteSetsExt, SequencesExt

(* Twice the signed area of the triangle a, b, c.                          *)
Cross(a, b, c) == (b[1] - a[1]) * (c[2] - a[2]) - (b[2] - a[2]) * (c[1] - a[1])
Ccw(a, b, c) == Cross(a, b, c) > 0

(* The smallest box around the points of a ring.                           *)
BoundingBox(ring) ==
  LET P == ToSet(ring)
  IN  [low |-> <<Min({p[1] : p \in P}), Min({p[2] : p \in P})>>,
       high |-> <<Max({p[1] : p \in P}), Max({p[2] : p \in P})>>]
InBox(box, p) == \A d \in 1 .. 2 : box.low[d] <= p[d] /\ p[d] <= box.high[d]

(* planar.RingContains: the border is inside, and a ring whose last point  *)
(* is not its first is closed by one more edge.                            *)
(* Mutant: it is not closed. *)
EdgesOpen(ring) == {<<i, i + 1>> : i \in 1 .. Len(ring) - 1}
Edges(ring) == {<<i, (i % Len(ring)) + 1>> : i \in DOMAIN ring}
OnEdge(a, b, p) == Cross(a, b, p) = 0 /\ InBox(BoundingBox(<<a, b>>), p)
Crosses(a, b, p) ==
  \/ a[1] <= p[1] /\ p[1] < b[1] /\ Cross(a, b, p) < 0
  \/ b[1] <= p[1] /\ p[1] < a[1] /\ Cross(b, a, p) < 0
RingContains(ring, p) ==
  \/ \E e \in Edges(ring) : OnEdge(ring[e[1]], ring[e[2]], p)
  \/ Cardinality({e \in Edges(ring) : Crosses(ring[e[1]], ring[e[2]], p)}) % 2 = 1

(* The convex hull by definition: a point is in it when it is in a         *)
(* triangle of three of the points.                                        *)
InTriangle(a, b, c, p) ==
  LET s == {Cross(a, b, p), Cross(b, c, p), Cross(c, a, p)}
  IN  /\ (\A x \in s : x >= 0) \/ (\A x \in s : x <= 0)
      /\ InBox(BoundingBox(<<a, b, c>>), p)
HullContains(P, p) == \E a, b, c \in P : InTriangle(a, b, c, p)

(* convexHull: the points in the order of sort.Slice, then the lower and   *)
(* the upper chain, each popping the points that do not turn left.         *)
Less(a, b) == IF a[1] = b[1] THEN a[2] < a[2] ELSE a[1] < b[1]
SortedAs(P) ==
  {s \in SetToSeqs(P) : \A i, j \in DOMAIN s : i < j => ~Less(s[j], s[i])}
Pop(h, t, pt) ==
  SubSeq(h, 1, Max({k \in 0 .. Len(h) : k < t \/ Ccw(h[k - 1], h[k], pt)}))
Chain(h, t, pts) ==
  LET c[k \in 0 .. Len(pts)] ==
        IF k = 0 THEN h ELSE Append(Pop(c[k - 1], t, pts[k]), pts[k])
  IN  c[Len(pts)]
(* Mutant: the upper chain is left out. *)
HullOfLower(s) == Chain(<<>>, 2, s)
HullOf(s) ==
  LET lower == Chain(<<>>, 2, s)
  IN  Front(Chain(lower, Len(lower) + 1, Tail(Reverse(s))))
=============================================================================
