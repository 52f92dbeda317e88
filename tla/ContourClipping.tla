--------------------------- MODULE ContourClipping ---------------------------
(* How flat contours become triangles (geometry.cpp, nonpart_geometry.cpp and     *)
(* shape.cpp: three ear clippings): ears are cut off the contour one by one, each *)
(* step the first that can be found.  The contour is a cycle of vertices, the     *)
(* points of the plane are pairs of whole numbers, so that signs are exact and    *)
(* the tolerances of the code are zero.                                           *)
EXTENDS Integers, Sequences, FiniteSets, SequencesExt, FiniteSetsExt

VARIABLES
    at,         \* the plane: the point of every vertex
    ring,       \* the vertices that remain, in order
    triangles,  \* the triangles cut off so far
    clipping    \* the rule in use; "idle", "clipped" or "stuck" between contours

clipVars == <<at, ring, triangles, clipping>>

Magnitude(x) == IF x < 0 THEN -x ELSE x

Following(cycle, k) == cycle[IF k = Len(cycle) THEN 1 ELSE k + 1]
Previous(cycle, k) == cycle[IF k = 1 THEN Len(cycle) ELSE k - 1]
Corner(cycle, k) == <<Previous(cycle, k), cycle[k], Following(cycle, k)>>

\* Twice the area of a triangle of points, positive when they turn to the left.
Cross2(a, b, c) == (b[1] - a[1]) * (c[2] - a[2]) - (b[2] - a[2]) * (c[1] - a[1])
Turn(plane, t) == Cross2(plane[t[1]], plane[t[2]], plane[t[3]])

\* The same product as make_surface_treatment_mesh forms it, from the two edges.
EdgeCross(a, b, c) == (b[1] - a[1]) * (c[2] - b[2]) - (b[2] - a[2]) * (c[1] - b[1])

\* Twice the area inside a cycle of vertices, negative when it runs clockwise.
TwiceArea(plane, cycle) ==
    MapThenSumSet(LAMBDA k : LET p == plane[cycle[k]]
                                 q == plane[Following(cycle, k)]
                             IN  p[1] * q[2] - q[1] * p[2],
                  DOMAIN cycle)

PointInTriangle(p, a, b, c) == Cross2(a, b, p) >= 0 /\ Cross2(b, c, p) >= 0 /\ Cross2(c, a, p) >= 0
Holds(plane, t, v) == PointInTriangle(plane[v], plane[t[1]], plane[t[2]], plane[t[3]])

Counterclockwise(plane, cycle) == IF TwiceArea(plane, cycle) < 0 THEN Reverse(cycle) ELSE cycle
-----------------------------------------------------------------------------
(* Faces of imported shapes: their cycle may meet itself along bridges. *)

OnSegment(a, b, p) ==
    /\ Cross2(a, b, p) = 0
    /\ \A i \in 1 .. 2 : /\ p[i] >= IF a[i] < b[i] THEN a[i] ELSE b[i]
                         /\ p[i] <= IF a[i] < b[i] THEN b[i] ELSE a[i]

Intersects(a, b, c, d) ==
    \/ /\ Cross2(a, b, c) * Cross2(a, b, d) < 0
       /\ Cross2(c, d, a) * Cross2(c, d, b) < 0
    \/ OnSegment(a, b, c) \/ OnSegment(a, b, d) \/ OnSegment(c, d, a) \/ OnSegment(c, d, b)

\* A ray to the right of the point passes an odd number of edges.
InsidePolygon(p, plane, cycle) ==
    LET passed == {k \in DOMAIN cycle :
                      LET a == plane[cycle[k]]
                          b == plane[Previous(cycle, k)]
                          rise == b[2] - a[2]
                          over == (b[1] - a[1]) * (p[2] - a[2]) - (p[1] - a[1]) * rise
                      IN  /\ (a[2] > p[2]) # (b[2] > p[2])
                          /\ IF rise > 0 THEN over > 0 ELSE over < 0}
    IN  Cardinality(passed) % 2 = 1

\* Wrong: a corner counts as an ear although the contour comes back into it.
ConvexCorners == {k \in DOMAIN ring : Turn(at, Corner(ring, k)) > 0}

SectionEars ==
    {k \in DOMAIN ring :
        LET t == Corner(ring, k) IN
        /\ Turn(at, t) > 0
        /\ \A v \in Range(ring) \ Range(t) : ~Holds(at, t, v)}

SurfaceEars ==
    {k \in DOMAIN ring :
        LET t == Corner(ring, k) IN
        /\ EdgeCross(at[t[1]], at[t[2]], at[t[3]]) > 0
        /\ \A v \in Range(ring) \ Range(t) : ~Holds(at, t, v)}

\* The new edge of the ear crosses nothing, and whatever lies in the ear is one
\* of its corners, under whatever number.
FaceEars ==
    {k \in DOMAIN ring :
        LET t == Corner(ring, k)
            corners == {at[t[1]], at[t[2]], at[t[3]]}
        IN  /\ Turn(at, t) > 0
            /\ \A e \in DOMAIN ring :
                  {ring[e], Following(ring, e)} \cap {t[1], t[3]} = {} =>
                      ~Intersects(at[t[1]], at[t[3]], at[ring[e]], at[Following(ring, e)])
            /\ \A v \in Range(ring) : at[v] \notin corners => ~Holds(at, t, v)}

Ears == CASE clipping = "section" -> SectionEars
          [] clipping = "surface" -> SurfaceEars
          [] clipping = "face"    -> FaceEars

Straight == {k \in DOMAIN ring : Turn(at, Corner(ring, k)) = 0}
Least(S) == CHOOSE k \in S : \A j \in S : k <= j

Clipping == clipping \in {"section", "surface", "face"}

\* triangulate and triangulate_polygon up to their loop.
StartClipping(plane, cycle, rule) ==
    /\ at' = plane
    /\ ring' = Counterclockwise(plane, cycle)
    /\ triangles' = <<>>
    /\ clipping' = IF Len(cycle) < 3 THEN "stuck" ELSE rule

ClipEar ==
    /\ Clipping /\ Len(ring) > 3 /\ Ears # {}
    /\ triangles' = Append(triangles, Corner(ring, Least(Ears)))
    /\ ring' = RemoveAt(ring, Least(Ears))
    /\ UNCHANGED <<at, clipping>>

\* A face without an ear loses a vertex its neighbours are in line with.
DropStraight ==
    /\ clipping = "face" /\ Len(ring) > 3 /\ Ears = {} /\ Straight # {}
    /\ ring' = RemoveAt(ring, Least(Straight))
    /\ UNCHANGED <<at, triangles, clipping>>

NoEar ==
    /\ Clipping /\ Len(ring) > 3 /\ Ears = {}
    /\ clipping = "face" => Straight = {}
    /\ clipping' = "stuck"
    /\ UNCHANGED <<at, ring, triangles>>

\* The last triangle of a section is taken as it is, that of a face if it has an area.
LastTriangle ==
    /\ Clipping /\ Len(ring) = 3
    /\ triangles' = IF clipping = "face" /\ Turn(at, ring) = 0 THEN triangles
                    ELSE Append(triangles, ring)
    /\ clipping' = "clipped"
    /\ UNCHANGED <<at, ring>>

Clip == ClipEar \/ DropStraight \/ NoEar \/ LastTriangle
=============================================================================
