---------------------------- MODULE ImportedShapes ----------------------------
(* decode_shape of shape.cpp from the point where a Polymesh has been read: its   *)
(* vertices and its faces, an outer loop each and the loops of its holes.  Every  *)
(* face is laid into a plane, its holes are joined to its outer loop by bridges,  *)
(* and the cycle that results is clipped.  Coordinates are even, so that the      *)
(* middle of a bridge is a pair of whole numbers.                                 *)
EXTENDS ContourClipping

VARIABLES
    shape,      \* what was read: [vertices, faces], a face [outer, holes]
    face,       \* the face at work
    holes,      \* its holes, turned clockwise
    unbridged,  \* those of them that are not joined to the ring yet
    bridges,    \* the bridges so far
    turned,     \* its outer loop ran clockwise in the plane
    indices,    \* the triangles of the faces before
    decoding    \* "no", "faces", "bridging", "done" or "failed"

faceVars == <<holes, unbridged, bridges, turned>>
shapeVars == <<shape, face, holes, unbridged, bridges, turned, indices, decoding>>

\* Newell's normal of a loop of vertices in space.
Normal(vertices, cycle) ==
    LET sum(i, j) == MapThenSumSet(LAMBDA k : LET p == vertices[cycle[k]]
                                                 q == vertices[Following(cycle, k)]
                                             IN  (p[i] - q[i]) * (p[j] + q[j]),
                                   DOMAIN cycle)
    IN  <<sum(2, 3), sum(3, 1), sum(1, 2)>>

\* The axis to leave out: the first of those along which the normal is longest.
Steepest(normal) ==
    CHOOSE i \in 1 .. 3 : /\ \A j \in 1 .. 3 : Magnitude(normal[i]) >= Magnitude(normal[j])
                          /\ \A j \in 1 .. i - 1 : Magnitude(normal[j]) < Magnitude(normal[i])

Projected(vertices, axis) ==
    [v \in DOMAIN vertices |->
        CASE axis = 1 -> <<vertices[v][2], vertices[v][3]>>
          [] axis = 2 -> <<vertices[v][1], vertices[v][3]>>
          [] axis = 3 -> <<vertices[v][1], vertices[v][2]>>]

Clockwise(plane, cycle) == IF TwiceArea(plane, cycle) > 0 THEN Reverse(cycle) ELSE cycle

ValidLoop(cycle) == Len(cycle) >= 3 /\ Range(cycle) \subseteq DOMAIN shape.vertices

FailShape == decoding' = "failed" /\ UNCHANGED <<shape, face, faceVars, indices, clipVars>>

\* The loops of a face are read, its plane is chosen and its loops are turned.
ReadFace ==
    /\ decoding = "faces" /\ face <= Len(shape.faces)
    /\ LET f == shape.faces[face]
           normal == Normal(shape.vertices, f.outer)
           plane == Projected(shape.vertices, Steepest(normal))
           loops == {f.holes[h] : h \in DOMAIN f.holes}
       IN  IF \E l \in loops \cup {f.outer} : ~ValidLoop(l)
           THEN FailShape
           ELSE IF normal = <<0, 0, 0>>
           THEN FailShape
           ELSE /\ at' = plane
                /\ ring' = Counterclockwise(plane, f.outer)
                /\ turned' = (TwiceArea(plane, f.outer) < 0)
                /\ holes' = {Clockwise(plane, l) : l \in loops}
                /\ unbridged' = holes'
                /\ bridges' = {}
                /\ decoding' = "bridging"
                /\ UNCHANGED <<shape, face, indices, triangles, clipping>>
-----------------------------------------------------------------------------
Rightmost(hole) == Max({at[v][1] : v \in Range(hole)})

\* Where a hole is opened: its rightmost vertex, the lowest of several.
Opening(hole) ==
    CHOOSE k \in DOMAIN hole :
        \A j \in DOMAIN hole :
            \/ at[hole[k]][1] > at[hole[j]][1]
            \/ at[hole[k]][1] = at[hole[j]][1] /\ at[hole[k]][2] <= at[hole[j]][2]

EdgesOf(cycle) == {<<cycle[k], Following(cycle, k)>> : k \in DOMAIN cycle}
Boundaries ==
    LET outer == Counterclockwise(at, shape.faces[face].outer)
    IN  UNION {EdgesOf(cycle) : cycle \in holes \cup {outer}}

\* The places of the ring that can be seen from a vertex of a hole.
Visible(v) ==
    {k \in DOMAIN ring :
        LET o == ring[k]
            middle == <<(at[v][1] + at[o][1]) \div 2, (at[v][2] + at[o][2]) \div 2>>
        IN  /\ at[v] # at[o]
            /\ InsidePolygon(middle, at, ring)
            /\ \A hole \in holes : ~InsidePolygon(middle, at, hole)
            /\ \A e \in Boundaries : {v, o} \cap {e[1], e[2]} = {} =>
                                        ~Intersects(at[v], at[o], at[e[1]], at[e[2]])
            /\ \A b \in bridges : ~Intersects(at[v], at[o], at[b[1]], at[b[2]])}

Distance(v, o) ==
    (at[v][1] - at[o][1]) * (at[v][1] - at[o][1]) + (at[v][2] - at[o][2]) * (at[v][2] - at[o][2])

Nearest(v) ==
    LET near == {k \in Visible(v) : \A j \in Visible(v) : Distance(v, ring[k]) <= Distance(v, ring[j])}
    IN  Least(near)

\* The ring goes over the bridge, around the hole and back.
Spliced(k, hole, opening) ==
    LET around == SubSeq(hole, opening, Len(hole)) \o SubSeq(hole, 1, opening - 1)
    IN  SubSeq(ring, 1, k) \o around \o <<hole[opening], ring[k]>> \o SubSeq(ring, k + 1, Len(ring))

\* Holes are taken from the right to the left; the order of equals is the sort's.
BridgeHole ==
    /\ decoding = "bridging" /\ unbridged # {}
    /\ \E hole \in unbridged :
          LET v == hole[Opening(hole)] IN
          /\ \A other \in unbridged : Rightmost(hole) >= Rightmost(other)
          /\ IF Visible(v) = {} THEN FailShape
             ELSE /\ ring' = Spliced(Nearest(v), hole, Opening(hole))
                  /\ bridges' = bridges \cup {<<v, ring[Nearest(v)]>>}
                  /\ unbridged' = unbridged \ {hole}
                  /\ UNCHANGED <<shape, face, holes, turned, indices, decoding, at, triangles,
                                 clipping>>

StartFace ==
    /\ decoding = "bridging" /\ unbridged = {} /\ clipping = "idle"
    /\ triangles' = <<>>
    /\ clipping' = "face"
    /\ UNCHANGED <<shapeVars, at, ring>>

\* A face that was turned for the clipping is turned back.
Facing(t) == IF turned THEN <<t[1], t[3], t[2]>> ELSE t

FaceDone ==
    /\ decoding = "bridging" /\ clipping = "clipped"
    /\ indices' = indices \o [i \in DOMAIN triangles |-> Facing(triangles[i])]
    /\ face' = face + 1
    /\ decoding' = "faces"
    /\ clipping' = "idle"
    /\ UNCHANGED <<shape, faceVars, at, ring, triangles>>

FaceStuck == decoding = "bridging" /\ clipping = "stuck" /\ FailShape

ShapeRead ==
    /\ decoding = "faces" /\ face > Len(shape.faces)
    /\ decoding' = IF indices = <<>> THEN "failed" ELSE "done"
    /\ UNCHANGED <<shape, face, faceVars, indices, clipVars>>

DecodeShape ==
    \/ ReadFace \/ BridgeHole \/ StartFace \/ FaceDone \/ FaceStuck \/ ShapeRead
    \/ (decoding = "bridging" /\ Clip /\ UNCHANGED shapeVars)
=============================================================================
