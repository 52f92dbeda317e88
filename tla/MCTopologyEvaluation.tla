------------------------- MODULE MCTopologyEvaluation --------------------------
(***************************************************************************)
(* The topology stage on the integer plane.  Axes are vectors of length 5, *)
(* so that a frame can be turned by an angle that is not a right one, and  *)
(* local coordinates are multiplied by 25.                                 *)
(***************************************************************************)
EXTENDS TopologyEvaluation, Integers

East == [x |-> <<5, 0>>, y |-> <<0, 5>>]
North == [x |-> <<0, 5>>, y |-> <<-5, 0>>]
Tilted == [x |-> <<3, 4>>, y |-> <<-4, 3>>]
Mirrored == [x |-> <<5, 0>>, y |-> <<0, -5>>]

MCAxes == {East, North, Tilted, Mirrored}
MCRigidAxes == {East, North, Tilted}
MCBoxAxes == {East, North, Mirrored}

Minus(v, w) == <<v[1] - w[1], v[2] - w[2]>>
Dot(v, w) == v[1] * w[1] + v[2] * w[2]

MCLocal(g, p) ==
    [i \in DOMAIN g |-> <<Dot(Minus(g[i], p.origin), p.axes.x), Dot(Minus(g[i], p.origin), p.axes.y)>>]

MCWorld(l, p) ==
    [i \in DOMAIN l |->
        <<p.origin[1] + (l[i][1] * p.axes.x[1] + l[i][2] * p.axes.y[1]) \div 25,
          p.origin[2] + (l[i][1] * p.axes.x[2] + l[i][2] * p.axes.y[2]) \div 25>>]

MCShift(g, from, to) ==
    [i \in DOMAIN g |-> <<g[i][1] + to[1] - from[1], g[i][2] + to[2] - from[2]>>]

MCFirstPoint(g) == g[1]

\* The kernel cuts the last point off a cut part.
MCSolid(r, g) == IF r = "cut" THEN SubSeq(g, 1, 2) ELSE g

\* Far from the origin floats are apart further than the points of a part.
Limit == 100
IsNear(g) == \A i \in DOMAIN g : g[i][1] < Limit /\ g[i][2] < Limit
Coarse(n) == (n \div Limit) * Limit
MCFloat(g) ==
    IF IsNear(g) THEN g ELSE [i \in DOMAIN g |-> <<Coarse(g[i][1]), Coarse(g[i][2])>>]

Triangle == <<<<0, 0>>, <<25, 0>>, <<25, 50>>>>

Place(x, y, axes) == [origin |-> <<x, y>>, axes |-> axes]
Placed == {Place(0, 0, East), Place(20, 10, East), Place(7, 7, North), Place(10, 0, Tilted),
           Place(1030, 40, East)}
Solids(g) == {g, SubSeq(g, 1, 2)}

MCGeometries == UNION {Solids(MCWorld(Triangle, p)) : p \in Placed}
MCNear == {g \in MCGeometries : IsNear(g)}
MCOrigins == {p.origin : p \in Placed} \cup {g[1] : g \in MCGeometries}

Asked(object, recipe, p) ==
    [object |-> object, recipe |-> recipe, geometry |-> MCWorld(Triangle, p)]

Part(object, recipe, p, frame) ==
    [object |-> object, placement |-> frame,
     planned |-> "request", analytic |-> Asked(object, recipe, p),
     replanned |-> TRUE, faceted |-> Asked(object, "plain", p)]

MCParts ==
    {Part(1, "cut", Place(0, 0, East), Place(0, 0, East)),
     Part(2, "cut", Place(20, 10, East), Place(20, 10, East)),
     Part(3, "boxed", Place(7, 7, North), Place(7, 7, North)),
     Part(4, "cut", Place(10, 0, Tilted), Place(10, 0, Tilted)),
     Part(5, "cut", Place(1030, 40, East), Place(1030, 40, East)),
     Part(6, "cut", Place(20, 10, East), Place(0, 0, Mirrored)),
     Part(7, "boxed", Place(10, 0, Tilted), Place(10, 0, Tilted)),
     [Part(8, "plain", Place(0, 0, East), Place(0, 0, East)) EXCEPT !.replanned = FALSE],
     [Part(9, "plain", Place(0, 0, East), Place(0, 0, East)) EXCEPT !.planned = "nothing"],
     [Part(9, "plain", Place(0, 0, East), Place(0, 0, East)) EXCEPT !.planned = "refused"]}

MCPartLists == [1..3 -> MCParts]
MCSize(k) == Len(k.geometry)
MCBytes == 8
=============================================================================
