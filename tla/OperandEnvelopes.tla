--------------------------- MODULE OperandEnvelopes ---------------------------
(* What the operations of a host cut with (geometry.cpp: expand_tangent_cutter,    *)
(* prism_recipe_from_mesh and edge_chamfer_cutter).  Cutters that share a plane    *)
(* with a face of their host are moved past it before the request is made.  The    *)
(* frame is the host's, cutters lie along its axes and their contours run along    *)
(* their own: lengths are whole, the small ones in their order of size.            *)
EXTENDS MeshConstruction

CONSTANTS
    Jobs,        \* hosts with their cutters and chamfers
    Tolerance,   \* what counts as on a plane
    Crossing,    \* how far a cutter across an end of its host is widened; also one
                 \* of several alike that goes through
    Touching,    \* how far any other is moved past a face
    Overrun      \* how far the chamfer of a plate reaches past the edge

ASSUME EnvelopeAssumption ==
    /\ Tolerance \in Nat /\ Crossing \in Nat /\ Touching \in Nat \ {0} /\ Overrun \in Nat \ {0}
    /\ Touching < Crossing /\ Crossing < Tolerance

VARIABLES
    host,      \* the bounds of the host, a pair for every axis, and whether it is a plate
    cutters,   \* as they are persisted
    through,   \* how far one that goes through is moved
    bodies,    \* the points of the cutters widened so far
    chamfers,  \* the edges to chamfer
    wedges,    \* the cutters of those before; none for one that is not supported
    envelope   \* "cohort", "cutters", "chamfers", "done"; "idle" while others are at work

envelopeVars == <<host, cutters, through, bodies, chamfers, wedges, envelope>>

Axes == 1 .. 3
Unit(a) == [i \in Axes |-> IF i = a THEN 1 ELSE 0]
Times(n, v) == [i \in Axes |-> n * v[i]]
Size(x) == Magnitude(x)

Side3(c) == Cross(c.x, c.y)
Placed3(c, origin, station, p) ==
    Plus(origin, Plus(Times(station, c.x), Plus(Times(p[1], c.y), Times(p[2], Side3(c)))))
LocalTo(c, p) ==
    LET d == Minus(p, c.origin) IN <<Dot(d, c.x), Dot(d, c.y), Dot(d, Side3(c))>>

\* A member is drawn from its origin along its axis, a plate around its middle plane.
BodyOf(c) ==
    LET n == Len(c.contour)
        Point(k, far) ==
            IF c.form = "plate"
            THEN Placed3(c, c.origin, c.contour[k][1],
                         <<c.contour[k][2], IF far THEN c.thickness \div 2 ELSE -c.thickness \div 2>>)
            ELSE Placed3(c, c.origin, IF far THEN c.length ELSE c.first, c.contour[k])
    IN  [k \in 1 .. 2 * n |-> IF k <= n THEN Point(k, FALSE) ELSE Point(k - n, TRUE)]

BoundsOf(points) ==
    [a \in Axes |-> LET along == {points[k][a] : k \in DOMAIN points} IN <<Min(along), Max(along)>>]
-----------------------------------------------------------------------------
(* Moving every side of a contour out; its sides run along the axes.               *)

Outside(points, k) ==
    LET d == <<Following(points, k)[1] - points[k][1], Following(points, k)[2] - points[k][2]>>
        turn == Sign(TwiceArea(points, Ids(points)))
    IN  <<turn * Sign(d[2]), -turn * Sign(d[1])>>

\* Two sides in line, or one that comes back on the other, have a single normal.
Miter(one, other) ==
    IF one[1] * other[2] - one[2] * other[1] = 0 THEN other
    ELSE <<one[1] + other[1], one[2] + other[2]>>

OffsetOutward(points, distance) ==
    IF \/ Len(points) < 3
       \/ TwiceArea(points, Ids(points)) = 0
       \/ \E k \in DOMAIN points : points[k] = Following(points, k)
    THEN <<>>
    ELSE [k \in DOMAIN points |->
             LET miter == Miter(Outside(points, IF k = 1 THEN Len(points) ELSE k - 1),
                                Outside(points, k))
             IN  <<points[k][1] + distance * miter[1], points[k][2] + distance * miter[2]>>]
-----------------------------------------------------------------------------
(* Widening.  The host's faces are those of its bounds.                            *)

OnPlane(value, plane) == Size(value - plane) <= Tolerance
OutOf(value, bound) ==
    IF OnPlane(value, bound[1]) THEN -1 ELSE IF OnPlane(value, bound[2]) THEN 1 ELSE 0

Crosses(bound, end) == bound[1] < end - Tolerance /\ bound[2] > end + Tolerance
CrossesHostEnd(points) == \E end \in Range(host.bounds[1]) : Crosses(BoundsOf(points)[1], end)

AlignedAxis(c) == CHOOSE a \in Axes : c.x[a] # 0

\* How far the two ends on the line from origin are moved along the aligned axis.
EndMoves(c, origin, length) ==
    LET a == AlignedAxis(c)
        ends == <<origin[a], origin[a] + length * c.x[a]>>
        spans == \A plane \in Range(host.bounds[a]) : \E e \in 1 .. 2 : OnPlane(ends[e], plane)
        step == IF a # 1 /\ spans THEN through ELSE Touching
    IN  [e \in 1 .. 2 |-> step * OutOf(ends[e], host.bounds[a])]

\* Wrong: a section goes along with the face that its end is on.
AnyMove(c, p) == [a \in Axes |-> Touching * OutOf(p[a], host.bounds[a])]

\* How far a point of the section is moved; the aligned axis is left to the ends.
SectionMove(c, p) ==
    [a \in Axes |-> IF a = AlignedAxis(c) THEN 0 ELSE Touching * OutOf(p[a], host.bounds[a])]

\* Where the axis begins, and how long it is, after the ends were moved.
MovedAxis(c, origin, length) ==
    LET a == AlignedAxis(c)
        moved == EndMoves(c, origin, length)
    IN  [origin |-> Plus(origin, Times(moved[1], Unit(a))),
         length |-> length + (moved[2] - moved[1]) * c.x[a]]

CrossedAxis(c, crosses) ==
    IF crosses THEN [origin |-> Minus(c.origin, Times(Crossing, c.x)),
                     length |-> c.length + 2 * Crossing]
    ELSE [origin |-> c.origin, length |-> c.length]

IsAnalytic(c) == c.form = "prism" /\ c.first = 0

\* A prism is built anew from its contour.
WidenPrism(c) ==
    LET crosses == CrossesHostEnd(BodyOf(c))
        contour == IF crosses THEN OffsetOutward(c.contour, Crossing) ELSE c.contour
        crossed == CrossedAxis(c, crosses)
        axis == MovedAxis(c, crossed.origin, crossed.length)
        Moved(p) == LET move == SectionMove(c, Placed3(c, axis.origin, 0, p)) IN
                    <<p[1] + Dot(move, c.y), p[2] + Dot(move, Side3(c))>>
    IN  IF contour = <<>> THEN BodyOf(c)
        ELSE BodyOf([c EXCEPT !.origin = axis.origin, !.length = axis.length,
                              !.contour = [k \in DOMAIN contour |-> Moved(contour[k])]])

\* The points of any other are moved one by one: away from the middle across an end,
\* then with the end of the axis they are nearer to, then off the faces they are on.
WidenPoints(c) ==
    LET points == BodyOf(c)
        crosses == CrossesHostEnd(points)
        local == [k \in DOMAIN points |-> LocalTo(c, points[k])]
        sides == BoundsOf(local)
        Away(low) == IF ~crosses THEN 0 ELSE IF low THEN -Crossing ELSE Crossing
        Spread(k) == Plus(points[k],
            Plus(Times(Away(2 * local[k][1] < c.length), c.x),
                 Plus(Times(Away(2 * local[k][2] < sides[2][1] + sides[2][2]), c.y),
                      Times(Away(2 * local[k][3] < sides[3][1] + sides[3][2]), Side3(c)))))
        crossed == CrossedAxis(c, crosses)
        moves == EndMoves(c, crossed.origin, crossed.length)
        axis == MovedAxis(c, crossed.origin, crossed.length)
        WithEnd(p) ==
            Plus(p, Times(moves[IF 2 * LocalTo(c, p)[1] < c.length THEN 1 ELSE 2],
                          Unit(AlignedAxis(c))))
        OffFaces(p) ==
            LET at3 == LocalTo(c, p) IN
            Plus(p, SectionMove(c, Placed3(c, axis.origin, 0, <<at3[2], at3[3]>>)))
    IN  [k \in DOMAIN points |-> OffFaces(WithEnd(Spread(k)))]

\* Only what one loop bounds is widened.
Widened(c) ==
    IF c.form = "other" \/ c.length <= 0 THEN BodyOf(c)
    ELSE IF IsAnalytic(c) THEN WidenPrism(c) ELSE WidenPoints(c)
-----------------------------------------------------------------------------
(* A prism that the worker may be told of as one: two rings, the second the first  *)
(* moved, flat, with an area, and not in the direction of the move.  The number of *)
(* triangles, which the code looks at too, stays what it was: to widen a cutter    *)
(* moves its points only.                                                          *)

IsPrism(points) ==
    LET n == Len(points) \div 2
        move == Minus(points[n + 1], points[1])
        From(k) == Minus(points[k], points[1])
        corners == {k \in 2 .. n - 1 : Cross(From(k), From(k + 1)) # Zero}
        normal == Cross(From(Min(corners)), From(Min(corners) + 1))
        Swept(a) == MapThenSumSet(LAMBDA k : Cross(From(k), From(After(k, n)))[a], 1 .. n)
    IN  /\ n >= 3 /\ Len(points) = 2 * n
        /\ move # Zero
        /\ \A k \in 1 .. n : Minus(points[k + n], points[k]) = move
        /\ corners # {}
        /\ Dot(normal, move) # 0
        /\ \A k \in 1 .. n : points[k] # points[After(k, n)] /\ Dot(normal, From(k)) = 0
        /\ Dot([a \in Axes |-> Swept(a)], normal) # 0
-----------------------------------------------------------------------------
(* Cutters that are equally large are a cohort and go through further.             *)

Volume(c) ==
    Size(TwiceArea(c.contour, Ids(c.contour)))
        * IF c.form = "plate" THEN c.thickness ELSE Size(c.length - c.first)

Cohort ==
    /\ Len(cutters) > 1
    /\ \A k \in DOMAIN cutters : Volume(cutters[k]) > 0 /\ Volume(cutters[k]) = Volume(cutters[1])

MeasureCutters ==
    /\ envelope = "cohort"
    /\ through' = IF Cohort THEN Crossing ELSE Touching
    /\ envelope' = "cutters"
    /\ UNCHANGED <<host, cutters, bodies, chamfers, wedges>>

WidenCutter ==
    /\ envelope = "cutters" /\ Len(bodies) < Len(cutters)
    /\ bodies' = Append(bodies, Widened(cutters[Len(bodies) + 1]))
    /\ UNCHANGED <<host, cutters, through, chamfers, wedges, envelope>>

CuttersDone ==
    /\ envelope = "cutters" /\ Len(bodies) = Len(cutters)
    /\ envelope' = "chamfers"
    /\ UNCHANGED <<host, cutters, through, bodies, chamfers, wedges>>
-----------------------------------------------------------------------------
(* Chamfers: a triangle along the edge, from a little before it to a little past   *)
(* it.  The legs lie in the two faces that meet there.                             *)

NoWedge == <<>>

\* In the frame of the edge: its y axis leaves the plate between the faces.
PlateLegs(e) ==
    LET z == Cross(e.axis, e.y) IN
    [previous |-> Toward(Minus(z, e.y)), following |-> Toward(Minus(Minus(Zero, e.y), z)),
     reach |-> <<Size(e.dims[1]), Size(e.dims[2])>>]

\* In the frame of the host, which gives the two faces in the order of its axes.
MemberLegs(e) ==
    LET across == SetToSortSeq({a \in Axes : e.axis[a] = 0}, <)
        Inward(i) == Times(IF e.y[across[i]] > 0 THEN -1 ELSE 1, Unit(across[i]))
        same == (e.y[across[1]] > 0) = (e.y[across[2]] > 0)
    IN  [previous |-> Inward(IF same THEN 2 ELSE 1), following |-> Inward(IF same THEN 1 ELSE 2),
         reach |-> <<Size(e.dims[2]), Size(e.dims[1])>>]

\* The edge lies on both faces, and the chamfer fits one of them.
OnMember(e) ==
    LET across == {a \in Axes : e.axis[a] = 0} IN
    /\ \A a \in across : e.y[a] # 0 /\ OutOf(e.origin[a], host.bounds[a]) # 0
    /\ \A d \in 1 .. 2 : \E a \in across :
          Size(e.dims[d]) < host.bounds[a][2] - host.bounds[a][1]

\* Both corners of the far side lie on the line through the ends of the legs.
Triangle3(reach, over) ==
    <<<<-over, -over>>, <<reach[1] + (reach[1] * over) \div reach[2], -over>>,
      <<-over, reach[2] + (reach[2] * over) \div reach[1]>>>>

Wedge(e) ==
    LET legs == IF host.plate THEN PlateLegs(e) ELSE MemberLegs(e)
        over == IF host.plate THEN Overrun ELSE Crossing
    IN  IF ~e.straight \/ e.length <= 0 \/ (~host.plate /\ ~OnMember(e)) \/ 0 \in Range(legs.reach)
        THEN NoWedge
        ELSE [origin |-> Minus(e.origin, Times(over, e.axis)), legs |-> legs,
              triangle |-> Triangle3(legs.reach, over), length |-> e.length + 2 * over]

CutEdge ==
    /\ envelope = "chamfers" /\ Len(wedges) < Len(chamfers)
    /\ wedges' = Append(wedges, Wedge(chamfers[Len(wedges) + 1]))
    /\ UNCHANGED <<host, cutters, through, bodies, chamfers, envelope>>

EdgesDone ==
    /\ envelope = "chamfers" /\ Len(wedges) = Len(chamfers)
    /\ envelope' = "done"
    /\ UNCHANGED <<host, cutters, through, bodies, chamfers, wedges>>

EnvelopeInit ==
    /\ \E job \in Jobs : host = job.host /\ cutters = job.cutters /\ chamfers = job.chamfers
    /\ through = 0 /\ bodies = <<>> /\ wedges = <<>>
    /\ envelope = "cohort"

EnvelopeNext == MeasureCutters \/ WidenCutter \/ CuttersDone \/ CutEdge \/ EdgesDone

EnvelopeSpec == EnvelopeInit /\ [][EnvelopeNext]_envelopeVars
-----------------------------------------------------------------------------
(* Safety. *)

OneLoop(c) == c.form # "other" /\ c.length > 0

\* Along the axis only the ends are moved: a plate's contour may touch a face elsewhere.
OnItsEnd(c, p) ==
    LET a == AlignedAxis(c)
        end == IF 2 * LocalTo(c, p)[1] < c.length THEN c.origin[a] ELSE c.origin[a] + c.length * c.x[a]
    IN  IsAnalytic(c) \/ end = p[a]

\* Every point in the plane of a face of the host is moved off it, and past the face
\* unless the cutter is widened as a whole, to either side.
PassesFaces(c, body) ==
    LET points == BodyOf(c) IN
    \A k \in DOMAIN points, a \in Axes :
        (points[k][a] \in Range(host.bounds[a]) /\ (a = AlignedAxis(c) => OnItsEnd(c, points[k]))) =>
            /\ body[k][a] # points[k][a]
            /\ ~CrossesHostEnd(points) =>
                  Sign(body[k][a] - points[k][a]) = OutOf(points[k][a], host.bounds[a])

\* The chamfer goes from one leg's end to the other's and takes the edge with it.
TakesEdge(e, w) ==
    LET p == w.legs.reach[1]
        f == w.legs.reach[2]
        t == w.triangle
    IN  /\ Cross2(t[2], t[3], <<p, 0>>) = 0 /\ Cross2(t[2], t[3], <<0, f>>) = 0
        /\ PointInTriangle(<<0, 0>>, t[1], t[2], t[3])
        /\ t[1][1] < 0 /\ t[1][2] < 0
        /\ w.length > e.length

\* Cutters keep no plane in common with a face they touched, stay prisms that can be
\* sent as such, and grow by no more than the two allowances; chamfers that can be
\* cut take their edge with them (expand_tangent_cutter, edge_chamfer_cutter;
\* docs/occt-execution.md: the planner recognizes the prism after tangent tolerances
\* have been applied).
CuttersReachThrough ==
    envelope = "done" =>
        /\ \A k \in DOMAIN bodies :
              LET was == BodyOf(cutters[k])
                  is == bodies[k]
              IN  (OneLoop(cutters[k]) /\ IsPrism(was)) =>
                      /\ PassesFaces(cutters[k], is)
                      /\ IsPrism(is)
                      /\ \A j \in DOMAIN is, a \in Axes :
                            Size(is[j][a] - was[j][a]) <= Crossing + through
        /\ \A k \in DOMAIN wedges : wedges[k] # NoWedge => TakesEdge(chamfers[k], wedges[k])
=============================================================================
