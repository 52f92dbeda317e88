--------------------------- MODULE MeshConstruction ---------------------------
(* The triangles of every solid the decoders draw (geometry.cpp: parts;            *)
(* nonpart_geometry.cpp: bolts, fillets and surfaces; gltf.cpp: physical curves).  *)
(* Vertices are counted from one.  A swept body is drawn along a straight axis:    *)
(* every frame the code builds along a path is right-handed, so the straight body  *)
(* has the same triangles and they turn the same way.  Rounded numbers are cut to  *)
(* whole ones; a circle of many facets has four.                                   *)
EXTENDS ContourClipping, ProfileSections

NoMesh == [at |-> <<>>, faces |-> <<>>]

(* Points and directions. *)

Minus(a, b) == [i \in 1 .. 3 |-> a[i] - b[i]]
Plus(a, b) == [i \in 1 .. 3 |-> a[i] + b[i]]
Dot(a, b) == a[1] * b[1] + a[2] * b[2] + a[3] * b[3]
Cross(a, b) ==
    <<a[2] * b[3] - a[3] * b[2], a[3] * b[1] - a[1] * b[3], a[1] * b[2] - a[2] * b[1]>>
Zero == <<0, 0, 0>>
Sign(x) == IF x > 0 THEN 1 ELSE IF x < 0 THEN -1 ELSE 0

\* The direction of a vector, where it lies along an axis or halves a right angle.
Toward(v) == [i \in 1 .. 3 |-> Sign(v[i])]

\* What is left of v beside the direction t.
Beside(v, t) == Toward([i \in 1 .. 3 |-> Dot(t, t) * v[i] - Dot(v, t) * t[i]])

Ids(points) == [k \in DOMAIN points |-> k]
Upright(points) == IF TwiceArea(points, Ids(points)) < 0 THEN Reverse(points) ELSE points
-----------------------------------------------------------------------------
(* Rings of vertices and the triangles between them; a ring follows its base. *)

Ring(points, x) == [k \in DOMAIN points |-> <<x, points[k][1], points[k][2]>>]
Quad(a, b, c, d) == <<<<a, b, c>>, <<a, c, d>>>>
After(k, n) == IF k = n THEN 1 ELSE k + 1

Walls(from, to, n) ==
    FlattenSeq([k \in 1 .. n |-> Quad(from + k, from + After(k, n), to + After(k, n), to + k)])
InnerWalls(from, to, n) ==
    FlattenSeq([k \in 1 .. n |-> Quad(from + After(k, n), from + k, to + k, to + After(k, n))])
NearEnd(base, outer, inner, n) ==
    FlattenSeq([k \in 1 .. n |-> Quad(base + outer + After(k, n), base + outer + k,
                                      base + inner + k, base + inner + After(k, n))])
FarEnd(base, outer, inner, n) ==
    FlattenSeq([k \in 1 .. n |-> Quad(base + outer + k, base + outer + After(k, n),
                                      base + inner + After(k, n), base + inner + k)])

Onto(cap, base) == [k \in DOMAIN cap |-> <<base + cap[k][1], base + cap[k][2], base + cap[k][3]>>]
Turned(cap, base) == [k \in DOMAIN cap |-> <<base + cap[k][1], base + cap[k][3], base + cap[k][2]>>]
-----------------------------------------------------------------------------
(* Parts. *)

Extrude(section, length, cap) ==
    LET outer == Upright(section.outer)
        inner == Upright(section.inner)
        n == Len(outer)
        m == Len(inner)
        hollow == section.kind = "hollow"
    IN  [at |-> Ring(outer, 0) \o Ring(outer, length)
                \o IF hollow THEN Ring(inner, 0) \o Ring(inner, length) ELSE <<>>,
         faces |-> Walls(0, n, n)
                   \o IF ~hollow THEN Turned(cap, 0) \o Onto(cap, n)
                      ELSE InnerWalls(2 * n, 2 * n + m, m)
                           \o IF n # m THEN <<>>
                              ELSE NearEnd(0, 0, 2 * n, n) \o FarEnd(n, 0, n + m, n)]

Loft(section, length, front, back) ==
    LET n == Len(section.start) IN
    [at |-> Ring(section.start, 0) \o Ring(section.end, length),
     faces |-> Walls(0, n, n) \o Turned(front, 0) \o Onto(back, n)]

ExtrudeContour(contour, thickness, cap) ==
    LET points == Upright(contour)
        n == Len(points)
        Level(z) == [k \in 1 .. n |-> <<points[k][1], points[k][2], z>>]
    IN  IF cap = <<>> \/ thickness <= 0 THEN NoMesh
        ELSE [at |-> Level(-thickness \div 2) \o Level(thickness \div 2),
              faces |-> [k \in DOMAIN cap |-> <<cap[k][3], cap[k][2], cap[k][1]>>]
                        \o Onto(cap, n) \o Walls(0, n, n)]

\* sweep_arc and sweep_path from their stations on.
Sweep(section, stations, cap) ==
    LET n == Len(section.outer)
        m == Len(section.inner)
        all == n + m
        last == (stations - 1) * all
        Between(k) == Walls((k - 1) * all, k * all, n)
                      \o InnerWalls((k - 1) * all + n, k * all + n, m)
    IN  [at |-> FlattenSeq([k \in 1 .. stations |-> Ring(section.outer, 4 * k)
                                                    \o Ring(section.inner, 4 * k)]),
         faces |-> FlattenSeq([k \in 1 .. stations - 1 |-> Between(k)])
                   \o IF section.kind = "solid" THEN Turned(cap, 0) \o Onto(cap, last)
                      ELSE IF n = m THEN NearEnd(0, 0, n, n) \o FarEnd(last, 0, n, n) ELSE <<>>]

\* The numbers sample_arc and sweep_arc need; an arc of one chord has no centre.
ArcIsSound(arc, length) == arc.radius > 0 /\ arc.segments >= 2 /\ length <= 2 * arc.radius

SweepArc(section, arc, length, cap) ==
    IF ArcIsSound(arc, length) THEN Sweep(section, arc.segments + 1, cap) ELSE NoMesh

\* The points of a path that are left when those it passes straight through go.
Bends(path) ==
    LET Heading(k) == Toward(Minus(path[k + 1], path[k]))
        kept[k \in 1 .. Len(path) - 1] ==   \* the segment whose heading is retained
            IF k = 1 THEN 1 ELSE IF Heading(k) = Heading(kept[k - 1]) THEN kept[k - 1] ELSE k
    IN  {1, Len(path)} \cup {k \in 2 .. Len(path) - 1 : kept[k] = k}

\* Without a bend in the first segment the path starts where the section does.
PolybeamPath(path, origin) ==
    LET left == SetToSortSeq(Bends(path), <)
        kept == [k \in DOMAIN left |-> path[left[k]]]
        heading == Toward(Minus(kept[2], kept[1]))
        advance == Dot(Minus(origin, kept[1]), heading)
        step == [i \in 1 .. 3 |-> advance * heading[i]]
    IN  IF Len(kept) = Len(path) THEN kept
        ELSE [k \in DOMAIN kept |->
                 IF k = 1 \/ Len(kept) = 2 THEN Plus(kept[k], step) ELSE kept[k]]

\* The section's height is carried from station to station; it is lost where it
\* lies along the path.
Carried(path, height) ==
    LET n == Len(path)
        Heading(k) == Toward(Minus(path[k + 1], path[k]))
        Tangent(k) == IF k = 1 THEN Heading(1) ELSE IF k = n THEN Heading(n - 1)
                      ELSE Toward(Plus(Heading(k - 1), Heading(k)))
        up[k \in 0 .. n] ==
            IF k = 0 THEN Beside(height, Heading(1))
            ELSE IF Tangent(k) = Zero THEN Zero ELSE Beside(up[k - 1], Tangent(k))
    IN  up

RepeatsAPoint(path) == \E k \in 1 .. Len(path) - 1 : path[k] = path[k + 1]

SweepPath(section, path, origin, cap) ==
    IF Len(path) < 2 \/ RepeatsAPoint(path) THEN NoMesh
    ELSE LET kept == PolybeamPath(path, origin) IN
         IF RepeatsAPoint(kept) \/ Zero \in Range(Carried(kept, <<0, 1, 0>>))
         THEN NoMesh
         ELSE Sweep(section, Len(kept), cap)

\* Spheres and caps of tanks: rings whose radius follows fixed factors, three of
\* the fifteen stations a part has, two of the eight of a cap, and its inner skin.
RoundProfile(p, length) ==
    LET radius == p.values[1] \div 2
        Outer(f) == Max({2, (f * radius) \div 50})
        Inner(f) == Max({2, (f * (radius - 16)) \div 50})
        steep == length \div 10
    IN  CASE p.family = "SPHERE" ->
                 [kind |-> "round", inner |-> <<>>,
                  outer |-> <<<<0, Outer(0)>>, <<length \div 2, Outer(50)>>, <<length, Outer(0)>>>>]
          [] p.family = "CAP" /\ radius > 16 /\ length > 160 ->
                 [kind |-> "round",
                  outer |-> <<<<0, Outer(0)>>, <<4 * steep, Outer(49)>>, <<5 * steep, Outer(50)>>>>,
                  inner |-> <<<<16, Inner(0)>>, <<4 * steep + 16, Inner(49)>>,
                              <<5 * steep,
                                Inner(49) + ((steep - 16) * (Inner(50) - Inner(49))) \div steep>>>>]
          [] OTHER -> None

RoundMesh(profile) ==
    LET Rings(stations) ==
            FlattenSeq([k \in DOMAIN stations |-> Ring(Circle(2 * stations[k][2]), stations[k][1])])
        Skin(base, stations, Between(_, _, _)) ==
            FlattenSeq([k \in 1 .. Len(stations) - 1 |->
                            Between(base + 4 * (k - 1), base + 4 * k, 4)])
        last == 4 * (Len(profile.outer) - 1)
        base == 4 * Len(profile.outer)
        fan == <<<<1, 2, 3>>, <<1, 3, 4>>>>
    IN  [at |-> Rings(profile.outer) \o Rings(profile.inner),
         faces |-> Skin(0, profile.outer, Walls)
                   \o IF profile.inner = <<>> THEN Turned(fan, 0) \o Onto(fan, last)
                      ELSE Skin(base, profile.inner, InnerWalls)
                           \o FarEnd(0, 0, base, 4) \o NearEnd(0, last, base + last, 4)]
-----------------------------------------------------------------------------
(* A plate between two rails, cut at each other's stations; both are equally long. *)

Stretch(v) == MapThenSumSet(LAMBDA i : Magnitude(v[i]), 1 .. 3)

Stations(rail) ==
    LET run[k \in DOMAIN rail] ==
            IF k = 1 THEN 0 ELSE run[k - 1] + Stretch(Minus(rail[k], rail[k - 1]))
    IN  run

\* The point of a rail so far along it.
Sample(rail, station) ==
    LET run == Stations(rail)
        k == IF station = 0 THEN 2 ELSE Min({j \in 2 .. Len(rail) : station <= run[j]})
        heading == Toward(Minus(rail[k], rail[k - 1]))
    IN  Plus(rail[k - 1], [i \in 1 .. 3 |-> (station - run[k - 1]) * heading[i]])

LoftPlate(rails, thickness) ==
    LET cuts == Range(Stations(rails[1])) \cup Range(Stations(rails[2]))
        n == Cardinality(cuts)
        cut == SetToSortSeq(cuts, <)
        Side(r, k) == [i \in 1 .. 3 |-> 2 * Sample(rails[r], cut[k])[i]]
        Middle(k) == Plus(Side(1, k), Side(2, k))
        Tangent(k) == Minus(Middle(IF k = n THEN n ELSE k + 1), Middle(IF k = 1 THEN 1 ELSE k - 1))
        Upward(k) == Toward(Cross(Toward(Tangent(k)), Toward(Minus(Side(2, k), Side(1, k)))))
        Corners(k) == <<Plus(Side(1, k), Upward(k)), Plus(Side(2, k), Upward(k)),
                        Minus(Side(1, k), Upward(k)), Minus(Side(2, k), Upward(k))>>
        Strip(k) ==
            LET a == 4 * (k - 1)
                b == 4 * k
            IN  Quad(a + 1, b + 1, b + 2, a + 2) \o Quad(a + 3, a + 4, b + 4, b + 3)
                \o Quad(a + 3, b + 3, b + 1, a + 1) \o Quad(a + 2, b + 2, b + 4, a + 4)
        last == 4 * (n - 1)
    IN  IF \/ thickness <= 0
           \/ \E r \in 1 .. 2 : Len(rails[r]) < 2
           \/ cuts = {0}
           \/ \E k \in 1 .. n : Upward(k) = Zero
        THEN NoMesh
        ELSE [at |-> FlattenSeq([k \in 1 .. n |-> Corners(k)]),
              faces |-> FlattenSeq([k \in 1 .. n - 1 |-> Strip(k)])
                        \o Quad(3, 1, 2, 4) \o Quad(last + 1, last + 3, last + 4, last + 2)]
-----------------------------------------------------------------------------
(* Bolts: prisms along the axis of the pattern, drawn in its frame whichever way   *)
(* they run; the shank of a plain bolt gets a frame of its own direction.          *)

Joined(a, b) ==
    [at |-> a.at \o b.at,
     faces |-> a.faces \o Onto(b.faces, Len(a.at))]

\* Two rings, their centres, and a fan around either centre.
WithFans(rings, n, ends) ==
    LET count == Len(rings)
        last == n * (count - 1)
        center == n * count + 1
    IN  [at |-> FlattenSeq(rings) \o ends,
         faces |-> FlattenSeq([k \in 1 .. count - 1 |-> Walls(n * (k - 1), n * k, n)])
                   \o FlattenSeq([k \in 1 .. n |->
                         <<<<center, After(k, n), k>>,
                           <<center + 1, last + k, last + After(k, n)>>>>])]

Prism(from, to, radius) ==
    IF from = to THEN NoMesh
    ELSE WithFans(<<Ring(Circle(2 * radius), from), Ring(Circle(2 * radius), to)>>, 4,
                <<<<from, 0, 0>>, <<to, 0, 0>>>>)

Cylinder(from, to, radius) ==
    IF from = to THEN NoMesh
    ELSE LET facets == IF from < to THEN Circle(2 * radius) ELSE Reverse(Circle(2 * radius)) IN
         WithFans(<<Ring(facets, from), Ring(facets, to)>>, 4, <<<<from, 0, 0>>, <<to, 0, 0>>>>)

HeadHeight == 10
NoShank == <<0, 0>>

\* A stud of old models has its head at its end, a known fastener a nut and a head.
BoltMesh(bolt) ==
    LET shank == bolt.shank
        head == bolt.fastener
    IN  IF bolt.legacy
        THEN IF bolt.length <= HeadHeight \/ shank[2] <= shank[1] THEN NoMesh
             ELSE LET neck == shank[2] + bolt.length - HeadHeight IN
                  Joined(Prism(shank[2], neck, 1), Prism(neck, neck + HeadHeight, 2))
        ELSE IF ~bolt.limited THEN Cylinder(-bolt.length, 0, 1)
        ELSE IF head > 0 /\ shank[2] > shank[1]
        THEN LET below == Prism(shank[1] - head, shank[1], 2)
                 above == Prism(shank[2], shank[2] + head, 2)
             IN  Joined(Cylinder(shank[1], shank[2], 1), Joined(below, above))
        ELSE Cylinder(shank[1], shank[2], 1)

\* A physical curve: a ring at every point that differs from the one kept before it.
CurveSweep(points, radius) ==
    LET kept == {k \in DOMAIN points : k = 1 \/ points[k] # points[k - 1]}
        n == Cardinality(kept)
    IN  IF n < 2 THEN NoMesh
        ELSE WithFans([k \in 1 .. n |-> Ring(Circle(2 * radius), 4 * k)], 4,
                      <<<<4, 0, 0>>, <<4 * n, 0, 0>>>>)
-----------------------------------------------------------------------------
(* Fillets of welds and treatments of surfaces. *)

Turning(legs) == legs[1][1] * legs[2][2] - legs[1][2] * legs[2][1]
LegsAsFound(legs) == legs   \* wrong: a fillet of legs that turn right is inside out
Legs(legs) == IF Turning(legs) < 0 THEN <<legs[2], legs[1]>> ELSE legs

\* One pair of legs for every segment; the last pair also ends the seam.
FilletSweep(seam, size) ==
    LET n == Len(seam)
        Triangle(k) ==
            LET legs == Legs(seam[k]) IN
            <<<<0, 0>>, <<size * legs[1][1], size * legs[1][2]>>,
              <<size * legs[2][1], size * legs[2][2]>>>>
    IN  IF seam = <<>> \/ size <= 0 \/ \E k \in 1 .. n : Magnitude(Turning(seam[k])) # 1
        THEN NoMesh
        ELSE [at |-> FlattenSeq([k \in 1 .. n |-> Ring(Triangle(k), 4 * k)])
                     \o Ring(Triangle(n), 4 * (n + 1)),
              faces |-> FlattenSeq([k \in 1 .. n |-> Walls(3 * (k - 1), 3 * k, 3)])
                        \o <<<<1, 3, 2>>, <<3 * n + 1, 3 * n + 2, 3 * n + 3>>>>]

OpenContour(contour) ==
    IF Len(contour) > 3 /\ contour[1] = contour[Len(contour)] THEN Front(contour) ELSE contour

Degenerate(points, cap) == \E k \in DOMAIN cap : Turn(points, cap[k]) = 0

\* The contour at two depths, in the frame of the face; the walls follow it as it
\* is written.
SurfaceMesh(surface, cap) ==
    LET points == OpenContour(surface.contour)
        n == Len(points)
        t == surface.thickness
        near == surface.offset - IF surface.depth = 0 THEN t \div 2 ELSE 0
        far == surface.offset + CASE surface.depth = 0 -> t \div 2
                                  [] surface.depth = 1 -> t
                                  [] surface.depth = 2 -> -t
        Level(z) == [k \in 1 .. n |-> <<points[k][1], points[k][2], z>>]
        Downward(k) == <<<<k, n + After(k, n), After(k, n)>>, <<k, n + k, n + After(k, n)>>>>
    IN  IF \/ t <= 0 \/ n < 3 \/ surface.depth > 2 \/ surface.side = 0
           \/ cap = <<>> \/ Degenerate(points, cap)
        THEN NoMesh
        ELSE [at |-> Level(near) \o Level(far),
              faces |-> IF near > far
                        THEN cap \o Turned(cap, n) \o FlattenSeq([k \in 1 .. n |-> Downward(k)])
                        ELSE Turned(cap, 0) \o Onto(cap, n) \o Walls(0, n, n)]
=============================================================================
