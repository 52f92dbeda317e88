----------------------------- MODULE SolidMeshes -----------------------------
(* From a persisted record to a solid (geometry.cpp: the part reader and           *)
(* operative_mesh; nonpart_geometry.cpp and gltf.cpp: the other elements).  A      *)
(* construction is chosen, the contours it needs are triangulated one after the    *)
(* other, an imported shape is decoded, and the solid is put together.             *)
EXTENDS ImportedShapes, MeshConstruction

CONSTANTS
    Orders,   \* what is drawn: a record and who asks for its solid
    Shapes    \* the polyhedra of the catalog, by name

VARIABLES
    element,  \* the record at work
    role,     \* who asks: "member", "envelope", "operative", "hollow" or "element"
    plan,     \* the construction and its section
    waiting,  \* the contours to triangulate
    caps,     \* the triangles of those before; none for one that cannot be
    mesh,     \* the solid
    outcome   \* "choosing", "building", "made", "none" or the code of a diagnostic

partVars == <<element, role, plan, waiting, caps, mesh, outcome>>
solidVars == <<partVars, clipVars, shapeVars>>

NoArc == [radius |-> 0, segments |-> 0]
Plan(by, section) == [by |-> by, section |-> section]
NoPlan == Plan("nothing", None)

\* The first alternative that applies, as a chain of branches takes it.
FirstOf(plans) == plans[Min({k \in DOMAIN plans : plans[k] # NoPlan} \cup {Len(plans)})]
Provided(condition, p) == IF condition THEN p ELSE NoPlan
-----------------------------------------------------------------------------
SectionOf(p) == IF ParseSection(p.profile) # None THEN ParseSection(p.profile) ELSE p.catalog

\* The filled envelope of a hollow section has no written cap either.
Filled(section) == IF section.inner = <<>> THEN section ELSE Solid(section.outer)
Wanted(section, filled) == IF filled THEN Filled(section) ELSE section

Tapering(p, section) == Provided(section # None, Plan("taper", section))
Varying(p) == Tapering(p, IF p.form = "varying" THEN VariableRectangle(p.profile) ELSE None)

\* A tapered I lies where the reference point is, or around its start's height.
Anchored(p) ==
    LET w == TaperedIParameters(p.profile) IN
    IF w = None THEN NoPlan
    ELSE Plan("taper", IF p.reference = <<>> THEN TaperedI(p.profile, -w.start \div 2, 0)
                       ELSE TaperedI(p.profile, p.reference[1], p.reference[2]))

Rounded(p) ==
    IF p.profile.family \notin {"SPHERE", "CAP"} THEN NoPlan
    ELSE LET round == RoundProfile(p.profile, p.length) IN
         Provided(round # None, Plan("round", round))

Way(p, first, second) ==
    IF p.form = first \/ (first = "arc" /\ p.arc # NoArc) THEN first
    ELSE IF p.form = second \/ (second = "arc" /\ p.arc # NoArc) THEN second ELSE "extrude"

\* The reader takes an arc before a path.
MemberPlan(p, filled) ==
    FirstOf(<<Provided(p.form = "shape", Plan("shape", None)),
              Provided(p.form = "rails", Plan("rails", None)),
              Provided(p.form = "plate", Plan("plate", None)),
              Varying(p), Anchored(p), Tapering(p, TaperedEllipse(p.profile)), Rounded(p),
              IF SectionOf(p) = None THEN NoPlan
              ELSE Plan(Way(p, "arc", "path"), Wanted(SectionOf(p), filled)),
              Plan("unavailable", None)>>)

\* A cutter knows neither rails nor a tapered I and takes a path before an arc.
OperativePlan(p, filled) ==
    FirstOf(<<Provided(p.form = "shape", Plan("shape", None)),
              Provided(p.form = "plate", Plan("plate", None)),
              Varying(p), Tapering(p, TaperedEllipse(p.profile)), Rounded(p),
              IF SectionOf(p) = None THEN NoPlan
              ELSE Plan(Way(p, "path", "arc"), Wanted(SectionOf(p), filled)),
              Plan("unavailable", None)>>)

ElementPlan(e) == Plan(e.form, None)

PlanFor(e, who) ==
    CASE who = "member"    -> MemberPlan(e, FALSE)
      [] who = "envelope"  -> MemberPlan(e, TRUE)
      [] who = "operative" -> OperativePlan(e, TRUE)
      [] who = "hollow"    -> OperativePlan(e, FALSE)
      [] who = "element"   -> ElementPlan(e)

\* The contours a construction triangulates.
Contours(p, e) ==
    CASE p.by = "plate"   -> IF e.contour = <<>> THEN <<>> ELSE <<Upright(e.contour)>>
      [] p.by = "taper"   -> <<p.section.start, p.section.end>>
      [] p.by = "extrude" -> IF p.section.kind = "solid" THEN <<Upright(p.section.outer)>> ELSE <<>>
      [] p.by \in {"arc", "path"} ->
             IF p.section.kind = "solid" /\ p.section.cap = <<>> THEN <<p.section.outer>> ELSE <<>>
      [] p.by = "surface" -> <<OpenContour(e.contour)>>
      [] OTHER -> <<>>

Cap == IF caps = <<>> THEN plan.section.cap ELSE caps[1]
PlateCap == IF caps = <<>> THEN <<>> ELSE caps[1]

\* A cutter of the forms that are fitted reaches a little beyond its fittings, which
\* are given by the places where they meet the lines of the section.
LengthOf(e) ==
    IF e.form = "fitted" /\ role \in {"operative", "hollow"} /\ e.fittings # {}
    THEN LET met == {0, e.length} \cup e.fittings IN Max(met) - Min(met) + 2
    ELSE e.length

Built ==
    LET e == element
        s == plan.section
        cap == IF s # None /\ s.kind = "solid" THEN Cap ELSE <<>>
    IN  CASE plan.by = "shape"   -> [at |-> shape.vertices, faces |-> indices]
          [] plan.by = "rails"   -> LoftPlate(e.rails, e.thickness)
          [] plan.by = "plate"   -> ExtrudeContour(e.contour, e.thickness, PlateCap)
          [] plan.by = "taper"   -> Loft(s, e.length, caps[1], caps[2])
          [] plan.by = "round"   -> RoundMesh(s)
          [] plan.by = "extrude" -> Extrude(s, LengthOf(e), cap)
          [] plan.by = "arc"     -> SweepArc(s, e.arc, LengthOf(e), cap)
          [] plan.by = "path"    -> SweepPath(s, e.path, e.origin, cap)
          [] plan.by = "bolt"    -> BoltMesh(e)
          [] plan.by = "seam"    -> FilletSweep(e.seam, e.size)
          [] plan.by = "surface" -> SurfaceMesh(e, caps[1])
          [] plan.by = "curve"   -> CurveSweep(e.points, e.radius)
          [] OTHER -> NoMesh

\* Without a solid the reader reports, a cutter is none, an element is left out.
Failure ==
    IF role \notin {"member", "envelope"} THEN "none"
    ELSE IF plan.by = "unavailable" THEN "decoder_unavailable"
    ELSE IF plan.by = "shape" THEN "shape_error" ELSE "invalid_geometry"
-----------------------------------------------------------------------------
SolidInit ==
    /\ \E order \in Orders : element = order[1] /\ role = order[2]
    /\ plan = NoPlan
    /\ waiting = <<>> /\ caps = <<>>
    /\ mesh = NoMesh
    /\ outcome = "choosing"
    /\ at = <<>> /\ ring = <<>> /\ triangles = <<>> /\ clipping = "idle"
    /\ shape = [vertices |-> <<>>, faces |-> <<>>]
    /\ face = 1
    /\ holes = {} /\ unbridged = {} /\ bridges = {} /\ turned = FALSE
    /\ indices = <<>>
    /\ decoding = "no"

\* The branch of the record; a shape is looked up by its name.
Choose ==
    /\ outcome = "choosing"
    /\ plan' = PlanFor(element, role)
    /\ waiting' = Contours(plan', element)
    /\ outcome' = "building"
    /\ IF plan'.by = "shape"
       THEN /\ shape' = Shapes[element.shape]
            /\ decoding' = "faces"
       ELSE UNCHANGED <<shape, decoding>>
    /\ UNCHANGED <<element, role, caps, mesh, clipVars, face, faceVars, indices>>

StartCap ==
    /\ outcome = "building" /\ waiting # <<>> /\ clipping = "idle"
    /\ StartClipping(Head(waiting), Ids(Head(waiting)),
                     IF plan.by = "surface" THEN "surface" ELSE "section")
    /\ UNCHANGED <<partVars, shapeVars>>

CapDone ==
    /\ outcome = "building" /\ waiting # <<>> /\ clipping \in {"clipped", "stuck"}
    /\ caps' = Append(caps, IF clipping = "clipped" THEN triangles ELSE <<>>)
    /\ waiting' = Tail(waiting)
    /\ clipping' = "idle"
    /\ UNCHANGED <<element, role, plan, mesh, outcome, at, ring, triangles, shapeVars>>

Assemble ==
    /\ outcome = "building" /\ waiting = <<>> /\ decoding \in {"no", "done", "failed"}
    /\ mesh' = IF decoding = "failed" THEN NoMesh ELSE Built
    /\ outcome' = IF mesh' = NoMesh THEN Failure ELSE "made"
    /\ UNCHANGED <<element, role, plan, waiting, caps, clipVars, shapeVars>>

SolidNext ==
    \/ Choose \/ StartCap \/ CapDone \/ Assemble
    \/ (outcome = "building" /\ waiting # <<>> /\ Clip /\ UNCHANGED <<partVars, shapeVars>>)
    \/ (outcome = "building" /\ waiting = <<>> /\ DecodeShape /\ UNCHANGED partVars)

SolidSpec == SolidInit /\ [][SolidNext]_solidVars
-----------------------------------------------------------------------------
(* Safety. *)

Sides(t) == {<<t[1], t[2]>>, <<t[2], t[3]>>, <<t[3], t[1]>>}
SidesOf(faces) == UNION {Sides(faces[k]) : k \in DOMAIN faces}
EachOnce(faces) == Cardinality(SidesOf(faces)) = 3 * Len(faces)
OpenSides(faces) == {s \in SidesOf(faces) : <<s[2], s[1]>> \notin SidesOf(faces)}

SumOver(S(_), items) == FoldLeft(LAMBDA total, i : total + S(i), 0, items)

\* A cycle that meets itself nowhere.
Simple(plane, cycle) ==
    /\ Len(cycle) >= 3
    /\ \A j, k \in DOMAIN cycle :
          LET a == plane[cycle[j]]
              b == plane[Following(cycle, j)]
              c == plane[cycle[k]]
              d == plane[Following(cycle, k)]
          IN  CASE j = k -> a # b
                [] Following(cycle, j) = cycle[k] /\ j # k ->
                       ~OnSegment(a, b, d) /\ ~OnSegment(c, d, a)
                [] Following(cycle, k) = cycle[j] /\ j # k -> TRUE
                [] OTHER -> ~Intersects(a, b, c, d)

Apart(plane, one, other) ==
    \A j \in DOMAIN one, k \in DOMAIN other :
        ~Intersects(plane[one[j]], plane[Following(one, j)],
                    plane[other[k]], plane[Following(other, k)])

\* Holes lie inside and beside each other.
SimpleFace(plane, outer, inner) ==
    /\ \A cycle \in inner \cup {outer} : Simple(plane, cycle)
    /\ \A one, other \in inner \cup {outer} : one # other => Apart(plane, one, other)
    /\ \A hole \in inner : InsidePolygon(plane[hole[1]], plane, outer)
    /\ \A one, other \in inner : one # other => ~InsidePolygon(plane[one[1]], plane, other)

\* The triangles turn to the left, have the area of what the cycles enclose, and
\* leave the sides of the cycles open and no other.
Tiles(cycles) ==
    /\ clipping = "clipped"
    /\ \A k \in DOMAIN triangles : Turn(at, triangles[k]) > 0
    /\ SumOver(LAMBDA t : Turn(at, t), triangles)
           = MapThenSumSet(LAMBDA cycle : TwiceArea(at, cycle), cycles)
    /\ EachOnce(triangles)
    /\ OpenSides(triangles) = UNION {EdgesOf(cycle) : cycle \in cycles}

\* A face whose loops are loops in a plane and bound a part of it.
FaceBounds(f) ==
    /\ \A l \in Range(f.holes) \cup {f.outer} : ValidLoop(l)
    /\ LET normal == Normal(shape.vertices, f.outer) IN
       /\ normal # <<0, 0, 0>>
       /\ SimpleFace(Projected(shape.vertices, Steepest(normal)), f.outer, Range(f.holes))

Resting == clipping \in {"clipped", "stuck"}

\* triangulate, triangulate_polygon and triangulate_face: a contour that does not
\* meet itself, with holes or without, is covered by its triangles exactly once,
\* whatever its shape and wherever it is written to begin; the bridge to a hole is
\* always found.
CapsTile ==
    /\ (Resting /\ waiting # <<>> /\ Simple(at, Ids(Head(waiting)))) =>
           Tiles({Counterclockwise(at, Ids(Head(waiting)))})
    /\ (decoding \in {"bridging", "failed"} /\ face <= Len(shape.faces)
        /\ FaceBounds(shape.faces[face])) =>
               /\ decoding # "failed"
               /\ Resting => Tiles(holes \cup {Counterclockwise(at, shape.faces[face].outer)})

SixVolumes(m) == SumOver(LAMBDA t : Dot(m.at[t[1]], Cross(m.at[t[2]], m.at[t[3]])), m.faces)

\* Every side of a triangle is the side of one other, run the other way, and the
\* outside is outside.
Closed(m) == EachOnce(m.faces) /\ OpenSides(m.faces) = {} /\ SixVolumes(m) > 0

RunsBackwards(points) == TwiceArea(points, Ids(points)) <= 0

\* The sections for which the code builds something else than a closed solid.
UnequalRings(s) == s.kind = "hollow" /\ Len(s.outer) # Len(s.inner)
SweptBackwards(s) == RunsBackwards(s.outer) \/ (s.inner # <<>> /\ RunsBackwards(s.inner))
KnownGap ==
    LET s == plan.section IN
    \/ plan.by \in {"extrude", "arc", "path"} /\ UnequalRings(s)
    \/ plan.by \in {"arc", "path"} /\ SweptBackwards(s)
    \/ plan.by = "round" /\ s.inner # <<>>
    \/ plan.by = "surface" /\ RunsBackwards(OpenContour(element.contour))

\* A contour that meets itself bounds nothing.
Bounding ==
    /\ plan.by = "shape" => \A k \in DOMAIN shape.faces : FaceBounds(shape.faces[k])
    /\ \A k \in DOMAIN Contours(plan, element) :
          LET contour == Contours(plan, element)[k] IN Simple(contour, Ids(contour))

\* Every construction gives a closed solid that faces outwards; those of the
\* following do not, and no others: a section swept clockwise, a hollow one whose
\* rings differ in number, the cap of a tank and a treatment whose contour runs
\* clockwise.
SolidsClose == (outcome = "made" /\ Bounding) => (Closed(mesh) <=> ~KnownGap)
=============================================================================
