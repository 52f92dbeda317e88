---------------------------- MODULE NonPartGeometry ----------------------------
(***************************************************************************)
(* The display geometry of what is not a part: surface treatments, polygon *)
(* welds, grids, reinforcement and bolts (make_nonpart_geometry_stream).   *)
(* Everything is decoded when the stream is made, kind after kind and row  *)
(* after row, against one budget of retained bytes, one of visited linked  *)
(* rows and one of expanded bars.  An element is drawn or reported.        *)
(*                                                                         *)
(* Coordinates are left out: a curve or a mesh is known by the object it   *)
(* belongs to and by how much of what it has.  What a row's coordinates    *)
(* make impossible is given with the row (sound, recipe, suits, framed).   *)
(***************************************************************************)
EXTENDS LinkedRows, BarSpacing, FiniteSetsExt

CONSTANTS
    NonPartModels,                  \* what the tables hold
    ChunkRecord, PairBytes,         \* sizeof(PolygonChunk), of a point in the plane
    WeldRowRecord                   \* sizeof(WeldPolygonRow)

RebarLinks(bar) == {bar.polygon, bar.size, bar.info, bar.spacing, bar.geometry, bar.bending}

\* Where a direction of a mesh of bars starts and ends, and its spacing, which is positive: a
\* row that has none is not sized and never gets as far as its bars.
Direction(d) == d[1] \in Int /\ d[2] \in Int /\ d[3] \in Nat \ {0}

\* The rows of a table, in the order they lie in it.
Table(t) == Len(t) \in Nat /\ DOMAIN t = 1..Len(t)

\* No two rows of a table that are not hidden have the same id.
Keyed(t) == \A i, j \in DOMAIN t : t[i].visible /\ t[j].visible /\ t[i].id = t[j].id => i = j

\* The elements that are drawn one by one are found by their ids.
IdsAreKeys(m) == Keyed(m.surfaces) /\ Keyed(m.rebars) /\ Keyed(m.bolts)

ASSUME NonPartAssumption ==
    /\ {ChunkRecord, PairBytes, WeldRowRecord} \subseteq Nat \ {0}
    /\ \A m \in NonPartModels :
        /\ m.payload \in Nat /\ m.requested \subseteq Nat
        /\ LinkTable(m.linked) /\ IsFiniteSet(DOMAIN m.linked)
        /\ \A i \in DOMAIN m.contours : m.contours[i].points \in Nat
        /\ Table(m.contours) /\ Table(m.relations) /\ Table(m.weldRows)
        /\ Table(m.surfaces) /\ Table(m.rebars) /\ Table(m.bolts)
        /\ \A i \in DOMAIN m.rebars :
            LET bar == m.rebars[i] IN
            /\ RebarLinks(bar) \subseteq Links \cup {End}
            /\ bar.length \in Nat /\ bar.bars \in Nat /\ bar.spacings \in Seq(Nat)
            /\ Direction(bar.along) /\ Direction(bar.across)

VARIABLES
    model,      \* the tables, as decoded
    stage,      \* the kind of rows being read
    row,        \* the next row of that kind
    todo,       \* polygons still to be gone through, in any order
    contours,   \* points kept of the contours of surfaces
    spoiled,    \* contours of which a row did not fit
    limited,    \* weld polygons of which a row did not fit
    kept,       \* rows kept of weld polygons
    invalid,    \* weld polygons with a row that cannot be
    round,      \* what is asked for the reinforcement under way
    expanded,   \* bars expanded from groups and meshes
    curves, meshes, diagnostics     \* what the stream will hand out

outVars == <<curves, meshes, diagnostics>>
polygonVars == <<contours, spoiled, limited, kept, invalid>>
readVars == <<model, expanded, outVars, polygonVars>>
geometryVars == <<linkVars, model, stage, row, todo, polygonVars, round, expanded, outVars>>

Quiet == UNCHANGED <<linkVars, round, expanded>>

\* The objects of a type the request asks for.
Wanting(id, types) ==
    id \in model.range /\ id \in DOMAIN model.types /\ model.types[id] \in types

Taken(element, types) == element.visible /\ Wanting(element.id, types)

SurfaceTypes == {"surface"}
RebarTypes == {"rebar"}
BoltTypes == {"bolt"}

\* A later row of a table replaces an earlier one with the same key.
LastOf(S) == CHOOSE i \in S : \A j \in S : j <= i

Related(type) == {i \in DOMAIN model.relations :
                     model.relations[i].visible /\ model.relations[i].type = type}

Fathers(id) == {i \in Related("surface") : model.relations[i].to = id}
Father(id) == model.relations[LastOf(Fathers(id))].from

Owners(polygon) ==
    {i \in Related("weld") :
        /\ model.relations[i].to = polygon
        /\ Wanting(model.relations[i].from, {"weld"})
        /\ model.relations[i].from \in DOMAIN model.welds}
Owner(polygon) == model.relations[LastOf(Owners(polygon))].from

\* Faulty variant: what cannot be drawn is passed over.
DiagnoseNothing(id, code) == UNCHANGED outVars

Diagnose(id, code) ==
    /\ diagnostics' = Append(diagnostics, [id |-> id, code |-> code])
    /\ UNCHANGED <<curves, meshes>>

Draw(mesh) ==
    /\ meshes' = Append(meshes, mesh)
    /\ UNCHANGED <<curves, diagnostics>>

NextRow == row' = row + 1 /\ UNCHANGED <<model, stage, todo>>

\* The sum of the values of a function.
Total(f) == MapThenSumSet(LAMBDA x : f[x], DOMAIN f)
-----------------------------------------------------------------------------
Larger(a, b) == IF a < b THEN b ELSE a
Smaller(a, b) == IF a < b THEN a ELSE b

\* The bytes that may be retained: as many as the request says, or 64 for one of the payload.
Budget(payload, requested) == IF requested # 0 THEN requested ELSE Larger(1, 64 * payload)

\* The bars that groups and meshes may be expanded to.
MostBars == Larger(1, model.payload \div 128)

GeometryInit ==
    /\ model \in NonPartModels
    /\ rows \in {model.linked}
    /\ \E requested \in model.requested : limit = Budget(model.payload, requested)
    /\ mostVisits = MostVisits(Cardinality(DOMAIN rows), limit)
    /\ used = 0 /\ visits = 0 /\ cache = [k \in {} |-> 0] /\ NoneAsked
    /\ stage = "start" /\ row = 1 /\ todo = {}
    /\ contours = [k \in {} |-> 0] /\ kept = [k \in {} |-> <<>>]
    /\ spoiled = {} /\ limited = {} /\ invalid = {}
    /\ round = "none" /\ expanded = 0
    /\ curves = <<>> /\ meshes = <<>> /\ diagnostics = <<>>

Stages == <<"start", "contours", "surfaces", "weld_rows", "welds", "invalid_welds",
            "limited_welds", "grids", "rebars", "bolts", "done">>

After(s) == Stages[1 + CHOOSE i \in DOMAIN Stages : Stages[i] = s]

\* Without the modern objects there is nothing to draw, and old rows are reported once.
NoObjects ==
    /\ stage = "start" /\ ~model.objects
    /\ stage' = "done"
    /\ IF model.old THEN Diagnose(0, "decoder_unavailable") ELSE UNCHANGED outVars
    /\ Quiet /\ UNCHANGED <<model, row, todo, polygonVars>>

\* The rows a stage goes through.
RowsOf(s) ==
    CASE s = "contours" -> IF \E i \in DOMAIN model.surfaces :
                                  Taken(model.surfaces[i], SurfaceTypes)
                           THEN model.contours ELSE <<>>
      [] s = "surfaces" -> model.surfaces
      [] s = "weld_rows" -> model.weldRows
      [] s = "grids" -> model.relations
      [] s = "rebars" -> model.rebars
      [] s = "bolts" -> IF model.boltTables THEN model.bolts ELSE <<>>
      [] OTHER -> <<>>

\* The polygons a stage goes through.
TodoOf(s) ==
    CASE s = "welds" -> DOMAIN kept
      [] s = "invalid_welds" -> invalid \ DOMAIN kept
      [] s = "limited_welds" -> limited \ DOMAIN kept
      [] OTHER -> {}

AtRow(s) == stage = s /\ row \in DOMAIN RowsOf(s)

NextStage ==
    /\ stage # "done" /\ (stage = "start" => model.objects)
    /\ ~AtRow(stage) /\ todo = {}
    /\ stage' = After(stage)
    /\ row' = 1 /\ todo' = TodoOf(stage')
    /\ Quiet /\ UNCHANGED <<model, outVars, polygonVars>>

-----------------------------------------------------------------------------
(* Surface treatments. *)

SurfaceContours ==
    {model.surfaces[i].contour : i \in {j \in DOMAIN model.surfaces :
                                           Taken(model.surfaces[j], SurfaceTypes)}}

\* A part of a contour is paid for, also when it turns out to have no point.  One that does
\* not fit spoils the contour, and the rows behind it may still fit.
ReadContour ==
    /\ AtRow("contours")
    /\ LET part  == model.contours[row]
           bytes == ChunkRecord + part.points * PairBytes
       IN  IF ~part.visible \/ part.key \notin SurfaceContours
           THEN UNCHANGED <<used, contours, spoiled>>
           ELSE IF ~Affordable(bytes)
           THEN /\ spoiled' = spoiled \cup {part.key}
                /\ UNCHANGED <<used, contours>>
           ELSE /\ Spent(bytes)
                /\ contours' = IF part.points = 0 THEN contours
                     ELSE [k \in DOMAIN contours \cup {part.key} |->
                              (IF k \in DOMAIN contours THEN contours[k] ELSE 0)
                              + (IF k = part.key THEN part.points ELSE 0)]
                /\ UNCHANGED spoiled
    /\ NextRow
    /\ UNCHANGED <<fixedLinkVars, walkVars, round, expanded, outVars, limited, kept, invalid>>

\* The two caps and the sides over a contour.
SurfacePositions(points) == 6 * points
SurfaceIndices(points) == 12 * points - 12

SurfaceProblem(surface) ==
    IF surface.contour \in spoiled THEN "resource_limit"
    ELSE IF \/ ~surface.complete \/ Fathers(surface.id) = {}
            \/ surface.contour \notin DOMAIN contours
            \/ Father(surface.id) \notin model.framed THEN "decoder_unavailable"
    ELSE LET points == contours[surface.contour] IN
         IF points < 3 THEN "invalid_geometry"
         ELSE IF ~Affordable(MeshBytes(SurfacePositions(points), SurfaceIndices(points)))
              THEN "resource_limit"
         ELSE IF ~surface.recipe THEN "invalid_geometry" ELSE "none"

\* A closing point that repeats the first one of a contour is not in the mesh.
DrawSurface ==
    /\ AtRow("surfaces")
    /\ LET surface == model.surfaces[row]
           problem == SurfaceProblem(surface)
           count   == contours[surface.contour]
           points  == IF surface.closed /\ count > 3 THEN count - 1 ELSE count
       IN  IF ~Taken(surface, SurfaceTypes) THEN UNCHANGED <<used, outVars>>
           ELSE IF problem # "none"
           THEN Diagnose(surface.id, problem) /\ UNCHANGED used
           ELSE /\ Spent(MeshBytes(SurfacePositions(points), SurfaceIndices(points)))
                /\ Draw([id |-> surface.id, sweeps |-> <<>>,
                         positions |-> SurfacePositions(points),
                         indices |-> SurfaceIndices(points)])
    /\ NextRow
    /\ UNCHANGED <<fixedLinkVars, walkVars, round, expanded, polygonVars>>
-----------------------------------------------------------------------------
(* Polygon welds. *)

\* A row of a weld is drawn when the weld is a simple one and its seam on that side a fillet.
Displayable(part) ==
    /\ part.visible /\ Owners(part.polygon) # {}
    /\ LET weld == model.welds[Owner(part.polygon)] IN weld.simple /\ part.side \in weld.seams

ReadWeldRow ==
    /\ AtRow("weld_rows")
    /\ LET part  == model.weldRows[row]
           bytes == WeldRowRecord + part.values * PointBytes
       IN  IF ~Displayable(part) THEN UNCHANGED <<used, limited, kept, invalid>>
           ELSE IF part.values \notin 1..10
           THEN /\ invalid' = invalid \cup {part.polygon}
                /\ UNCHANGED <<used, limited, kept>>
           ELSE IF ~Affordable(bytes)
           THEN /\ limited' = limited \cup {part.polygon}
                /\ UNCHANGED <<used, kept, invalid>>
           ELSE /\ Spent(bytes)
                /\ kept' = [p \in DOMAIN kept \cup {part.polygon} |->
                               (IF p \in DOMAIN kept THEN kept[p] ELSE <<>>)
                               \o (IF p = part.polygon
                                   THEN <<[number |-> part.number, side |-> part.side,
                                           values |-> part.values]>> ELSE <<>>)]
                /\ UNCHANGED <<limited, invalid>>
    /\ NextRow
    /\ UNCHANGED <<fixedLinkVars, walkVars, round, expanded, outVars, contours, spoiled>>

\* The rows of a polygon in the order of their numbers, which must be 0, 1, 2, ...
InSequence(parts) ==
    /\ {parts[i].number : i \in DOMAIN parts} = 0..Len(parts) - 1
    /\ \A i \in DOMAIN parts : parts[i].side = parts[1].side

\* Faulty variant: the rows are taken as they lie in the table.
AsStored(parts) == parts

ByNumber(parts) ==
    [n \in DOMAIN parts |-> parts[CHOOSE i \in DOMAIN parts : parts[i].number = n - 1]]

Values(parts) == Total([i \in DOMAIN parts |-> parts[i].values])

\* A position, then two directions and the next position for every segment.
Segments(parts) == (Values(parts) - 1) \div 3
SweepPositions(parts) == 9 * (Segments(parts) + 1)
SweepIndices(parts) == 18 * Segments(parts) + 6

MeshOf(id) == {i \in DOMAIN meshes : meshes[i].id = id}

\* Faulty variant: a polygon of a weld that has a mesh already is taken to be paid for.
SweepBytesOfFirst(polygon) ==
    IF MeshOf(Owner(polygon)) = {}
    THEN MeshBytes(SweepPositions(kept[polygon]), SweepIndices(kept[polygon])) ELSE 0

SweepBytes(polygon) ==
    MeshBytes(SweepPositions(kept[polygon]), SweepIndices(kept[polygon]))
    - (IF MeshOf(Owner(polygon)) = {} THEN 0 ELSE MeshRecord)

WeldProblem(polygon) ==
    LET parts == kept[polygon] IN
    IF polygon \in limited THEN "resource_limit"
    ELSE IF polygon \in invalid \/ ~InSequence(parts) THEN "invalid_geometry"
    ELSE IF Owner(polygon) \notin model.framed THEN "decoder_unavailable"
    ELSE IF \/ Values(parts) < 4 \/ Values(parts) % 3 # 1
            \/ polygon \notin model.sound THEN "invalid_geometry"
    ELSE IF ~Affordable(SweepBytes(polygon)) THEN "resource_limit" ELSE "none"

\* The mesh of a weld grows by the sweep along a polygon.
Swept(mesh, polygon) ==
    LET parts == kept[polygon] IN
    [mesh EXCEPT !.sweeps = Append(@, [polygon |-> polygon, parts |-> ByNumber(parts),
                                       first |-> mesh.positions \div 3]),
                 !.positions = @ + SweepPositions(parts),
                 !.indices = @ + SweepIndices(parts)]

NewMesh(id) == [id |-> id, sweeps |-> <<>>, positions |-> 0, indices |-> 0]

\* The polygons are in a hash table: their order is none.
DrawWeld(polygon) ==
    /\ stage = "welds" /\ polygon \in todo
    /\ LET weld    == Owner(polygon)
           problem == WeldProblem(polygon)
       IN  IF problem # "none" THEN Diagnose(weld, problem) /\ UNCHANGED used
           ELSE /\ Spent(SweepBytes(polygon))
                /\ IF MeshOf(weld) = {} THEN Draw(Swept(NewMesh(weld), polygon))
                   ELSE /\ meshes' = [i \in DOMAIN meshes |->
                              IF i \in MeshOf(weld) THEN Swept(meshes[i], polygon) ELSE meshes[i]]
                        /\ UNCHANGED <<curves, diagnostics>>
    /\ todo' = todo \ {polygon}
    /\ UNCHANGED <<fixedLinkVars, walkVars, model, stage, row, round, expanded, polygonVars>>

\* Polygons none of whose rows was kept.
ReportWeld(polygon) ==
    /\ stage \in {"invalid_welds", "limited_welds"} /\ polygon \in todo
    /\ Diagnose(Owner(polygon),
                IF stage = "invalid_welds" THEN "invalid_geometry" ELSE "resource_limit")
    /\ todo' = todo \ {polygon}
    /\ Quiet /\ UNCHANGED <<model, stage, row, polygonVars>>
-----------------------------------------------------------------------------
(* Grids: a line for each vertical plane of a grid. *)

GridLine(relation) ==
    /\ relation.visible /\ relation.type = "grid"
    /\ Wanting(relation.from, {"grid"})
    /\ relation.to \in DOMAIN model.types /\ model.types[relation.to] = "plane"
    /\ relation.from \in model.framed /\ relation.to \in model.upright

DrawCurves(id, count, points) ==
    /\ curves' = curves \o [i \in 1..count |-> [id |-> id, points |-> points]]
    /\ UNCHANGED <<meshes, diagnostics>>

DrawGrid ==
    /\ AtRow("grids")
    /\ LET relation == model.relations[row] IN
       IF ~GridLine(relation) THEN UNCHANGED <<used, outVars>>
       ELSE IF ~Affordable(CurveBytes(2))
       THEN Exhaust /\ Diagnose(relation.from, "resource_limit")
       ELSE Spent(CurveBytes(2)) /\ DrawCurves(relation.from, 1, 2)
    /\ NextRow
    /\ UNCHANGED <<fixedLinkVars, walkVars, round, expanded, polygonVars>>
-----------------------------------------------------------------------------
(* Reinforcement: bars, groups of bars and meshes of bars.  What a row links to is asked for *)
(* in rounds, and a round's links are all read before the first of them is looked at.        *)

Bar == model.rebars[row]
BytesOf(chain) == Total([i \in DOMAIN chain |-> rows[chain[i]].bytes])
PathPoints == BytesOf(cache[Bar.polygon].chain) \div PointBytes

Limited(links) == \E k \in links : cache[k].status = "resource_limit"
AllRead(links) == \A k \in links : cache[k].status = "success"

AskFor(next, links) ==
    /\ round' = next /\ asked' = links
    /\ UNCHANGED <<fixedLinkVars, visits, cache, path, weight, used, row, model, stage, todo,
                   expanded, outVars, polygonVars>>

\* The row is done with.
Leave ==
    /\ round' = "none" /\ NextRow
    /\ UNCHANGED <<fixedLinkVars, walkVars, polygonVars>>

Report(code) == Diagnose(Bar.id, code) /\ Leave /\ UNCHANGED expanded

\* Bars that fit, each with so many points.
Expand(bars, count, points) ==
    /\ SpentOnCurves(bars, points)
    /\ IF bars * CurveBytes(points) > Remaining THEN Report("resource_limit")
       ELSE /\ expanded' = expanded + count
            /\ DrawCurves(Bar.id, bars, points)
            /\ Leave

AtRound(r) == AtRow("rebars") /\ round = r /\ asked = <<>>

BeginRebar ==
    /\ AtRound("none")
    /\ IF ~Taken(Bar, RebarTypes) THEN Leave /\ UNCHANGED <<used, expanded, outVars>>
       ELSE IF ~Affordable(CurveBytes(2)) THEN Report("resource_limit") /\ UNCHANGED used
       ELSE IF ~Bar.attribute \/ Bar.id \notin model.framed
            THEN Report("decoder_unavailable") /\ UNCHANGED used
       ELSE AskFor("polygon", <<Bar.polygon>>)

PolygonProblem ==
    IF Limited({Bar.polygon}) THEN "resource_limit"
    ELSE IF \/ ~AllRead({Bar.polygon}) \/ PathPoints < 2
            \/ BytesOf(cache[Bar.polygon].chain) % PointBytes # 0 THEN "invalid_geometry"
    ELSE IF \/ Bar.subtype \notin {"bar", "group", "mesh", "bent_mesh"}
            \/ Bar.subtype \in {"mesh", "bent_mesh"} /\ ~Bar.meshAttribute
         THEN "decoder_unavailable" ELSE "none"

HearPolygon ==
    /\ AtRound("polygon")
    /\ IF PolygonProblem # "none" THEN Report(PolygonProblem) /\ UNCHANGED used
       ELSE IF Bar.subtype \in {"bar", "group"} THEN AskFor("size", <<Bar.size>>)
       ELSE AskFor("mesh", <<Bar.size, Bar.spacing, Bar.geometry>>
                           \o (IF Bar.subtype = "bent_mesh" THEN <<Bar.bending>> ELSE <<>>))

\* A bar is paid for; a group goes on.
HearSize ==
    /\ AtRound("size")
    /\ IF Limited({Bar.size}) THEN Report("resource_limit") /\ UNCHANGED used
       ELSE IF ~AllRead({Bar.size}) \/ ~Bar.sized
            THEN Report("invalid_geometry") /\ UNCHANGED used
       ELSE IF Bar.subtype = "group" THEN AskFor("group", <<Bar.info, Bar.spacing, Bar.geometry>>)
       ELSE IF ~Affordable(CurveBytes(PathPoints))
            THEN Exhaust /\ Report("resource_limit")
       ELSE Expand(1, 0, PathPoints)

\* The most bars with so many points that both limits leave room for.
Room(points) ==
    Smaller(IF expanded >= MostBars THEN 0 ELSE MostBars - expanded,
            Remaining \div CurveBytes(points))

\* A count kept with the group goes before the one in its spacings.
GroupDistances(most) ==
    IF ~Bar.shaped THEN Refused("invalid_geometry")
    ELSE Excluded(Bar.exclusion,
                  Distances(Bar.kind, Bar.length,
                            IF Bar.kind = "count" /\ Bar.bars > 0 THEN <<Bar.bars>>
                            ELSE Bar.spacings, most))

\* Two polygons side by side are the ends of a tapered group of straight bars.
HearGroup ==
    /\ AtRound("group")
    /\ LET links  == {Bar.info, Bar.spacing, Bar.geometry}
           placed == GroupDistances(Room(PathPoints))
       IN  IF Limited(links) THEN Report("resource_limit") /\ UNCHANGED used
           ELSE IF ~AllRead(links) \/ ~Bar.informed
                THEN Report("invalid_geometry") /\ UNCHANGED used
           ELSE IF Room(PathPoints) = 0 THEN Exhaust /\ Report("resource_limit")
           ELSE IF placed.code # "none" THEN Report(placed.code) /\ UNCHANGED used
           ELSE Expand(Len(placed.at), Len(placed.at), IF Bar.tapered THEN 2 ELSE PathPoints)

MeshLinks ==
    {Bar.size, Bar.spacing, Bar.geometry} \cup (IF Bar.subtype = "bent_mesh" THEN {Bar.bending}
                                                ELSE {})

Lengthwise == RegularCount(Bar.along[1], Bar.along[2], Bar.along[3])
Across == RegularCount(Bar.across[1], Bar.across[2], Bar.across[3])

MeshProblem ==
    IF Limited(MeshLinks) THEN "resource_limit"
    ELSE IF ~AllRead(MeshLinks) \/ ~Bar.sized THEN "invalid_geometry" ELSE "none"

\* A flat mesh: all bars have two points.  A mesh that leaves no room exhausts the budget.
HearMesh ==
    /\ AtRound("mesh") /\ Bar.subtype = "mesh"
    /\ IF MeshProblem # "none" THEN Report(MeshProblem) /\ UNCHANGED used
       ELSE IF Room(2) = 0 THEN Exhaust /\ Report("resource_limit")
       ELSE IF PathPoints < 4 \/ ~Bar.shaped THEN Report("invalid_geometry") /\ UNCHANGED used
       ELSE IF Lengthwise + Across > Room(2) THEN Report("resource_limit") /\ UNCHANGED used
       ELSE Expand(Lengthwise + Across, Lengthwise + Across, 2)

\* A bent mesh: the bars across follow its polygon.  Room is asked for before they are made.
BentBytes == Across * CurveBytes(PathPoints) + Lengthwise * CurveBytes(2)

HearBentMesh ==
    /\ AtRound("mesh") /\ Bar.subtype = "bent_mesh"
    /\ IF MeshProblem # "none" THEN Report(MeshProblem) /\ UNCHANGED used
       ELSE IF ~Bar.measured THEN Report("invalid_geometry") /\ UNCHANGED used
       ELSE IF \/ Across + Lengthwise > (IF expanded >= MostBars THEN 0 ELSE MostBars - expanded)
               \/ ~Affordable(BentBytes) THEN Report("resource_limit") /\ UNCHANGED used
       ELSE IF ~Bar.shaped THEN Report("invalid_geometry") /\ UNCHANGED used
       ELSE /\ Spent(BentBytes)
            /\ expanded' = expanded + Across + Lengthwise
            /\ curves' = curves \o [i \in 1..Across |-> [id |-> Bar.id, points |-> PathPoints]]
                                \o [i \in 1..Lengthwise |-> [id |-> Bar.id, points |-> 2]]
            /\ UNCHANGED <<meshes, diagnostics>>
            /\ Leave

DecodeRebar ==
    \/ Ask /\ UNCHANGED <<model, stage, row, todo, polygonVars, round, expanded, outVars>>
    \/ BeginRebar \/ HearPolygon \/ HearSize \/ HearGroup \/ HearMesh \/ HearBentMesh
-----------------------------------------------------------------------------
(* Bolts: a cylinder for each point of a bolt's pattern, with its head and nut when their *)
(* dimensions are known.                                                                  *)

PrismPositions(facets) == 3 * (2 * facets + 2)
PrismIndices(facets) == 12 * facets

Stud(bolt) == bolt.legacy = "stud"
Headed(bolt) == bolt.legacy = "no" /\ bolt.known /\ bolt.axis = "long"

FastenerPositions(bolt) ==
    IF Stud(bolt) THEN 2 * PrismPositions(8)
    ELSE PrismPositions(12) + (IF Headed(bolt) THEN 2 * PrismPositions(6) ELSE 0)
FastenerIndices(bolt) ==
    IF Stud(bolt) THEN 2 * PrismIndices(8)
    ELSE PrismIndices(12) + (IF Headed(bolt) THEN 2 * PrismIndices(6) ELSE 0)

\* The rows of a pattern, which nobody pays for.
PatternRows(key) ==
    {i \in DOMAIN model.contours :
        model.contours[i].visible /\ model.contours[i].key = key /\ model.contours[i].points > 0}
PatternPoints(key) == Total([i \in PatternRows(key) |-> model.contours[i].points])

BoltProblem(bolt) ==
    IF ~Affordable(MeshBytes(PrismPositions(12), PrismIndices(12))) THEN "resource_limit"
    ELSE IF ~bolt.attribute \/ bolt.id \notin model.framed \/ PatternRows(bolt.pattern) = {}
         THEN "decoder_unavailable"
    ELSE IF bolt.legacy = "other" THEN "decoder_unavailable"
    ELSE IF Stud(bolt) /\ bolt.axis # "long" THEN "invalid_geometry" ELSE "none"

\* A bolt without a problem of its own may still not fit, and then nothing fits any more.  Its
\* mesh is empty when its hole has no length.
DrawBolt ==
    /\ AtRow("bolts")
    /\ LET bolt      == model.bolts[row]
           problem   == BoltProblem(bolt)
           points    == PatternPoints(bolt.pattern)
           positions == points * FastenerPositions(bolt)
           indices   == points * FastenerIndices(bolt)
       IN  IF ~Taken(bolt, BoltTypes) THEN UNCHANGED <<used, outVars>>
           ELSE IF problem # "none" THEN Diagnose(bolt.id, problem) /\ UNCHANGED used
           ELSE IF ~Affordable(MeshBytes(positions, indices))
           THEN Exhaust /\ Diagnose(bolt.id, "resource_limit")
           ELSE IF bolt.axis = "flat" THEN UNCHANGED <<used, outVars>>
           ELSE /\ Spent(MeshBytes(positions, indices))
                /\ Draw([id |-> bolt.id, sweeps |-> <<>>,
                         positions |-> positions, indices |-> indices])
    /\ NextRow
    /\ UNCHANGED <<fixedLinkVars, walkVars, round, expanded, polygonVars>>
-----------------------------------------------------------------------------
Finished == stage = "done" /\ UNCHANGED geometryVars

Decode ==
    \/ NoObjects \/ NextStage
    \/ ReadContour \/ DrawSurface
    \/ ReadWeldRow \/ (\E polygon \in todo : DrawWeld(polygon) \/ ReportWeld(polygon))
    \/ DrawGrid \/ DecodeRebar \/ DrawBolt

GeometryNext == Decode \/ Finished

GeometrySpec == GeometryInit /\ [][GeometryNext]_geometryVars
-----------------------------------------------------------------------------
(* Properties. *)

CurvesBytes == Total([i \in DOMAIN curves |-> CurveBytes(curves[i].points)])
MeshesBytes == Total([i \in DOMAIN meshes |-> MeshBytes(meshes[i].positions, meshes[i].indices)])
ReadBytes ==
    Total([k \in {l \in DOMAIN cache : cache[l].status = "success"} |-> BytesOf(cache[k].chain)])
PointsBytes == Total([k \in DOMAIN contours |-> contours[k] * PairBytes])
KeptBytes ==
    Total([k \in DOMAIN kept |-> Len(kept[k]) * WeldRowRecord + Values(kept[k]) * PointBytes])

\* Whoever asks for room, the limits of the request hold: one of bytes retained (process.hpp:
\* "hard aggregate cap"), one of linked rows visited (RetainedGeometryBudget,
\* LinkedRowVisitBudget).
WithinLimits == used <= limit /\ visits <= mostVisits

\* The limits hold and mean something: everything that is retained together was paid for,
\* finished geometry, chains of linked rows, contours and rows of welds kept aside.
RetainedIsPaid ==
    /\ WithinLimits
    /\ CurvesBytes + MeshesBytes + ReadBytes + PointsBytes + KeptBytes <= used

\* Shorter than its spacing, a line with what is left over at both ends has three bars.
ShortTwice ==
    Bar.kind = "left_over_twice" /\ Bar.spacings # <<>> /\ Bar.length < Head(Bar.spacings)

\* The bars of a group fit the room that is left for them, but for one bar too many in the
\* case above, which asks room for two, and they lie on their line one after the other, from
\* its start to its end unless the ends are left out.
BarsFit ==
    AtRound("group") /\ Room(PathPoints) > 0 =>
    LET placed == GroupDistances(Room(PathPoints))
        last   == Len(placed.at)
    IN  placed.code = "none" =>
        /\ last <= Room(PathPoints) + (IF ShortTwice THEN 1 ELSE 0)
        /\ Bar.length > 0 =>
            /\ \A i \in 1..last - 1 : placed.at[i] < placed.at[i + 1]
            /\ Bar.kind # "list" => \A i \in 1..last : placed.at[i] \in 0..Bar.length * placed.over
            /\ last > 1 /\ Bar.exclusion = "none" =>
                /\ placed.at[1] = 0
                /\ Bar.kind # "list" => placed.at[last] = Bar.length * placed.over

\* The seams along a weld's polygons are all in its one mesh: each polygon that is not refused
\* once, whatever other polygons came before, with all its rows of both tables' order in the
\* order of their numbers, and on vertices no other sweep has.
WeldsWhole ==
    stage \in {"grids", "rebars", "bolts", "done"} /\ model.objects =>
    /\ \A i \in DOMAIN meshes : meshes[i].sweeps # <<>> =>
        /\ MeshOf(meshes[i].id) = {i}
        /\ \A j \in DOMAIN meshes[i].sweeps :
            LET sweep == meshes[i].sweeps[j] IN
            /\ Owner(sweep.polygon) = meshes[i].id
            /\ \A k \in DOMAIN meshes[i].sweeps :
                   meshes[i].sweeps[k].polygon = sweep.polygon => k = j
            /\ \A n \in DOMAIN sweep.parts : sweep.parts[n].number = n - 1
            /\ Len(sweep.parts) = Cardinality({r \in DOMAIN model.weldRows :
                   Displayable(model.weldRows[r]) /\ model.weldRows[r].polygon = sweep.polygon})
            /\ sweep.first =
                   Total([k \in 1..j - 1 |-> SweepPositions(meshes[i].sweeps[k].parts) \div 3])

Reported(id) == {i \in DOMAIN diagnostics : diagnostics[i].id = id}
Drawn(id) == MeshOf(id) \cup {i \in DOMAIN curves : curves[i].id = id}

\* Groups and meshes whose bars are all left out, and bolts in a hole without length.
Empty(element) ==
    \/ element.kind = "rebar" /\ element.bar.subtype # "bar"
    \/ element.kind = "bolt" /\ element.bolt.axis = "flat"

Elements ==
    {[kind |-> "surface", id |-> model.surfaces[i].id] :
        i \in {j \in DOMAIN model.surfaces : Taken(model.surfaces[j], SurfaceTypes)}}
    \cup {[kind |-> "rebar", id |-> model.rebars[i].id, bar |-> model.rebars[i]] :
        i \in {j \in DOMAIN model.rebars : Taken(model.rebars[j], RebarTypes)}}
    \cup {[kind |-> "bolt", id |-> model.bolts[i].id, bolt |-> model.bolts[i]] :
        i \in {j \in DOMAIN RowsOf("bolts") : Taken(model.bolts[j], BoltTypes)}}

\* Polygons of a weld that has a row to display.
WeldPolygons(id) ==
    {p \in {model.weldRows[i].polygon :
                i \in {j \in DOMAIN model.weldRows : Displayable(model.weldRows[j])}} :
        Owner(p) = id}

SweepsOf(id) == UNION {{meshes[i].sweeps[j].polygon : j \in DOMAIN meshes[i].sweeps} :
                           i \in MeshOf(id)}

\* In the end every surface, bar and bolt asked for is drawn or reported, not both, and of a
\* weld every polygon; nobody else is, and nobody in a shape of another kind.  Bolts in a hole
\* without length and groups that leave all their bars out are neither, and a weld's polygon
\* whose kept rows have none is counted twice when a row of it did not fit and another could
\* not be.
EveryElementAnswered ==
    stage = "done" /\ model.objects =>
    /\ \A element \in Elements :
        /\ ~(Drawn(element.id) # {} /\ Reported(element.id) # {})
        /\ Cardinality(Reported(element.id)) <= 1
        /\ Drawn(element.id) = {} /\ Reported(element.id) = {} => Empty(element)
    /\ \A id \in DOMAIN model.welds : Wanting(id, {"weld"}) =>
        LET polygons == WeldPolygons(id)
            lost     == (invalid \cap limited) \ DOMAIN kept
        IN  Cardinality(SweepsOf(id)) + Cardinality(Reported(id))
                = Cardinality(polygons) + Cardinality(polygons \cap lost)
    /\ \A i \in DOMAIN meshes : Wanting(meshes[i].id, {"surface", "weld", "bolt"})
    /\ \A i \in DOMAIN curves : Wanting(curves[i].id, {"grid", "rebar"})
    /\ \A i \in DOMAIN diagnostics :
        Wanting(diagnostics[i].id, {"surface", "weld", "grid", "rebar", "bolt"})
=============================================================================
