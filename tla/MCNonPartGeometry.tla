-------------------------- MODULE MCNonPartGeometry --------------------------
(***************************************************************************)
(* Tables for the non-part geometry, each with what one kind of element    *)
(* can run into, and budgets from one that is too small for anything to    *)
(* the default one.  The sizes of records are those of a 64-bit build.     *)
(***************************************************************************)
EXTENDS NonPartGeometry, TLC

MCEnd == "end"
MCLinks == {"d1", "d2", "d3", "d4", "d5", "d6", "s1", "s2", "i1"}

Nothing ==
    [objects |-> TRUE, old |-> FALSE, linked |-> [k \in {} |-> 0], payload |-> 8,
     requested |-> {0}, range |-> 1..20, types |-> [k \in {} |-> ""], relations |-> <<>>,
     surfaces |-> <<>>, contours |-> <<>>, welds |-> [k \in {} |-> 0], weldRows |-> <<>>,
     framed |-> {}, sound |-> {}, upright |-> {}, rebars |-> <<>>, boltTables |-> TRUE,
     bolts |-> <<>>]

Line(type, from, to) == [visible |-> TRUE, type |-> type, from |-> from, to |-> to]
-----------------------------------------------------------------------------
(* Surfaces 1 and 2 on part 3: two rows of one contour between them, one of another. *)

Part(key, points) == [visible |-> TRUE, key |-> key, number |-> 1, points |-> points]
Surface(id, contour) ==
    [visible |-> TRUE, id |-> id, contour |-> contour, complete |-> TRUE, closed |-> FALSE,
     recipe |-> TRUE]

OfSurfaces ==
    [Nothing EXCEPT !.types = (1 :> "surface") @@ (2 :> "surface") @@ (3 :> "part"),
                    !.relations = <<Line("surface", 9, 1), Line("surface", 3, 1),
                                    Line("surface", 3, 2)>>,
                    !.contours = <<Part("k", 2), Part("m", 3), Part("k", 2)>>,
                    !.framed = {3},
                    !.requested = {0, 70, 200, 300, 400, 520, 600, 660, 700, 1200},
                    !.surfaces = <<Surface(1, "k"), Surface(2, "m")>>]

SurfaceModels ==
    {OfSurfaces, [OfSurfaces EXCEPT !.framed = {}],
     [OfSurfaces EXCEPT !.contours[1].points = 0], [OfSurfaces EXCEPT !.contours[2].visible = FALSE],
     [OfSurfaces EXCEPT !.contours[1].points = 1, !.contours[3].points = 1],
     [OfSurfaces EXCEPT !.range = {2}], [OfSurfaces EXCEPT !.surfaces[2].contour = "k"],
     [OfSurfaces EXCEPT !.surfaces[1].closed = TRUE],
     [OfSurfaces EXCEPT !.surfaces[2].closed = TRUE],
     [OfSurfaces EXCEPT !.surfaces[1].complete = FALSE, !.surfaces[2].recipe = FALSE],
     [OfSurfaces EXCEPT !.relations = <<>>], [OfSurfaces EXCEPT !.surfaces[1].visible = FALSE],
     [OfSurfaces EXCEPT !.objects = FALSE], [OfSurfaces EXCEPT !.objects = FALSE, !.old = TRUE]}
-----------------------------------------------------------------------------
(* Welds 1 and 2 with polygons p, q of one and r of the other, whose rows are not in order. *)

WeldRow(polygon, number, values) ==
    [visible |-> TRUE, polygon |-> polygon, number |-> number, side |-> "above",
     values |-> values]

OfWelds ==
    [Nothing EXCEPT !.types = (1 :> "weld") @@ (2 :> "weld"),
                    !.relations = <<Line("weld", 1, "p"), Line("weld", 2, "q"),
                                    Line("weld", 1, "q"), Line("weld", 2, "r")>>,
                    !.welds = [i \in 1..2 |-> [simple |-> TRUE, seams |-> {"above"}]],
                    !.framed = {1, 2}, !.sound = {"p", "q", "r"},
                    !.weldRows = <<WeldRow("p", 1, 3), WeldRow("q", 0, 4), WeldRow("p", 0, 4),
                                   WeldRow("r", 0, 4)>>,
                    !.requested = {0, 130, 400, 700, 900, 1100, 1200}]

WeldModels ==
    {OfWelds, [OfWelds EXCEPT !.framed = {1}], [OfWelds EXCEPT !.sound = {"p", "r"}],
     [OfWelds EXCEPT !.weldRows[1].number = 2], [OfWelds EXCEPT !.weldRows[2].values = 0],
     [OfWelds EXCEPT !.weldRows[1].values = 0], [OfWelds EXCEPT !.weldRows[1].values = 4],
     [OfWelds EXCEPT !.weldRows[3].side = "below"],
     [OfWelds EXCEPT !.weldRows[3].side = "below", !.welds[1].seams = {"above", "below"}],
     [OfWelds EXCEPT !.welds[2].simple = FALSE], [OfWelds EXCEPT !.range = {2}],
     [OfWelds EXCEPT !.weldRows[4].visible = FALSE],
     [OfWelds EXCEPT !.weldRows[2].polygon = "p", !.weldRows[2].values = 11,
                     !.weldRows[4].polygon = "p"]}
-----------------------------------------------------------------------------
(* Linked rows: a chain of two, one that shares its tail, a cycle, a row that is not there. *)

Linked(next, bytes) == [next |-> next, bytes |-> bytes]

WholeRows ==
    ("d1" :> Linked("d2", 24)) @@ ("d2" :> Linked(MCEnd, 24)) @@ ("d3" :> Linked("d4", 48))
    @@ ("d4" :> Linked("d2", 48)) @@ ("s1" :> Linked(MCEnd, 3)) @@ ("s2" :> Linked("s1", 2))
    @@ ("i1" :> Linked(MCEnd, 24))

CyclicRows == [WholeRows EXCEPT !["d2"].next = "d1", !["s1"].next = "s1", !["d4"].bytes = 8]
BrokenRows == [k \in DOMAIN WholeRows \ {"d2"} |-> WholeRows[k]]

Reinforcement(id, subtype) ==
    [visible |-> TRUE, id |-> id, subtype |-> subtype, attribute |-> TRUE,
     meshAttribute |-> TRUE, polygon |-> "d1", size |-> "s1", info |-> "i1", spacing |-> "d2",
     geometry |-> "d3", bending |-> "d4", sized |-> TRUE, informed |-> TRUE, shaped |-> TRUE,
     measured |-> TRUE, tapered |-> FALSE, kind |-> "equal", bars |-> 0, spacings |-> <<4>>,
     length |-> 10, exclusion |-> "none", along |-> <<0, 8, 4>>, across |-> <<0, 4, 4>>]

Meshed(id, subtype) == [Reinforcement(id, subtype) EXCEPT !.polygon = "d3", !.spacing = "s2"]

OfBars(first, second) ==
    [Nothing EXCEPT !.types = [i \in 1..2 |-> "rebar"], !.framed = {1, 2},
                    !.linked = WholeRows, !.payload = 640,
                    !.rebars = <<first, second>>,
                    !.requested = {0, 90, 100, 110, 121, 160, 260, 420, 560, 700}]

One == Reinforcement(1, "bar")
Group == Reinforcement(1, "group")

Singles ==
    {One, [One EXCEPT !.attribute = FALSE], [One EXCEPT !.sized = FALSE],
     [One EXCEPT !.visible = FALSE], [One EXCEPT !.polygon = MCEnd], [One EXCEPT !.polygon = "d2"],
     [One EXCEPT !.polygon = "s2"], [One EXCEPT !.subtype = "circular"], [One EXCEPT !.size = "s2"],
     [One EXCEPT !.polygon = "d4"]}

Groups ==
    {[Group EXCEPT !.kind = kind, !.length = length, !.exclusion = exclusion] :
        kind \in SpacingKinds, length \in {0, 3, 10}, exclusion \in Exclusions}
    \cup {[Group EXCEPT !.kind = "count", !.bars = bars, !.spacings = <<1>>] : bars \in {1, 2, 9}}
    \cup {[Group EXCEPT !.kind = "list", !.spacings = s] : s \in {<<>>, <<2, 0>>, <<2, 3>>}}
    \cup {[Group EXCEPT !.spacings = <<0>>], [Group EXCEPT !.kind = "other"],
          [Group EXCEPT !.exclusion = "other"], [Group EXCEPT !.informed = FALSE],
          [Group EXCEPT !.shaped = FALSE], [Group EXCEPT !.polygon = "d3", !.tapered = TRUE]}

Meshes ==
    UNION {{Meshed(1, type), [Meshed(1, type) EXCEPT !.sized = FALSE],
            [Meshed(1, type) EXCEPT !.meshAttribute = FALSE],
            [Meshed(1, type) EXCEPT !.shaped = FALSE],
            [Meshed(1, type) EXCEPT !.measured = FALSE], [Meshed(1, type) EXCEPT !.polygon = "d1"],
            [Meshed(1, type) EXCEPT !.along = <<1, 0, 4>>, !.across = <<1, 0, 4>>],
            [Meshed(1, type) EXCEPT !.along = <<0, 9, 2>>]} : type \in {"mesh", "bent_mesh"}}

RebarModels ==
    {OfBars(first, [Reinforcement(2, "bar") EXCEPT !.polygon = "d3"]) :
        first \in Singles \cup Groups \cup Meshes}
    \cup {[OfBars(first, [Reinforcement(2, "group") EXCEPT !.polygon = "d3"]) EXCEPT
            !.payload = 256] :
            first \in {bar \in Groups : bar.length = 3 /\ bar.kind \in FixedKinds}}
    \cup {[OfBars(first, second) EXCEPT !.linked = linked] :
            first \in {One, Meshed(1, "bent_mesh"), [One EXCEPT !.polygon = "d2"]},
            second \in {Reinforcement(2, "group"), Meshed(2, "mesh"), Meshed(2, "bent_mesh")},
            linked \in {CyclicRows, BrokenRows, WholeRows}}

\* Polygons that go round one cycle, from another row each, use the visits up.
Around == <<"d1", "d2", "d3", "d4", "d5", "d6">>
RoundTable ==
    [k \in {Around[i] : i \in 1..6} |->
        Linked(CHOOSE n \in {Around[i] : i \in 1..6} :
                   \E i \in 1..6 : k = Around[i] /\ n = Around[(i % 6) + 1], 0)]

VisitModels ==
    {[OfBars(One, One) EXCEPT
        !.types = [i \in 1..6 |-> "rebar"], !.framed = 1..6, !.linked = linked,
        !.requested = {96, 0},
        !.rebars = [i \in 1..6 |->
            [Reinforcement(i, "bar") EXCEPT !.polygon = IF i = 3 THEN "s1" ELSE Around[i]]]] :
        linked \in {RoundTable, RoundTable @@ ("s1" :> Linked("d1", 0))}}
-----------------------------------------------------------------------------
(* Grid 1 with two planes, and bolts 4 and 5. *)

Bolt(id, pattern) ==
    [visible |-> TRUE, id |-> id, attribute |-> TRUE, pattern |-> pattern, legacy |-> "no",
     known |-> FALSE, axis |-> "none"]

OfBolts ==
    [Nothing EXCEPT
        !.types = (1 :> "grid") @@ (2 :> "plane") @@ (3 :> "plane") @@ (4 :> "bolt") @@ (5 :> "bolt"),
        !.relations = <<Line("grid", 1, 2), Line("grid", 1, 3)>>,
        !.framed = {1, 4, 5}, !.upright = {2, 3},
        !.contours = <<Part("k", 1), Part("k", 1), Part("m", 1)>>,
        !.requested = {0, 90, 100, 1000, 1200, 2100, 2300, 3300, 5000},
        !.bolts = <<Bolt(4, "k"), Bolt(5, "m")>>]

BoltModels ==
    {OfBolts, [OfBolts EXCEPT !.upright = {3}], [OfBolts EXCEPT !.boltTables = FALSE],
     [OfBolts EXCEPT !.framed = {4}], [OfBolts EXCEPT !.bolts[1].visible = FALSE],
     [OfBolts EXCEPT !.range = {5}], [OfBolts EXCEPT !.contours[3].points = 0]}
    \cup {[OfBolts EXCEPT !.bolts[1].legacy = legacy, !.bolts[1].known = known,
                          !.bolts[1].axis = axis, !.bolts[2].attribute = known] :
            legacy \in {"no", "stud", "other"}, known \in BOOLEAN,
            axis \in {"none", "flat", "long"}}
-----------------------------------------------------------------------------
MCNonPartModels == SurfaceModels \cup WeldModels \cup RebarModels \cup VisitModels \cup BoltModels

ASSUME MCModelsAssumption == \A m \in MCNonPartModels : IdsAreKeys(m)
=============================================================================
