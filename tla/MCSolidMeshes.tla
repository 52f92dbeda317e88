--------------------------- MODULE MCSolidMeshes ---------------------------
(* The solids, what they are fitted and cut with, the messages they are sent in   *)
(* and the file they end in, on small inputs.  The five work one after the other  *)
(* on different things and share nothing, so that a behaviour is one order, one   *)
(* member, one host, one exchange or one file.                                    *)
EXTENDS SolidMeshes, FittedMembers, OperandEnvelopes, WorkerMessages, GlbWriter

operationVars == <<fittingVars, envelopeVars>>
allVars == <<solidVars, operationVars, messageVars, glbVars>>
-----------------------------------------------------------------------------
(* Contours: every cycle of three to MostCorners points of a grid that does not   *)
(* meet itself, and some that do.                                                 *)

CONSTANTS GridSize, MostCorners, MostHoles

Grid == (0 .. GridSize) \X (0 .. GridSize)
Earlier(p, q) == p[1] < q[1] \/ (p[1] = q[1] /\ p[2] < q[2])

\* Open chains that meet themselves nowhere, from their first point in the order of
\* the grid.
MayFollow(p, c) ==
    LET last == c[Len(c)] IN
    /\ Earlier(c[1], p)
    /\ \A k \in 1 .. Len(c) - 1 : ~OnSegment(last, p, c[k]) /\ ~OnSegment(c[k], c[k + 1], p)
    /\ \A k \in 1 .. Len(c) - 2 : ~Intersects(c[k], c[k + 1], last, p)

Chains[n \in 1 .. MostCorners] ==
    IF n = 1 THEN {<<p>> : p \in Grid}
    ELSE UNION {{Append(c, p) : p \in {q \in Grid \ {c[n - 1]} : MayFollow(q, c)}} :
                    c \in Chains[n - 1]}

Simples == {c \in UNION {Chains[n] : n \in 3 .. MostCorners} : Simple(c, Ids(c))}

\* A contour may be written from any of its points.
FromElsewhere(c) == [k \in DOMAIN c |-> c[(k % Len(c)) + 1]]
Tangled == {<<<<0, 0>>, <<2, 2>>, <<2, 0>>, <<0, 2>>>>,
             <<<<0, 0>>, <<2, 0>>, <<1, 0>>, <<0, 2>>>>,
             <<<<0, 0>>, <<1, 1>>, <<2, 2>>, <<1, 1>>>>,
             <<<<0, 0>>, <<2, 0>>>>}
Outlines == Simples \cup {FromElsewhere(c) : c \in Simples} \cup Tangled
-----------------------------------------------------------------------------
(* Records of parts. *)

Unknown == Profile("UNKNOWN", <<>>)
Part == [form |-> "straight", profile |-> Unknown, catalog |-> None, thickness |-> 2,
         contour |-> <<>>, arc |-> NoArc, path |-> <<>>, origin |-> Zero, rails |-> <<>>,
         reference |-> <<>>, length |-> 40, fittings |-> {}, shape |-> <<>>]

Plates == {[Part EXCEPT !.form = "plate", !.contour = c] : c \in Outlines}
          \cup {[Part EXCEPT !.form = "plate"],
                [Part EXCEPT !.form = "plate", !.contour = <<<<0, 0>>, <<2, 0>>, <<0, 2>>>>,
                             !.thickness = 0]}

\* One text every family understands and one it does not.
Profiles ==
    {Profile("PL", <<8, 20>>), Profile("PL", <<8>>),
     Profile("PRMDAS", <<8, 20>>), Profile("D", <<12>>), Profile("D", <<12, 4>>),
     Profile("CHS", <<12, 2>>), Profile("CHS", <<12, 6>>),
     Profile("SHS", <<12, 2>>), Profile("SHS", <<12, 20, 2>>), Profile("SHS", <<12, 20, 6>>),
     Profile("P", <<20, 16, 2>>), Profile("P", <<20, 8, 2>>),
     Profile("U", <<40, 4>>), Profile("U", <<20, 4>>),
     Profile("BLL", <<40, 30, 4>>), Profile("BLL", <<40, 20, 4>>),
     Profile("HI", <<40, 4, 6, 20>>), Profile("HI", <<12, 4, 6, 20>>),
     Profile("HK", <<40, 4, 6, 30, 8>>), Profile("HK", <<40, 4, 6, 24, 8>>),
     Profile("PG", <<40, 20, 6, 4, 30, 8>>), Profile("PG", <<14, 20, 6, 4, 30, 8>>),
     Profile("TG", <<40, 20, 6, 4>>), Profile("TG", <<40, 4, 6, 4>>),
     Profile("B_WLD_H", <<40, 20, 30, 4, 6, 8>>), Profile("B_WLD_H", <<14, 20, 30, 4, 6, 8>>),
     Profile("IRR_I", <<40, 20, 8>>), Profile("IRR_I", <<40, 20, 20>>),
     Profile("IRR_I", <<40, 8, 20>>),
     Profile("L", <<40, 30, 4>>), Profile("L", <<40, 4>>), Profile("L", <<4, 30, 4>>),
     Profile("PL_V", <<8, 20, 4, 12, 2, 2>>), Profile("PL_V", <<8, 20>>),
     Profile("ELD", <<8, 20, 4, 12>>), Profile("ELD", <<8, 20>>),
     Profile("PHI", <<40, 60, 4, 6, 20>>), Profile("PHI", <<40, 60, 4, 6, 20, 8, 30>>),
     Profile("PHI", <<40, 10, 4, 6, 20>>), Profile("PHI", <<40, 60>>),
     Profile("TPG", <<40, 20, 6, 4, 30, 8, 60, 20, 6, 4, 30, 8>>),
     Profile("TPG", <<40, 20, 6, 4, 30, 8, 60, 20, 6, 4, 20, 8>>),
     Profile("PGT", <<40, 20, 6, 4, 60, 20, 6, 4>>),
     Profile("SPHERE", <<100>>), Profile("CAP", <<400>>), Profile("CAP", <<30>>)}

Square == <<<<-4, -4>>, <<4, -4>>, <<4, 4>>, <<-4, 4>>>>
Small == <<<<-2, -2>>, <<2, -2>>, <<2, 2>>, <<-2, 2>>>>
Catalog == {Solid(Square), Solid(Reverse(Square)), Hollow(Square, Small),
            Hollow(Reverse(Square), Reverse(Small)), Hollow(Square, Front(Small)),
            Solid(<<<<-4, -4>>, <<4, 4>>, <<4, -4>>, <<-4, 4>>>>)}

Arcs == {NoArc, [radius |-> 100, segments |-> 3], [radius |-> 10, segments |-> 3],
         [radius |-> 100, segments |-> 1]}

Straights ==
    {[Part EXCEPT !.profile = p, !.length = l, !.form = f, !.arc = a] :
        p \in Profiles, l \in {40, 200}, f \in {"straight", "varying"}, a \in Arcs}
    \cup {[Part EXCEPT !.catalog = s, !.arc = a] : s \in Catalog, a \in Arcs}
    \cup {[Part EXCEPT !.profile = Profile("PHI", <<40, 60, 4, 6, 20>>), !.reference = <<-30, 4>>]}
    \cup {[Part EXCEPT !.form = "fitted", !.profile = Profile("SHS", <<12, 2>>), !.fittings = f] :
             f \in {{}, {10, 50}, {-10, 20}}}

\* Paths of up to three steps along the axes; a step may repeat a point.
Steps == {<<4, 0, 0>>, <<-4, 0, 0>>, <<0, 4, 0>>, <<0, 0, 4>>, <<0, 0, 0>>}
Along(steps) ==
    LET reached[k \in 0 .. Len(steps)] ==
            IF k = 0 THEN Zero ELSE Plus(reached[k - 1], steps[k])
    IN  [k \in 1 .. Len(steps) + 1 |-> reached[k - 1]]
Paths == {Along(s) : s \in UNION {[1 .. n -> Steps] : n \in 0 .. 3}}

Polybeams ==
    {[Part EXCEPT !.form = "path", !.profile = Profile("SHS", <<12, 2>>), !.path = p,
                  !.origin = o] : p \in Paths, o \in {Zero, <<-2, 0, 0>>}}
    \cup {[Part EXCEPT !.form = "path", !.profile = p, !.arc = a, !.path = Along(<<<<4, 0, 0>>>>)] :
             p \in Profiles, a \in Arcs}
    \cup {[Part EXCEPT !.form = "path", !.catalog = s, !.path = Along(<<<<4, 0, 0>>, <<0, 0, 4>>>>)] :
             s \in Catalog}

Rail(ys) == [k \in DOMAIN ys |-> <<8 * (k - 1), ys[k], 0>>]
Raised(rail, z) == [k \in DOMAIN rail |-> <<rail[k][1], rail[k][2], z>>]
RailPairs ==
    {<<Rail(<<0, 0>>), Rail(<<8, 8>>)>>, <<Rail(<<8, 8>>), Rail(<<0, 0>>)>>,
     <<Rail(<<0, 0, 0>>), <<<<0, 8, 0>>, <<16, 8, 0>>>>>>,
     <<<<<<0, 0, 0>>, <<8, 0, 0>>, <<8, 0, 8>>>>, <<<<0, 8, 0>>, <<8, 8, 0>>, <<8, 8, 8>>>>>>,
     <<Rail(<<0, 0>>), Raised(Rail(<<0, 0>>), 8)>>,
     <<Rail(<<0, 0>>), <<<<16, 0, 0>>, <<8, 0, 0>>>>>>,
     <<Rail(<<0>>), Rail(<<8, 8>>)>>,
     <<<<Zero, Zero>>, <<<<0, 8, 0>>, <<0, 8, 0>>>>>>}
Rails == {[Part EXCEPT !.form = "rails", !.rails = r, !.thickness = t] :
             r \in RailPairs, t \in {0, 2}}
-----------------------------------------------------------------------------
(* Polyhedra: prisms over an outline with holes, and a few that are none. *)

Lift(loops, z) == LET all == FlattenSeq(loops) IN [k \in DOMAIN all |-> <<all[k][1], all[k][2], z>>]

\* The outline runs counterclockwise, the holes clockwise; a face may write a
\* hole either way.
PrismOver(loops) ==
    LET count == SumOver(LAMBDA l : Len(l), loops)
        base[i \in DOMAIN loops] == IF i = 1 THEN 0 ELSE base[i - 1] + Len(loops[i - 1])
        Numbers(i, z) == [k \in DOMAIN loops[i] |-> base[i] + k + z * count]
        Wall(i, k) == [outer |-> <<base[i] + k, base[i] + After(k, Len(loops[i])),
                                   count + base[i] + After(k, Len(loops[i])), count + base[i] + k>>,
                       holes |-> <<>>]
    IN  [vertices |-> Lift(loops, 0) \o Lift(loops, 4),
         faces |-> <<[outer |-> Reverse(Numbers(1, 0)),
                      holes |-> [h \in 1 .. Len(loops) - 1 |-> Numbers(h + 1, 0)]],
                     [outer |-> Numbers(1, 1),
                      holes |-> [h \in 1 .. Len(loops) - 1 |-> Numbers(h + 1, 1)]]>>
                   \o FlattenSeq([i \in DOMAIN loops |->
                                     [k \in DOMAIN loops[i] |-> Wall(i, k)]])]

Cell == {2, 6, 10}
Pit(x, y) == <<<<x, y>>, <<x, y + 2>>, <<x + 2, y + 2>>, <<x + 2, y>>>>
Notch(x, y) == <<<<x, y>>, <<x, y + 2>>, <<x + 2, y>>>>
Pits == {Pit(x, y) : x \in Cell, y \in Cell} \cup {Notch(6, 6), Notch(10, 2)}
SquareRim == <<<<0, 0>>, <<14, 0>>, <<14, 14>>, <<0, 14>>>>
BentRim == <<<<0, 0>>, <<14, 0>>, <<14, 6>>, <<6, 6>>, <<6, 14>>, <<0, 14>>>>

ApartPits(chosen) == \A a, b \in chosen : a = b \/ a[1] # b[1]
Drilled == {<<SquareRim>> \o SetToSeq(chosen) : chosen \in
               {c \in UNION {kSubset(n, Pits) : n \in 0 .. MostHoles} : ApartPits(c)}}
           \cup {<<BentRim>> \o SetToSeq(chosen) : chosen \in SUBSET {Pit(2, 2), Pit(10, 2), Pit(2, 10)}}

Doubled(c) == [k \in DOMAIN c |-> <<2 * c[k][1], 2 * c[k][2]>>]
Pillars == {<<Doubled(c)>> : c \in {o \in Simples : ~RunsBackwards(o)}}

\* A rim that runs out to a point and back.
Spiked == <<<<0, 0>>, <<4, 0>>, <<4, 4>>, <<8, 8>>, <<4, 4>>>>

Solids == {PrismOver(loops) : loops \in Drilled \cup Pillars \cup {<<Spiked>>}}
Tetrahedron ==
    [vertices |-> <<<<0, 0, 0>>, <<4, 0, 0>>, <<0, 4, 0>>, <<0, 0, 4>>>>,
     faces |-> [k \in 1 .. 4 |->
                   [outer |-> <<<<1, 3, 2>>, <<1, 2, 4>>, <<2, 3, 4>>, <<1, 4, 3>>>>[k],
                    holes |-> <<>>]]]
Faulty(outer, inner) ==
    [Tetrahedron EXCEPT !.faces[2] = [outer |-> outer, holes |-> inner]]
Faults == {Faulty(<<1, 2>>, <<>>), Faulty(<<1, 2, 9>>, <<>>), Faulty(<<1, 2, 1>>, <<>>),
           Faulty(<<1, 2, 4>>, <<<<1, 2>>>>), [Tetrahedron EXCEPT !.faces = <<>>]}

Polyhedra == Solids \cup {Tetrahedron} \cup Faults
\* Every polyhedron is its own name.
Names == {<<p>> : p \in Polyhedra}
CatalogShapes == [name \in Names |-> name[1]]
-----------------------------------------------------------------------------
(* Other elements, and who asks for what. *)

Bolts == [form : {"bolt"}, legacy : BOOLEAN, length : {4, 20}, limited : BOOLEAN,
          shank : {NoShank, <<0, 8>>, <<8, 2>>}, fastener : {0, 4}]
LegPairs == {<<<<1, 0>>, <<0, 1>>>>, <<<<0, 1>>, <<1, 0>>>>, <<<<1, 0>>, <<1, 0>>>>,
             <<<<0, 1>>, <<-1, 0>>>>}
Seams == [form : {"seam"}, seam : UNION {[1 .. n -> LegPairs] : n \in 0 .. 3}, size : {0, 4}]
Surfaces == [form : {"surface"}, contour : Outlines \cup {Append(c, c[1]) : c \in Tangled},
             thickness : {2}, depth : {1}, offset : {0}, side : {1}]
            \cup [form : {"surface"}, contour : {Square, Append(Square, Square[1]), Reverse(Square)},
                  thickness : {0, 2}, depth : 0 .. 3, offset : {0, 4}, side : {0, 1}]
Curves == [form : {"curve"}, points : Paths, radius : {2}]

MembersOnly == Plates \cup Rails
EveryRole == {"member", "envelope", "operative", "hollow"}
Drawings ==
    MembersOnly \X {"member", "operative"}
    \cup Straights \X EveryRole \cup Polybeams \X {"member", "operative"}
    \cup {[Part EXCEPT !.form = "shape", !.shape = s] : s \in Names} \X {"member"}
    \cup (Bolts \cup Seams \cup Surfaces \cup Curves) \X {"element"}
-----------------------------------------------------------------------------
(* Members with fittings: up to two of them, at the ends, beyond them, leaning      *)
(* either way, along the member, or without a direction.                           *)

Bar == [form |-> "extruded", round |-> FALSE, start |-> <<-2, 2>>, end |-> <<-2, 2>>,
        length |-> 8, fittings |-> <<>>]
Normals == {<<1, 0>>, <<1, 1>>, <<1, -1>>, <<0, 1>>, NoNormal}
Places == {<<-4, 0>>, <<2, 0>>, <<6, 2>>, <<14, 0>>}
AnyFitting == {Clip2(p, n, e) : p \in Places, n \in Normals, e \in {1, 2}}
Fittings == UNION {[1 .. n -> AnyFitting] : n \in 0 .. 2}
FittedBars ==
    {[Bar EXCEPT !.start = s, !.end = s, !.fittings = f] :
        s \in {<<-2, 2>>, <<-4, 0, 2>>}, f \in Fittings}
    \cup {[Bar EXCEPT !.round = TRUE, !.fittings = f] : f \in Fittings}
    \cup {[Bar EXCEPT !.form = o, !.start = <<-3, 3>>, !.end = e, !.fittings = f] :
             o \in {"frustum", "loft", "kept", "path"}, e \in {<<-1, 1>>, <<-3, 3>>, <<-1, 3>>},
             f \in {<<>>, <<Clip2(<<0, 0>>, <<1, 1>>, 1)>>}}
-----------------------------------------------------------------------------
(* Hosts, cutters along any of their axes, inside, across or beside them, and       *)
(* edges to chamfer.                                                               *)

Beam == [bounds |-> <<<<0, 160>>, <<0, 80>>, <<0, 80>>>>, plate |-> FALSE]
Cornered(a, b, c, d) == <<<<a, c>>, <<b, c>>, <<b, d>>, <<a, d>>>>
CutterContours == {Cornered(0, 40, 0, 40), Reverse(Cornered(-40, 40, 0, 40)), Cornered(0, 0, 0, 40),
                   <<<<0, 0>>, <<80, 0>>, <<80, 40>>, <<40, 40>>, <<40, 80>>, <<0, 80>>, <<0, 40>>>>}
Cutter == [form |-> "prism", origin |-> Zero, x |-> <<1, 0, 0>>, y |-> <<0, 1, 0>>, length |-> 40,
           first |-> 0, thickness |-> 40, contour |-> Cornered(0, 40, 0, 40)]
Headings == {<<<<1, 0, 0>>, <<0, 1, 0>>>>, <<<<-1, 0, 0>>, <<0, 0, 1>>>>, <<<<0, 1, 0>>, <<1, 0, 0>>>>,
             <<<<0, 0, -1>>, <<0, -1, 0>>>>, <<<<0, 0, 1>>, <<-1, 0, 0>>>>}
Spots == {<<a, b, c>> : a \in {0, 20, 120, -40, 160}, b \in {0, 40, 80}, c \in {0, -40}}
Cutters ==
    {[Cutter EXCEPT !.origin = o, !.x = f[1], !.y = f[2], !.length = l, !.contour = c, !.form = m] :
        o \in Spots, f \in Headings, l \in {40, 80}, c \in CutterContours, m \in {"prism", "plate"}}
    \cup {[Cutter EXCEPT !.origin = o, !.form = m, !.first = s, !.length = l] :
             o \in Spots, m \in {"prism", "other"}, s \in {0, 20}, l \in {0, 40}}
SmallCutter == [Cutter EXCEPT !.length = 80, !.x = <<0, 1, 0>>, !.y = <<1, 0, 0>>]
Edges ==
    [axis : {<<1, 0, 0>>, <<0, -1, 0>>, <<0, 0, 1>>}, y : [Axes -> {-1, 0, 1}],
     origin : {<<0, 80, 80>>, <<0, 0, 80>>}, dims : {<<0, 40>>, <<40, 20>>, <<80, 160>>},
     length : {0, 80}, straight : {TRUE}]
    \cup [axis : {<<1, 0, 0>>}, y : {<<0, 1, 1>>}, origin : {<<0, 80, 80>>, <<0, 40, 80>>},
          dims : {<<40, 20>>}, length : {160}, straight : BOOLEAN]
SoundEdges == {e \in Edges : \A a \in Axes : (e.axis[a] = 0) = (e.y[a] # 0)}
Cuts ==
    {[host |-> Beam, cutters |-> <<c>>, chamfers |-> <<>>] : c \in Cutters}
    \cup {[host |-> Beam, cutters |-> <<SmallCutter, [SmallCutter EXCEPT !.origin = o, !.length = l]>>,
           chamfers |-> <<>>] : o \in Spots, l \in {40, 80}}
    \cup {[host |-> [Beam EXCEPT !.plate = p], cutters |-> <<>>, chamfers |-> <<e>>] :
             p \in BOOLEAN, e \in SoundEdges}
-----------------------------------------------------------------------------
(* Messages.  The limits allow two nodes and few loops, so that each is exceeded. *)

Strip == [positions |-> <<3, 4, 6>>, indices |-> <<0, 1, 2>>]
Nowhere == <<0, 0>>
Node == [object |-> 7, base |-> Nowhere, boxes |-> <<>>, planes |-> <<>>, mesh |-> NoMeshGiven,
         children |-> <<>>, unions |-> <<>>, extrusion |-> <<>>, vector |-> 0, sweep |-> <<>>,
         circular |-> FALSE]
Nodes ==
    {[Node EXCEPT !.base = <<5, 1>>, !.boxes = <<<<6, 2>>>>],
     [Node EXCEPT !.mesh = Strip, !.planes = <<<<6, 2>>, <<3, 1>>>>],
     [Node EXCEPT !.extrusion = <<<<3, 4>>>>, !.vector = 9],
     [Node EXCEPT !.extrusion = <<<<4, 3, 5>>, <<4>>>>, !.vector = 9, !.children = <<1>>],
     [Node EXCEPT !.sweep = <<<<<<5, 6>>, <<8>>>>>>, !.circular = TRUE, !.unions = <<1>>],
     [Node EXCEPT !.sweep = <<<<<<>>, <<8>>>>, <<<<3>>, <<4>>>>>>],
     [Node EXCEPT !.base = <<5, 1>>, !.children = <<2>>],
     [Node EXCEPT !.mesh = Strip, !.children = <<1, 1>>, !.unions = <<1>>]}
Plain == [object |-> 7, base |-> Nowhere, boxes |-> <<>>, planes |-> <<>>, mesh |-> NoMeshGiven,
          cutters |-> <<>>, nodes |-> <<>>]
Wishes ==
    {[Plain EXCEPT !.nodes = n] : n \in UNION {[1 .. k -> Nodes] : k \in 1 .. 2}}
    \cup {[Plain EXCEPT !.nodes = <<Node, Node, Node>>]}
    \cup {[b EXCEPT !.cutters = c, !.boxes = x, !.planes = p] :
             b \in {[Plain EXCEPT !.base = <<5, 1>>], [Plain EXCEPT !.mesh = Strip]},
             c \in {<<>>, <<Strip>>, <<Strip, NoMeshGiven>>}, x \in {<<>>, <<<<2, 1>>>>},
             p \in {<<>>, <<<<2, 1>>, <<4, 3>>>>}}

Findings ==
    {[Crash EXCEPT !.code = "none", !.object = 7, !.positions = <<3, 4>>, !.indices = <<0, 1>>],
     [Crash EXCEPT !.code = "none", !.object = 7, !.exact = TRUE, !.area = 4, !.volume = 2],
     [Crash EXCEPT !.code = "invalid_topology", !.text = <<"b", "a", "d">>],
     [Crash EXCEPT !.code = "geometry_timeout"]}
-----------------------------------------------------------------------------
(* Files. *)

Item0 == [kind |-> "mesh", points |-> 3, distinct |-> 3, indices |-> 3, thick |-> FALSE,
          sound |-> TRUE]
Wares ==
    {Item0, [Item0 EXCEPT !.points = 8, !.indices = 30], [Item0 EXCEPT !.sound = FALSE],
     [Item0 EXCEPT !.points = 0], [Item0 EXCEPT !.kind = "curve"],
     [Item0 EXCEPT !.kind = "curve", !.points = 1],
     [Item0 EXCEPT !.kind = "curve", !.thick = TRUE, !.distinct = 2],
     [Item0 EXCEPT !.kind = "curve", !.thick = TRUE, !.distinct = 1],
     [Item0 EXCEPT !.kind = "other"], [Item0 EXCEPT !.kind = "error"]}
Deliveries == UNION {[1 .. n -> Wares] : n \in 0 .. 3}
-----------------------------------------------------------------------------
NoSolid ==
    /\ element = Part /\ role = "none"
    /\ plan = NoPlan /\ waiting = <<>> /\ caps = <<>> /\ mesh = NoMesh
    /\ outcome = "idle"
    /\ at = <<>> /\ ring = <<>> /\ triangles = <<>> /\ clipping = "idle"
    /\ shape = [vertices |-> <<>>, faces |-> <<>>]
    /\ face = 1
    /\ holes = {} /\ unbridged = {} /\ bridges = {} /\ turned = FALSE
    /\ indices = <<>>
    /\ decoding = "no"

NoExchange ==
    /\ request = Plain /\ origin = 0 /\ message = <<>> /\ offset = 0 /\ agenda = <<>>
    /\ counted = [loops |-> 0, sections |-> 0, coordinates |-> 0]
    /\ got = <<>> /\ reply = Crash
    /\ exchange = "idle"

NoFile ==
    /\ stream = <<>> /\ taken = 0 /\ primitives = <<>> /\ binary = 0 /\ json = 0
    /\ chunks = 0 /\ written = 0
    /\ report = "idle"

NoMember ==
    /\ member = Bar /\ reported = Bar.length /\ padded = Bare(Bar) /\ clips = <<>>
    /\ fitting = "idle"

NoJob ==
    /\ host = Beam /\ cutters = <<>> /\ through = 0 /\ bodies = <<>>
    /\ chamfers = <<>> /\ wedges = <<>>
    /\ envelope = "idle"

Init ==
    \/ SolidInit /\ NoMember /\ NoJob /\ NoExchange /\ NoFile
    \/ NoSolid /\ FittingInit /\ NoJob /\ NoExchange /\ NoFile
    \/ NoSolid /\ NoMember /\ EnvelopeInit /\ NoExchange /\ NoFile
    \/ NoSolid /\ NoMember /\ NoJob /\ MessageInit /\ NoFile
    \/ NoSolid /\ NoMember /\ NoJob /\ NoExchange /\ GlbInit

Next ==
    \/ SolidNext /\ UNCHANGED <<operationVars, messageVars, glbVars>>
    \/ FittingNext /\ UNCHANGED <<solidVars, envelopeVars, messageVars, glbVars>>
    \/ EnvelopeNext /\ UNCHANGED <<solidVars, fittingVars, messageVars, glbVars>>
    \/ MessageNext /\ UNCHANGED <<solidVars, operationVars, glbVars>>
    \/ GlbNext /\ UNCHANGED <<solidVars, operationVars, messageVars>>

Spec == Init /\ [][Next]_allVars
=============================================================================
