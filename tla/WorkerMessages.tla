---------------------------- MODULE WorkerMessages ----------------------------
(* The messages between the host and its worker (occt/protocol.cpp).  A message   *)
(* is a sequence of cells, each a width in bytes and a value: words of four,       *)
(* numbers of eight, points of three numbers, boxes and planes of six.  The host   *)
(* writes a request, moved to its own origin or not, the worker reads it count by  *)
(* count, and the answer comes back the same way.                                  *)
EXTENDS Integers, Sequences, SequencesExt, FiniteSetsExt

CONSTANTS
    Requests,        \* what the host wants evaluated
    Answers,         \* what the worker can find
    MaximumNodes, MaximumLoops, MaximumSections, MaximumCoordinates, MaximumBytes

VARIABLES
    request,   \* the request as the host wrote it
    origin,    \* where it was moved from; 0 when it was not
    message,   \* the cells on their way
    offset,    \* how many of them are read
    agenda,    \* what is still to be read, in order
    counted,   \* loops, sections and coordinates read so far
    got,       \* what was read, in order
    reply,     \* the answer of the worker
    exchange   \* "asking", "reading", "refused", "read", "answered" or "heard"

messageVars == <<request, origin, message, offset, agenda, counted, got, reply, exchange>>

Word(v) == <<4, v>>
Number(v) == <<8, v>>
Point(v) == <<24, v>>
Box(v) == <<48, v>>
Each(Of(_), values) == [k \in DOMAIN values |-> Of(values[k])]

Sum(numbers) == FoldLeft(LAMBDA total, n : total + n, 0, numbers)
Bytes(cells) == Sum([k \in DOMAIN cells |-> cells[k][1]])

HeaderCells == 13
NodeCells == 13
Version == 7
NoMeshGiven == [positions |-> <<>>, indices |-> <<>>]
Crash == [code |-> "geometry_backend_crash", exact |-> FALSE, object |-> 0, area |-> 0,
          volume |-> 0, positions |-> <<>>, indices |-> <<>>, text |-> <<>>]
-----------------------------------------------------------------------------
(* What a host may want and a worker may find.  A place is a point on a line and  *)
(* what does not move with it, an extent or a direction.  The fields before the   *)
(* nodes are of no use when there are any, and nobody fills them then.  A solid   *)
(* that is measured exactly has an area and a volume.                             *)

Extents == Int \X Int
TriangleMeshes == [positions : Seq(Int), indices : Seq(Nat)]
NodeRecords ==
    [object : Nat, base : Extents, boxes : Seq(Extents), planes : Seq(Extents),
     mesh : TriangleMeshes, children : Seq(Nat), unions : Seq(Nat),
     extrusion : Seq(Seq(Int)), vector : Int, sweep : Seq(Seq(Seq(Int))), circular : BOOLEAN]
WantedRequests ==
    {r \in [object : Nat, base : Extents, boxes : Seq(Extents), planes : Seq(Extents),
            mesh : TriangleMeshes, cutters : Seq(TriangleMeshes), nodes : Seq(NodeRecords)] :
        r.nodes # <<>> =>
            r.boxes = <<>> /\ r.planes = <<>> /\ r.mesh = NoMeshGiven /\ r.cutters = <<>>}
FoundAnswers ==
    {a \in [code : STRING, exact : BOOLEAN, object : Nat, area : Int, volume : Int,
            positions : Seq(Int), indices : Seq(Nat), text : Seq(STRING)] :
        IF a.code = "none"
        THEN a.text = <<>> /\ (a.exact => a.area > 0 /\ a.volume > 0)
        ELSE a = [Crash EXCEPT !.code = a.code, !.text = a.text]}

ASSUME MessageAssumption ==
    /\ Requests \subseteq WantedRequests /\ Answers \subseteq FoundAnswers
    /\ {MaximumNodes, MaximumLoops, MaximumSections, MaximumCoordinates, MaximumBytes} \subseteq Nat
-----------------------------------------------------------------------------
(* encode_occt_request. *)

Coordinates(loops) == Sum([k \in DOMAIN loops |-> 3 * Len(loops[k])])
LoopsOf(n) == Len(n.extrusion) + Len(n.sweep)
SectionsOf(n) == Sum(Each(Len, n.sweep))
SweepCoordinates(n) == Sum(Each(Coordinates, n.sweep))
CoordinatesOf(n) == Coordinates(n.extrusion) + SweepCoordinates(n)

NodeFits(n, count) ==
    /\ Len(n.extrusion) <= MaximumLoops /\ Coordinates(n.extrusion) <= MaximumCoordinates
    /\ Len(n.sweep) <= MaximumLoops /\ SectionsOf(n) <= MaximumSections
    /\ SweepCoordinates(n) <= MaximumCoordinates
    /\ \A k \in DOMAIN n.unions : n.unions[k] < count
    /\ \A k \in DOMAIN n.children : n.children[k] < count

RecipesFit(nodes) ==
    /\ Sum(Each(LoopsOf, nodes)) <= MaximumLoops
    /\ Sum(Each(SectionsOf, nodes)) <= MaximumSections
    /\ Sum(Each(CoordinatesOf, nodes)) <= MaximumCoordinates

MeshSize(m) == 24 * Len(m.positions) + 4 * Len(m.indices)
LoopSize(l) == 4 + 24 * Len(l)
SweepSize(l) == 4 + Sum(Each(LoopSize, l))
CutterSize(m) == 8 + MeshSize(m)
NodeSize(n) ==
    120 + 48 * (Len(n.boxes) + Len(n.planes)) + MeshSize(n.mesh)
    + 4 * (Len(n.unions) + Len(n.children)) + Sum(Each(LoopSize, n.extrusion))
    + Sum(Each(SweepSize, n.sweep))

RequestSize(r) ==
    112 + 48 * (Len(r.boxes) + Len(r.planes)) + MeshSize(r.mesh)
    + Sum(Each(CutterSize, r.cutters)) + Sum(Each(NodeSize, r.nodes))

Encodable(r) ==
    /\ Len(r.nodes) <= MaximumNodes
    /\ \A k \in DOMAIN r.nodes : NodeFits(r.nodes[k], Len(r.nodes))
    /\ RecipesFit(r.nodes)
    /\ RequestSize(r) <= MaximumBytes

MeshCells(m) == Each(Point, m.positions) \o Each(Word, m.indices)
LoopCells(l) == <<Word(3 * Len(l))>> \o Each(Point, l)
CutterCells(m) == <<Word(3 * Len(m.positions)), Word(Len(m.indices))>> \o MeshCells(m)
SweepCells(l) == <<Word(Len(l))>> \o FlattenSeq(Each(LoopCells, l))

NodeHeader(n) ==
    <<Number(n.object), Box(n.base), Word(Len(n.boxes)), Word(Len(n.planes)),
      Word(3 * Len(n.mesh.positions)), Word(Len(n.mesh.indices)), Word(Len(n.children)),
      Word(Len(n.extrusion)), Point(n.vector), Word(Len(n.sweep)), Word(IF n.circular THEN 1 ELSE 0),
      Word(Len(n.unions)), Word(0)>>

EncodeNode(n) ==
    NodeHeader(n) \o Each(Box, n.boxes) \o Each(Box, n.planes) \o MeshCells(n.mesh)
    \o FlattenSeq(Each(LoopCells, n.extrusion)) \o FlattenSeq(Each(SweepCells, n.sweep))
    \o Each(Word, n.unions) \o Each(Word, n.children)

EncodeRequest(r) ==
    <<Word("request"), Word(Version), Number(r.object), Box(r.base), Number("linear"),
      Number("angular"), Word(Len(r.boxes)), Word(Len(r.planes)), Word(3 * Len(r.mesh.positions)),
      Word(Len(r.mesh.indices)), Word(Len(r.cutters)), Word(Len(r.nodes)), Number(RequestSize(r))>>
    \o Each(Box, r.boxes) \o Each(Box, r.planes) \o MeshCells(r.mesh)
    \o FlattenSeq(Each(CutterCells, r.cutters)) \o FlattenSeq(Each(EncodeNode, r.nodes))
-----------------------------------------------------------------------------
(* A request without its place: positions along one line, boxes and planes with   *)
(* the place of theirs first.                                                      *)

FirstPoint(loops) ==
    LET filled == {k \in DOMAIN loops : loops[k] # <<>>} IN
    IF filled = {} THEN <<>> ELSE <<loops[Min(filled)][1]>>

RequestOrigin(r) ==
    LET base == IF r.nodes = <<>> THEN r ELSE r.nodes[1]
        recipe == IF r.nodes = <<>> THEN <<>>
                  ELSE FirstPoint(base.extrusion) \o FirstPoint(FlattenSeq(base.sweep))
    IN  IF base.mesh.positions # <<>> THEN base.mesh.positions[1]
        ELSE IF recipe # <<>> THEN recipe[1] ELSE base.base[1]

Shifted(points, o) == [k \in DOMAIN points |-> points[k] - o]
ShiftedLoops(loops, o) == [k \in DOMAIN loops |-> Shifted(loops[k], o)]
Placed(thing, o) == <<thing[1] - o, thing[2]>>
AllPlaced(things, o) == [k \in DOMAIN things |-> Placed(things[k], o)]
ShiftedMesh(m, o) == [m EXCEPT !.positions = Shifted(m.positions, o)]

\* Wrong: the planes of a node stay behind.
NormalizeNodeButPlanes(n, o) ==
    [n EXCEPT !.object = 0,
              !.base = IF n.mesh = NoMeshGiven /\ n.extrusion = <<>> /\ n.sweep = <<>>
                       THEN Placed(n.base, o) ELSE n.base,
              !.mesh = ShiftedMesh(n.mesh, o),
              !.extrusion = ShiftedLoops(n.extrusion, o),
              !.sweep = [k \in DOMAIN n.sweep |-> ShiftedLoops(n.sweep[k], o)],
              !.boxes = AllPlaced(n.boxes, o)]

NormalizeNode(n, o) ==
    [n EXCEPT !.object = 0,
              !.base = IF n.mesh = NoMeshGiven /\ n.extrusion = <<>> /\ n.sweep = <<>>
                       THEN Placed(n.base, o) ELSE n.base,
              !.mesh = ShiftedMesh(n.mesh, o),
              !.extrusion = ShiftedLoops(n.extrusion, o),
              !.sweep = [k \in DOMAIN n.sweep |-> ShiftedLoops(n.sweep[k], o)],
              !.boxes = AllPlaced(n.boxes, o),
              !.planes = AllPlaced(n.planes, o)]

Normalize(r, o) ==
    IF r.nodes # <<>>
    THEN [r EXCEPT !.object = 0, !.nodes = [k \in DOMAIN r.nodes |-> NormalizeNode(r.nodes[k], o)]]
    ELSE [r EXCEPT !.object = 0,
                   !.base = IF r.mesh = NoMeshGiven THEN Placed(r.base, o) ELSE r.base,
                   !.mesh = ShiftedMesh(r.mesh, o),
                   !.boxes = AllPlaced(r.boxes, o),
                   !.cutters = [k \in DOMAIN r.cutters |-> ShiftedMesh(r.cutters[k], o)],
                   !.planes = AllPlaced(r.planes, o)]
-----------------------------------------------------------------------------
(* encode_occt_response and decode_occt_response: an answer is a mesh with its     *)
(* exact measures, if it has them, or the code and the message of an error.        *)

AnswerSize(positions, indices, text) == 56 + 12 * positions + 4 * indices + text

EncodeAnswer(a) ==
    LET solid == a.code = "none" IN
    <<Word("response"), Word(Version), Word(a.code), Word(IF solid /\ a.exact THEN 1 ELSE 0),
      Number(IF solid THEN a.object ELSE 0), Word(3 * Len(a.positions)), Word(Len(a.indices)),
      Word(Len(a.text)), Word(0), Number(a.area), Number(a.volume)>>
    \o IF solid THEN [k \in DOMAIN a.positions |-> <<12, a.positions[k]>>] \o Each(Word, a.indices)
       ELSE [k \in DOMAIN a.text |-> <<1, a.text[k]>>]

DecodeAnswer(cells) ==
    LET field(k) == cells[k][2]
        positions == field(6) \div 3
        indices == field(7)
        body == SubSeq(cells, 12, Len(cells))
        Values(first, count) == [k \in 1 .. count |-> body[first + k - 1][2]]
    IN  IF \/ field(1) # "response" \/ field(2) # Version
           \/ Bytes(cells) # AnswerSize(positions, indices, field(8))
           \/ field(4) > 1
           \/ field(3) = "none" /\ field(8) # 0
           \/ field(3) # "none" /\ (positions # 0 \/ indices # 0)
        THEN Crash
        ELSE IF field(3) # "none"
        THEN [Crash EXCEPT !.code = field(3), !.text = Values(1, field(8))]
        ELSE IF field(4) = 1 /\ (field(10) <= 0 \/ field(11) <= 0)
        THEN Crash
        ELSE [Crash EXCEPT !.code = "none", !.exact = (field(4) = 1), !.object = field(5),
                           !.area = field(10), !.volume = field(11),
                           !.positions = Values(1, positions),
                           !.indices = Values(positions + 1, indices)]
-----------------------------------------------------------------------------
MessageInit ==
    /\ request \in Requests
    /\ origin = 0
    /\ message = <<>> /\ offset = 0 /\ agenda = <<>>
    /\ counted = [loops |-> 0, sections |-> 0, coordinates |-> 0]
    /\ got = <<>>
    /\ reply = Crash
    /\ exchange = "asking"

Refuse == exchange' = "refused" /\ UNCHANGED <<request, origin, message, offset, agenda, counted, got, reply>>

\* The host asks as it is, or moved to its origin to compare it with others.
Ask ==
    /\ exchange = "asking"
    /\ \E o \in {0, RequestOrigin(request)} :
          LET r == IF o = 0 THEN request ELSE Normalize(request, o) IN
          IF Encodable(r)
          THEN /\ origin' = o
               /\ message' = EncodeRequest(r)
               /\ exchange' = "reading"
               /\ UNCHANGED <<request, offset, agenda, counted, got, reply>>
          ELSE Refuse

Read(k) == message[offset + k][2]
Left == Bytes(message) - Bytes(SubSeq(message, 1, offset))
Item(what, count) == [what |-> what, count |-> count]

Consume(cells, values, next) ==
    /\ offset' = offset + cells
    /\ got' = got \o values
    /\ agenda' = next \o Tail(agenda)
    /\ UNCHANGED <<request, origin, message, reply, exchange>>

ReadHeader ==
    /\ exchange = "reading" /\ offset = 0
    /\ IF \/ Read(1) # "request" \/ Read(2) # Version
          \/ Read(13) # Bytes(message) \/ Read(13) > MaximumBytes \/ Read(12) > MaximumNodes
       THEN Refuse
       ELSE /\ offset' = HeaderCells
            /\ got' = <<<<"object", Read(3)>>, <<"base", Read(4)>>>>
            /\ agenda' = <<Item("boxes", Read(7)), Item("planes", Read(8)),
                           Item("positions", Read(9) \div 3), Item("indices", Read(10)),
                           Item("cutters", Read(11)), Item("nodes", Read(12))>>
            /\ UNCHANGED <<request, origin, message, counted, reply, exchange>>

Due(what) == exchange = "reading" /\ agenda # <<>> /\ agenda[1].what = what
Count == agenda[1].count
CellWidth(what) == CASE what \in {"boxes", "planes"} -> 48 [] what \in {"positions", "points"} -> 24
                 [] what \in {"indices", "unions", "children"} -> 4

\* A run of equal cells; an edge of the graph must lead to a node of it.
ReadRun ==
    \E what \in {"boxes", "planes", "positions", "points", "indices", "unions", "children"} :
        /\ Due(what)
        /\ LET values == [k \in 1 .. Count |-> <<what, Read(k)>>] IN
           IF \/ CellWidth(what) * Count > Left
              \/ /\ what \in {"unions", "children"}
                 /\ \E k \in 1 .. Count : Read(k) >= message[12][2]
           THEN Refuse
           ELSE Consume(Count, values, <<>>) /\ UNCHANGED counted

\* The end of a list whose items have headers of their own.
ReadNothing ==
    /\ \E what \in {"cutters", "nodes", "loops", "sweeps", "sections"} : Due(what) /\ Count = 0
    /\ Consume(0, <<>>, <<>>) /\ UNCHANGED counted

Rest(what) == Item(what, Count - 1)

ReadCutter ==
    /\ Due("cutters") /\ Count > 0
    /\ IF 8 * Count > Left THEN Refuse
       ELSE /\ Consume(2, <<<<"cutter", Read(1)>>>>,
                       <<Item("positions", Read(1) \div 3), Item("indices", Read(2)), Rest("cutters")>>)
            /\ UNCHANGED counted

ReadNode ==
    /\ Due("nodes") /\ Count > 0
    /\ IF 120 * Count > Left \/ Read(11) > 1 \/ Read(13) # 0
       THEN Refuse
       ELSE IF counted.loops + Read(8) + Read(10) > MaximumLoops
       THEN Refuse
       ELSE /\ counted' = [counted EXCEPT !.loops = @ + Read(8) + Read(10)]
            /\ Consume(NodeCells,
                       <<<<"object", Read(1)>>, <<"base", Read(2)>>, <<"vector", Read(9)>>,
                         <<"circular", Read(11) = 1>>>>,
                       <<Item("boxes", Read(3)), Item("planes", Read(4)),
                         Item("positions", Read(5) \div 3), Item("indices", Read(6)),
                         Item("loops", Read(8)), Item("sweeps", Read(10)),
                         Item("unions", Read(12)), Item("children", Read(7)), Rest("nodes")>>)

\* The loop of an extrusion or the section of a sweep.
ReadLoop ==
    \E what \in {"loops", "sections"} :
        /\ Due(what) /\ Count > 0
        /\ IF 4 * Count > Left \/ counted.coordinates + Read(1) > MaximumCoordinates
           THEN Refuse
           ELSE /\ counted' = [counted EXCEPT !.coordinates = @ + Read(1)]
                /\ Consume(1, <<<<"loop", Read(1)>>>>, <<Item("points", Read(1) \div 3), Rest(what)>>)

ReadSweep ==
    /\ Due("sweeps") /\ Count > 0
    /\ IF 4 * Count > Left \/ counted.sections + Read(1) > MaximumSections
       THEN Refuse
       ELSE /\ counted' = [counted EXCEPT !.sections = @ + Read(1)]
            /\ Consume(1, <<<<"sweep", Read(1)>>>>, <<Item("sections", Read(1)), Rest("sweeps")>>)

ReadEnd ==
    /\ exchange = "reading" /\ offset > 0 /\ agenda = <<>>
    /\ IF Left # 0 THEN Refuse
       ELSE /\ exchange' = "read"
            /\ UNCHANGED <<request, origin, message, offset, agenda, counted, got, reply>>

\* The worker answers and the host reads what it wrote.
Answer ==
    /\ exchange = "read"
    /\ \E a \in Answers :
          /\ reply' = a
          /\ message' = EncodeAnswer(a)
    /\ exchange' = "answered"
    /\ UNCHANGED <<request, origin, offset, agenda, counted, got>>

Hear ==
    /\ exchange = "answered"
    /\ got' = <<DecodeAnswer(message)>>
    /\ exchange' = "heard"
    /\ UNCHANGED <<request, origin, message, offset, agenda, counted, reply>>

MessageNext ==
    \/ Ask \/ ReadHeader \/ ReadRun \/ ReadNothing \/ ReadCutter \/ ReadNode \/ ReadLoop
    \/ ReadSweep \/ ReadEnd \/ Answer \/ Hear

MessageSpec == MessageInit /\ [][MessageNext]_messageVars
-----------------------------------------------------------------------------
(* Safety. *)

Tagged(name, values) == [k \in DOMAIN values |-> <<name, values[k]>>]
MeshListing(m) == Tagged("positions", m.positions) \o Tagged("indices", m.indices)
LoopListing(l) == <<<<"loop", 3 * Len(l)>>>> \o Tagged("points", l)
SweepListing(l) == <<<<"sweep", Len(l)>>>> \o FlattenSeq(Each(LoopListing, l))
CutterListing(m) == <<<<"cutter", 3 * Len(m.positions)>>>> \o MeshListing(m)

IsBody(n) == n.mesh = NoMeshGiven /\ n.extrusion = <<>> /\ n.sweep = <<>>
BaseName(body) == IF body THEN "body" ELSE "base"

\* What a request says, in the order in which a reader meets it.
NodeListing(n) ==
    <<<<"object", n.object>>, <<BaseName(IsBody(n)), n.base>>, <<"vector", n.vector>>,
      <<"circular", n.circular>>>>
    \o Tagged("boxes", n.boxes) \o Tagged("planes", n.planes) \o MeshListing(n.mesh)
    \o FlattenSeq(Each(LoopListing, n.extrusion)) \o FlattenSeq(Each(SweepListing, n.sweep))
    \o Tagged("unions", n.unions) \o Tagged("children", n.children)

Listing(r) ==
    <<<<"object", r.object>>,
      <<BaseName(r.nodes = <<>> /\ r.mesh = NoMeshGiven), r.base>>>>
    \o Tagged("boxes", r.boxes) \o Tagged("planes", r.planes) \o MeshListing(r.mesh)
    \o FlattenSeq(Each(CutterListing, r.cutters)) \o FlattenSeq(Each(NodeListing, r.nodes))

\* The same said of a place that lies elsewhere, of no object in particular.
Elsewhere(entry, o) ==
    CASE entry[1] \in {"positions", "points"} -> <<entry[1], entry[2] - o>>
      [] entry[1] \in {"boxes", "planes"} -> <<entry[1], Placed(entry[2], o)>>
      [] entry[1] = "body" -> <<"base", Placed(entry[2], o)>>
      [] entry[1] = "object" -> <<"object", IF o = 0 THEN entry[2] ELSE 0>>
      [] entry[1] \notin {"positions", "points", "boxes", "planes", "body", "object"} -> entry

\* encode_occt_request, decode_occt_request and the translation of both agree: what
\* the host may send the worker accepts and understands as it was meant, after a
\* normalisation with every coordinate moved by the same distance and no vector,
\* index or count touched; an answer is heard as it was given.
MessageSurvives ==
    /\ exchange = "refused" => message = <<>> /\ ~Encodable(request)
    /\ exchange = "read" =>
          LET said == Listing(request) IN
          got = [k \in DOMAIN said |-> Elsewhere(said[k], origin)]
    /\ exchange = "heard" => got = <<reply>>
=============================================================================
