-------------------------------- MODULE ProcessStream --------------------------------
(***************************************************************************)
(* Model::process (src/model.cpp:86-145) and the readers behind it.        *)
(*                                                                         *)
(* The stages a request names are opened one after the other and drained   *)
(* one after the other; the property stage is itself a chain of readers,   *)
(* and the geometry of what is not a part is opened by the call that       *)
(* first gets there.  Some readers turn one window of rows into several    *)
(* batches and remember between the calls what is still to be answered.    *)
(*                                                                         *)
(* One step is one turn of a reader's loop over its rows; the consumer's   *)
(* call and every answer are steps of their own.  Readers that are drained *)
(* are gone and those to come are untouched, so one cursor stands for the  *)
(* cursor of the reader at work.  A row is known by its number, and what   *)
(* matters of it is:                                                       *)
(*   visible     it is not marked as deleted                               *)
(*   attribute   the record it refers to exists and can be decoded         *)
(*   text        it has a text that becomes a property                     *)
(*   geometry    what the geometry of a part comes to                      *)
(* `sent`, `lost` and `lists` are history: what went out on every channel, *)
(* the objects an error has cost, and what is promised on every channel.   *)
(* No reader looks at them.                                                *)
(***************************************************************************)
EXTENDS PropertyWinners, StreamOpening

CONSTANTS
    Ids, Names,   \* of objects and definitions; of attributes
    Families      \* families of models, each model with a request

Shapes == {"operative", "other", "frameless", "drawn", "omitting", "undrawn"}
NonPartKinds == <<"curves", "meshes", "diagnostics">>
StageNames ==
    {"identities", "properties", "relations", "semantic_relations", "instances",
     "component_definitions", "definition_geometry", "display_geometry"}

Chain == <<"parts", "bolts", "rebars", "welds", "surfaces", "surface_objects", "rebar_sets",
           "end_details", "splitters", "pour_objects", "pour_units", "splices">>

\* All readers there are.
AllReaders ==
    <<"identities", "attributes">> \o Chain
        \o <<"relations", "semantic_relations", "instances", "geometry", "nonpart">>

\* The parts are read twice, the attributes and what is not a part differently.
TableNames ==
    ToSet(Chain) \cup {"identities", "relations", "semantic_relations", "instances"}

Models ==
    LET rows == [visible : BOOLEAN, attribute : BOOLEAN, text : BOOLEAN, geometry : Shapes]
        links == [father : Ids, def : Ids]
        definitions == [id : Ids, name : Names]
    IN  [tables : [TableNames -> Seq(rows)],
         attributes : [links : [DOMAIN Precedence -> Seq(links)],
                       definitions : [DOMAIN Precedence -> Seq(definitions)]],
         nonpart : [ToSet(NonPartKinds) -> Nat],
         binding : [whole : SUBSET STRING, filled : SUBSET STRING],
         unopenable : SUBSET ToSet(AllReaders)]

\* A family of the property stage has rows where its tables are filled.
Bound(m) ==
    \A r \in ToSet(Chain) : m.tables[r] # <<>> <=> RowsIn(m.binding, r) # NoTable

Requests == [stages : SUBSET StageNames, size : Nat \ {0}, window : Nat \X Nat]

ASSUME FamiliesAssumption ==
    \A f \in DOMAIN Families :
        /\ Families[f] \subseteq [model : Models, request : Requests]
        /\ \A c \in Families[f] : Bound(c.model)

VARIABLES
    model, request,      \* never written once chosen
    stream,              \* "none", "choosing", "failed" or "open"
    readers,             \* streams_ from current_ on
    row,                 \* row_ of the reader at work
    source,              \* source_ of the attribute reader
    attributes, winners, \* what the attribute reader is made from
    page,                \* the batch being filled
    count,               \* rows that count to the window
    materials, emitMaterials,               \* materials_, emit_materials_
    decoding, meshes, diagnostics, pending, \* the geometry reader's window
    opened,              \* the deferred reader has its stream
    calling, answer,     \* next() is on the stack; the last answer
    sent, lost, lists    \* history

fixedVars == <<model, request, stream, attributes, winners, lists>>
cursorVars == <<readers, row, source>>
materialVars == <<materials, emitMaterials>>
geometryVars == <<decoding, meshes, diagnostics, pending>>
answerVars == <<calling, answer, sent, lost>>
processVars == <<fixedVars, cursorVars, page, count, materialVars, geometryVars, opened,
                 answerVars>>

Batch(kind, items) == [kind |-> kind, items |-> items]
NoAnswer == Batch("none", <<>>)
Ended == Batch("end", <<>>)
Failure == Batch("error", <<>>)

Table(reader) == IF reader = "geometry" THEN model.tables["parts"] ELSE model.tables[reader]
Rows(reader) == 1 .. Len(Table(reader))

---------------------------------------------------------------------------
(* Which readers a request gets.                                          *)

EmitsDefinitions == "definition_geometry" \in request.stages
EmitsMeshes == "display_geometry" \in request.stages

\* The property stage has the attributes always, and every other family that
\* has rows.
Wanted(reader) ==
    CASE reader = "attributes" -> "properties" \in request.stages
      [] reader \in ToSet(Chain) ->
            "properties" \in request.stages /\ model.tables[reader] # <<>>
      [] reader = "instances" ->
            {"instances", "component_definitions"} \cap request.stages # {}
      [] reader = "geometry" -> EmitsDefinitions \/ EmitsMeshes
      [] reader = "nonpart" -> EmitsMeshes
      [] OTHER -> reader \in request.stages

Pushed(reader) == IF Wanted(reader) THEN <<reader>> ELSE <<>>

StageReaders ==
    Pushed("identities") \o Pushed("attributes") \o Pushed("parts") \o Pushed("bolts")
        \o Pushed("rebars") \o Pushed("welds") \o Pushed("surfaces")
        \o Pushed("surface_objects") \o Pushed("rebar_sets") \o Pushed("end_details")
        \o Pushed("splitters") \o Pushed("pour_objects") \o Pushed("pour_units")
        \o Pushed("splices") \o Pushed("relations") \o Pushed("semantic_relations")
        \o Pushed("instances") \o Pushed("geometry") \o Pushed("nonpart")

\* Every stream but the deferred one is opened here, and all must open.  Some also
\* need what is not in the tables: a catalog of components, or sound geometry.
OpensAll ==
    \A r \in ToSet(AllReaders) \ {"nonpart"} :
        Wanted(r) => Opens(model.binding, r) /\ r \notin model.unopenable

\* The kinds of batches a reader answers with.
KindsOf(reader) ==
    CASE reader = "identities" -> {"objects"}
      [] reader \in {"parts", "surfaces"} -> {"properties", "materials"}
      [] reader \in {"relations", "semantic_relations", "instances"} -> {reader}
      [] reader = "geometry" -> {"definition_geometry", "meshes", "diagnostics"}
      [] reader = "nonpart" -> {"curves", "meshes", "diagnostics", "opening"}
      [] OTHER -> {"properties"}

Channels == UNION {{r} \X KindsOf(r) : r \in {r \in ToSet(AllReaders) : Wanted(r)}}

---------------------------------------------------------------------------
(* Which rows a reader takes, and what is promised on every channel.      *)

PartTakes(r) == r.attribute
BoltTakes(r) == r.visible /\ r.attribute
RebarTakes(r) == r.visible /\ r.attribute
WeldTakes(r) == r.visible /\ r.attribute
SurfaceTakes(r) == r.visible /\ r.attribute
SurfaceObjectTakes(r) == r.visible
RebarSetTakes(r) == r.visible /\ r.attribute
EndDetailTakes(r) == r.visible
SplitterTakes(r) == r.visible /\ r.attribute
PourObjectTakes(r) == r.visible
PourUnitTakes(r) == r.visible
SpliceTakes(r) == r.visible

Takes(reader, r) ==
    CASE reader = "parts" -> PartTakes(r)
      [] reader = "bolts" -> BoltTakes(r)
      [] reader = "rebars" -> RebarTakes(r)
      [] reader = "welds" -> WeldTakes(r)
      [] reader = "surfaces" -> SurfaceTakes(r)
      [] reader = "surface_objects" -> SurfaceObjectTakes(r)
      [] reader = "rebar_sets" -> RebarSetTakes(r)
      [] reader = "end_details" -> EndDetailTakes(r)
      [] reader = "splitters" -> SplitterTakes(r)
      [] reader = "pour_objects" -> PourObjectTakes(r)
      [] reader = "pour_units" -> PourUnitTakes(r)
      [] reader = "splices" -> SpliceTakes(r)

\* Only of a part or a pour unit every property may be missing.
Describes(reader, r) == reader \in {"parts", "pour_units"} => r.text

Selected(number) == request.window[1] <= number /\ number <= request.window[2]

\* Operatives are drawn by their hosts, and other types not here.
Passed == {"operative", "other"}
\* The definition needs the attribute and a frame.
Framed == {"drawn", "omitting", "undrawn"}

\* What a part comes to, as far as the request asks for it.
Frameless(i) ==
    LET r == Table("geometry")[i] IN
    Selected(i) /\ (r.geometry = "frameless" \/ (~r.attribute /\ r.geometry # "operative"))
IsFramed(i) ==
    LET r == Table("geometry")[i] IN Selected(i) /\ r.attribute /\ r.geometry \in Framed

GeometryComes(kind, i) ==
    LET shape == Table("geometry")[i].geometry IN
    CASE kind = "definition_geometry" -> EmitsDefinitions /\ IsFramed(i)
      [] kind = "meshes" -> EmitsMeshes /\ IsFramed(i) /\ shape # "undrawn"
      [] kind = "diagnostics" ->
            Frameless(i) \/ (EmitsMeshes /\ IsFramed(i) /\ shape # "drawn")

\* The rows that come to an item of a channel.
RowsOf(c) ==
    {i \in Rows(c[1]) :
        IF c[1] = "geometry" THEN GeometryComes(c[2], i)
        ELSE LET r == Table(c[1])[i] IN
             Takes(c[1], r) /\ (c[2] = "properties" => Describes(c[1], r))}

\* How many there are of what is not a part; the stream itself counts when it
\* does not open.
NonPartCount(kind) ==
    IF kind = "opening" THEN IF "nonpart" \in model.unopenable THEN 1 ELSE 0
    ELSE model.nonpart[kind]

ListOf(c) ==
    CASE c[1] = "attributes" -> Promised(attributes)
      [] c[1] \in ToSet(Chain) \cup {"geometry"} ->
            InOrder(RowsOf(c), {p \in Rows(c[1]) \X Rows(c[1]) : p[1] < p[2]})
      [] c[1] = "nonpart" -> [i \in 1 .. NonPartCount(c[2]) |-> i]
      [] OTHER -> [i \in Rows(c[1]) |-> i]

---------------------------------------------------------------------------
Init ==
    /\ \E f \in DOMAIN Families : \E c \in Families[f] :
          model = c.model /\ request = c.request
    /\ stream = "none" /\ readers = <<>>
    /\ row = 0 /\ source = 1
    /\ attributes = LoadAttributes(model.attributes) /\ winners = <<>>
    /\ page = <<>> /\ count = 0
    /\ materials = <<>> /\ emitMaterials = FALSE
    /\ decoding = FALSE /\ meshes = <<>> /\ diagnostics = <<>> /\ pending = 3
    /\ opened = FALSE
    /\ calling = FALSE /\ answer = NoAnswer
    /\ lists = [c \in Channels |-> ListOf(c)]
    /\ sent = [c \in Channels |-> <<>>] /\ lost = 0

At(reader) == calling /\ readers # <<>> /\ Head(readers) = reader

Process ==
    /\ stream = "none"
    /\ IF ~OpensAll THEN stream' = "failed" /\ UNCHANGED readers
       ELSE /\ stream' = IF "properties" \in request.stages THEN "choosing" ELSE "open"
            /\ readers' = StageReaders
    /\ UNCHANGED <<model, request, attributes, winners, lists, row, source, page, count,
                   materialVars, geometryVars, opened, answerVars>>

\* The attribute reader is opened with the winners: one turn of the loop of
\* find_property_winners over the rows of every link table, and its end.
ChooseWinner ==
    /\ stream = "choosing" /\ source <= 3 /\ row < Len(LinkTable(attributes, source))
    /\ winners' = Meet(attributes, winners, <<source, row + 1>>)
    /\ row' = row + 1
    /\ UNCHANGED <<model, request, stream, attributes, lists, readers, source, page, count,
                   materialVars, geometryVars, opened, answerVars>>

\* The rows of a link table are through, in this pass or in the reader's.
LinkTableDone ==
    /\ stream = "choosing" \/ At("attributes")
    /\ source <= 3 /\ row = Len(LinkTable(attributes, source))
    /\ source' = source + 1 /\ row' = 0
    /\ UNCHANGED <<fixedVars, readers, page, count, materialVars, geometryVars, opened,
                   answerVars>>

WinnersChosen ==
    /\ stream = "choosing" /\ source > 3
    /\ winners' = Contested(winners)
    /\ stream' = "open" /\ source' = 1
    /\ UNCHANGED <<model, request, attributes, lists, readers, row, page, count, materialVars,
                   geometryVars, opened, answerVars>>

\* A request that has failed can be made again, with the same result.
ProcessAgain ==
    /\ stream = "failed" /\ ~OpensAll
    /\ UNCHANGED processVars

---------------------------------------------------------------------------
(* Calls, answers, and the way from one reader to the next.               *)

Call ==
    /\ stream = "open" /\ ~calling
    /\ calling' = TRUE /\ page' = <<>> /\ count' = 0
    /\ materials' = IF emitMaterials THEN materials ELSE <<>>
    /\ UNCHANGED <<fixedVars, cursorVars, emitMaterials, geometryVars, opened, answer, sent,
                   lost>>

Answers(channel, items) ==
    /\ calling' = FALSE
    /\ answer' = Batch(channel[2], items)
    /\ sent' = [sent EXCEPT ![channel] = @ \o items]
    /\ UNCHANGED lost

EnterNext ==
    /\ readers' = Tail(readers)
    /\ row' = 0 /\ source' = 1 /\ page' = <<>> /\ count' = 0 /\ materials' = <<>>
    /\ UNCHANGED <<fixedVars, emitMaterials, geometryVars, opened, answerVars>>

\* The reader at work has nothing left to answer.
AtEnd(reader) ==
    CASE reader = "attributes" -> page = <<>> /\ source > 3
      [] reader = "geometry" -> ~decoding /\ pending = 3 /\ row = Len(Table(reader))
      [] reader = "nonpart" -> opened /\ page = <<>> /\ row = 0 /\ source > 3
      [] OTHER -> page = <<>> /\ materials = <<>> /\ row = Len(Table(reader))

\* From one reader of the property stage to the next.
ChainAdvances ==
    /\ calling /\ Len(readers) > 1
    /\ readers[2] \in ToSet(Chain) /\ AtEnd(Head(readers))
    /\ EnterNext

\* From one stage to the next.
StageAdvances ==
    /\ calling /\ readers # <<>>
    /\ Len(readers) > 1 => readers[2] \notin ToSet(Chain)
    /\ AtEnd(Head(readers))
    /\ EnterNext

AnswerEnd ==
    /\ calling /\ readers = <<>>
    /\ calling' = FALSE /\ answer' = Ended
    /\ UNCHANGED <<fixedVars, cursorVars, page, count, materialVars, geometryVars, opened, sent,
                   lost>>

---------------------------------------------------------------------------
(* IdentityReader.                                                        *)

ReadObject ==
    /\ At("identities") /\ row < Len(Table("identities")) /\ Len(page) < request.size
    /\ Table("identities")[row + 1].attribute
    /\ page' = Append(page, row + 1) /\ row' = row + 1
    /\ UNCHANGED <<fixedVars, readers, source, count, materialVars, geometryVars, opened,
                   answerVars>>

\* A legacy row whose attribute is missing or whose id is malformed: the rows
\* of the batch so far go with it.
FailObject ==
    /\ At("identities") /\ row < Len(Table("identities")) /\ Len(page) < request.size
    /\ ~Table("identities")[row + 1].attribute
    /\ row' = row + 1
    /\ calling' = FALSE /\ answer' = Failure
    /\ lost' = lost + Len(page) + 1
    /\ UNCHANGED <<fixedVars, readers, source, page, count, materialVars, geometryVars, opened,
                   sent>>

AnswerObjects ==
    /\ At("identities") /\ page # <<>>
    /\ row = Len(Table("identities")) \/ Len(page) = request.size
    /\ Answers(<<"identities", "objects">>, page)
    /\ UNCHANGED <<fixedVars, cursorVars, page, count, materialVars, geometryVars, opened>>

---------------------------------------------------------------------------
(* PropertyReader.                                                        *)

ReadLink ==
    LET l == <<source, row + 1>> IN
    /\ At("attributes") /\ source <= 3 /\ row < Len(LinkTable(attributes, source))
    /\ Len(page) < request.size
    /\ page' = IF GoesOut(attributes, winners, l) THEN Append(page, l) ELSE page
    /\ row' = row + 1
    /\ UNCHANGED <<fixedVars, readers, source, count, materialVars, geometryVars, opened, answerVars>>

AnswerAttributes ==
    /\ At("attributes") /\ page # <<>>
    /\ source <= 3 => Len(page) = request.size /\ row < Len(LinkTable(attributes, source))
    /\ Answers(<<"attributes", "properties">>, page)
    /\ UNCHANGED <<fixedVars, cursorVars, page, count, materialVars, geometryVars, opened>>

---------------------------------------------------------------------------
(* The other readers of the property stage: rows they pass over do not    *)
(* count to the window.                                                   *)

Current == Head(readers)
InChain == calling /\ readers # <<>> /\ Current \in ToSet(Chain) /\ ~emitMaterials
WindowEnds(reader) == row = Len(Table(reader)) \/ count = request.size

ReadSemanticRow ==
    LET r == Table(Current)[row + 1]
        takes == Takes(Current, r)
    IN
    /\ InChain /\ row < Len(Table(Current)) /\ count < request.size
    /\ row' = row + 1
    /\ count' = IF takes THEN count + 1 ELSE count
    /\ page' = IF takes /\ Describes(Current, r) THEN Append(page, row + 1) ELSE page
    /\ materials' = IF takes /\ Current \in {"parts", "surfaces"}
                    THEN Append(materials, row + 1) ELSE materials
    /\ UNCHANGED <<fixedVars, readers, source, emitMaterials, geometryVars, opened, answerVars>>

AnswerProperties ==
    /\ InChain /\ WindowEnds(Current) /\ page # <<>>
    /\ Answers(<<Current, "properties">>, page)
    /\ emitMaterials' = (materials # <<>>)
    /\ UNCHANGED <<fixedVars, cursorVars, page, count, materials, geometryVars, opened>>

\* Materials wait for the next call, or go at once when there is no property.
AnswerMaterials ==
    /\ calling /\ readers # <<>> /\ Current \in {"parts", "surfaces"}
    /\ emitMaterials \/ (WindowEnds(Current) /\ page = <<>> /\ materials # <<>>)
    /\ emitMaterials' = FALSE
    /\ Answers(<<Current, "materials">>, materials)
    /\ UNCHANGED <<fixedVars, cursorVars, page, count, materials, geometryVars, opened>>

\* Faulty variant: the next window starts full.
SkipWindowKeepsCount ==
    /\ InChain /\ count = request.size /\ row < Len(Table(Current))
    /\ page = <<>> /\ materials = <<>>
    /\ UNCHANGED processVars

\* A window without a property is followed by the next one in the same call.
SkipWindow ==
    /\ InChain /\ count = request.size /\ row < Len(Table(Current))
    /\ page = <<>> /\ materials = <<>>
    /\ count' = 0
    /\ UNCHANGED <<fixedVars, cursorVars, page, materialVars, geometryVars, opened, answerVars>>

---------------------------------------------------------------------------
(* Readers of a list: stored relations, semantic relations (the pages of  *)
(* SemanticRelations), component occurrences.                             *)

AnswerPage ==
    LET next == IF row + request.size < Len(Table(Current)) THEN row + request.size
                ELSE Len(Table(Current))
    IN
    /\ calling /\ readers # <<>>
    /\ Current \in {"relations", "semantic_relations", "instances"}
    /\ row < Len(Table(Current))
    /\ Answers(<<Current, Current>>, [i \in 1 .. next - row |-> row + i])
    /\ row' = next
    /\ UNCHANGED <<fixedVars, readers, source, page, count, materialVars, geometryVars, opened>>

---------------------------------------------------------------------------
(* GeometryReader: a window of parts becomes a batch of definitions, one  *)
(* of meshes and one of diagnostics.  pending_ is 1 when the meshes are   *)
(* still to go, 2 when the diagnostics are, 3 when nothing is.            *)

AtGeometry == At("geometry")

PendingMeshes ==
    /\ AtGeometry /\ ~decoding /\ pending = 1 /\ meshes # <<>>
    /\ pending' = 2
    /\ Answers(<<"geometry", "meshes">>, meshes)
    /\ UNCHANGED <<fixedVars, cursorVars, page, count, materialVars, decoding, meshes,
                   diagnostics, opened>>

PendingDiagnostics ==
    /\ AtGeometry /\ ~decoding /\ pending <= 2 /\ (pending = 1 => meshes = <<>>)
    /\ diagnostics # <<>>
    /\ pending' = 3
    /\ Answers(<<"geometry", "diagnostics">>, diagnostics)
    /\ UNCHANGED <<fixedVars, cursorVars, page, count, materialVars, decoding, meshes,
                   diagnostics, opened>>

\* Faulty variant: a window that had definitions or meshes is through.
NothingPendingForgets ==
    /\ AtGeometry /\ ~decoding /\ pending <= 2
    /\ pending = 1 => meshes = <<>>
    /\ pending' = 3
    /\ UNCHANGED <<fixedVars, cursorVars, page, count, materialVars, decoding, meshes,
                   diagnostics, opened, answerVars>>

NothingPending ==
    /\ AtGeometry /\ ~decoding /\ pending <= 2
    /\ pending = 1 => meshes = <<>>
    /\ diagnostics = <<>>
    /\ pending' = 3
    /\ UNCHANGED <<fixedVars, cursorVars, page, count, materialVars, decoding, meshes,
                   diagnostics, opened, answerVars>>

StartWindow ==
    /\ AtGeometry /\ ~decoding /\ pending = 3 /\ row < Len(Table("geometry"))
    /\ decoding' = TRUE /\ pending' = 1
    /\ page' = <<>> /\ count' = 0 /\ meshes' = <<>> /\ diagnostics' = <<>>
    /\ UNCHANGED <<fixedVars, cursorVars, materialVars, opened, answerVars>>

ReadPart ==
    LET r == Table("geometry")[row + 1]
        shape == IF ~r.attribute /\ r.geometry # "operative" THEN "frameless" ELSE r.geometry
        taken == Selected(row + 1) /\ shape \notin Passed
        reports == \/ shape = "frameless"
                   \/ EmitsMeshes /\ shape \in {"undrawn", "omitting"}
        Adds(list, condition) == IF taken /\ condition THEN Append(list, row + 1) ELSE list
    IN
    /\ AtGeometry /\ decoding /\ row < Len(Table("geometry")) /\ count < request.size
    /\ row' = row + 1 /\ count' = count + 1
    /\ page' = Adds(page, shape \in Framed)
    /\ meshes' = Adds(meshes, EmitsMeshes /\ shape \in {"drawn", "omitting"})
    /\ diagnostics' = Adds(diagnostics, reports)
    /\ UNCHANGED <<fixedVars, readers, source, materialVars, decoding, pending, opened,
                   answerVars>>

WindowDone == AtGeometry /\ decoding /\ WindowEnds("geometry")

\* Faulty variant: the meshes of a window with definitions are forgotten.
AnswerDefinitionsOnly ==
    /\ WindowDone /\ EmitsDefinitions /\ page # <<>>
    /\ decoding' = FALSE /\ pending' = 2
    /\ Answers(<<"geometry", "definition_geometry">>, page)
    /\ UNCHANGED <<fixedVars, cursorVars, page, count, materialVars, meshes, diagnostics, opened>>

AnswerDefinitions ==
    /\ WindowDone /\ EmitsDefinitions /\ page # <<>>
    /\ decoding' = FALSE
    /\ Answers(<<"geometry", "definition_geometry">>, page)
    /\ UNCHANGED <<fixedVars, cursorVars, page, count, materialVars, meshes, diagnostics,
                   pending, opened>>

\* Faulty variant: the meshes need not wait for the definitions.
AnswerMeshesFirst ==
    /\ WindowDone /\ meshes # <<>>
    /\ decoding' = FALSE /\ pending' = 2
    /\ Answers(<<"geometry", "meshes">>, meshes)
    /\ UNCHANGED <<fixedVars, cursorVars, page, count, materialVars, meshes, diagnostics, opened>>

AnswerMeshes ==
    /\ WindowDone /\ ~(EmitsDefinitions /\ page # <<>>) /\ meshes # <<>>
    /\ decoding' = FALSE /\ pending' = 2
    /\ Answers(<<"geometry", "meshes">>, meshes)
    /\ UNCHANGED <<fixedVars, cursorVars, page, count, materialVars, meshes, diagnostics, opened>>

AnswerDiagnostics ==
    /\ WindowDone /\ ~(EmitsDefinitions /\ page # <<>>) /\ meshes = <<>> /\ diagnostics # <<>>
    /\ decoding' = FALSE /\ pending' = 3
    /\ Answers(<<"geometry", "diagnostics">>, diagnostics)
    /\ UNCHANGED <<fixedVars, cursorVars, page, count, materialVars, meshes, diagnostics, opened>>

EmptyWindow ==
    /\ WindowDone /\ ~(EmitsDefinitions /\ page # <<>>) /\ meshes = <<>> /\ diagnostics = <<>>
    /\ decoding' = FALSE /\ pending' = 3
    /\ UNCHANGED <<fixedVars, cursorVars, page, count, materialVars, meshes, diagnostics, opened,
                   answerVars>>

---------------------------------------------------------------------------
(* DeferredNonPartReader and NonPartReader: everything is decoded when    *)
(* the stream is opened, and `source` is the list that is going out.      *)

OpenNonPart ==
    /\ At("nonpart") /\ ~opened /\ "nonpart" \notin model.unopenable
    /\ opened' = TRUE
    /\ UNCHANGED <<fixedVars, cursorVars, page, count, materialVars, geometryVars, answerVars>>

\* The next call opens it again, and fails again.
FailNonPart ==
    /\ At("nonpart") /\ ~opened /\ "nonpart" \in model.unopenable
    /\ calling' = FALSE /\ answer' = Failure
    /\ UNCHANGED <<fixedVars, cursorVars, page, count, materialVars, geometryVars, opened, sent,
                   lost>>

AnswerNonPart ==
    LET kind == NonPartKinds[source]
        left == model.nonpart[kind] - row
        items == IF left < request.size THEN left ELSE request.size
    IN
    /\ At("nonpart") /\ opened /\ source <= 3 /\ left > 0
    /\ Answers(<<"nonpart", kind>>, [i \in 1 .. items |-> row + i])
    /\ row' = row + items
    /\ UNCHANGED <<fixedVars, readers, source, page, count, materialVars, geometryVars, opened>>

NonPartListDone ==
    /\ At("nonpart") /\ opened /\ source <= 3 /\ row = model.nonpart[NonPartKinds[source]]
    /\ source' = source + 1 /\ row' = 0
    /\ UNCHANGED <<fixedVars, readers, page, count, materialVars, geometryVars, opened,
                   answerVars>>

Next ==
    \/ Process \/ ChooseWinner \/ LinkTableDone \/ WinnersChosen \/ ProcessAgain \/ Call
    \/ ChainAdvances \/ StageAdvances \/ AnswerEnd
    \/ ReadObject \/ FailObject \/ AnswerObjects
    \/ ReadLink \/ AnswerAttributes
    \/ ReadSemanticRow \/ AnswerProperties \/ AnswerMaterials \/ SkipWindow
    \/ AnswerPage
    \/ PendingMeshes \/ PendingDiagnostics \/ NothingPending \/ StartWindow \/ ReadPart
    \/ AnswerDefinitions \/ AnswerMeshes \/ AnswerDiagnostics \/ EmptyWindow
    \/ OpenNonPart \/ FailNonPart \/ AnswerNonPart \/ NonPartListDone

Spec == Init /\ [][Next]_processVars

\* next() has one thread and no blocking call, and the consumer asks until it
\* hears the end.
FairSpec == Spec /\ WF_processVars(Next)

---------------------------------------------------------------------------
(* Properties.                                                            *)

Stages ==
    LET all == StageReaders IN [k \in DOMAIN all |-> {all[k]} \X KindsOf(all[k])]

Faulty ==
    {c \in DOMAIN lists : \/ c = <<"nonpart", "opening">>
                      \/ /\ c = <<"identities", "objects">>
                         /\ \E i \in Rows("identities") : ~Table("identities")[i].attribute}

\* The windows and batches never exceed the request's size, each batch is of
\* one kind and not empty, and what waits for the next call belongs to the
\* reader at work.
ProcessTypeOK ==
    /\ stream \in {"none", "choosing", "failed", "open"}
    /\ row \in Nat /\ source \in 1 .. 4
    /\ Len(page) <= request.size /\ count <= request.size
    /\ Len(materials) <= request.size
    /\ emitMaterials => materials # <<>> /\ Current \in {"parts", "surfaces"}
    /\ pending \in 1 .. 3 /\ decoding \in BOOLEAN
    /\ pending # 3 => readers # <<>> /\ Current = "geometry"
    /\ decoding => calling
    /\ calling \in BOOLEAN /\ calling => stream = "open"
    /\ answer.kind \notin {"none", "end", "error"} => answer.items # <<>>
    /\ lost \in Nat

\* The consumer hears every list of the model in order, each item once, stage
\* by stage, whatever the windows; an error, which only a broken object or
\* the deferred stage can cause, costs it one batch at most.
Stream ==
    INSTANCE BatchStream WITH
        stages <- Stages,
        faulty <- Faulty,
        size <- request.size,
        heard <- [c \in DOMAIN lists |->
                     Len(sent[c]) + IF c = <<"identities", "objects">> THEN lost ELSE 0]
IsBatchStream == Stream!Spec

\* "If multiple persisted definitions produce the same object/group/name path,
\* one value is emitted" (docs/support-matrix.md:27).
OneValuePerPath ==
    LET out == IF "properties" \in request.stages
               THEN sent[<<"attributes", "properties">>] ELSE <<>>
    IN
    \A i, j \in DOMAIN out :
        /\ i # j /\ Path(attributes, out[i]) = Path(attributes, out[j])
        => /\ Kind(out[i]) = Kind(out[j])
           /\ Link(attributes, out[i]).def = Link(attributes, out[j]).def

\* A mesh is never heard before its definition, nor a material before the
\* part's properties, nor an omission before the mesh that misses something.
DescribedFirst ==
    LET Heard(c, i) == c \in DOMAIN sent /\ i \in ToSet(sent[c]) IN
    /\ \A i \in Rows("geometry") :
        /\ EmitsDefinitions /\ Heard(<<"geometry", "meshes">>, i)
              => Heard(<<"geometry", "definition_geometry">>, i)
        /\ Heard(<<"geometry", "diagnostics">>, i) /\ Table("geometry")[i].geometry = "omitting"
           /\ Table("geometry")[i].attribute /\ EmitsMeshes
              => Heard(<<"geometry", "meshes">>, i)
    /\ \A r \in {"parts", "surfaces"} : \A i \in Rows(r) :
        Heard(<<r, "materials">>, i) /\ Describes(r, Table(r)[i]) => Heard(<<r, "properties">>, i)

\* Once the geometry of the parts is through, every selected part of the
\* model has been drawn or reported ("a definition plus a diagnostic, never a
\* guessed box", docs/architecture.md:106-107).
DrawnOrReported ==
    stream = "open" /\ EmitsMeshes /\ "geometry" \notin ToSet(readers) =>
        \A i \in Rows("geometry") :
            Selected(i) /\ Table("geometry")[i].geometry \notin Passed =>
                \/ i \in ToSet(sent[<<"geometry", "meshes">>])
                \/ i \in ToSet(sent[<<"geometry", "diagnostics">>])

\* A consumer that keeps asking hears the end, unless no stream was opened or
\* the deferred stage does not open; then it hears of it.
HeardOut ==
    <>(stream = "failed" \/ answer = Ended
       \/ (answer = Failure /\ readers # <<>> /\ Current = "nonpart"))
=============================================================================
