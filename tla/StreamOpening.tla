----------------------------- MODULE StreamOpening -----------------------------
(***************************************************************************)
(* What the factories of the streams look for before there is a stream     *)
(* (src/semantic.cpp, src/identity.cpp, src/weld_semantics.cpp: the        *)
(* make_..._stream functions).  A binding is what is known of the tables   *)
(* of a model by then:                                                     *)
(*   whole    the schema of the model's format has the table, with every   *)
(*            field that is asked of it                                    *)
(*   filled   the model has rows in it                                     *)
(* The bytes of a table are all there, or the model would not have been    *)
(* opened: that a record lies outside the payload cannot happen here.      *)
(***************************************************************************)
EXTENDS Naturals, Sequences, FiniteSets, SequencesExt

NoTable == "none"

\* The tables the rows of a reader may be in; the first that is filled has them.
OwnTables(reader) ==
    CASE reader = "parts" -> <<"part">>
      [] reader = "bolts" -> <<"bolt">>
      [] reader = "rebars" -> <<"rebar">>
      [] reader = "welds" -> <<"welding">>
      [] reader = "surfaces" -> <<"surfacing">>
      [] reader = "surface_objects" ->
            <<"surface_object", "old_surface_object_961", "old_surface_object_824",
              "surface_object_816">>
      [] reader = "rebar_sets" ->
            <<"rebarset", "old_rebarset_961", "old_rebarset_918", "old_rebarset_908",
              "old_rebarset_839", "old_rebarset_799">>
      [] reader = "end_details" -> <<"rebarset_end_detail_strip">>
      [] reader = "splitters" -> <<"rebarset_splitter">>
      [] reader = "pour_objects" -> <<"pour_object">>
      [] reader = "pour_units" -> <<"pour_unit">>
      [] reader = "splices" -> <<"rebar_splice">>

DefinitionTables ==
    {"old_numattr_attr_628", "old_numattr_attr_641", "numattr_attr", "old_strattr_attr_628",
     "old_strattr_attr_909", "strattr_attr", "idattr_attr"}
AttributeLinkTables == {"numattr", "strattr", "idattr"}
ObjectAttributeTables ==
    <<"old_object_attr_951", "old_object_attr_915", "old_object_attr_900", "old_object_attr_879">>
PartAttributeTables ==
    <<"part_attr", "old_part_attr_911", "old_part_attr_866", "old_part_attr_801",
      "old_part_attr_787", "old_part_attr_784", "old_part_attr_742", "old_part_attr_650",
      "old_part_attr_644", "old_part_attr_622">>
BoltAttributeTables ==
    <<"bolt_attr", "old_bolt_attr_935", "old_bolt_attr_897", "old_bolt_attr_807">>

FirstFilled(b, tables) ==
    LET found == SelectSeq(tables, LAMBDA t : t \in b.filled) IN
    IF found = <<>> THEN NoTable ELSE Head(found)

RowsIn(b, reader) == FirstFilled(b, OwnTables(reader))

AllWhole(b, tables) == tables \subseteq b.whole
WholeIfFilled(b, tables) == tables \cap b.filled \subseteq b.whole
-----------------------------------------------------------------------------
(* Objects, attributes, stored relations, component occurrences.             *)

\* Without welds or their common attributes there is nothing to decode.
HasWelds(b) == {"welding", "welding_common_attr"} \subseteq b.filled
DecodesWelds(b, seams) ==
    HasWelds(b) => /\ AllWhole(b, {"welding", "welding_common_attr"})
                   /\ seams => WholeIfFilled(b, {"welding_attr"})

\* Objects of older formats have their type in a table of its own.
ModernObjects(b) == "object" \in b.filled
OpensObjects(b) ==
    IF ModernObjects(b) THEN AllWhole(b, {"object"})
    ELSE AllWhole(b, {"old_object_948", FirstFilled(b, ObjectAttributeTables)})

OpensIdentities(b) == OpensObjects(b) /\ DecodesWelds(b, FALSE)
OpensAttributes(b) == WholeIfFilled(b, DefinitionTables \cup AttributeLinkTables)
OpensRelations(b) == AllWhole(b, {"relation"})
OpensInstances(b) == WholeIfFilled(b, {"joint", "macro"})
-----------------------------------------------------------------------------
(* The families of the property stage.                                       *)

OpensParts(b) == AllWhole(b, {"part", FirstFilled(b, PartAttributeTables)})
OpensBolts(b) == AllWhole(b, {"bolt", FirstFilled(b, BoltAttributeTables)})
OpensRebars(b) == AllWhole(b, {"rebar", "rebar_attr"})
OpensWelds(b) == HasWelds(b) /\ DecodesWelds(b, TRUE)
OpensSurfaces(b) == AllWhole(b, {"surfacing", "surfacing_attr"})
OpensSurfaceObjects(b) == AllWhole(b, {RowsIn(b, "surface_objects")})
OpensRebarSets(b) == AllWhole(b, {RowsIn(b, "rebar_sets"), "rebarset_prop"})
OpensEndDetails(b) == AllWhole(b, {"rebarset_end_detail_strip"})
OpensSplitters(b) == AllWhole(b, {"rebarset_splitter", "rebarset_splitter_attr"})
OpensPourObjects(b) == AllWhole(b, {"pour_object"})
OpensPourUnits(b) == AllWhole(b, {"pour_unit"})
OpensSplices(b) == AllWhole(b, {"rebar_splice"})

Opens(b, reader) ==
    CASE reader = "identities" -> OpensIdentities(b)
      [] reader = "attributes" -> OpensAttributes(b)
      [] reader = "relations" -> OpensRelations(b)
      [] reader = "instances" -> OpensInstances(b)
      [] reader = "parts" -> OpensParts(b)
      [] reader = "bolts" -> OpensBolts(b)
      [] reader = "rebars" -> OpensRebars(b)
      [] reader = "welds" -> OpensWelds(b)
      [] reader = "surfaces" -> OpensSurfaces(b)
      [] reader = "surface_objects" -> OpensSurfaceObjects(b)
      [] reader = "rebar_sets" -> OpensRebarSets(b)
      [] reader = "end_details" -> OpensEndDetails(b)
      [] reader = "splitters" -> OpensSplitters(b)
      [] reader = "pour_objects" -> OpensPourObjects(b)
      [] reader = "pour_units" -> OpensPourUnits(b)
      [] reader = "splices" -> OpensSplices(b)
      [] OTHER -> TRUE
=============================================================================
