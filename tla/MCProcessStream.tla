------------------------------- MODULE MCProcessStream -------------------------------
(***************************************************************************)
(* Small models for the whole stream: a family for each kind of reader, in *)
(* which that reader's tables vary, and one in which every stage has       *)
(* something to say or one of them does not open.                          *)
(***************************************************************************)
EXTENDS ProcessStream

UpTo(S, n) == UNION {[1 .. k -> S] : k \in 0 .. n}

Row(visible, attribute, text, geometry) ==
    [visible |-> visible, attribute |-> attribute, text |-> text, geometry |-> geometry]
Plain == Row(TRUE, TRUE, TRUE, "drawn")
Hidden == Row(FALSE, TRUE, TRUE, "drawn")
Orphan == Row(TRUE, FALSE, TRUE, "drawn")
Untitled == Row(TRUE, TRUE, FALSE, "drawn")
Part(geometry) == Row(TRUE, TRUE, TRUE, geometry)

NoTables == [t \in TableNames |-> <<>>]

NoLinks == [numeric |-> <<>>, text |-> <<>>, reference |-> <<>>]
NoAttributes == [links |-> NoLinks, definitions |-> NoLinks]

\* The tables the rows of other tables refer to, and those of the older formats.
Referred ==
    DefinitionTables \cup AttributeLinkTables
        \cup {"part_attr", "bolt_attr", "rebar_attr", "welding_common_attr", "welding_attr",
              "surfacing_attr", "rebarset_prop", "rebarset_splitter_attr", "relation", "joint",
              "macro"}
Older == {"old_object_948", "old_object_attr_951"}
Owned == {"object"} \cup UNION {ToSet(OwnTables(r)) : r \in ToSet(Chain)}

\* How the rows of a model are bound to tables; what is missing is not in the schema.
Bind(m, missing) ==
    LET modern == \A k \in DOMAIN m.tables["identities"] : m.tables["identities"][k].attribute
        own == {Head(OwnTables(r)) : r \in {r \in ToSet(Chain) : m.tables[r] # <<>>}}
    IN  [m EXCEPT !.binding =
            [whole |-> (Owned \cup Referred \cup Older) \ missing,
             filled |-> own \cup (IF modern THEN {"object"} ELSE Older) \cup (Referred \ missing)]]

NoModel ==
    [tables |-> NoTables, attributes |-> NoAttributes,
     nonpart |-> [curves |-> 0, meshes |-> 0, diagnostics |-> 0],
     binding |-> [whole |-> {}, filled |-> {}], unopenable |-> {}]

Everywhere == <<1, 9>>
Request(stages, size, window) == [stages |-> stages, size |-> size, window |-> window]
Case(m, r) == [model |-> Bind(m, {}), request |-> r]

\* Numbers, texts and references of two objects.  Text 1 is loaded twice, with
\* two names; the reference has the name of the one or of the other text; one
\* link leads nowhere.
LinkCases ==
    LET Links(fathers, defs) == {[father |-> f, def |-> d] : f \in fathers, d \in defs}
        definitions(name) ==
            [numeric |-> <<[id |-> 1, name |-> "A"]>>,
             text |-> <<[id |-> 1, name |-> "B"], [id |-> 2, name |-> "B"], [id |-> 1, name |-> "A"]>>,
             reference |-> <<[id |-> 1, name |-> name]>>]
        numeric == UpTo(Links({1, 2}, {1}) \cup Links({1}, {7}), 2)
        text == UpTo(Links({1, 2}, {1, 2}), 2)
        reference == UpTo(Links({1, 2}, {1}), 2)
    IN  {Case([NoModel EXCEPT !.attributes =
                  [links |-> [numeric |-> n, text |-> t, reference |-> r],
                   definitions |-> definitions(name)]],
              Request({"properties"}, size, Everywhere)) :
            n \in numeric, t \in text, r \in reference, name \in {"A", "B"}, size \in {1, 2}}

\* Parts of every shape, read for their properties and for their geometry.
PartCases ==
    LET rows == {Part(g) : g \in Shapes}
                \cup {Orphan, Untitled}
        asked == {<<{"properties"}, Everywhere>>}
                 \cup {{"definition_geometry"}, {"display_geometry"},
                       {"definition_geometry", "display_geometry"}}
                      \X {Everywhere, <<2, 3>>}
    IN  {Case([NoModel EXCEPT !.tables["parts"] = rs], Request(a[1], size, a[2])) :
            rs \in UpTo(rows, 3), a \in asked, size \in {1, 2}}

\* Rows of the other families, and objects that cannot be read.
RowCases ==
    {Case([NoModel EXCEPT !.tables[t] = rs], Request({"properties"}, size, Everywhere)) :
        t \in ToSet(Chain) \ {"parts"}, rs \in UpTo({Plain, Hidden, Orphan, Untitled}, 3),
        size \in {1, 2}}
ObjectCases ==
    {Case([NoModel EXCEPT !.tables["identities"] = rs], Request({"identities"}, size, Everywhere)) :
        rs \in UpTo({Plain, Orphan}, 4), size \in {1, 2, 3}}

\* Everything at once, with any choice of stages.
Rich(unopenable) ==
    [NoModel EXCEPT
        !.tables = [NoTables EXCEPT
            !["identities"] = <<Plain, Plain, Orphan, Plain>>,
            !["parts"] = <<Part("omitting"), Part("drawn"), Orphan>>,
            !["bolts"] = <<Hidden, Plain>>,
            !["surfaces"] = <<Plain, Plain>>,
            !["pour_units"] = <<Untitled, Untitled, Plain>>,
            !["relations"] = <<Plain, Hidden, Plain>>,
            !["semantic_relations"] = <<Plain>>,
            !["instances"] = <<Plain, Plain>>],
        !.nonpart = [curves |-> 3, meshes |-> 0, diagnostics |-> 1],
        !.unopenable = unopenable]
StageCases ==
    {Case(Rich(u), Request(s, size, Everywhere)) :
        u \in {{}, {"instances"}, {"geometry"}, {"nonpart"}}, s \in SUBSET StageNames, size \in {1, 2}}

\* A table is missing that some reader needs: formats 8.95 and 9.08 have surfaces
\* and no attributes of the kind that is looked for.
BoundCases ==
    {[model |-> Bind(Rich({}), {table}), request |-> Request(s, 2, Everywhere)] :
        table \in Owned \cup Referred \cup Older, s \in SUBSET {"identities", "properties", "relations"}}

MCFamilies ==
    [links |-> LinkCases, parts |-> PartCases, rows |-> RowCases, objects |-> ObjectCases,
     stages |-> StageCases, bindings |-> BoundCases]
=============================================================================
