---------------------------- MODULE PackageCatalogs ----------------------------
(***************************************************************************)
(* What a model's package gives the stages that ask for more than its      *)
(* database: imported shapes (src/shape.cpp), profile sections             *)
(* (src/profile.cpp), the names of component definitions and the materials *)
(* (src/semantic.cpp).  The same shape or section may come in several      *)
(* assets, from the model's directories and from archives next to it.      *)
(*                                                                         *)
(* An asset is [role, content]; the content of a catalog snapshot is       *)
(*   [folder |-> "shapegeometries", name, value]  a mesh, or its error     *)
(*   [folder |-> "shapes", name, value]  the storage id of a shape, or     *)
(*                                       NoValue when the XML lacks a tag  *)
(*   [folder |-> "profiles", name, value]  a section, or NoValue           *)
(*   [folder |-> "lists", name, value]     some other list of an archive   *)
(***************************************************************************)
EXTENDS ContainerFraming

CONSTANT NoValue

\* unordered_map::insert, which leaves what is there.
InsertOnly(map, key, value) ==
    [k \in DOMAIN map \cup {key} |-> IF k \in DOMAIN map THEN map[k] ELSE value]

\* unordered_map::insert_or_assign
InsertOrAssign(map, key, value) ==
    [k \in DOMAIN map \cup {key} |-> IF k = key THEN value ELSE map[k]]

\* An asset of a folder, apart from those with a value that says nothing.
Useful(asset, folder, skipped) ==
    /\ asset.role = "catalog_snapshot"
    /\ asset.content.folder = folder
    /\ asset.content.value \notin skipped

\* One pass over the package that takes the useful assets of a folder.
PassOver(package, folder, skipped) ==
    LET after[i \in 0 .. Len(package)] ==
            IF i = 0 THEN << >>
            ELSE IF Useful(package[i], folder, skipped)
            THEN InsertOrAssign(after[i - 1], package[i].content.name, package[i].content.value)
            ELSE after[i - 1]
    IN  after[Len(package)]

\* ShapeCatalog: the geometry of every storage id first, so that a metadata
\* asset finds it wherever it stands; then the metadata.
ShapeDefinitions(package) ==
    LET geometry == PassOver(package, "shapegeometries", {})
        storage == PassOver(package, "shapes", {NoValue})
    IN  [guid \in DOMAIN storage |->
            IF storage[guid] \in DOMAIN geometry THEN geometry[storage[guid]] ELSE "no_polymesh"]

Shape(package, guid) ==
    LET definitions == ShapeDefinitions(package)
    IN  IF guid \in DOMAIN definitions THEN definitions[guid] ELSE "no_metadata"

\* LocalProfileCatalog: sections that decode; one that does not leaves an
\* earlier section of its name in place.
ProfileSections(package) == PassOver(package, "profiles", {NoValue})

---------------------------------------------------------------------------
(* The component catalog: [joints, macros : Seq(id), strings : Seq([id, value])] *)

Mentions(seq, id) == \E i \in DOMAIN seq : seq[i] = id

\* load_component_definitions after the tables are found: every id but 0 that
\* a joint or a macro refers to needs a string, the first row of the id gives
\* it, and an empty string is no name.
DefinitionNames(catalog) ==
    LET ids == ({catalog.joints[i] : i \in DOMAIN catalog.joints}
                  \cup {catalog.macros[i] : i \in DOMAIN catalog.macros}) \ {0}
        rows(id) == {i \in DOMAIN catalog.strings : catalog.strings[i].id = id}
        first(id) == CHOOSE i \in rows(id) : \A j \in rows(id) : i <= j
        name(id) == catalog.strings[first(id)].value
        names(seq) == {name(id) : id \in {x \in ids : Mentions(seq, x)}} \ {""}
    IN  IF \E id \in ids : rows(id) = {}
        THEN [error |-> "schema_mismatch"]
        ELSE [error |-> "none", joints |-> names(catalog.joints), macros |-> names(catalog.macros)]

\* load_material_catalog: [intact, rows : Seq([kind, name, type])].  A catalog
\* that cannot be read is no catalog, a row of another kind makes it none.
Materials(catalog) ==
    LET after[i \in 0 .. Len(catalog.rows)] ==
            IF i = 0 THEN << >>
            ELSE IF catalog.rows[i].name = NoValue THEN after[i - 1]
            ELSE InsertOrAssign(after[i - 1], catalog.rows[i].name, catalog.rows[i].type)
    IN  IF catalog.intact /\ \A i \in DOMAIN catalog.rows : catalog.rows[i].kind = 4
        THEN after[Len(catalog.rows)] ELSE << >>
=============================================================================
