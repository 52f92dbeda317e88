----------------------------- MODULE PackageOpening -----------------------------
(***************************************************************************)
(* From a file name to a model: map_model_package collects the files       *)
(* around a database (src/mapped_file.cpp), open decodes the database and  *)
(* finds its tables (src/model.cpp, src/container.cpp), process checks the *)
(* schema and the stages ask for the catalogs.                             *)
(*                                                                         *)
(* Files may disappear at any time.  What is mapped stays readable; two    *)
(* optional files are only looked at when a stage asks for them.           *)
(***************************************************************************)
EXTENDS PackageCatalogs

CONSTANTS
    Disks,       \* the directories a model can be opened in, see MCPackageOpening
    Limits,      \* [archives, entries, bytes, entry]: of all archives; the last of one entry
    PayloadLimits, \* what a caller may ask for; 0 is no limit
    CatalogBudget, \* of the component catalog's payload
    ChunkBytes,  \* one call of inflate
    Contents,    \* of catalog snapshots
    Guids,       \* the shapes that are asked for
    MaxVanished  \* bound: files that disappear

ASSUME PackageLimits ==
    /\ Limits \in [archives : Nat, entries : Nat, bytes : Nat, entry : Nat]
    /\ PayloadLimits \subseteq Nat /\ CatalogBudget \in Nat /\ ChunkBytes \in Nat \ {0}
    /\ MaxVanished \in Nat

VARIABLES
    disk,       \* the files: database, components, materials, sidecars, archives
    gone,       \* names of the files that have disappeared
    pc,
    listed,     \* sidecars or archives found, by their numbers; numbers are paths in order
    folder,     \* the next directory to list
    entry,      \* the next entry of the archive at hand
    budget,     \* ArchiveBudget: what is reserved
    inflated,   \* bytes the archives' entries were really inflated to
    package,
    lazy,       \* what LazyMappedFile knows of the optional files
    limit,      \* OpenOptions.max_payload_bytes
    payload,    \* decode_payload: bytes so far, the gzip member and what it has left
    layout,     \* of the database's tables
    schema,     \* validate_schema's answer
    answers,    \* what the stages were given
    error

\* An entry of an archive: what its directory record and local header say
\* (record, catalog, plain, size), and whether its bytes are there and good.
Entries == [record : BOOLEAN, catalog : BOOLEAN, plain : BOOLEAN, range : BOOLEAN,
            intact : BOOLEAN, size : Nat, content : Contents]

diskVars == <<disk, gone>>
archiveVars == <<entry, budget, inflated>>
openVars == <<limit, payload, layout>>
stageVars == <<schema, answers>>
packageVars == <<diskVars, pc, listed, folder, archiveVars, package, lazy, openVars, stageVars,
                 error>>

Folders == <<"shapes", "shapegeometries", "profiles">>

\* The bytes that the members of a gzip stream inflate to, up to each of them.
SizesUpTo(members) ==
    LET total[i \in 0 .. Len(members)] ==
            IF i = 0 THEN 0 ELSE total[i - 1] + members[i].size
    IN  total

ASSUME DisksAreFiles ==
    \A d \in Disks :
        /\ d.database.wrapper \in {"raw", "gzip", "empty", "absent"}
        /\ d.database.size \in Nat
        /\ d.database.wrapper = "raw" => d.database.total = d.database.size
        /\ d.database.wrapper = "gzip" =>
              d.database.total = SizesUpTo(d.database.members)[Len(d.database.members)]
        /\ d.database.members \in Seq([size : Nat, intact : BOOLEAN])
        /\ d.database.wrapper = "gzip" => d.database.members # <<>>
        /\ d.database.payload.sections \in Seq(Sections)
        /\ d.database.payload.trailing \in Sections
        /\ d.database.payload.tables \in Seq(Tables)
        /\ Len(d.sidecars) \in Nat /\ DOMAIN d.sidecars = 1 .. Len(d.sidecars)
        /\ \A i \in DOMAIN d.sidecars :
              \E f \in DOMAIN Folders : d.sidecars[i].content.folder = Folders[f]
        /\ d.archives \in Seq([wrapper : STRING, directory : BOOLEAN, entries : Seq(Entries)])

NoFile == [wrapper |-> "absent"]
NoContent == [folder |-> "none"]
NotAsked == [error |-> "not asked"]

\* A file can be opened and is not empty.
CanMap(name, file) == name \notin gone /\ file.wrapper \notin {"absent", "empty"}

\* Iteration of a directory gives its files in any order; std::sort of paths.
Orders(S) == {f \in [1 .. Cardinality(S) -> S] : \A x \in S : \E i \in DOMAIN f : f[i] = x}
AsListed(order) == TRUE
InPathOrder(order) == \A i, j \in DOMAIN order : i < j => order[i] < order[j]

Fail(e) == pc' = "failed" /\ error' = e

Init ==
    /\ disk \in Disks
    /\ gone = {}
    /\ pc = "database"
    /\ listed = <<>> /\ folder = 1
    /\ entry = 1
    /\ budget = [archives |-> 0, entries |-> 0, bytes |-> 0] /\ inflated = 0
    /\ package = <<>>
    /\ lazy = [components |-> "untouched", materials |-> "untouched"]
    /\ limit \in PayloadLimits
    /\ payload = [bytes |-> 0, member |-> 1, left |-> 0]
    /\ layout = NotAsked
    /\ answers = [components |-> NotAsked, materials |-> NotAsked, sections |-> NotAsked,
                  shapes |-> << >>]
    /\ schema = "not asked"
    /\ error = "none"

Names == {<<"components", 0>>, <<"materials", 0>>}
            \cup {<<"sidecar", i>> : i \in DOMAIN disk.sidecars}
            \cup {<<"archive", i>> : i \in DOMAIN disk.archives}

Vanish ==
    /\ Cardinality(gone) < MaxVanished
    /\ \E name \in Names \ gone : gone' = gone \cup {name}
    /\ UNCHANGED <<disk, pc, listed, folder, archiveVars, package, lazy, openVars, stageVars,
                   error>>

---------------------------------------------------------------------------
(* map_model_package.                                                     *)

FileAsset(role) == [role |-> role, content |-> NoContent]
Snapshot(content) == [role |-> "catalog_snapshot", content |-> content]

\* is_regular_file, nothing is read yet.
OptionalAsset(role, name, file) ==
    IF <<name, 0>> \notin gone /\ file # NoFile THEN <<FileAsset(role)>> ELSE <<>>

MapDatabase ==
    /\ pc = "database"
    /\ IF CanMap(<<"database", 0>>, disk.database)
       THEN /\ package' = <<FileAsset("model_database")>>
                            \o OptionalAsset("component_catalog", "components", disk.components)
                            \o OptionalAsset("material_catalog", "materials", disk.materials)
            /\ pc' = "list" /\ UNCHANGED error
       ELSE Fail("io_error") /\ UNCHANGED package
    /\ UNCHANGED <<diskVars, listed, folder, archiveVars, lazy, openVars, stageVars>>

\* One of the three directories, or an error of the file system; then sort.
ListDirectory ==
    /\ pc = "list"
    /\ \/ LET found == {i \in DOMAIN disk.sidecars :
                           /\ disk.sidecars[i].content.folder = Folders[folder]
                           /\ <<"sidecar", i>> \notin gone}
              before == {listed[i] : i \in DOMAIN listed}
          IN  \E order \in Orders(before \cup found) :
                /\ listed' = order
                /\ folder' = folder + 1
                /\ IF folder = Len(Folders)
                   THEN InPathOrder(order) /\ pc' = "sidecars"
                   ELSE UNCHANGED pc
                /\ UNCHANGED error
       \/ Fail("io_error") /\ UNCHANGED <<listed, folder>>
    /\ UNCHANGED <<diskVars, archiveVars, package, lazy, openVars, stageVars>>

MapSidecar ==
    /\ pc = "sidecars" /\ listed # <<>>
    /\ LET sidecar == disk.sidecars[Head(listed)]
       IN  IF CanMap(<<"sidecar", Head(listed)>>, sidecar)
           THEN /\ package' = Append(package, Snapshot(sidecar.content))
                /\ listed' = Tail(listed) /\ UNCHANGED <<pc, error>>
           ELSE Fail("io_error") /\ UNCHANGED <<package, listed>>
    /\ UNCHANGED <<diskVars, folder, archiveVars, lazy, openVars, stageVars>>

\* Every request looked at by itself.
FitsAlone(used, count, most) == count <= most

\* ArchiveBudget::reserve
Fits(used, count, most) == used <= most /\ count <= most - used

\* Every archive is reserved as it is found; one too many fails at once.
ListArchives ==
    /\ pc = "sidecars" /\ listed = <<>>
    /\ LET found == {i \in DOMAIN disk.archives : <<"archive", i>> \notin gone}
       IN  \/ IF Fits(budget.archives, Cardinality(found), Limits.archives)
              THEN /\ \E order \in Orders(found) : InPathOrder(order) /\ listed' = order
                   /\ budget' = [budget EXCEPT !.archives = @ + Cardinality(found)]
                   /\ pc' = "archives" /\ UNCHANGED error
              ELSE Fail("resource_limit") /\ UNCHANGED <<listed, budget>>
           \/ Fail("io_error") /\ UNCHANGED <<listed, budget>>
    /\ UNCHANGED <<diskVars, folder, entry, inflated, package, lazy, openVars, stageVars>>

NextArchive == listed' = Tail(listed) /\ entry' = 1 /\ pc' = "archives"

\* append_zip_catalogs up to its loop: an archive that cannot be mapped, or
\* has no directory in one piece, is passed over.
OpenArchive ==
    /\ pc = "archives" /\ listed # <<>>
    /\ LET archive == disk.archives[Head(listed)]
           count == Len(archive.entries)
       IN  IF ~CanMap(<<"archive", Head(listed)>>, archive) \/ ~archive.directory
           THEN NextArchive /\ UNCHANGED <<budget, error>>
           ELSE IF Fits(budget.entries, count, Limits.entries)
           THEN /\ budget' = [budget EXCEPT !.entries = @ + count]
                /\ pc' = "entries" /\ UNCHANGED <<listed, entry, error>>
           ELSE Fail("resource_limit") /\ UNCHANGED <<listed, entry, budget>>
    /\ UNCHANGED <<diskVars, folder, inflated, package, lazy, openVars, stageVars>>

\* What the directory says of an entry makes it worth a look.
IsCatalog(e) == e.catalog /\ e.plain
Inflates(e) == e.range /\ e.size <= Limits.entry

\* One turn of the loop.  The bytes are reserved before anything else is
\* known of the entry; a record that is no record ends the archive, and what
\* was added before it stays.
ReadEntry ==
    /\ pc = "entries"
    /\ LET entries == disk.archives[Head(listed)].entries
           e == entries[entry]
       IN  IF entry > Len(entries) \/ (entry <= Len(entries) /\ ~e.record)
           THEN NextArchive /\ UNCHANGED <<budget, inflated, package, error>>
           ELSE IF IsCatalog(e) /\ ~Fits(budget.bytes, e.size, Limits.bytes)
           THEN Fail("resource_limit") /\ UNCHANGED <<listed, entry, budget, inflated, package>>
           ELSE /\ entry' = entry + 1 /\ UNCHANGED <<pc, listed, error>>
                /\ IF IsCatalog(e)
                   THEN /\ budget' = [budget EXCEPT !.bytes = @ + e.size]
                        /\ inflated' = inflated + (IF Inflates(e) THEN e.size ELSE 0)
                        /\ package' = IF Inflates(e) /\ e.intact
                                      THEN Append(package, Snapshot(e.content)) ELSE package
                   ELSE UNCHANGED <<budget, inflated, package>>
    /\ UNCHANGED <<diskVars, folder, lazy, openVars, stageVars>>

PackageDone ==
    /\ pc = "archives" /\ listed = <<>>
    /\ pc' = "open"
    /\ UNCHANGED <<diskVars, listed, folder, archiveVars, package, lazy, openVars, stageVars,
                   error>>

---------------------------------------------------------------------------
(* open.                                                                  *)

\* decode_payload: a raw database is taken as it is.
StartPayload ==
    /\ pc = "open"
    /\ LET file == disk.database IN
       IF file.wrapper = "gzip"
       THEN /\ payload' = [bytes |-> 0, member |-> 1, left |-> file.members[1].size]
            /\ pc' = "decode" /\ UNCHANGED error
       ELSE IF limit # 0 /\ file.size > limit
       THEN Fail("resource_limit") /\ UNCHANGED payload
       ELSE payload' = [payload EXCEPT !.bytes = file.size] /\ pc' = "inspect" /\ UNCHANGED error
    /\ UNCHANGED <<diskVars, listed, folder, archiveVars, package, lazy, limit, layout, stageVars>>

Least(a, b) == IF a < b THEN a ELSE b

FirstMember(n) == TRUE
LastMember(n) == n = Len(disk.database.members)

\* One call of inflate.  It may tell the end of a member with the member's
\* last bytes, or with none when those filled the chunk.
DecodeChunk ==
    /\ pc = "decode"
    /\ LET members == disk.database.members
           produced == Least(payload.left, ChunkBytes)
           left == payload.left - produced
       IN  \E ends \in (IF left # 0 THEN {FALSE}
                        ELSE IF produced = ChunkBytes THEN BOOLEAN ELSE {TRUE}) :
             IF limit # 0 /\ produced > limit - Least(limit, payload.bytes)
             THEN Fail("resource_limit") /\ UNCHANGED payload
             ELSE IF ends /\ ~members[payload.member].intact
             THEN Fail("decompression_failed") /\ UNCHANGED payload
             ELSE /\ UNCHANGED error
                  /\ IF ends /\ LastMember(payload.member)
                     THEN /\ payload' = [payload EXCEPT !.bytes = @ + produced, !.left = 0]
                          /\ pc' = "inspect"
                     ELSE /\ payload' = [bytes |-> payload.bytes + produced,
                                         member |-> payload.member + (IF ends THEN 1 ELSE 0),
                                         left |-> IF ends THEN members[payload.member + 1].size
                                                  ELSE left]
                          /\ UNCHANGED pc
    /\ UNCHANGED <<diskVars, listed, folder, archiveVars, package, lazy, limit, layout, stageVars>>

\* With or without the caller's validate_container.
Inspect ==
    /\ pc = "inspect"
    /\ \E validate \in BOOLEAN :
         LET found == InspectPayload(disk.database.payload, validate)
         IN  IF found.error = "none"
             THEN layout' = found /\ pc' = "model" /\ UNCHANGED error
             ELSE Fail(found.error) /\ UNCHANGED layout
    /\ UNCHANGED <<diskVars, listed, folder, archiveVars, package, lazy, limit, payload, stageVars>>

---------------------------------------------------------------------------
(* process and the stages, on an open model.                              *)

Process ==
    /\ pc = "model" /\ schema = "not asked"
    /\ schema' = ValidateSchema(layout)
    /\ UNCHANGED <<diskVars, pc, listed, folder, archiveVars, package, lazy, openVars, answers,
                   error>>

HasRole(role) == \E i \in DOMAIN package : package[i].role = role

\* LazyMappedFile::bytes: the first call decides, whatever comes of it.
Touched(name, file) ==
    IF lazy[name] # "untouched" THEN lazy[name]
    ELSE IF CanMap(<<name, 0>>, file) THEN "mapped" ELSE "nothing"

\* decode_payload in one go, for the component catalog.
DecodeError(file, most) ==
    LET total == SizesUpTo(file.members)
        bad == {i \in DOMAIN file.members : total[i] > most \/ ~file.members[i].intact}
        first == CHOOSE i \in bad : \A j \in bad : i <= j
    IN  IF file.wrapper = "raw" THEN IF file.size > most THEN "resource_limit" ELSE "none"
        ELSE IF bad = {} THEN "none"
        ELSE IF total[first] > most THEN "resource_limit" ELSE "decompression_failed"

\* load_component_definitions
ComponentDefinitions(file) ==
    LET found == InspectPayload(file.payload, TRUE)
        names == ProjectKeyed(found)
        tables == {names.names[i] : i \in DOMAIN names.names}
        decoded == DecodeError(file, CatalogBudget)
    IN  IF decoded # "none" THEN [error |-> decoded]
        ELSE IF found.error # "none" THEN [error |-> found.error]
        ELSE IF found.format # layout.format \/ found.uuid # layout.uuid
        THEN [error |-> "schema_mismatch"]
        ELSE IF names.error # "none" THEN [error |-> names.error]
        ELSE IF ~({"joint", "macro", "string"} \subseteq tables)
        THEN [error |-> "schema_mismatch"]
        ELSE DefinitionNames(file.payload.catalog)

NoDefinitions == [error |-> "none", joints |-> {}, macros |-> {}]

AskComponents ==
    /\ pc = "model" /\ schema = "none" /\ answers.components = NotAsked
    /\ IF HasRole("component_catalog")
       THEN LET file == disk.components
                state == Touched("components", file)
            IN  /\ lazy' = [lazy EXCEPT !.components = state]
                /\ answers' = [answers EXCEPT !.components =
                                  IF state = "mapped" THEN ComponentDefinitions(file)
                                  ELSE [error |-> "invalid_argument"]]
       ELSE answers' = [answers EXCEPT !.components = NoDefinitions] /\ UNCHANGED lazy
    /\ UNCHANGED <<diskVars, pc, listed, folder, archiveVars, package, openVars, error,
                   schema>>

\* load_material_catalog: a catalog that cannot be had is none.
AskMaterials ==
    /\ pc = "model" /\ schema = "none" /\ answers.materials = NotAsked
    /\ IF HasRole("material_catalog")
       THEN LET state == Touched("materials", disk.materials)
            IN  /\ lazy' = [lazy EXCEPT !.materials = state]
                /\ answers' = [answers EXCEPT !.materials =
                                  [error |-> "none",
                                   types |-> IF state = "mapped"
                                             THEN Materials(disk.materials.catalog) ELSE << >>]]
       ELSE /\ answers' = [answers EXCEPT !.materials = [error |-> "none", types |-> << >>]]
            /\ UNCHANGED lazy
    /\ UNCHANGED <<diskVars, pc, listed, folder, archiveVars, package, openVars, error,
                   schema>>

\* ShapeCatalog::resolve keeps the mesh, or the error, it found first.
AskShape ==
    /\ pc = "model" /\ schema = "none"
    /\ \E guid \in Guids \ DOMAIN answers.shapes :
         answers' = [answers EXCEPT !.shapes = InsertOrAssign(@, guid, Shape(package, guid))]
    /\ UNCHANGED <<diskVars, pc, listed, folder, archiveVars, package, lazy, openVars, error,
                   schema>>

\* The profile catalog is read as a whole when a geometry stream is made.
AskSections ==
    /\ pc = "model" /\ schema = "none" /\ answers.sections = NotAsked
    /\ answers' = [answers EXCEPT !.sections = [found |-> ProfileSections(package)]]
    /\ UNCHANGED <<diskVars, pc, listed, folder, archiveVars, package, lazy, openVars, error,
                   schema>>

MapPackage == MapDatabase \/ ListDirectory \/ MapSidecar \/ ListArchives \/ OpenArchive
                \/ ReadEntry \/ PackageDone
OpenModel == StartPayload \/ DecodeChunk \/ Inspect
Ask == Process \/ AskComponents \/ AskMaterials \/ AskShape \/ AskSections
Next == MapPackage \/ OpenModel \/ Ask \/ Vanish

Spec == Init /\ [][Next]_packageVars
---------------------------------------------------------------------------
(* Properties.                                                            *)

\* Type and limits: what is reserved stays within the package's limits, what
\* archives really inflate to never exceeds what is reserved for it, and the
\* database never grows beyond what its caller allows
\* (src/archive_budget.hpp, docs/support-matrix.md).
PackageInv ==
    /\ disk \in Disks
    /\ pc \in {"database", "list", "sidecars", "archives", "entries", "open", "decode",
               "inspect", "model", "failed"}
    /\ budget \in [archives : Nat, entries : Nat, bytes : Nat]
    /\ inflated \in Nat /\ payload.bytes \in Nat /\ limit \in PayloadLimits
    /\ budget.archives <= Limits.archives
    /\ budget.entries <= Limits.entries
    /\ budget.bytes <= Limits.bytes
    /\ inflated <= budget.bytes
    /\ limit # 0 => payload.bytes <= limit

\* What an archive gives: its good catalog entries, in order, up to the first
\* record that is none.
Given(archive) ==
    LET entries == archive.entries
        isGiven(i) == /\ \A j \in 1 .. i : entries[j].record
                      /\ IsCatalog(entries[i]) /\ Inflates(entries[i]) /\ entries[i].intact
        given[i \in 0 .. Len(entries)] ==
            IF i = 0 THEN <<>>
            ELSE IF isGiven(i) THEN Append(given[i - 1], Snapshot(entries[i].content))
            ELSE given[i - 1]
    IN  given
Contribution(archive) == Given(archive)[Len(archive.entries)]

Joined(parts) ==
    LET upTo[i \in 0 .. Len(parts)] == IF i = 0 THEN <<>> ELSE upTo[i - 1] \o parts[i]
    IN  upTo[Len(parts)]

\* The snapshots of a package of the files with the numbers kept, in the order
\* of their paths, the archives after the directories.
Snapshots(sidecars, archives) ==
    LET n == Len(disk.sidecars)
        part(i) == IF i <= n
                   THEN IF i \in sidecars THEN <<Snapshot(disk.sidecars[i].content)>> ELSE <<>>
                   ELSE IF i - n \in archives /\ disk.archives[i - n].directory
                   THEN Contribution(disk.archives[i - n]) ELSE <<>>
    IN  Joined([i \in 1 .. n + Len(disk.archives) |-> part(i)])

\* The assets that are read from their files when they are needed.
FileAssets ==
    {<<FileAsset("model_database")>> \o c \o m :
        c \in {<<>>, <<FileAsset("component_catalog")>>},
        m \in {<<>>, <<FileAsset("material_catalog")>>}}

\* A package holds the database, the optional files and the snapshots of every
\* file in path order, whatever order the directories were listed in; only a
\* file that has disappeared may be missing, and nothing else of it may be
\* there (map_model_package).
PackageIsPromised ==
    pc \in {"open", "decode", "inspect", "model"} =>
        LET stay(S, kind) == {i \in S : <<kind, i>> \notin gone}
        IN  \E files \in FileAssets, sidecars \in SUBSET DOMAIN disk.sidecars,
               archives \in SUBSET DOMAIN disk.archives :
              /\ stay(DOMAIN disk.sidecars, "sidecar") \subseteq sidecars
              /\ stay({i \in DOMAIN disk.archives : disk.archives[i].wrapper = "zip"},
                      "archive") \subseteq archives
              /\ package = files \o Snapshots(sidecars, archives)

\* A database whose tables pass the schema is read as it was written, although
\* rows may hold the end pattern and may look like another footer
\* (inspect_payload, validate_schema).
NeverMisread ==
    schema = "none" /\ AsWritten(disk.database.payload) =>
        LET tables == disk.database.payload.tables
        IN  /\ Len(layout.tables) = Len(tables)
            /\ \A i \in DOMAIN tables :
                  /\ SameShape(layout.tables[i], tables[i])
                  /\ layout.tables[i].rows = tables[i].rows
                  /\ layout.tables[i].footer = tables[i].footer
                  /\ layout.tables[i].key = tables[i].key

\* A payload that is handed on is whole: every member of its gzip stream, all
\* of them intact; a failure has the reason that decoding in one go would give
\* (decode_payload).
PayloadIsWhole ==
    LET file == disk.database
        most == IF limit = 0 THEN file.total ELSE limit
    IN  /\ pc \in {"inspect", "model"} =>
              DecodeError(file, most) = "none" /\ payload.bytes = file.total
        /\ pc = "failed" /\ error = "decompression_failed" => DecodeError(file, most) = error

\* A shape is the mesh of the last asset with the storage id that the last
\* metadata of its guid names, in whatever order metadata and meshes come, and
\* asking again changes nothing; a profile is the last section of its name that
\* can be decoded (ShapeCatalog, LocalProfileCatalog).
CatalogsResolve ==
    LET named(name, where, useless) ==
            {i \in DOMAIN package : /\ package[i].role = "catalog_snapshot"
                                    /\ package[i].content.folder = where
                                    /\ package[i].content.name = name
                                    /\ package[i].content.value \notin useless}
        last(S) == package[CHOOSE i \in S : \A j \in S : j <= i].content.value
        shape(guid) ==
            LET storage == last(named(guid, "shapes", {NoValue}))
            IN  IF named(guid, "shapes", {NoValue}) = {} THEN "no_metadata"
                ELSE IF named(storage, "shapegeometries", {}) = {} THEN "no_polymesh"
                ELSE last(named(storage, "shapegeometries", {}))
        section(name) == named(name, "profiles", {NoValue})
    IN  /\ \A guid \in DOMAIN answers.shapes : answers.shapes[guid] = shape(guid)
        /\ answers.sections # NotAsked =>
              \A i \in DOMAIN package :
                 LET c == package[i].content
                 IN  c.folder = "profiles" =>
                        IF section(c.name) = {} THEN c.name \notin DOMAIN answers.sections.found
                        ELSE answers.sections.found[c.name] = last(section(c.name))
=============================================================================
