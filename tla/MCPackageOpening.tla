---------------------------- MODULE MCPackageOpening ----------------------------
(***************************************************************************)
(* Small directories: each family varies what one step looks at and keeps  *)
(* the other files plain.                                                  *)
(***************************************************************************)
EXTENDS PackageOpening

Table(tuple, descriptors, rows, key, footer) ==
    [tuple |-> tuple, descriptors |-> descriptors, rows |-> rows, key |-> key,
     footer |-> footer]

\* A section as the writer leaves it; `looks` are the other footers its last
\* bytes look like.  The bytes of a connected footer are those of a keyed one.
Section(t, looks) ==
    [size |-> SizeOf(t), tuple |-> t.tuple, descriptors |-> t.descriptors,
     tails |-> {t.footer} \cup looks \cup (IF t.footer = "connected" THEN {"keyed"} ELSE {}),
     key |-> IF t.key = NoKey THEN 7 ELSE t.key]

\* The end pattern in a row cuts a section in two: the first part keeps the
\* header, the second has a row where its header is looked for.
FirstPart(t, bytes, looks) ==
    [size |-> bytes, tuple |-> t.tuple, descriptors |-> t.descriptors, tails |-> looks, key |-> 7]
SecondPart(section, bytes, tuple, descriptors) ==
    [section EXCEPT !.size = @ - bytes, !.tuple = tuple, !.descriptors = descriptors]

\* The schema of the format, and the three tables a writer of it writes.
Joint == [tuple |-> 1, descriptors |-> <<1>>, key |-> 11, name |-> "joint"]
Macro == [tuple |-> 3, descriptors |-> <<1, 2>>, key |-> 12, name |-> "macro"]
String == [tuple |-> 1, descriptors |-> <<1>>, key |-> NoKey, name |-> "string"]
CatalogString == [tuple |-> 2, descriptors |-> <<3>>, key |-> 13, name |-> "string"]
MCSchemas == {[format |-> "1.0", tables |-> <<Joint, Macro, String>>],
              [format |-> "2.0", tables |-> <<Joint, Macro, CatalogString>>]}

T1(rows, footer) == Table(1, <<1>>, rows, IF footer = "plain" THEN NoKey ELSE 11, footer)
T2(rows) == Table(3, <<1, 2>>, rows, 12, "keyed")
T3(rows) == Table(1, <<1>>, rows, NoKey, "final")

NoNames == [joints |-> <<>>, macros |-> <<>>, strings |-> <<>>]
Payload(tables, sections, trailing) ==
    [header |-> "Xsteel", format |-> "1.0", uuid |-> "u1", delimited |-> TRUE,
     tables |-> tables, sections |-> sections, trailing |-> trailing, catalog |-> NoNames]

Good == Payload(<<T1(1, "keyed"), T2(1), T3(1)>>,
                <<Section(T1(1, "keyed"), {}), Section(T2(1), {})>>, Section(T3(1), {}))

\* Databases whose rows look like footers.
Lookalikes ==
    {Payload(<<T1(r, f), T2(1), T3(0)>>, <<Section(T1(r, f), looks), Section(T2(1), {"plain"})>>,
             Section(T3(0), {})) :
        r \in 0 .. 2, f \in {"connected", "keyed", "plain"},
        looks \in SUBSET {"connected", "keyed", "plain"}}

\* Databases with a row that holds the end pattern.
CutFirst ==
    LET t == T1(3, "connected")
        whole == Section(t, {"plain"})
    IN  {Payload(<<t, T2(1), T3(1)>>,
                 <<FirstPart(t, p, looks), SecondPart(whole, p, tuple, descriptors),
                   Section(T2(1), {})>>, Section(T3(1), {})) :
            p \in {27, 28, 30}, looks \in {{}, {"plain"}}, tuple \in {0, 1, 2},
            descriptors \in {<<>>, <<1>>}}
CutLast ==
    LET t == T3(4)
    IN  {Payload(<<T1(1, "keyed"), T2(1), t>>,
                 <<Section(T1(1, "keyed"), {}), Section(T2(1), {}), FirstPart(t, p, {"plain"})>>,
                 SecondPart(Section(t, {}), p, tuple, descriptors)) :
            p \in {27, 28}, tuple \in {1, 8}, descriptors \in {<<>>, <<1>>, <<300>>}}
Spoilt ==
    {[Good EXCEPT !.header = "malformed"], [Good EXCEPT !.delimited = FALSE],
     [Good EXCEPT !.trailing.tails = {}], [Good EXCEPT !.format = "9.9"],
     [Good EXCEPT !.sections[2].descriptors = <<1, 256>>],
     [Good EXCEPT !.sections[1].tails = {}], [Good EXCEPT !.sections[1].key = 12,
                                                         !.tables[1].key = 12]}

Raw(p) ==
    [wrapper |-> "raw", size |-> 3, total |-> 3, members |-> <<>>, payload |-> p]
Member(size, intact) == [size |-> size, intact |-> intact]
Gzip(members, total) ==
    [wrapper |-> "gzip", size |-> 2, total |-> total, members |-> members, payload |-> Good]

Plain == [database |-> Raw(Good), components |-> NoFile, materials |-> NoFile,
          sidecars |-> <<>>, archives |-> <<>>]

Framed ==
    {[Plain EXCEPT !.database = Raw(p)] : p \in Lookalikes \cup CutFirst \cup CutLast \cup Spoilt}

\* Streams of one to three members, one of them damaged, or followed by bytes
\* that are no member; an empty and a missing database.
Packed ==
    LET streams == {Gzip(<<Member(a, x)>>, a) : a \in 1 .. 4, x \in BOOLEAN}
              \cup {Gzip(<<Member(a, TRUE), Member(b, x)>>, a + b) :
                        a \in 1 .. 3, b \in 0 .. 3, x \in BOOLEAN}
              \cup {Gzip(<<Member(2, TRUE), Member(1, TRUE), Member(2, TRUE)>>, 5)}
    IN  {[Plain EXCEPT !.database = f] : f \in streams \cup {Raw(Good)}}
          \cup {[Plain EXCEPT !.database = [Raw(Good) EXCEPT !.wrapper = w]] :
                    w \in {"empty", "absent"}}

Content(where, name, value) == [folder |-> where, name |-> name, value |-> value]
File(content) == [wrapper |-> "file", content |-> content]
Mesh(name, value) == Content("shapegeometries", name, value)
Meta(guid, storage) == Content("shapes", guid, storage)
Entry(content, size) ==
    [record |-> TRUE, catalog |-> TRUE, plain |-> TRUE, range |-> TRUE, intact |-> TRUE,
     size |-> size, content |-> content]
Archive(entries) == [wrapper |-> "zip", directory |-> TRUE, entries |-> entries]

\* Entries that are not what they should be.
Odd(e) == {e, [e EXCEPT !.record = FALSE], [e EXCEPT !.catalog = FALSE],
           [e EXCEPT !.plain = FALSE], [e EXCEPT !.range = FALSE], [e EXCEPT !.intact = FALSE],
           [e EXCEPT !.size = 3], [e EXCEPT !.size = 4]}

\* Two sidecars of a directory, shapes in both and in two archives.
Adjacent ==
    LET sides == {<<>>, <<File(Mesh("s1", "m1")), File(Mesh("s2", "m2")), File(Meta("g1", "s1"))>>,
                  <<File(Meta("g1", "s2")), File(Meta("g2", NoValue)),
                    [File(Mesh("s1", "m1")) EXCEPT !.wrapper = "empty"]>>,
                  <<File(Mesh("s1", "m1")), File(Content("profiles", "p1", "section")),
                    File(Content("profiles", "p1", NoValue))>>}
        first == {Archive(<<e, Entry(Meta("g2", "s2"), 0)>>) :
                    e \in Odd(Entry(Mesh("s1", "m3"), 2))}
        shapes == Archive(<<Entry(Mesh("s2", "m4"), 2), Entry(Meta("g1", "s2"), 1)>>)
        profiles(v) == Archive(<<Entry(Content("profiles", "p1", v), 1),
                                 Entry(Content("lists", "p1", "other"), 0)>>)
        second == {profiles("section 2"), profiles(NoValue),
                   [shapes EXCEPT !.directory = FALSE], [shapes EXCEPT !.wrapper = "empty"]}
        archives == {<<>>} \cup {<<a, shapes>> : a \in first}
              \cup {<<Archive(<<Entry(Mesh("s1", "m3"), 2)>>), b>> : b \in second}
              \cup {<<Archive(<<>>), Archive(<<>>), Archive(<<>>)>>,
                    <<Archive([i \in 1 .. 3 |-> Entry(Mesh("s1", "m1"), 0)]),
                      Archive([i \in 1 .. 3 |-> Entry(Mesh("s1", "m1"), 0)])>>}
    IN  {[Plain EXCEPT !.sidecars = s, !.archives = a] : s \in sides, a \in archives}

\* Component and material catalogs: of this model or another, with and without
\* the strings the definitions refer to, too large, damaged, ambiguous.
CT3(rows) == Table(2, <<3>>, rows, 13, "keyed")
Catalogs ==
    LET tables == <<T1(1, "keyed"), T2(1), CT3(2)>>
        catalogue(c, u) ==
            [Payload(tables, <<Section(T1(1, "keyed"), {}), Section(T2(1), {}),
                               Section(CT3(2), {})>>, Section(T3(0), {}))
                EXCEPT !.catalog = c, !.uuid = u, !.format = "2.0"]
        names == {[joints |-> <<1, 0>>, macros |-> <<m>>,
                   strings |-> <<[id |-> 1, value |-> "a"], [id |-> s, value |-> v]>>] :
                     m \in {0, 1, 2}, s \in {1, 2}, v \in {"", "b"}}
        database == [Raw([Payload(<<T1(1, "keyed"), T2(1), Table(2, <<3>>, 1, NoKey, "final")>>,
                                  <<Section(T1(1, "keyed"), {}), Section(T2(1), {})>>,
                                  Section(Table(2, <<3>>, 1, NoKey, "final"), {}))
                            EXCEPT !.format = "2.0"]) EXCEPT !.size = 3]
        row(k, n, y) == [kind |-> k, name |-> n, type |-> y]
        materials == {[wrapper |-> "gzip", catalog |-> [intact |-> x,
                          rows |-> <<row(4, "S235", "STEEL"), row(k, n, "CONCRETE")>>]] :
                         x \in BOOLEAN, k \in {4, 5}, n \in {"S235", NoValue}}
        files == {Raw(catalogue(c, u)) : c \in names, u \in {"u1", "u2"}}
                   \cup {Raw(Good), [Raw(Good) EXCEPT !.size = 9]}
                   \cup {[Gzip(<<Member(2, TRUE), Member(1, x)>>, 3) EXCEPT
                            !.payload = catalogue(NoNames, "u1")] : x \in BOOLEAN}
    IN  {[Plain EXCEPT !.database = database, !.components = f] : f \in files}
          \cup {[Plain EXCEPT !.materials = f] : f \in materials}

MCContents ==
    {Mesh(n, v) : n \in {"s1", "s2"}, v \in {"m1", "m2", "m3", "m4"}}
        \cup {Meta(g, x) : g \in {"g1", "g2"}, x \in {"s1", "s2"}}
        \cup {Content(f, "p1", v) : f \in {"profiles", "lists"},
                                    v \in {"section 2", "other", NoValue}}
MCDisks == Framed \cup Packed \cup Adjacent \cup Catalogs
MCLimits == [archives |-> 2, entries |-> 4, bytes |-> 5, entry |-> 3]
=============================================================================
