--------------------------- MODULE MCSemanticRelations ---------------------------
(***************************************************************************)
(* Small models for the semantic relation stream: three families of tables,*)
(* each of which varies what two or three phases read and leaves the other *)
(* tables small.                                                           *)
(***************************************************************************)
EXTENDS SemanticRelations

Object(id, parent, assembly, kind) ==
    [id |-> id, parent |-> parent, assembly |-> assembly, kind |-> kind, visible |-> TRUE]
Hidden(r) == [r EXCEPT !.visible = FALSE]
Relation(type, source, target) ==
    [id |-> 90 + type, type |-> type, source |-> source, target |-> target, visible |-> TRUE]
Assembly(id, main) == [id |-> id, main |-> main, visible |-> TRUE]
Pour(object, unit) == [object |-> object, unit |-> unit, visible |-> TRUE]
Splice(id, first, second) == [id |-> id, first |-> first, second |-> second, visible |-> TRUE]
Surface(id, host) == [id |-> id, host |-> host, visible |-> TRUE]
Joint(id, prim, sek) == [id |-> id, prim |-> prim, sek |-> sek, visible |-> TRUE]

NoTables ==
    [objects |-> <<>>, relations |-> <<>>, assemblies |-> <<>>, pours |-> <<>>,
     splices |-> <<>>, surfaces |-> <<>>, joints |-> <<>>]

\* Parents and stored relations: cycles of parents, a relation that repeats a
\* parent, features, hidden and repeated rows, dangling ids.
Hierarchies ==
    LET last == {Object(3, 1, 0, "beam"), Hidden(Object(3, 1, 0, "beam")),
                 Object(1, 2, 0, "boolean_part")}
        rows == {<<Object(1, p, 0, "beam"), Object(2, q, 0, kind), r>> :
                    p \in {0, 2}, q \in {0, 1, 3}, kind \in {"beam", "cut_plane", "single_rebar"},
                    r \in last}
        relations == {Relation(7, 1, 2), Relation(11, 1, 3), Relation(7, 2, 1),
                      Relation(7, 3, 3), Relation(7, 1, 4), Relation(9, 1, 2),
                      Relation(47, 1, 2), Hidden(Relation(7, 3, 2))}
    IN  {[NoTables EXCEPT !.objects = o, !.relations = <<r, s>>] :
            o \in rows, r \in relations, s \in relations}

\* Assemblies with and without a live main member, with nested, repeated and
\* missing members, and pour objects that share a unit.
Groups ==
    LET rows == {<<Object(1, 0, a, "beam"), Object(2, 0, b, "beam"), Object(3, 0, 0, "assembly"),
                   Object(4, 0, c, "assembly"), Object(5, 0, 0, "pour_unit")>> :
                    a \in {0, 3}, b \in {0, 3, 4}, c \in {0, 3, 4}}
        assemblies == {<<Assembly(3, m), Assembly(i, n)>> :
                          m \in {0, 1, 2, 3}, i \in {3, 4}, n \in {1, 6}}
                      \cup {<<Hidden(Assembly(3, 1)), Assembly(3, 2)>>, <<>>}
        pours == {<<>>, <<Pour(2, 5), Pour(1, 5), Pour(2, 5)>>, <<Hidden(Pour(1, 5)), Pour(5, 5)>>}
    IN  {[NoTables EXCEPT !.objects = o, !.assemblies = a, !.pours = p] :
            o \in rows, a \in assemblies, p \in pours}

\* Splices, surface objects and joints that name the same pairs, one of them
\* also a host relation.
Links ==
    LET objects == {<<Object(1, 0, 0, k), Object(2, 0, 0, "single_rebar"),
                      Object(3, 0, 0, "rebar_splice"), Object(4, 0, 0, "surface_object")>> :
                       k \in {"beam", "unknown", "cut_plane"}}
        relations == {<<>>, <<Relation(47, 1, 2)>>, <<Relation(47, 1, 4)>>}
        splice == {Splice(3, 2, 1), Splice(3, 2, 2), Splice(3, 4, 2), Hidden(Splice(3, 2, 4)),
                   Splice(3, 0, 2)}
        surfaces == {<<>>, <<Surface(4, 1), Surface(4, 1)>>, <<Surface(2, 1), Surface(4, 4)>>}
        joint == {Joint(7, 3, 2), Joint(8, 1, 2), Joint(9, 2, 9), Hidden(Joint(9, 3, 4))}
    IN  {[NoTables EXCEPT !.objects = o, !.relations = r, !.splices = <<s, z>>, !.surfaces = f,
                          !.joints = <<j, h>>] :
            o \in objects, r \in relations, s \in splice, z \in splice, f \in surfaces,
            j \in joint, h \in joint}

MCTables == Hierarchies \cup Groups \cup Links
PourTables == {t \in Groups : t.pours # <<>>}
=============================================================================
