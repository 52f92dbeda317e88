----------------------------- MODULE SemanticTables -----------------------------
(***************************************************************************)
(* The tables a semantic relation stream is made from, what                *)
(* make_semantic_relation_stream keeps of them (src/semantic.cpp:3108),    *)
(* and, apart from any reader, the list of edges the documentation         *)
(* promises for them: rows in table order, endpoints live model elements,  *)
(* no self-edge, no edge twice (docs/support-matrix.md, "Relations").      *)
(* Ids are natural numbers and 0 stands for no object.                     *)
(***************************************************************************)
EXTENDS Naturals, Sequences, FiniteSets

CONSTANTS
    Ids      \* the internal ids objects can have

Reinforcement == {"single_rebar", "rebar_group", "rebar_mesh"}
HostKinds == {"beam", "contour_plate", "poly_beam", "brep", "lofted_plate", "connection",
              "component"}
Features == {"boolean_part", "cut_plane"}
\* Grids, bolts, welds and the other kinds are edges' ends like "unknown".
Kinds == Reinforcement \cup HostKinds \cup Features
           \cup {"unknown", "assembly", "surface_object", "rebar_splice", "pour_object",
                 "pour_unit"}

\* Relation types that stand for a child of an object, and the one from a
\* host to its reinforcement; every other type is ignored.
ChildTypes == {7, 11, 12, 73, 96, 97, 60005}
RebarType == 47

\* A model's tables.  An id field can hold any id, or 0; `visible` is the
\* flag of the record, and the kind of an object is that of its type and
\* subtype, or of the attribute record a legacy object names.
RawTables ==
    LET Any == Ids \cup {0} IN
    [objects    : Seq([id : Any, parent : Any, assembly : Any, kind : Kinds,
                       visible : BOOLEAN]),
     relations  : Seq([id : Nat, type : Nat, source : Any, target : Any, visible : BOOLEAN]),
     assemblies : Seq([id : Any, main : Any, visible : BOOLEAN]),
     pours      : Seq([object : Any, unit : Any, visible : BOOLEAN]),
     splices    : Seq([id : Any, first : Any, second : Any, visible : BOOLEAN]),
     surfaces   : Seq([id : Any, host : Any, visible : BOOLEAN]),
     joints     : Seq([id : Nat, prim : Any, sek : Any, visible : BOOLEAN])]

---------------------------------------------------------------------------
(* Helpers on sequences and sets.                                         *)

\* The rows of seq at the indices I, in order.
Pick(seq, I) ==
    [n \in 1 .. Cardinality(I) |->
        seq[CHOOSE i \in I : Cardinality({j \in I : j < i}) = n - 1]]

Visible(seq) == Pick(seq, {i \in DOMAIN seq : seq[i].visible})

\* Lexicographic order of tuples of one length, and the elements of a set of
\* them in that order: std::ranges::sort followed by std::unique.
Before(a, b) ==
    \E i \in DOMAIN a : a[i] < b[i] /\ \A j \in 1 .. i - 1 : a[j] = b[j]
Sorted(S) ==
    [i \in 1 .. Cardinality(S) |-> CHOOSE x \in S : Cardinality({y \in S : Before(y, x)}) = i - 1]

Elements(seq) == {seq[i] : i \in DOMAIN seq}

---------------------------------------------------------------------------
(* What is loaded.                                                        *)

\* Objects: visible rows with an id, the first row of each id.
ObjectRows(t) ==
    {i \in DOMAIN t.objects :
        /\ t.objects[i].visible
        /\ t.objects[i].id # 0
        /\ \A j \in 1 .. i - 1 : t.objects[j].visible => t.objects[j].id # t.objects[i].id}

Endpoints(t) == {t.objects[i].id : i \in ObjectRows(t)}

KindOf(t, id) == t.objects[CHOOSE i \in ObjectRows(t) : t.objects[i].id = id].kind

\* Assemblies: visible rows of live objects, the first row of each id.
AssemblyRows(t) ==
    {i \in DOMAIN t.assemblies :
        /\ t.assemblies[i].visible
        /\ t.assemblies[i].id \in Endpoints(t)
        /\ \A j \in 1 .. i - 1 :
              t.assemblies[j].visible => t.assemblies[j].id # t.assemblies[i].id}

\* The objects that name an assembly, in table order.
MembersOf(t, assembly) ==
    Pick([i \in DOMAIN t.objects |-> t.objects[i].id],
         {i \in ObjectRows(t) :
             /\ t.objects[i].assembly = assembly
             /\ t.objects[i].assembly # t.objects[i].id})

\* Pairs and triples of non-zero ids, sorted and without repetition.
Pours(t) ==
    Sorted({p \in {<<r.unit, r.object>> : r \in Elements(Visible(t.pours))} :
               p[1] # 0 /\ p[2] # 0 /\ p[1] # p[2]})
Splices(t) ==
    Sorted({s \in {<<r.id, r.first, r.second>> : r \in Elements(Visible(t.splices))} :
               s[1] # 0 /\ s[2] # 0 /\ s[3] # 0})
Surfaces(t) ==
    Sorted({s \in {<<r.id, r.host>> : r \in Elements(Visible(t.surfaces))} :
               s[1] # 0 /\ s[2] # 0 /\ s[1] # s[2]})

Load(t) ==
    [objects    |-> Pick(t.objects, ObjectRows(t)),
     endpoints  |-> Endpoints(t),
     kinds      |-> [id \in Endpoints(t) |-> KindOf(t, id)],
     relations  |-> t.relations,
     assemblies |-> Pick(t.assemblies, AssemblyRows(t)),
     members    |-> [a \in Endpoints(t) |-> MembersOf(t, a)],
     pours      |-> Pours(t),
     splices    |-> Splices(t),
     surfaces   |-> Surfaces(t),
     joints     |-> t.joints]

---------------------------------------------------------------------------
(* The edges the documentation promises.                                  *)

\* The tables, in the order their edges go out.
Tabled(l) ==
    <<l.objects, l.relations, l.assemblies, l.pours, l.splices, l.surfaces, l.joints>>

Candidate(kind, source, target, rule, origin, via) ==
    [kind |-> kind, source |-> source, target |-> target, rule |-> rule, origin |-> origin,
     via |-> via]

\* The edges row i of table k asks for, in order.
Candidates(l, k, i) ==
    LET r == Tabled(l)[k][i] IN
    CASE k = 1 -> <<Candidate("subelement", r.parent, r.id, "child", "object_parent", 0)>>
      [] k = 2 /\ r.visible /\ r.type \in ChildTypes ->
             <<Candidate("subelement", r.source, r.target, "child", "stored_relation", r.id)>>
      [] k = 2 /\ r.visible /\ r.type = RebarType ->
             <<Candidate("hosted_on", r.target, r.source, "first", "rebar_host", r.id)>>
      [] k = 3 ->
             [j \in 1 .. Len(l.members[r.id]) + 1 |->
                 IF j = 1
                 THEN Candidate("in_assembly", r.main, r.id, "first", "assembly_membership", 0)
                 ELSE Candidate("in_assembly", l.members[r.id][j - 1], r.id, "member",
                                "assembly_membership", 0)]
      [] k = 4 -> <<Candidate("in_assembly", r[2], r[1], "first", "pour_membership", 0)>>
      [] k = 5 -> <<Candidate("connects_to", r[1], r[2], "first", "rebar_splice", 0),
                    Candidate("connects_to", r[1], r[3], "second", "rebar_splice", 0)>>
      [] k = 6 -> <<Candidate("hosted_on", r[1], r[2], "first", "surface_object", 0)>>
      [] k = 7 /\ r.visible ->
             <<Candidate("connects_to", r.prim, r.sek, "first", "component_connection", r.id)>>
      [] OTHER -> <<>>

\* The place of a candidate: its table, its row and its number in the row.
Places(l) ==
    UNION {UNION {{<<k, i, j>> : j \in DOMAIN Candidates(l, k, i)} :
                      i \in DOMAIN Tabled(l)[k]} : k \in 1 .. 7}
CandidateAt(l, q) == Candidates(l, q[1], q[2])[q[3]]

\* Two live model elements, and for a host relation the kinds it asks for.
Promised(l, c) ==
    /\ c.source # c.target
    /\ {c.source, c.target} \subseteq l.endpoints
    /\ l.kinds[c.source] \notin Features /\ l.kinds[c.target] \notin Features
    /\ c.origin = "rebar_host" => l.kinds[c.source] \in Reinforcement
    /\ c.origin = "surface_object" => l.kinds[c.source] = "surface_object"
    /\ c.kind = "hosted_on" => l.kinds[c.target] \in HostKinds

SameEdge(c, d) == c.kind = d.kind /\ c.source = d.source /\ c.target = d.target

\* Every candidate that holds, once, where it is first met.
KeptPlaces(l) ==
    {q \in Places(l) :
        /\ Promised(l, CandidateAt(l, q))
        /\ \A p \in Places(l) :
              Before(p, q) /\ Promised(l, CandidateAt(l, p))
              => ~SameEdge(CandidateAt(l, p), CandidateAt(l, q))}

\* Children and members are numbered in the order they are kept.
NumberAt(l, kept, q) ==
    LET c == CandidateAt(l, q)
        earlier == {p \in kept : Before(p, q) /\ CandidateAt(l, p).rule = c.rule}
    IN
    CASE c.rule = "child" -> Cardinality({p \in earlier : CandidateAt(l, p).source = c.source})
      [] c.rule = "member" -> 1 + Cardinality({p \in earlier : CandidateAt(l, p).target = c.target})
      [] c.rule = "first" -> 0
      [] c.rule = "second" -> 1
EdgeAt(l, kept, q) ==
    LET c == CandidateAt(l, q) IN
    [kind |-> c.kind, source |-> c.source, target |-> c.target,
     ordinal |-> NumberAt(l, kept, q), origin |-> c.origin, via |-> c.via]

\* The promised list.
EdgesOf(t) ==
    LET l == Load(t)
        kept == KeptPlaces(l)
        order == Sorted(kept)
    IN  [n \in 1 .. Cardinality(kept) |-> EdgeAt(l, kept, order[n])]
=============================================================================
