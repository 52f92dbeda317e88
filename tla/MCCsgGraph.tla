------------------------------ MODULE MCCsgGraph ------------------------------
(***************************************************************************)
(* Small decoded models for the planner: a root r, parts a and b that cut  *)
(* it and each other in every way, parts c, d and e for longer chains, and *)
(* an edge chamfer x.                                                      *)
(***************************************************************************)
EXTENDS CsgGraph

MCObjects == {"r", "a", "b", "c", "d", "e", "x"}
MCShapes == {"plain", "grown"}

Cut(t) == [type |-> 11, target |-> t, direction |-> 0, stamp |-> 0]
Add(t) == [type |-> 38, target |-> t, direction |-> 0, stamp |-> 0]
EdgeChamfer == [type |-> 79, target |-> "x", direction |-> 0, stamp |-> 0]
Fitting(stamp) == [type |-> 9, target |-> "x", direction |-> 1, stamp |-> stamp]

Lists(items, longest) == UNION {[1..n -> items] : n \in 0..longest}

\* How operatives meet their hosts: unchanged, b adapted to a, or b clear of r.
Fits ==
    {[m \in MCObjects \X MCShapes \X MCObjects |-> "plain"],
     [m \in MCObjects \X MCShapes \X MCObjects |->
         IF m[1] = "a" /\ m[3] = "b" THEN "grown" ELSE "plain"],
     [m \in MCObjects \X MCShapes \X MCObjects |->
         IF m[1] = "r" /\ m[3] = "b" THEN "outside" ELSE "plain"]}

\* A decoded model: i says what varies, the rest is fixed.
Decoded(i) ==
    [operations |-> i.ops,
     objectType |-> i.types,
     missing |-> i.missing,
     unplaced |-> {},
     unsupported |-> i.unsupported,
     fit |-> i.fit,
     volume |-> [p \in MCObjects |-> IF p = "b" THEN 2 ELSE 1],
     bytes |-> [p \in MCObjects |-> CASE p = "r" -> i.rootBytes [] p = "x" -> 3 [] OTHER -> 1],
     bounded |-> FALSE]

Ordinary == [p \in MCObjects |-> 2]

OpLists(ofRoot, ofA, ofB, ofC) ==
    [r : ofRoot, a : ofA, b : ofB, c : ofC, d : {<<>>}, e : {<<>>}, x : {<<>>}]

\* Every part is there and is an ordinary part.
Plain(ops) ==
    [ops : ops, types : {Ordinary}, missing : {{}}, unsupported : {{}}, fit : Fits, rootBytes : {1}]

\* Every graph of up to two operations per part.
Graphs == Plain(OpLists(Lists({Cut("a"), Cut("b"), EdgeChamfer}, 2),
                        Lists({Cut("r"), Cut("b"), Add("b"), EdgeChamfer}, 2),
                        Lists({Cut("r"), Cut("a"), EdgeChamfer}, 2), {<<>>}))

\* A long list at the root: repeated targets, additions, planes, parts that are not there; and
\* a root that is too large by itself.
Lists3 == Lists({Cut("a"), Add("a"), Add("b"), Fitting(1), Fitting(2)}, 3)
Variations(missing, rootBytes) ==
    [ops : OpLists(Lists3, {<<EdgeChamfer, Cut("b")>>}, {<<>>}, {<<>>}),
     types : {Ordinary, [Ordinary EXCEPT !.a = 11], [Ordinary EXCEPT !.a = 38]},
     missing : missing, unsupported : {{}, {"x"}},
     fit : {[m \in MCObjects \X MCShapes \X MCObjects |-> "plain"]},
     rootBytes : rootBytes]

Inputs == Graphs \cup Variations({{}, {"a"}}, {1}) \cup Variations({{"a"}}, {8})

MCModels == {Decoded(i) : i \in Inputs}
-----------------------------------------------------------------------------
\* The solid a request describes: its nodes with their operands unfolded.
RECURSIVE Unfold(_)
Unfold(n) ==
    LET Children(kind) == {links[l].to : l \in {m \in DOMAIN links :
                               links[m].from = n /\ links[m].kind = kind}}
    IN [mesh |-> nodes[n],
        added |-> {Unfold(c) : c \in Children("union")},
        cut |-> {Unfold(c) : c \in Children("subtract")},
        planes |-> {h[2] : h \in {q \in planes : q[1] = n}}]

\* The solid the decoded model describes: operations of operatives applied to the operatives.
RECURSIVE Solid(_, _)
Solid(p, shape) ==
    LET Side(addition) == {Solid(o.target, o.shape) : o \in {q \in Operands(p, shape) :
                               q.addition = addition}}
        chamfers == {[mesh |-> Node(Ops(p)[i].target, Chamfer), added |-> {}, cut |-> {},
                      planes |-> {}] :
                        i \in {j \in StepsOf(p, {79}) : Ops(p)[j].target \notin model.unsupported}}
    IN [mesh |-> Node(p, shape),
        added |-> Side(TRUE),
        cut |-> Side(FALSE) \cup chamfers,
        planes |-> KeptPlanes(p)]

\* With no cycle and no limit met, the request means what the decoded model means: sharing
\* operatives between hosts changes nothing, and each host gets its own adapted operatives.
RequestMeansModel ==
    outcome = "request" /\ (\A x \in omissions : x.code \notin {"resource_limit", "invalid_topology"})
        => Unfold(1) = Solid(Root, AsDecoded)
=============================================================================
