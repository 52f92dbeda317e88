------------------------------- MODULE CsgGraph -------------------------------
(***************************************************************************)
(* The planner of one topology request: GeometryReader::append_csg_node    *)
(* (geometry.cpp) walks the persisted Boolean operations of a root object  *)
(* depth first and appends one node per operative to the request.          *)
(*                                                                         *)
(* The C++ recursion is a stack of frames here, one frame per active call, *)
(* and every action is what the code does between two calls: the answer    *)
(* given to one operative of the object on top, one edge chamfer, or the   *)
(* return of the call on top.                                              *)
(*                                                                         *)
(* A mesh is a pair of an object and a "shape": an operative adapted to    *)
(* its host (trimmed and expanded) differs from the one adapted to another *)
(* host, and only an equal object with an equal shape is shared.           *)
(***************************************************************************)
EXTENDS Naturals, Sequences, FiniteSets

CONSTANTS
    Objects,    \* object ids: parts, edge chamfers, fitting planes
    Shapes,     \* meshes an operative of one object can be adapted to
    AsDecoded,  \* the mesh of an object before any adaptation
    Chamfer,    \* the mesh of an edge chamfer's cutter
    Outside,    \* an operative that does not meet its host
    Models,     \* decoded models: what the reader's maps can hold
    Root,       \* the object whose operations are evaluated
    MaxDepth,   \* maximum_operation_graph_depth
    MaxNodes,   \* maximum_operation_graph_nodes
    MaxEdges,   \* maximum_operation_graph_edges
    MaxBytes    \* maximum_topology_request_mesh_bytes

\* type: 11 cut part, 38 added part, 39 weld preparation, 79 edge chamfer, 9 fitting, 12 cut
\* plane; direction and stamp (event and relation id) matter to planes only.
Operation == [type : {9, 11, 12, 38, 39, 79}, target : Objects, direction : Nat, stamp : Nat]

DecodedModel ==
    [operations : [Objects -> Seq(Operation)],  \* operations_
     objectType : [Objects -> Nat],             \* part attribute object_type, 0 unknown
     missing : SUBSET Objects,                  \* operative_mesh has nothing for them
     unplaced : SUBSET Objects,                 \* no coordinate system or degenerate axes
     unsupported : SUBSET Objects,              \* edge_chamfer_cutter refuses them
     fit : [Objects \X Shapes \X Objects -> Shapes \cup {Outside}],
     volume : [Objects -> Nat],
     bytes : [Objects -> Nat],                  \* mesh_storage_bytes
     bounded : BOOLEAN]  \* make_bounded_topology_base clips the root at its ends

ASSUME CsgAssumption ==
    /\ Models \subseteq DecodedModel
    /\ Root \in Objects
    /\ AsDecoded \in Shapes
    /\ Chamfer \notin Shapes
    /\ Outside \notin Shapes
    /\ MaxDepth \in Nat \ {0}
    /\ MaxNodes \in Nat
    /\ MaxEdges \in Nat
    /\ MaxBytes \in Nat

VARIABLES
    model,      \* the decoded model, never written
    nodes,      \* request.nodes: source object, source mesh
    links,      \* union_nodes and subtract_nodes of all nodes, in order of insertion
    planes,     \* keep_half_spaces of the nodes that have them: <<node, operation>>
    stack,      \* the active calls, outermost first
    active,     \* graph.active
    shared,     \* graph.shared_nodes, in order of registration
    visited,    \* graph.nodes
    edges,      \* graph.edges
    bytes,      \* graph.request_mesh_bytes
    omissions,  \* diagnostics: which operation of which node was left out, and why
    truncated,  \* history: <<n, p>> when at or below n the operative p was refused as active
    outcome     \* what evaluate_operations_csg gets back

requestVars == <<nodes, links, planes>>
counterVars == <<visited, edges, bytes>>
csgVars == <<model, requestVars, stack, active, shared, counterVars, omissions, truncated, outcome>>
-----------------------------------------------------------------------------
Ops(p) == model.operations[p]

\* The steps of p's operation list whose type is in the set.
StepsOf(p, types) == {i \in DOMAIN Ops(p) : Ops(p)[i].type \in types}

\* One Boolean operation per target, the first that names it.
BooleanSteps(p) ==
    {i \in StepsOf(p, {11, 38, 39}) :
        \A j \in StepsOf(p, {11, 38, 39}) : Ops(p)[j].target = Ops(p)[i].target => i <= j}

\* A persisted cut operand does not replay the cuts that made it.
ReplaysBooleans(p) == model.objectType[p] # 11

IsAddition(op) == op.type = 38 \/ model.objectType[op.target] = 38

Operand(p, shape, i) ==
    LET op == Ops(p)[i] IN
    [step |-> i,
     target |-> op.target,
     addition |-> IsAddition(op),
     shape |-> IF IsAddition(op) THEN AsDecoded ELSE model.fit[p, shape, op.target]]

\* The operatives of p that are present and meet their host.
Operands(p, shape) ==
    IF ~ReplaysBooleans(p) THEN {}
    ELSE {o \in {Operand(p, shape, i) : i \in BooleanSteps(p)} :
             o.target \notin model.missing /\ o.shape # Outside}

\* Boolean operations whose operative has no usable geometry.
MissingSteps(p) ==
    IF ~ReplaysBooleans(p) THEN {}
    ELSE {i \in BooleanSteps(p) : Ops(p)[i].target \in model.missing}

\* Additions come before cutters, larger volumes first, equal ones in their given order.
Before(o, q) ==
    \/ o.addition /\ ~q.addition
    \/ /\ o.addition = q.addition
       /\ \/ model.volume[o.target] > model.volume[q.target]
          \/ model.volume[o.target] = model.volume[q.target] /\ o.step <= q.step

\* Fitting and cut planes kept for p: of the fittings of one direction the latest only, the
\* first of equally late ones.
KeptPlanes(p) ==
    LET placed == {i \in StepsOf(p, {9, 12}) : Ops(p)[i].target \notin model.unplaced}
        Supersedes(j, i) == /\ Ops(p)[i].type = 9 /\ Ops(p)[j].type = 9
                            /\ Ops(p)[j].direction = Ops(p)[i].direction
                            /\ \/ Ops(p)[j].stamp > Ops(p)[i].stamp
                               \/ Ops(p)[j].stamp = Ops(p)[i].stamp /\ j < i
    IN {i \in placed : \A j \in placed : ~Supersedes(j, i)}

Node(p, shape) == [object |-> p, shape |-> shape]
Link(from, kind, to) == [from |-> from, kind |-> kind, to |-> to]
Omission(n, i, code) == [node |-> n, step |-> i, code |-> code]

\* A call on node n: the operatives and chamfers it has still to go through.
Frame(n, p, shape, o) ==
    [node |-> n, operands |-> Operands(p, shape), chamfers |-> StepsOf(p, {79}), asked |-> o]

Top == stack[Len(stack)]
Depth == Len(stack)  \* of an operative of the object on top; the root is at depth 0

\* No operative: what "asked" holds in the root's frame.
NoOperand == [step |-> 0, target |-> Root, addition |-> FALSE, shape |-> AsDecoded]

\* The top frame's next operative.
NextOperand(o) ==
    /\ outcome = "building"
    /\ stack # <<>>
    /\ o \in Top.operands
    /\ \A q \in Top.operands : Before(o, q)

OperandDone(o) == [stack EXCEPT ![Len(stack)].operands = @ \ {o}]

\* The top frame's next edge chamfer, once its operatives are through.
NextChamfer(i) ==
    /\ outcome = "building"
    /\ stack # <<>>
    /\ Top.operands = {}
    /\ i \in Top.chamfers
    /\ \A j \in Top.chamfers : i <= j

ChamferDone(i) == [stack EXCEPT ![Len(stack)].chamfers = @ \ {i}]

LinkKind(o) == IF o.addition THEN "union" ELSE "subtract"

Registered == {shared[k] : k \in DOMAIN shared}

\* Faulty variant: any node of the request is taken, also what a failed call left behind.
MatchesUnregistered(p, shape) == {n \in 1..Len(nodes) : nodes[n] = Node(p, shape)}

\* Faulty variant: the object is compared, the mesh adapted to its host is not.
MatchesOtherMesh(p, shape) == {n \in Registered : nodes[n].object = p}

\* The registered nodes with the same source object and mesh; there is never more than one.
Matches(p, shape) == {n \in Registered : nodes[n] = Node(p, shape)}

\* The checks a new node has to pass.
NodeFits(p) == visited < MaxNodes /\ model.bytes[p] <= MaxBytes - bytes
EdgesFit(p) == Len(Ops(p)) <= MaxEdges - edges

AppendNode(p, shape) ==
    /\ nodes' = Append(nodes, Node(p, shape))
    /\ visited' = visited + 1
    /\ bytes' = bytes + model.bytes[p]

-----------------------------------------------------------------------------
Init ==
    /\ model \in Models
    /\ nodes = <<>>
    /\ links = <<>>
    /\ planes = {}
    /\ stack = <<>>
    /\ active = {}
    /\ shared = <<>>
    /\ visited = 0
    /\ edges = 0
    /\ bytes = 0
    /\ omissions = {}
    /\ truncated = {}
    /\ outcome = "idle"

\* The root of an object without operations is not even asked for; else the call at depth 0.
StartNothing ==
    /\ outcome = "idle"
    /\ Ops(Root) = <<>>
    /\ outcome' = "nothing"
    /\ UNCHANGED <<model, requestVars, stack, active, shared, counterVars, omissions, truncated>>

StartOverLimits ==
    /\ outcome = "idle"
    /\ Ops(Root) # <<>>
    /\ ~NodeFits(Root) \/ ~EdgesFit(Root)
    /\ outcome' = "resource_limit"
    /\ UNCHANGED <<model, requestVars, stack, active, shared, counterVars, omissions, truncated>>

Start ==
    /\ outcome = "idle"
    /\ Ops(Root) # <<>>
    /\ NodeFits(Root)
    /\ EdgesFit(Root)
    /\ AppendNode(Root, AsDecoded)
    /\ edges' = edges + Len(Ops(Root))
    /\ stack' = <<Frame(1, Root, AsDecoded, NoOperand)>>
    /\ active' = {Root}
    /\ omissions' = {Omission(1, i, "invalid_geometry") : i \in MissingSteps(Root)}
    /\ outcome' = "building"
    /\ UNCHANGED <<model, links, planes, shared, truncated>>

\* Faulty variant: an operative whose call failed stays in the list.
OmitRetries(o, code) ==
    /\ stack' = stack
    /\ omissions' = omissions \cup {Omission(Top.node, o.step, code)}

\* The caller drops an operative whose call failed and goes on with the next.
Omit(o, code) ==
    /\ stack' = OperandDone(o)
    /\ omissions' = omissions \cup {Omission(Top.node, o.step, code)}

\* What node n misses once its call or a node it links to has lost the objects; n without its own
\* object is complete, for that is a cycle wherever n is used.
LostAt(n, objects) == {<<n, p>> : p \in objects \ {nodes[n].object}}

VisitTooDeep(o) ==
    /\ NextOperand(o)
    /\ Depth >= MaxDepth
    /\ Omit(o, "resource_limit")
    /\ UNCHANGED <<model, requestVars, active, shared, counterVars, truncated, outcome>>

VisitCycle(o) ==
    /\ NextOperand(o)
    /\ Depth < MaxDepth
    /\ o.target \in active
    /\ Omit(o, "invalid_topology")
    /\ truncated' = truncated \cup LostAt(Top.node, {o.target})
    /\ UNCHANGED <<model, requestVars, active, shared, counterVars, outcome>>

\* Faulty variant: the cycle check comes too late to stop a second call on an active object.
EnterableTwice(o) ==
    /\ NextOperand(o)
    /\ Depth < MaxDepth

\* Faulty variant: operatives of operatives are followed to any depth.
EnterableAtAnyDepth(o) ==
    /\ NextOperand(o)
    /\ o.target \notin active

\* Past the checks that come before the node is looked for.
Enterable(o) ==
    /\ NextOperand(o)
    /\ Depth < MaxDepth
    /\ o.target \notin active

\* A parent misses what a child misses that it links to.
Inherits(parent, child) ==
    truncated \cup LostAt(parent, {p \in Objects : <<child, p>> \in truncated})

\* Faulty variant: an operative that was met before is skipped.
VisitSharedSkips(o) ==
    /\ Enterable(o)
    /\ Matches(o.target, o.shape) # {}
    /\ stack' = OperandDone(o)
    /\ UNCHANGED <<model, requestVars, active, shared, counterVars, omissions, truncated, outcome>>

VisitShared(o) ==
    /\ Enterable(o)
    /\ \E n \in Matches(o.target, o.shape) :
        /\ links' = Append(links, Link(Top.node, LinkKind(o), n))
        /\ truncated' = Inherits(Top.node, n)
    /\ stack' = OperandDone(o)
    /\ UNCHANGED <<model, nodes, planes, active, shared, counterVars, omissions, outcome>>

VisitOverLimits(o) ==
    /\ Enterable(o)
    /\ Matches(o.target, o.shape) = {}
    /\ ~NodeFits(o.target)
    /\ Omit(o, "resource_limit")
    /\ UNCHANGED <<model, requestVars, active, shared, counterVars, truncated, outcome>>

\* Past the checks of a new node too.
Appendable(o) ==
    /\ Enterable(o)
    /\ Matches(o.target, o.shape) = {}
    /\ NodeFits(o.target)

\* An operative without operations of its own is finished at once.
VisitLeaf(o) ==
    /\ Appendable(o)
    /\ Ops(o.target) = <<>>
    /\ AppendNode(o.target, o.shape)
    /\ shared' = Append(shared, Len(nodes) + 1)
    /\ links' = Append(links, Link(Top.node, LinkKind(o), Len(nodes) + 1))
    /\ stack' = OperandDone(o)
    /\ UNCHANGED <<model, planes, active, edges, omissions, truncated, outcome>>

\* Too many edges: the call fails, the node it had appended stays in the request.
VisitOverEdges(o) ==
    /\ Appendable(o)
    /\ Ops(o.target) # <<>>
    /\ ~EdgesFit(o.target)
    /\ AppendNode(o.target, o.shape)
    /\ Omit(o, "resource_limit")
    /\ UNCHANGED <<model, links, planes, active, shared, edges, truncated, outcome>>

VisitNode(o) ==
    LET n == Len(nodes) + 1 IN
    /\ Appendable(o)
    /\ Ops(o.target) # <<>>
    /\ EdgesFit(o.target)
    /\ AppendNode(o.target, o.shape)
    /\ edges' = edges + Len(Ops(o.target))
    /\ stack' = Append(OperandDone(o), Frame(n, o.target, o.shape, o))
    /\ active' = active \cup {o.target}
    /\ omissions' = omissions \cup
           {Omission(n, i, "invalid_geometry") : i \in MissingSteps(o.target)}
    /\ UNCHANGED <<model, links, planes, shared, truncated, outcome>>

ChamferUnsupported(i) ==
    /\ NextChamfer(i)
    /\ Ops(nodes[Top.node].object)[i].target \in model.unsupported
    /\ stack' = ChamferDone(i)
    /\ omissions' = omissions \cup {Omission(Top.node, i, "decoder_unavailable")}
    /\ UNCHANGED <<model, requestVars, active, shared, counterVars, truncated, outcome>>

ChamferAppended(i) ==
    LET c == Ops(nodes[Top.node].object)[i].target IN
    /\ NextChamfer(i)
    /\ c \notin model.unsupported
    /\ NodeFits(c)
    /\ AppendNode(c, Chamfer)
    /\ links' = Append(links, Link(Top.node, "subtract", Len(nodes) + 1))
    /\ stack' = ChamferDone(i)
    /\ UNCHANGED <<model, planes, active, shared, edges, omissions, truncated, outcome>>

\* The call on top returns: its object is no longer active.
Pop ==
    /\ stack' = SubSeq(stack, 1, Len(stack) - 1)
    /\ active' = active \ {nodes[Top.node].object}

Caller == stack[Len(stack) - 1]

\* No room for the cutter of an edge chamfer: the whole call fails, all it appended stays.
ChamferOverLimits(i) ==
    LET c == Ops(nodes[Top.node].object)[i].target IN
    /\ NextChamfer(i)
    /\ c \notin model.unsupported
    /\ ~NodeFits(c)
    /\ Pop
    /\ IF Len(stack) = 1
       THEN outcome' = "resource_limit" /\ UNCHANGED omissions
       ELSE /\ omissions' = omissions \cup
                   {Omission(Caller.node, Top.asked.step, "resource_limit")}
            /\ UNCHANGED outcome
    /\ UNCHANGED <<model, requestVars, shared, counterVars, truncated>>

\* The call on top has gone through all operations of its object.
Through ==
    /\ outcome = "building"
    /\ stack # <<>>
    /\ Top.operands = {}
    /\ Top.chamfers = {}

HalfSpaces(n) == {<<n, i>> : i \in KeptPlanes(nodes[n].object)}

CloseNode ==
    /\ Through
    /\ Len(stack) > 1
    /\ Pop
    /\ planes' = planes \cup HalfSpaces(Top.node)
    /\ shared' = Append(shared, Top.node)
    /\ links' = Append(links, Link(Caller.node, LinkKind(Top.asked), Top.node))
    /\ truncated' = Inherits(Caller.node, Top.node)
    /\ UNCHANGED <<model, nodes, counterVars, omissions, outcome>>

HasOperations(n) == \/ \E l \in DOMAIN links : links[l].from = n
                    \/ KeptPlanes(nodes[n].object) # {}

\* append_csg_node returns to evaluate_operations_csg, which drops a request without operations.
CloseRoot ==
    /\ Through
    /\ Len(stack) = 1
    /\ Pop
    /\ planes' = planes \cup HalfSpaces(Top.node)
    /\ outcome' = IF HasOperations(1) \/ model.bounded THEN "request" ELSE "nothing"
    /\ UNCHANGED <<model, nodes, links, shared, counterVars, omissions, truncated>>

\* The operand that is on turn, and the chamfer.
Visit(o) ==
    \/ VisitTooDeep(o) \/ VisitCycle(o) \/ VisitShared(o) \/ VisitOverLimits(o)
    \/ VisitLeaf(o) \/ VisitOverEdges(o) \/ VisitNode(o)

CutChamfer(i) == ChamferUnsupported(i) \/ ChamferAppended(i) \/ ChamferOverLimits(i)

Pending(field) == IF stack = <<>> THEN {} ELSE Top[field]

Build ==
    \/ StartNothing \/ StartOverLimits \/ Start
    \/ \E o \in Pending("operands") : Visit(o)
    \/ \E i \in Pending("chamfers") : CutChamfer(i)
    \/ CloseNode \/ CloseRoot

Finished == outcome \notin {"idle", "building"}

\* The call has returned: nothing more happens.
Done == Finished /\ UNCHANGED csgVars

Next == Build \/ Done

Spec == Init /\ [][Next]_csgVars
-----------------------------------------------------------------------------
NodeIndex == 1..Len(nodes)
IsChamfer(n) == nodes[n].shape = Chamfer

\* Node n is registered before position k of the list of shared nodes.
SharedBefore(n, k) == \E j \in DOMAIN shared : j < k /\ shared[j] = n

StackedObjects == {nodes[stack[d].node].object : d \in DOMAIN stack}

OperandRecords ==
    [step : Nat, target : Objects, addition : BOOLEAN, shape : Shapes]

NodeRecords == [object : Objects, shape : Shapes \cup {Chamfer}]

LinkRecords == [from : NodeIndex, kind : {"union", "subtract"}, to : NodeIndex]

FrameRecords ==
    [node : NodeIndex, operands : SUBSET OperandRecords,
     chamfers : SUBSET Nat, asked : OperandRecords]

OmissionRecords ==
    [node : NodeIndex, step : Nat,
     code : {"resource_limit", "invalid_topology", "invalid_geometry", "decoder_unavailable"}]

CsgTypeOK ==
    /\ nodes \in Seq(NodeRecords)
    /\ links \in Seq(LinkRecords)
    /\ planes \subseteq NodeIndex \X Nat
    /\ stack \in Seq(FrameRecords)
    /\ active \subseteq Objects
    /\ shared \in Seq(NodeIndex)
    /\ visited \in Nat /\ edges \in Nat /\ bytes \in Nat
    /\ omissions \subseteq OmissionRecords
    /\ truncated \subseteq NodeIndex \X Objects
    /\ outcome \in {"idle", "building", "nothing", "request", "resource_limit"}

\* graph.active is the set of objects of the calls in progress, and no object is called twice
\* at a time; depth stays below the limit (append_csg_node's guard object).
ActiveIsThePath ==
    /\ active = StackedObjects
    /\ \A c, d \in DOMAIN stack :
           nodes[stack[c].node].object = nodes[stack[d].node].object => c = d
    /\ Len(stack) <= MaxDepth

\* The limits of a request: what the graph counts is what the request holds, and neither nodes,
\* edges nor mesh bytes exceed the maximum, whatever the order of shared and failed operatives.
WithinLimits ==
    /\ visited = Len(nodes) /\ visited <= MaxNodes
    /\ edges <= MaxEdges
    /\ bytes <= MaxBytes

\* A request cannot loop: a finished node only links to edge chamfers and to nodes finished
\* before it, one in progress only to chamfers and finished ones. What a failed call left behind
\* in the request is never linked to.
RequestIsAcyclic ==
    /\ \A k \in DOMAIN shared, l \in DOMAIN links :
           links[l].from = shared[k] =>
               IsChamfer(links[l].to) \/ SharedBefore(links[l].to, k)
    /\ \A l \in DOMAIN links :
           IsChamfer(links[l].to) \/ SharedBefore(links[l].to, Len(shared) + 1)

\* Sharing is complete: no operative with the same mesh is in the registered nodes twice.
SharedOnce ==
    \A j, k \in DOMAIN shared : nodes[shared[j]] = nodes[shared[k]] => j = k

\* Calls in progress are of nodes not yet registered, whose mesh is not registered either, and
\* the chamfers they have left are of their object.
FramesAreOpen ==
    \A d \in DOMAIN stack :
        /\ stack[d].chamfers \subseteq StepsOf(nodes[stack[d].node].object, {79})
        /\ nodes[stack[d].node].shape \in Shapes
        /\ stack[d].node \notin Registered
        /\ d > 1 => \A n \in Registered : nodes[n] # nodes[stack[d].node]

\* Before the root is called there is nothing, and its call is what "building" means.
CallsAreTracked ==
    /\ outcome = "building" <=> stack # <<>>
    /\ outcome = "idle" => /\ nodes = <<>> /\ links = <<>> /\ shared = <<>>
                           /\ visited = 0 /\ edges = 0 /\ bytes = 0

\* The inductive invariant: the parts hold together, each needs the others to survive a step.
CsgInv ==
    /\ CsgTypeOK
    /\ ActiveIsThePath
    /\ WithinLimits
    /\ RequestIsAcyclic
    /\ SharedOnce
    /\ FramesAreOpen
    /\ CallsAreTracked

LinkTargets(n, kind) == {nodes[links[l].to] : l \in {m \in DOMAIN links :
                             links[m].from = n /\ links[m].kind = kind}}

\* No operative is lost without a word: when a call returns, each of its operatives is linked
\* to its node on the right side (added or cut) or reported omitted, and so is each chamfer.
Accounted(n) ==
    LET p == nodes[n].object IN
    /\ \A o \in Operands(p, nodes[n].shape) :
           \/ Node(o.target, o.shape) \in LinkTargets(n, LinkKind(o))
           \/ \E x \in omissions : x.node = n /\ x.step = o.step
    /\ \A i \in StepsOf(p, {79}) :
           \/ Node(Ops(p)[i].target, Chamfer) \in LinkTargets(n, "subtract")
           \/ \E x \in omissions : x.node = n /\ x.step = i
    /\ \A i \in MissingSteps(p) : Omission(n, i, "invalid_geometry") \in omissions

EveryOperandAccounted ==
    /\ \A k \in DOMAIN shared : Accounted(shared[k])
    /\ outcome \in {"request", "nothing"} /\ nodes # <<>> => Accounted(1)

\* A node that misses an operative because it was active is not given to a host on whose own
\* active path that operative is not: what a host gets lacks only what would be a cycle below
\* that host too (identity_test.cpp: cycle failures prevent reuse of a partial result).
CycleResultsNotReused ==
    \A d \in DOMAIN stack, l \in DOMAIN links :
        links[l].from = stack[d].node =>
            \A p \in Objects : <<links[l].to, p>> \in truncated =>
                \E c \in 1..d : nodes[stack[c].node].object = p
=============================================================================
