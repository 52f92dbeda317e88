---------------------------- MODULE CsgGraphProofs ----------------------------
(***************************************************************************)
(* Planner and evaluator for every decoded model and every limit: requests *)
(* stay within their limits, are acyclic, never link what a failed call    *)
(* left behind, hold no operative with the same mesh twice, and lose no    *)
(* operative without a word; the evaluator takes them as they are planned  *)
(* and makes its solids of all they hold.                                  *)
(***************************************************************************)
EXTENDS CsgEvaluation, FiniteSetTheorems, TLAPS

-----------------------------------------------------------------------------
(***************************************************************************)
(* What the model's operators return.                                      *)
(***************************************************************************)

\* An operation list is a list of operations, and the other tables are functions on objects.
LEMMA ModelTables ==
  ASSUME CsgAssumption, model \in Models
  PROVE  /\ model.operations \in [Objects -> Seq(Operation)]
         /\ model.fit \in [Objects \X Shapes \X Objects -> Shapes \cup {Outside}]
         /\ model.bytes \in [Objects -> Nat]
<1>1. model \in DecodedModel BY DEF CsgAssumption
<1> QED BY <1>1 DEF DecodedModel

LEMMA OpsType ==
  ASSUME CsgAssumption, model \in Models, NEW p \in Objects
  PROVE  /\ Ops(p) \in Seq(Operation)
         /\ Len(Ops(p)) \in Nat
         /\ DOMAIN Ops(p) \subseteq Nat
         /\ \A i \in DOMAIN Ops(p) : Ops(p)[i] \in Operation
BY ModelTables DEF Ops

LEMMA StepsType ==
  ASSUME CsgAssumption, model \in Models, NEW p \in Objects, NEW types
  PROVE  StepsOf(p, types) \subseteq Nat
BY OpsType DEF StepsOf

LEMMA OperandsType ==
  ASSUME CsgAssumption, model \in Models, NEW p \in Objects, NEW shape \in Shapes
  PROVE  Operands(p, shape) \subseteq OperandRecords
<1> SUFFICES ASSUME NEW i \in BooleanSteps(p), Operand(p, shape, i).shape # Outside
             PROVE  Operand(p, shape, i) \in OperandRecords
 BY DEF Operands
<1>1. i \in DOMAIN Ops(p) BY DEF BooleanSteps, StepsOf
<1>2. Ops(p)[i] \in Operation /\ i \in Nat BY <1>1, OpsType
<1>3. Ops(p)[i].target \in Objects BY <1>2 DEF Operation
<1>4. IsAddition(Ops(p)[i]) \in BOOLEAN
 <2>1. IsAddition(Ops(p)[i]) \/ ~IsAddition(Ops(p)[i]) OBVIOUS
 <2> QED BY <2>1, Z3 DEF IsAddition
<1>5. model.fit[p, shape, Ops(p)[i].target] \in Shapes \cup {Outside}
 <2>1. <<p, shape, Ops(p)[i].target>> \in Objects \X Shapes \X Objects BY <1>3
 <2> QED BY <2>1, ModelTables
<1>6. (IF IsAddition(Ops(p)[i]) THEN AsDecoded ELSE model.fit[p, shape, Ops(p)[i].target])
          \in Shapes \cup {Outside}
 BY <1>5 DEF CsgAssumption
<1> QED BY <1>2, <1>3, <1>4, <1>6 DEF Operand, OperandRecords

LEMMA BytesType ==
  ASSUME CsgAssumption, model \in Models, NEW p \in Objects
  PROVE  model.bytes[p] \in Nat
BY ModelTables

LEMMA MissingType ==
  ASSUME CsgAssumption, model \in Models, NEW p \in Objects
  PROVE  MissingSteps(p) \subseteq Nat
BY StepsType DEF MissingSteps, BooleanSteps

LEMMA PlanesType ==
  ASSUME CsgAssumption, model \in Models, NEW p \in Objects
  PROVE  KeptPlanes(p) \subseteq Nat
BY StepsType DEF KeptPlanes

LEMMA FrameType ==
  ASSUME CsgAssumption, model \in Models, NEW p \in Objects, NEW shape \in Shapes,
         NEW n \in Nat, NEW o \in OperandRecords
  PROVE  Frame(n, p, shape, o) \in [node : {n}, operands : SUBSET OperandRecords,
                                    chamfers : SUBSET Nat, asked : OperandRecords]
<1>1. Operands(p, shape) \in SUBSET OperandRecords BY OperandsType
<1>2. StepsOf(p, {79}) \in SUBSET Nat BY StepsType
<1> QED BY <1>1, <1>2 DEF Frame

LEMMA Below == \A n \in Nat : \A k \in 1..n : k < n + 1
OBVIOUS

LEMMA SeqMonotone ==
  ASSUME NEW A, NEW B, A \subseteq B, NEW s \in Seq(A)
  PROVE  s \in Seq(B)
OBVIOUS

-----------------------------------------------------------------------------
(***************************************************************************)
(* The stack.                                                              *)
(***************************************************************************)

\* While the planner builds there is a call on top, of a node that is open.
LEMMA TopFacts ==
  ASSUME CsgInv, outcome = "building"
  PROVE  /\ stack # <<>> /\ Len(stack) \in Nat \ {0} /\ Len(stack) \in DOMAIN stack
         /\ DOMAIN stack = 1..Len(stack)
         /\ Top.node \in NodeIndex
         /\ Top.operands \subseteq OperandRecords
         /\ Top.chamfers \subseteq Nat
         /\ Top.asked \in OperandRecords
         /\ Top.node \notin Registered
         /\ nodes[Top.node].object \in Objects
         /\ nodes[Top.node].shape \in Shapes
<1>1. stack # <<>> BY DEF CsgInv, CallsAreTracked
<1>2. stack \in Seq(FrameRecords)
 BY DEF CsgInv, CsgTypeOK
<1>3. Len(stack) \in Nat \ {0} /\ Len(stack) \in DOMAIN stack /\ DOMAIN stack = 1..Len(stack)
 BY <1>1, <1>2
<1>4. Top \in FrameRecords BY <1>2, <1>3 DEF Top
<1>a. Top.node \in 1..Len(nodes) BY <1>4 DEF FrameRecords, NodeIndex
<1>5. nodes[Top.node] \in NodeRecords
 BY <1>a DEF CsgInv, CsgTypeOK
<1>6. Top.node \notin Registered /\ nodes[Top.node].shape \in Shapes
 BY <1>3 DEF CsgInv, FramesAreOpen, Top
<1> QED BY <1>1, <1>3, <1>4, <1>5, <1>6 DEF FrameRecords, NodeRecords

LEMMA FrameNodes ==
  ASSUME CsgInv
  PROVE  /\ \A d \in DOMAIN stack : stack[d] \in FrameRecords
         /\ \A d \in DOMAIN stack : stack[d].node \in NodeIndex
<1>1. stack \in Seq(FrameRecords) BY DEF CsgInv, CsgTypeOK
<1>2. \A d \in DOMAIN stack : stack[d] \in FrameRecords BY <1>1
<1> QED BY <1>2 DEF FrameRecords

\* The calls of a stack, whatever is left of their lists.
SameCalls(st) ==
  /\ st \in Seq(FrameRecords)
  /\ Len(st) = Len(stack)
  /\ \A d \in DOMAIN stack : /\ st[d].node = stack[d].node
                            /\ st[d].chamfers \subseteq stack[d].chamfers

LEMMA OperandDoneCalls ==
  ASSUME CsgInv, outcome = "building", NEW o
  PROVE  SameCalls(OperandDone(o))
<1>1. stack \in Seq(FrameRecords)
 BY DEF CsgInv, CsgTypeOK
<1>2. Len(stack) \in DOMAIN stack BY TopFacts
<1>3. stack[Len(stack)] \in FrameRecords BY <1>1, <1>2
<1>4. [stack[Len(stack)] EXCEPT !.operands = @ \ {o}] \in FrameRecords
 BY <1>3 DEF FrameRecords
<1>5. /\ [stack[Len(stack)] EXCEPT !.operands = @ \ {o}].node = stack[Len(stack)].node
      /\ [stack[Len(stack)] EXCEPT !.operands = @ \ {o}].chamfers \subseteq stack[Len(stack)].chamfers
 BY <1>3 DEF FrameRecords
<1>6. OperandDone(o) = [stack EXCEPT ![Len(stack)] =
                            [stack[Len(stack)] EXCEPT !.operands = @ \ {o}]]
 BY DEF OperandDone
<1> QED BY <1>1, <1>2, <1>4, <1>5, <1>6 DEF SameCalls

LEMMA ChamferDoneCalls ==
  ASSUME CsgInv, outcome = "building", NEW i
  PROVE  SameCalls(ChamferDone(i))
<1>1. stack \in Seq(FrameRecords)
 BY DEF CsgInv, CsgTypeOK
<1>2. Len(stack) \in DOMAIN stack BY TopFacts
<1>3. stack[Len(stack)] \in FrameRecords BY <1>1, <1>2
<1>4. [stack[Len(stack)] EXCEPT !.chamfers = @ \ {i}] \in FrameRecords
 BY <1>3 DEF FrameRecords
<1>5. /\ [stack[Len(stack)] EXCEPT !.chamfers = @ \ {i}].node = stack[Len(stack)].node
      /\ [stack[Len(stack)] EXCEPT !.chamfers = @ \ {i}].chamfers \subseteq stack[Len(stack)].chamfers
 BY <1>3 DEF FrameRecords
<1>6. ChamferDone(i) = [stack EXCEPT ![Len(stack)] =
                            [stack[Len(stack)] EXCEPT !.chamfers = @ \ {i}]]
 BY DEF ChamferDone
<1> QED BY <1>1, <1>2, <1>4, <1>5, <1>6 DEF SameCalls

\* A step that only shortens the list of the call on top keeps what is said of the stack.
LEMMA SameCallsInvariant ==
  ASSUME CsgInv, outcome = "building", SameCalls(stack'),
         UNCHANGED <<model, nodes, active, shared, outcome>>
  PROVE  /\ ActiveIsThePath' /\ FramesAreOpen' /\ CallsAreTracked'
<1>1. DOMAIN stack' = DOMAIN stack /\ Len(stack') = Len(stack)
 BY DEF SameCalls, CsgInv, CsgTypeOK
<1>2. \A d \in DOMAIN stack : /\ stack'[d].node = stack[d].node
                              /\ stack'[d].chamfers \subseteq stack[d].chamfers
 BY DEF SameCalls
<1>3. stack' # <<>> BY <1>1, TopFacts
<1>4. StackedObjects' = StackedObjects BY <1>1, <1>2 DEF StackedObjects
<1>5. ActiveIsThePath' BY <1>1, <1>2, <1>4 DEF CsgInv, ActiveIsThePath
<1>6. FramesAreOpen'
 <2>1. FramesAreOpen BY DEF CsgInv
 <2>2. UNCHANGED <<model, nodes, shared>> OBVIOUS
 <2> QED BY ONLY <1>1, <1>2, <2>1, <2>2 DEF FramesAreOpen, Registered, StepsOf, Ops
<1>7. CallsAreTracked' BY <1>3 DEF CallsAreTracked
<1> QED BY <1>5, <1>6, <1>7

-----------------------------------------------------------------------------
(***************************************************************************)
(* The request.                                                            *)
(***************************************************************************)

\* SharedBefore and IsChamfer in the state after a step.
SharedBeforeNext(n, k) == \E j \in DOMAIN shared' : j < k /\ shared'[j] = n
IsChamferNext(n) == nodes'[n].shape = Chamfer

\* The nodes a step starts with are there after it, unchanged.
NodesKept ==
  /\ nodes' \in Seq(NodeRecords)
  /\ Len(nodes) <= Len(nodes')
  /\ \A n \in NodeIndex : nodes'[n] = nodes[n]

LEMMA NodesKeptIndex ==
  ASSUME CsgInv, NodesKept
  PROVE  /\ NodeIndex \subseteq NodeIndex'
         /\ \A n \in NodeIndex : IsChamferNext(n) <=> IsChamfer(n)
         /\ FrameRecords \subseteq FrameRecords'
         /\ LinkRecords \subseteq LinkRecords'
         /\ OmissionRecords \subseteq OmissionRecords'
<1>1. Len(nodes) \in Nat /\ Len(nodes') \in Nat BY DEF CsgInv, CsgTypeOK, NodesKept
<1>2. NodeIndex \subseteq NodeIndex' BY <1>1 DEF NodesKept, NodeIndex
<1>3. \A n \in NodeIndex : IsChamferNext(n) <=> IsChamfer(n) BY DEF NodesKept, IsChamfer, IsChamferNext
<1>4. FrameRecords \subseteq FrameRecords' BY <1>2 DEF FrameRecords, OperandRecords
<1>5. LinkRecords \subseteq LinkRecords' BY <1>2 DEF LinkRecords
<1>6. OmissionRecords \subseteq OmissionRecords' BY <1>2 DEF OmissionRecords
<1> QED BY <1>2, <1>3, <1>4, <1>5, <1>6

LEMMA RegisteredFacts ==
  ASSUME CsgInv
  PROVE  /\ Len(shared) \in Nat /\ DOMAIN shared = 1..Len(shared)
         /\ Registered \subseteq NodeIndex
         /\ \A n : n \in Registered <=> SharedBefore(n, Len(shared) + 1)
         /\ \A l \in DOMAIN links : /\ links[l].from \in NodeIndex
                                    /\ links[l].to \in NodeIndex
                                    /\ IsChamfer(links[l].to) \/ links[l].to \in Registered
<1>1. shared \in Seq(NodeIndex) /\ links \in Seq(LinkRecords) BY DEF CsgInv, CsgTypeOK
<1>2. Len(shared) \in Nat /\ DOMAIN shared = 1..Len(shared) BY <1>1
<1>3. Registered \subseteq NodeIndex BY <1>1 DEF Registered
<1>4. \A n : n \in Registered <=> SharedBefore(n, Len(shared) + 1)
 BY <1>2 DEF Registered, SharedBefore
<1>5. \A l \in DOMAIN links : links[l] \in LinkRecords BY <1>1
<1> QED BY <1>2, <1>3, <1>4, <1>5 DEF CsgInv, RequestIsAcyclic, LinkRecords

LEMMA RegisteredAppend ==
  ASSUME CsgInv, NEW n, shared' = Append(shared, n)
  PROVE  Registered' = Registered \cup {n}
<1>1. shared \in Seq(NodeIndex) BY DEF CsgInv, CsgTypeOK
<1>2. /\ \A k \in DOMAIN shared : k \in DOMAIN shared' /\ shared'[k] = shared[k]
      /\ Len(shared) + 1 \in DOMAIN shared' /\ shared'[Len(shared) + 1] = n
      /\ \A k \in DOMAIN shared' : k \in DOMAIN shared \/ k = Len(shared) + 1
 BY <1>1
<1> QED BY <1>2 DEF Registered

\* A step may register one node and add one link: from a node that is not registered, to an
\* edge chamfer or a registered node. Then no registered node gains a link, and the links of
\* the one registered last lead to nodes registered before it.
LEMMA AcyclicStep ==
  ASSUME CsgInv, NodesKept, NEW n, NEW l,
         shared' = shared \/ shared' = Append(shared, n),
         links' = links \/ links' = Append(links, l),
         links' # links => /\ l.from \notin Registered'
                           /\ IsChamferNext(l.to) \/ l.to \in Registered'
  PROVE  RequestIsAcyclic'
<1>1. /\ Len(shared) \in Nat /\ DOMAIN shared = 1..Len(shared)
      /\ \A x : x \in Registered <=> SharedBefore(x, Len(shared) + 1)
      /\ \A m \in DOMAIN links : /\ links[m].to \in NodeIndex
                                 /\ IsChamfer(links[m].to) \/ links[m].to \in Registered
 BY RegisteredFacts
<1>2. links \in Seq(LinkRecords) /\ shared \in Seq(NodeIndex) BY DEF CsgInv, CsgTypeOK
<1>3. \A x \in NodeIndex : IsChamferNext(x) <=> IsChamfer(x) BY NodesKeptIndex
<1>4. /\ DOMAIN shared \subseteq DOMAIN shared'
      /\ \A k \in DOMAIN shared : shared'[k] = shared[k]
      /\ Len(shared') \in Nat /\ Len(shared) <= Len(shared')
      /\ DOMAIN shared' = 1..Len(shared')
      /\ \A k \in DOMAIN shared' : k \in DOMAIN shared \/ k = Len(shared) + 1
 BY <1>1, <1>2
<1>5. \A x : \A k \in 1..(Len(shared) + 1) : SharedBefore(x, k) => SharedBeforeNext(x, k)
 BY <1>4 DEF SharedBefore, SharedBeforeNext
<1>6. \A x : x \in Registered' <=> SharedBeforeNext(x, Len(shared') + 1)
 <2>0. Len(shared') \in Nat /\ DOMAIN shared' = 1..Len(shared') BY <1>4
 <2>1. \A k \in 1..Len(shared') : k < Len(shared') + 1 BY <2>0, Below
 <2>2. \A k \in DOMAIN shared' : k < Len(shared') + 1 BY <2>0, <2>1, Zenon
 <2> QED BY <2>2 DEF Registered, SharedBeforeNext
<1>7. Registered \subseteq Registered' BY <1>4 DEF Registered
<1>8. \A m \in DOMAIN links' :
          \/ m \in DOMAIN links /\ links'[m] = links[m]
          \/ links' # links /\ links'[m] = l
 BY <1>2
<1>9. \A k \in DOMAIN shared', m \in DOMAIN links' :
          links'[m].from = shared'[k] => IsChamferNext(links'[m].to) \/ SharedBeforeNext(links'[m].to, k)
 <2> SUFFICES ASSUME NEW k \in DOMAIN shared', NEW m \in DOMAIN links',
                     links'[m].from = shared'[k]
              PROVE  IsChamferNext(links'[m].to) \/ SharedBeforeNext(links'[m].to, k)
  OBVIOUS
 <2>1. shared'[k] \in Registered' BY DEF Registered
 <2>2. m \in DOMAIN links /\ links'[m] = links[m] BY <1>8, <2>1
 <2>3. CASE k \in DOMAIN shared
  <3>1. IsChamfer(links[m].to) \/ SharedBefore(links[m].to, k)
   BY <2>2, <2>3, <1>4 DEF CsgInv, RequestIsAcyclic
  <3>2. k \in 1..(Len(shared) + 1) BY <2>3, <1>1
  <3> QED BY <3>1, <3>2, <2>2, <1>1, <1>3, <1>5
 <2>4. CASE k = Len(shared) + 1
  <3>1. IsChamfer(links[m].to) \/ SharedBefore(links[m].to, k)
   BY <2>2, <2>4, <1>1
  <3>2. k \in 1..(Len(shared) + 1) BY <2>4, <1>1
  <3> QED BY <3>1, <3>2, <2>2, <1>1, <1>3, <1>5
 <2> QED BY <2>3, <2>4, <1>4
<1>10. \A m \in DOMAIN links' : IsChamferNext(links'[m].to) \/ SharedBeforeNext(links'[m].to, Len(shared') + 1)
 <2> SUFFICES ASSUME NEW m \in DOMAIN links'
              PROVE  IsChamferNext(links'[m].to) \/ links'[m].to \in Registered'
  BY <1>6
 <2> QED BY <1>8, <1>1, <1>3, <1>7
<1> QED BY <1>9, <1>10 DEF RequestIsAcyclic, IsChamfer, IsChamferNext, SharedBefore, SharedBeforeNext

\* Registering a node whose mesh is not registered keeps the meshes of the registered distinct.
LEMMA SharedOnceStep ==
  ASSUME CsgInv, NodesKept, NEW n \in NodeIndex',
         shared' = shared \/ shared' = Append(shared, n),
         shared' # shared => \A m \in Registered : nodes[m] # nodes'[n]
  PROVE  SharedOnce'
<1>1. shared \in Seq(NodeIndex) BY DEF CsgInv, CsgTypeOK
<1>2. \A k \in DOMAIN shared : shared[k] \in NodeIndex /\ shared[k] \in Registered
 BY <1>1 DEF Registered
<1>3. \A j, k \in DOMAIN shared : nodes'[shared[j]] = nodes'[shared[k]] => j = k
 BY <1>2 DEF CsgInv, SharedOnce, NodesKept
<1>4. CASE shared' = shared BY <1>3, <1>4 DEF SharedOnce
<1>5. CASE shared' = Append(shared, n) /\ shared' # shared
 <2>1. /\ \A k \in DOMAIN shared' : \/ k \in DOMAIN shared /\ shared'[k] = shared[k]
                                    \/ k = Len(shared) + 1 /\ shared'[k] = n
  BY <1>1, <1>5
 <2>2. \A k \in DOMAIN shared : nodes'[shared[k]] # nodes'[n]
  BY <1>2, <1>5 DEF NodesKept
 <2>3. \A j, k \in DOMAIN shared' : nodes'[shared'[j]] = nodes'[shared'[k]] => j = k
  BY <2>1, <2>2, <1>3
 <2> QED BY <2>3 DEF SharedOnce
<1> QED BY <1>4, <1>5

-----------------------------------------------------------------------------
(***************************************************************************)
(* The kinds of steps: nothing but an answer, a new node, a call, a return.*)
(***************************************************************************)

\* What the step of a kind may do to the reports.
ReportsTyped == omissions' \subseteq OmissionRecords' /\ truncated' \subseteq NodeIndex' \X Objects

\* What a node misses are objects.
LEMMA LostType ==
  ASSUME NEW n \in NodeIndex, NEW objects \in SUBSET Objects
  PROVE  LostAt(n, objects) \subseteq NodeIndex \X Objects
BY DEF LostAt

LEMMA InheritsType ==
  ASSUME CsgInv, NEW n \in NodeIndex, NEW c
  PROVE  Inherits(n, c) \subseteq NodeIndex \X Objects
<1> DEFINE lost == {p \in Objects : <<c, p>> \in truncated}
<1>1. lost \in SUBSET Objects OBVIOUS
<1>2. LostAt(n, lost) \subseteq NodeIndex \X Objects BY <1>1, LostType
<1>3. truncated \subseteq NodeIndex \X Objects BY DEF CsgInv, CsgTypeOK
<1> QED BY <1>2, <1>3 DEF Inherits

\* An answer to the call on top: at most a link to a registered node.
LEMMA AnswerStep ==
  ASSUME CsgInv, outcome = "building", SameCalls(stack'), ReportsTyped,
         UNCHANGED <<model, nodes, planes, active, shared, counterVars, outcome>>,
         NEW l \in LinkRecords, l.from = Top.node, l.to \in Registered,
         links' = links \/ links' = Append(links, l)
  PROVE  CsgInv'
<1>1. NodesKept BY DEF NodesKept, CsgInv, CsgTypeOK
<1>2. NodeIndex' = NodeIndex BY DEF NodeIndex
<1>3. FrameRecords' = FrameRecords /\ LinkRecords' = LinkRecords
 BY <1>2 DEF FrameRecords, LinkRecords, OperandRecords
<1>4. CsgTypeOK'
 <2>1. links' \in Seq(LinkRecords)
  <3>1. links \in Seq(LinkRecords) BY DEF CsgInv, CsgTypeOK
  <3> QED BY <3>1
 <2>2. stack' \in Seq(FrameRecords) BY DEF SameCalls
 <2> QED BY <1>2, <1>3, <2>1, <2>2 DEF CsgInv, CsgTypeOK, counterVars, ReportsTyped
<1>5. ActiveIsThePath' /\ FramesAreOpen' /\ CallsAreTracked' BY SameCallsInvariant
<1>6. WithinLimits' BY DEF CsgInv, WithinLimits, counterVars
<1>7. RequestIsAcyclic'
 <2>1. l.from \notin Registered' /\ l.to \in Registered' BY TopFacts DEF Registered
 <2> QED BY <1>1, <2>1, AcyclicStep
<1>8. SharedOnce' BY DEF CsgInv, SharedOnce
<1> QED BY <1>4, <1>5, <1>6, <1>7, <1>8 DEF CsgInv

LEMMA AppendFacts ==
  ASSUME CsgAssumption, model \in Models, CsgInv, NEW p \in Objects,
         NEW shape \in Shapes \cup {Chamfer}, NodeFits(p), AppendNode(p, shape)
  PROVE  /\ NodesKept
         /\ Len(nodes') = Len(nodes) + 1
         /\ Len(nodes) \in Nat
         /\ Len(nodes) + 1 \in NodeIndex' /\ Len(nodes) + 1 \notin NodeIndex
         /\ nodes'[Len(nodes) + 1] = Node(p, shape)
         /\ visited' \in Nat /\ bytes' \in Nat
         /\ visited' = Len(nodes') /\ visited' <= MaxNodes /\ bytes' <= MaxBytes
<1>1. nodes \in Seq(NodeRecords) /\ Len(nodes) \in Nat BY DEF CsgInv, CsgTypeOK
<1>2. Node(p, shape) \in NodeRecords BY DEF Node, NodeRecords
<1>3. /\ nodes' \in Seq(NodeRecords) /\ Len(nodes') = Len(nodes) + 1
      /\ nodes'[Len(nodes) + 1] = Node(p, shape)
      /\ \A n \in 1..Len(nodes) : nodes'[n] = nodes[n]
 BY <1>1, <1>2 DEF AppendNode
<1>4. NodesKept BY <1>1, <1>3 DEF NodesKept, NodeIndex
<1>5. Len(nodes) + 1 \in NodeIndex' /\ Len(nodes) + 1 \notin NodeIndex
 BY <1>1, <1>3 DEF NodeIndex
<1>6. model.bytes[p] \in Nat BY BytesType
<1>7. visited \in Nat /\ bytes \in Nat /\ visited = Len(nodes) /\ bytes <= MaxBytes
 BY DEF CsgInv, CsgTypeOK, WithinLimits
<1>8. MaxNodes \in Nat /\ MaxBytes \in Nat BY DEF CsgAssumption
<1>9. visited < MaxNodes /\ model.bytes[p] <= MaxBytes - bytes BY DEF NodeFits
<1>10. visited' = visited + 1 /\ bytes' = bytes + model.bytes[p] BY DEF AppendNode
<1> QED BY <1>1, <1>3, <1>4, <1>5, <1>6, <1>7, <1>8, <1>9, <1>10

\* The frames stay open when a node that is no frame's, of an object that is not active or of
\* an edge chamfer, is appended and perhaps registered.
LEMMA FramesKeptOpen ==
  ASSUME CsgAssumption, CsgInv, outcome = "building", NodesKept, SameCalls(stack'),
         NEW n, n \notin NodeIndex,
         shared' = shared \/ shared' = Append(shared, n),
         shared' # shared => nodes'[n].object \notin active,
         UNCHANGED <<model, active, outcome>>
  PROVE  ActiveIsThePath' /\ FramesAreOpen' /\ CallsAreTracked'
<1>1. DOMAIN stack' = DOMAIN stack /\ Len(stack') = Len(stack)
 BY DEF SameCalls, CsgInv, CsgTypeOK
<1>2. \A d \in DOMAIN stack : /\ stack'[d].node = stack[d].node
                              /\ stack'[d].chamfers \subseteq stack[d].chamfers
 BY DEF SameCalls
<1>3. \A d \in DOMAIN stack : stack[d].node \in NodeIndex BY FrameNodes
<1>4. \A d \in DOMAIN stack : nodes'[stack'[d].node] = nodes[stack[d].node]
 BY <1>2, <1>3 DEF NodesKept
<1>5. StackedObjects' = StackedObjects BY <1>1, <1>4 DEF StackedObjects
<1>6. ActiveIsThePath' BY <1>1, <1>4, <1>5 DEF CsgInv, ActiveIsThePath
<1>7. shared \in Seq(NodeIndex) BY DEF CsgInv, CsgTypeOK
<1>8. \A m \in Registered' : m \in Registered \/ (m = n /\ shared' # shared)
 BY <1>7 DEF Registered
<1>9. FramesAreOpen'
 <2> SUFFICES ASSUME NEW d \in DOMAIN stack
              PROVE  /\ stack'[d].chamfers \subseteq
                            StepsOf(nodes[stack[d].node].object, {79})
                     /\ nodes'[stack'[d].node].shape \in Shapes
                     /\ stack'[d].node \notin Registered'
                     /\ d > 1 => \A m \in Registered' : nodes'[m] # nodes'[stack'[d].node]
  BY <1>1, <1>4, ZenonT(40) DEF FramesAreOpen, StepsOf, Ops
 <2>1. /\ nodes'[stack'[d].node].shape \in Shapes
       /\ stack'[d].chamfers \subseteq StepsOf(nodes[stack[d].node].object, {79})
  BY <1>2, <1>4 DEF CsgInv, FramesAreOpen
 <2>2. stack'[d].node \notin Registered' BY <1>2, <1>3, <1>8 DEF CsgInv, FramesAreOpen
 <2>3. ASSUME d > 1, NEW m \in Registered' PROVE nodes'[m] # nodes'[stack'[d].node]
  <3>1. CASE m \in Registered
   <4>1. m \in NodeIndex BY <3>1, RegisteredFacts
   <4> QED BY <2>3, <3>1, <4>1, <1>4 DEF CsgInv, FramesAreOpen, NodesKept
  <3>2. CASE m = n /\ shared' # shared
   <4>1. nodes[stack[d].node].object \in active
    BY DEF CsgInv, ActiveIsThePath, StackedObjects
   <4> QED BY <3>2, <4>1, <1>4
  <3> QED BY <3>1, <3>2, <1>8
 <2> QED BY <2>1, <2>2, <2>3
<1>10. stack' # <<>> BY <1>1, TopFacts
<1>11. CallsAreTracked' BY <1>10 DEF CallsAreTracked
<1> QED BY <1>6, <1>9, <1>11

\* A new node that makes no call: linked or not, registered or an edge chamfer.
LEMMA AppendStep ==
  ASSUME CsgAssumption, model \in Models, CsgInv, outcome = "building",
         NEW p \in Objects, NEW shape \in Shapes \cup {Chamfer}, NEW kind \in {"union", "subtract"},
         NodeFits(p), AppendNode(p, shape), SameCalls(stack'), ReportsTyped,
         UNCHANGED <<model, planes, active, edges, outcome>>,
         shared' = shared \/ shared' = Append(shared, Len(nodes) + 1),
         shared' # shared => Matches(p, shape) = {} /\ p \notin active,
         links' = links \/ links' = Append(links, Link(Top.node, kind, Len(nodes) + 1)),
         links' # links => shared' # shared \/ shape = Chamfer
  PROVE  CsgInv'
<1> DEFINE n == Len(nodes) + 1
<1> DEFINE l == Link(Top.node, kind, n)
<1>1. /\ NodesKept /\ n \in NodeIndex' /\ n \notin NodeIndex
      /\ nodes'[n] = Node(p, shape)
      /\ visited' \in Nat /\ bytes' \in Nat
      /\ visited' = Len(nodes') /\ visited' <= MaxNodes /\ bytes' <= MaxBytes
 BY AppendFacts
<1>2. /\ NodeIndex \subseteq NodeIndex'
      /\ FrameRecords \subseteq FrameRecords'
      /\ LinkRecords \subseteq LinkRecords'
 BY <1>1, NodesKeptIndex
<1> HIDE DEF n
<1>3. l \in LinkRecords' /\ l.from = Top.node /\ l.to = n
 BY <1>1, <1>2, TopFacts DEF Link, LinkRecords
<1> HIDE DEF l
<1>4. CsgTypeOK'
 <2>1. links' \in Seq(LinkRecords')
  <3>1. links \in Seq(LinkRecords') BY <1>2, SeqMonotone DEF CsgInv, CsgTypeOK
  <3> QED BY <3>1, <1>3 DEF l, n
 <2>2. shared' \in Seq(NodeIndex')
  <3>1. shared \in Seq(NodeIndex') BY <1>2, SeqMonotone DEF CsgInv, CsgTypeOK
  <3> QED BY <3>1, <1>1 DEF n
 <2>3. stack' \in Seq(FrameRecords') BY <1>2, SeqMonotone DEF SameCalls
 <2>4. planes' \subseteq NodeIndex' \X Nat BY <1>2 DEF CsgInv, CsgTypeOK
 <2>5. nodes' \in Seq(NodeRecords) /\ NodeRecords' = NodeRecords
  BY <1>1 DEF NodesKept, NodeRecords
 <2> QED BY <1>1, <2>1, <2>2, <2>3, <2>4, <2>5 DEF CsgInv, CsgTypeOK, ReportsTyped
<1>5. ActiveIsThePath' /\ FramesAreOpen' /\ CallsAreTracked'
 <2>1. shared' # shared => nodes'[n].object \notin active BY <1>1 DEF Node
 <2>2. shared' = shared \/ shared' = Append(shared, n) BY DEF n
 <2> QED BY <1>1, <2>1, <2>2, FramesKeptOpen
<1>6. WithinLimits' BY <1>1 DEF CsgInv, WithinLimits
<1>7. Registered' = Registered \/ Registered' = Registered \cup {n}
 <2>1. shared' = shared \/ shared' = Append(shared, n) BY DEF n
 <2>2. shared' = shared => Registered' = Registered BY DEF Registered
 <2> QED BY <2>1, <2>2, RegisteredAppend
<1>8. RequestIsAcyclic'
 <2>1. Top.node \notin Registered' BY <1>1, <1>7, TopFacts
 <2>2. shared' # shared => n \in Registered'
  <3>1. shared \in Seq(NodeIndex) BY DEF CsgInv, CsgTypeOK
  <3> QED BY <3>1 DEF Registered, n
 <2>3. links' # links => IsChamferNext(l.to) \/ l.to \in Registered'
  BY <1>1, <1>3, <2>2 DEF IsChamferNext, Node
 <2>4. shared' = shared \/ shared' = Append(shared, n) BY DEF n
 <2>5. links' = links \/ links' = Append(links, l) BY DEF n, l
 <2> QED BY <1>1, <1>3, <2>1, <2>3, <2>4, <2>5, AcyclicStep
<1>9. SharedOnce'
 <2>1. shared' # shared => \A m \in Registered : nodes[m] # nodes'[n]
  BY <1>1 DEF Matches
 <2>2. shared' = shared \/ shared' = Append(shared, n) BY DEF n
 <2> QED BY <1>1, <2>1, <2>2, SharedOnceStep
<1> QED BY <1>4, <1>5, <1>6, <1>8, <1>9 DEF CsgInv

LEMMA OpsLength ==
  ASSUME CsgAssumption, model \in Models, CsgInv, NEW p \in Objects, EdgesFit(p)
  PROVE  edges + Len(Ops(p)) \in Nat /\ edges + Len(Ops(p)) <= MaxEdges
<1>1. Len(Ops(p)) \in Nat BY OpsType
<1>2. edges \in Nat /\ edges <= MaxEdges /\ MaxEdges \in Nat
 BY DEF CsgInv, CsgTypeOK, WithinLimits, CsgAssumption
<1> QED BY <1>1, <1>2 DEF EdgesFit

\* The operand on turn is a record of the types the model's tables give it.
LEMMA OperandFacts ==
  ASSUME CsgInv, NEW o, NextOperand(o)
  PROVE  /\ o \in OperandRecords /\ o.step \in Nat /\ o.target \in Objects
         /\ o.addition \in BOOLEAN /\ o.shape \in Shapes /\ outcome = "building"
<1>1. outcome = "building" /\ o \in Top.operands BY DEF NextOperand
<1>2. o \in OperandRecords BY <1>1, TopFacts
<1> QED BY <1>1, <1>2 DEF OperandRecords

\* A call on an operative: a new node, a new frame, a new active object.
LEMMA VisitNodeStep ==
  ASSUME CsgAssumption, model \in Models, CsgInv, NEW o, VisitNode(o)
  PROVE  CsgInv'
<1> DEFINE n == Len(nodes) + 1
<1> DEFINE st == OperandDone(o)
<1> DEFINE f == Frame(n, o.target, o.shape, o)
<1>1. /\ Enterable(o) /\ Matches(o.target, o.shape) = {} /\ NodeFits(o.target)
      /\ NextOperand(o) /\ Depth < MaxDepth /\ o.target \notin active
      /\ EdgesFit(o.target) /\ AppendNode(o.target, o.shape)
      /\ edges' = edges + Len(Ops(o.target))
      /\ stack' = Append(st, f)
      /\ active' = active \cup {o.target}
      /\ UNCHANGED <<model, links, planes, shared, truncated, outcome>>
 BY DEF VisitNode, Appendable, Enterable
<1>2. /\ o \in OperandRecords /\ o.target \in Objects /\ o.shape \in Shapes
      /\ outcome = "building"
 BY <1>1, OperandFacts
<1>3. /\ NodesKept /\ n \in NodeIndex' /\ n \notin NodeIndex /\ n \in Nat
      /\ nodes'[n] = Node(o.target, o.shape)
      /\ visited' \in Nat /\ bytes' \in Nat
      /\ visited' = Len(nodes') /\ visited' <= MaxNodes /\ bytes' <= MaxBytes
 BY <1>1, <1>2, AppendFacts
<1>4. /\ NodeIndex \subseteq NodeIndex'
      /\ FrameRecords \subseteq FrameRecords'
      /\ LinkRecords \subseteq LinkRecords'
      /\ OmissionRecords \subseteq OmissionRecords'
 BY <1>3, NodesKeptIndex
<1>5. f \in FrameRecords' /\ f.node = n /\ f.chamfers = StepsOf(o.target, {79})
 <2>1. f \in [node : {n}, operands : SUBSET OperandRecords,
              chamfers : SUBSET Nat, asked : OperandRecords]
  BY <1>2, <1>3, FrameType
 <2>2. OperandRecords' = OperandRecords BY DEF OperandRecords
 <2>3. f.chamfers = StepsOf(o.target, {79}) BY DEF Frame
 <2> QED BY <2>1, <2>2, <2>3, <1>3 DEF FrameRecords
<1>6. SameCalls(st) BY <1>2, OperandDoneCalls
<1>7. st \in Seq(FrameRecords) /\ st \in Seq(FrameRecords')
 BY <1>4, <1>6, SeqMonotone DEF SameCalls
<1> HIDE DEF n, st, f
<1>8. /\ stack' \in Seq(FrameRecords')
      /\ Len(stack) \in Nat
      /\ Len(stack') = Len(stack) + 1
      /\ stack'[Len(stack) + 1] = f
      /\ \A d \in DOMAIN stack : /\ d \in DOMAIN stack'
                                /\ stack'[d].node = stack[d].node
                                /\ stack'[d].chamfers \subseteq stack[d].chamfers
      /\ \A d \in DOMAIN stack' : d \in DOMAIN stack \/ d = Len(stack) + 1
      /\ Len(stack) + 1 \in DOMAIN stack'
 <2>1. /\ Len(st) = Len(stack)
       /\ \A d \in DOMAIN stack : /\ st[d].node = stack[d].node
                                 /\ st[d].chamfers \subseteq stack[d].chamfers
  BY <1>6 DEF SameCalls
 <2>2. stack \in Seq(FrameRecords) BY DEF CsgInv, CsgTypeOK
 <2> QED BY <1>1, <1>5, <1>7, <2>1, <2>2
<1>9. \A d \in DOMAIN stack : nodes'[stack'[d].node] = nodes[stack[d].node]
 BY <1>3, <1>8, FrameNodes DEF NodesKept
<1>10. nodes'[stack'[Len(stack) + 1].node] = Node(o.target, o.shape) BY <1>3, <1>5, <1>8
<1>11. CsgTypeOK'
 <2>1. links' \in Seq(LinkRecords') BY <1>1, <1>4, SeqMonotone DEF CsgInv, CsgTypeOK
 <2>2. shared' \in Seq(NodeIndex') BY <1>1, <1>4, SeqMonotone DEF CsgInv, CsgTypeOK
 <2>3. planes' \subseteq NodeIndex' \X Nat BY <1>1, <1>4 DEF CsgInv, CsgTypeOK
 <2>4. nodes' \in Seq(NodeRecords') BY <1>3 DEF NodesKept, NodeRecords
 <2>5. omissions' \subseteq OmissionRecords'
  <3>1. \A i \in MissingSteps(o.target) :
            Omission(n, i, "invalid_geometry") \in OmissionRecords'
   BY <1>2, <1>3, MissingType DEF Omission, OmissionRecords
  <3>2. omissions \subseteq OmissionRecords' BY <1>4 DEF CsgInv, CsgTypeOK
  <3>3. omissions' = omissions \cup
            {Omission(n, i, "invalid_geometry") : i \in MissingSteps(o.target)}
   BY DEF VisitNode, n
  <3> QED BY <3>1, <3>2, <3>3
 <2>6. truncated' \subseteq NodeIndex' \X Objects BY <1>1, <1>4 DEF CsgInv, CsgTypeOK
 <2>7. active' \subseteq Objects BY <1>1, <1>2 DEF CsgInv, CsgTypeOK
 <2>8. edges' \in Nat BY <1>1, <1>2, OpsLength
 <2>9. outcome' = "building" BY <1>1, <1>2
 <2> QED BY <1>3, <1>8, <2>1, <2>2, <2>3, <2>4, <2>5, <2>6, <2>7, <2>8, <2>9 DEF CsgTypeOK
<1>12. ActiveIsThePath'
 <2>1. StackedObjects' = StackedObjects \cup {o.target}
  BY <1>8, <1>9, <1>10 DEF StackedObjects, Node
 <2>2. active' = StackedObjects' BY <1>1, <2>1 DEF CsgInv, ActiveIsThePath
 <2>3. \A d \in DOMAIN stack : nodes'[stack'[d].node].object # o.target
  <3>1. \A d \in DOMAIN stack : nodes[stack[d].node].object \in active
   BY DEF CsgInv, ActiveIsThePath, StackedObjects
  <3> QED BY <3>1, <1>1, <1>9
 <2>4. \A c, d \in DOMAIN stack' :
           nodes'[stack'[c].node].object = nodes'[stack'[d].node].object => c = d
  <3> SUFFICES ASSUME NEW c \in DOMAIN stack', NEW d \in DOMAIN stack',
                      nodes'[stack'[c].node].object = nodes'[stack'[d].node].object
               PROVE  c = d
   OBVIOUS
  <3>1. CASE c \in DOMAIN stack /\ d \in DOMAIN stack
   BY <3>1, <1>9 DEF CsgInv, ActiveIsThePath
  <3>2. nodes'[stack'[Len(stack) + 1].node].object = o.target BY <1>10 DEF Node
  <3> QED BY <3>1, <3>2, <2>3, <1>8
 <2>5. Len(stack') <= MaxDepth
  BY <1>1, <1>8 DEF Depth, CsgAssumption
 <2> QED BY <2>2, <2>4, <2>5 DEF ActiveIsThePath
<1>13. Registered' = Registered BY <1>1 DEF Registered
<1>14. FramesAreOpen'
 <2>1. \A m \in Registered : nodes'[m] = nodes[m] BY <1>3, RegisteredFacts DEF NodesKept
 <2>2. ASSUME NEW d \in DOMAIN stack
       PROVE  /\ stack'[d].chamfers \subseteq StepsOf(nodes[stack[d].node].object, {79})
              /\ nodes'[stack'[d].node].shape \in Shapes
              /\ stack'[d].node \notin Registered'
              /\ d > 1 => \A m \in Registered' : nodes'[m] # nodes'[stack'[d].node]
  BY <1>8, <1>9, <1>13, <2>1 DEF CsgInv, FramesAreOpen
 <2>3. /\ stack'[Len(stack) + 1].chamfers = StepsOf(o.target, {79})
       /\ nodes'[stack'[Len(stack) + 1].node].object = o.target
       /\ nodes'[stack'[Len(stack) + 1].node].shape \in Shapes
       /\ stack'[Len(stack) + 1].node \notin Registered'
       /\ \A m \in Registered' : nodes'[m] # nodes'[stack'[Len(stack) + 1].node]
  <3>1. n \notin Registered BY <1>3, RegisteredFacts
  <3>2. \A m \in Registered : nodes[m] # Node(o.target, o.shape) BY <1>1 DEF Matches
  <3> QED BY <3>1, <3>2, <2>1, <1>2, <1>5, <1>8, <1>10, <1>13 DEF Node
 <2>4. \A d \in DOMAIN stack' :
           /\ stack'[d].chamfers \subseteq StepsOf(nodes'[stack'[d].node].object, {79})
           /\ nodes'[stack'[d].node].shape \in Shapes
           /\ stack'[d].node \notin Registered'
           /\ d > 1 => \A m \in Registered' : nodes'[m] # nodes'[stack'[d].node]
  BY <2>2, <2>3, <1>8, <1>9
 <2>5. \A p : StepsOf(p, {79})' = StepsOf(p, {79})
  BY <1>1 DEF StepsOf, Ops
 <2> QED BY ONLY <2>4, <2>5 DEF FramesAreOpen
<1>15. CallsAreTracked'
 <2>1. stack' # <<>> BY <1>8
 <2> QED BY <2>1, <1>1, <1>2 DEF CallsAreTracked
<1>16. WithinLimits' BY <1>1, <1>2, <1>3, OpsLength DEF WithinLimits
<1>17. RequestIsAcyclic' BY <1>1, <1>3, AcyclicStep
<1>18. SharedOnce' BY <1>1, <1>3, SharedOnceStep
<1> QED BY <1>11, <1>12, <1>14, <1>15, <1>16, <1>17, <1>18 DEF CsgInv

LEMMA InitInv == ASSUME CsgAssumption, Init PROVE CsgInv
<1>1. CsgTypeOK BY DEF Init, CsgTypeOK
<1>2. ActiveIsThePath BY DEF Init, ActiveIsThePath, StackedObjects, CsgAssumption
<1>3. WithinLimits BY DEF Init, WithinLimits, CsgAssumption
<1>4. RequestIsAcyclic BY DEF Init, RequestIsAcyclic
<1>5. SharedOnce BY DEF Init, SharedOnce
<1>6. FramesAreOpen BY DEF Init, FramesAreOpen
<1>7. CallsAreTracked BY DEF Init, CallsAreTracked
<1> QED BY <1>1, <1>2, <1>3, <1>4, <1>5, <1>6, <1>7 DEF CsgInv

\* The call on the root.
LEMMA StartStep ==
  ASSUME CsgAssumption, model \in Models, CsgInv, Start
  PROVE  CsgInv'
<1> DEFINE f == Frame(1, Root, AsDecoded, NoOperand)
<1>1. /\ NodeFits(Root) /\ EdgesFit(Root) /\ AppendNode(Root, AsDecoded)
      /\ edges' = edges + Len(Ops(Root))
      /\ stack' = <<f>> /\ active' = {Root} /\ outcome' = "building"
      /\ UNCHANGED <<model, links, planes, shared, truncated>>
 BY DEF Start
<1>2. nodes = <<>> /\ links = <<>> /\ shared = <<>>
 BY DEF Start, CsgInv, CallsAreTracked
<1>3. Root \in Objects /\ AsDecoded \in Shapes BY DEF CsgAssumption
<1>4. /\ NodesKept /\ 1 \in NodeIndex'
      /\ nodes'[1] = Node(Root, AsDecoded)
      /\ visited' \in Nat /\ bytes' \in Nat
      /\ visited' = Len(nodes') /\ visited' <= MaxNodes /\ bytes' <= MaxBytes
 <2>1. Len(nodes) + 1 = 1 BY <1>2
 <2> QED BY <1>1, <1>3, <2>1, AppendFacts
<1>5. /\ NodeIndex \subseteq NodeIndex'
      /\ OmissionRecords \subseteq OmissionRecords'
 BY <1>4, NodesKeptIndex
<1>6. f \in FrameRecords' /\ f.node = 1 /\ f.chamfers = StepsOf(Root, {79})
 <2>1. NoOperand \in OperandRecords BY <1>3 DEF NoOperand, OperandRecords
 <2>2. f \in [node : {1}, operands : SUBSET OperandRecords,
              chamfers : SUBSET Nat, asked : OperandRecords]
  BY <1>3, <2>1, FrameType
 <2>3. OperandRecords' = OperandRecords BY DEF OperandRecords
 <2>4. f.chamfers = StepsOf(Root, {79}) BY DEF Frame
 <2> QED BY <2>2, <2>3, <2>4, <1>4 DEF FrameRecords
<1> HIDE DEF f
<1>7. /\ stack' \in Seq(FrameRecords') /\ Len(stack') = 1 /\ DOMAIN stack' = {1}
      /\ stack'[1].node = 1 /\ stack' # <<>>
      /\ stack'[1].chamfers = StepsOf(Root, {79})
 BY <1>1, <1>6
<1>8. CsgTypeOK'
 <2>1. links' \in Seq(LinkRecords') BY <1>1, <1>2
 <2>2. shared' \in Seq(NodeIndex') BY <1>1, <1>2
 <2>3. planes' \subseteq NodeIndex' \X Nat BY <1>1, <1>5 DEF CsgInv, CsgTypeOK
 <2>4. nodes' \in Seq(NodeRecords') BY <1>4 DEF NodesKept, NodeRecords
 <2>5. omissions' \subseteq OmissionRecords'
  <3>1. \A i \in MissingSteps(Root) :
            Omission(1, i, "invalid_geometry") \in OmissionRecords'
   BY <1>3, <1>4, MissingType DEF Omission, OmissionRecords
  <3> QED BY <3>1 DEF Start
 <2>6. truncated' \subseteq NodeIndex' \X Objects BY <1>1, <1>5 DEF CsgInv, CsgTypeOK
 <2>7. active' \subseteq Objects BY <1>1, <1>3
 <2>8. edges' \in Nat BY <1>1, <1>3, OpsLength
 <2> QED BY <1>1, <1>4, <1>7, <2>1, <2>2, <2>3, <2>4, <2>5, <2>6, <2>7, <2>8 DEF CsgTypeOK
<1>9. ActiveIsThePath'
 <2>1. StackedObjects' = {Root} BY <1>4, <1>7 DEF StackedObjects, Node
 <2>2. 1 <= MaxDepth BY DEF CsgAssumption
 <2> QED BY <1>1, <1>7, <2>1, <2>2 DEF ActiveIsThePath
<1>10. WithinLimits' BY <1>1, <1>3, <1>4, OpsLength DEF WithinLimits
<1>11. RequestIsAcyclic' BY <1>1, <1>2 DEF RequestIsAcyclic
<1>12. SharedOnce' BY <1>1, <1>2 DEF SharedOnce
<1>13. FramesAreOpen'
 <2>1. Registered' = {} BY <1>1, <1>2 DEF Registered
 <2> QED BY <1>1, <1>3, <1>4, <1>7, <2>1 DEF FramesAreOpen, Node, StepsOf, Ops
<1>14. CallsAreTracked' BY <1>1, <1>7 DEF CallsAreTracked
<1> QED BY <1>8, <1>9, <1>10, <1>11, <1>12, <1>13, <1>14 DEF CsgInv

\* The call on top returns: it may register its node and link it to the caller's.
LEMMA PopStep ==
  ASSUME CsgAssumption, CsgInv, outcome = "building", Pop, ReportsTyped,
         UNCHANGED <<model, nodes, counterVars>>,
         planes' \subseteq NodeIndex \X Nat,
         NEW kind \in {"union", "subtract"},
         \/ shared' = shared /\ links' = links
         \/ /\ Len(stack) > 1
            /\ shared' = Append(shared, Top.node)
            /\ links' = Append(links, Link(Caller.node, kind, Top.node)),
         IF Len(stack) > 1 THEN outcome' = "building"
                           ELSE outcome' \in {"nothing", "request", "resource_limit"}
  PROVE  CsgInv'
<1> DEFINE l == Link(Caller.node, kind, Top.node)
<1>1. /\ stack \in Seq(FrameRecords) /\ stack # <<>>
      /\ Len(stack) \in Nat \ {0} /\ DOMAIN stack = 1..Len(stack)
      /\ Len(stack) \in DOMAIN stack
      /\ Top.node \in NodeIndex /\ Top.node \notin Registered
 BY TopFacts DEF CsgInv, CsgTypeOK
<1>2. /\ stack' \in Seq(FrameRecords)
      /\ Len(stack') = Len(stack) - 1
      /\ DOMAIN stack' = 1..(Len(stack) - 1)
      /\ \A d \in DOMAIN stack' : d \in DOMAIN stack /\ d # Len(stack) /\ stack'[d] = stack[d]
 <2>1. stack' = SubSeq(stack, 1, Len(stack) - 1) BY DEF Pop
 <2> QED BY <1>1, <2>1
<1>3. NodesKept BY DEF NodesKept, CsgInv, CsgTypeOK
<1>4. NodeIndex' = NodeIndex BY DEF NodeIndex
<1>5. FrameRecords' = FrameRecords /\ LinkRecords' = LinkRecords /\ NodeRecords' = NodeRecords
 BY <1>4 DEF FrameRecords, LinkRecords, OperandRecords, NodeRecords
<1>6. Len(stack) > 1 => Len(stack) - 1 \in DOMAIN stack /\ Caller.node \in NodeIndex
 BY <1>1, FrameNodes DEF Caller
<1>7. Len(stack) > 1 => l \in LinkRecords /\ l.from = Caller.node /\ l.to = Top.node
 BY <1>1, <1>6 DEF Link, LinkRecords
<1> HIDE DEF l
<1>8. CsgTypeOK'
 <2>1. links' \in Seq(LinkRecords)
  <3>1. links \in Seq(LinkRecords) BY DEF CsgInv, CsgTypeOK
  <3> QED BY <3>1, <1>7 DEF l
 <2>2. shared' \in Seq(NodeIndex)
  <3>1. shared \in Seq(NodeIndex) BY DEF CsgInv, CsgTypeOK
  <3>2. shared' = shared \/ shared' = Append(shared, Top.node) OBVIOUS
  <3>3. Append(shared, Top.node) \in Seq(NodeIndex) BY <3>1, <1>1
  <3> QED BY <3>1, <3>2, <3>3
 <2>3. active' \subseteq Objects BY DEF Pop, CsgInv, CsgTypeOK
 <2>4. outcome' \in {"idle", "building", "nothing", "request", "resource_limit"} OBVIOUS
 <2>5. visited' \in Nat /\ edges' \in Nat /\ bytes' \in Nat /\ nodes' \in Seq(NodeRecords)
  BY DEF CsgInv, CsgTypeOK, counterVars
 <2> QED BY <1>2, <1>4, <1>5, <2>1, <2>2, <2>3, <2>4, <2>5 DEF CsgTypeOK, ReportsTyped
<1>9. ActiveIsThePath'
 <2>1. \A d \in DOMAIN stack' : nodes'[stack'[d].node] = nodes[stack[d].node] BY <1>2
 <2>2. StackedObjects' = StackedObjects \ {nodes[Top.node].object}
  <3>1. \A d \in DOMAIN stack' : nodes[stack[d].node].object # nodes[Top.node].object
   BY <1>1, <1>2 DEF CsgInv, ActiveIsThePath, Top
  <3>2. \A d \in DOMAIN stack : d \in DOMAIN stack' \/ d = Len(stack) BY <1>1, <1>2
  <3> QED BY <2>1, <3>1, <3>2, <1>2 DEF StackedObjects, Top
 <2>3. active' = StackedObjects' BY <2>2 DEF Pop, CsgInv, ActiveIsThePath
 <2>4. \A c, d \in DOMAIN stack' :
           nodes'[stack'[c].node].object = nodes'[stack'[d].node].object => c = d
  BY <2>1, <1>2 DEF CsgInv, ActiveIsThePath
 <2>5. Len(stack') <= MaxDepth
  BY <1>1, <1>2 DEF CsgInv, ActiveIsThePath, CsgAssumption
 <2> QED BY <2>3, <2>4, <2>5 DEF ActiveIsThePath
<1>10. WithinLimits' BY DEF CsgInv, WithinLimits, counterVars
<1>11. \/ shared' = shared /\ Registered' = Registered
       \/ Len(stack) > 1 /\ Registered' = Registered \cup {Top.node}
 BY RegisteredAppend DEF Registered
<1>12. RequestIsAcyclic'
 <2>1. CASE shared' = shared /\ links' = links BY <2>1, <1>3, AcyclicStep
 <2>2. CASE /\ Len(stack) > 1
            /\ shared' = Append(shared, Top.node)
            /\ links' = Append(links, l)
  <3>1. Registered' = Registered \cup {Top.node} BY <2>2, RegisteredAppend
  <3>2. Caller.node \notin Registered
   BY <1>6, <2>2 DEF CsgInv, FramesAreOpen, Caller
  <3>3. Caller.node # Top.node
   <4>0. Len(stack) \in Nat /\ Len(stack) > 1 BY <1>1, <2>2
   <4>1. Len(stack) - 1 \in DOMAIN stack /\ Len(stack) - 1 # Len(stack)
    BY <1>6, <4>0
   <4>2. nodes[stack[Len(stack) - 1].node].object # nodes[stack[Len(stack)].node].object
    BY <1>1, <4>1 DEF CsgInv, ActiveIsThePath
   <4> QED BY <4>2 DEF Caller, Top
  <3>4. l.from \notin Registered' /\ l.to \in Registered'
   BY <1>7, <2>2, <3>1, <3>2, <3>3
  <3> QED BY <1>3, <2>2, <3>4, AcyclicStep
 <2> QED BY <2>1, <2>2 DEF l
<1>13. SharedOnce'
 <2>1. Len(stack) > 1 => \A m \in Registered : nodes[m] # nodes[Top.node]
  BY <1>1 DEF CsgInv, FramesAreOpen, Top
 <2> QED BY <1>1, <1>3, <1>4, <2>1, SharedOnceStep
<1>14. FramesAreOpen'
 <2>1. ASSUME NEW d \in DOMAIN stack'
       PROVE  /\ stack'[d].chamfers \subseteq StepsOf(nodes'[stack'[d].node].object, {79})
              /\ nodes'[stack'[d].node].shape \in Shapes
              /\ stack'[d].node \notin Registered'
              /\ d > 1 => \A m \in Registered' : nodes'[m] # nodes'[stack'[d].node]
  <3>1. d \in DOMAIN stack /\ d # Len(stack) /\ stack'[d] = stack[d] /\ nodes' = nodes
   BY <1>2
  <3>2. /\ stack[d].chamfers \subseteq StepsOf(nodes[stack[d].node].object, {79})
        /\ nodes[stack[d].node].shape \in Shapes
        /\ stack[d].node \notin Registered
        /\ d > 1 => \A m \in Registered : nodes[m] # nodes[stack[d].node]
   BY <3>1 DEF CsgInv, FramesAreOpen
  <3>3. nodes[stack[d].node] # nodes[Top.node] /\ stack[d].node # Top.node
   BY <1>1, <3>1 DEF CsgInv, ActiveIsThePath, Top
  <3> QED BY <3>1, <3>2, <3>3, <1>11
 <2>2. \A d \in DOMAIN stack' :
           /\ stack'[d].chamfers \subseteq StepsOf(nodes'[stack'[d].node].object, {79})
           /\ nodes'[stack'[d].node].shape \in Shapes
           /\ stack'[d].node \notin Registered'
           /\ d > 1 => \A m \in Registered' : nodes'[m] # nodes'[stack'[d].node]
  BY <2>1
 <2>3. \A p : StepsOf(p, {79})' = StepsOf(p, {79})
  BY DEF StepsOf, Ops
 <2> QED BY ONLY <2>2, <2>3 DEF FramesAreOpen
<1>15. CallsAreTracked'
 <2>1. Len(stack) > 1 <=> stack' # <<>> BY <1>1, <1>2
 <2> QED BY <2>1 DEF CallsAreTracked
<1> QED BY <1>8, <1>9, <1>10, <1>12, <1>13, <1>14, <1>15 DEF CsgInv

-----------------------------------------------------------------------------
(***************************************************************************)
(* Every step is of one of the kinds.                                      *)
(***************************************************************************)

LEMMA OmissionType ==
  ASSUME CsgInv, outcome = "building", NEW i \in Nat,
         NEW code \in {"resource_limit", "invalid_topology", "invalid_geometry",
                       "decoder_unavailable"}
  PROVE  omissions \cup {Omission(Top.node, i, code)} \subseteq OmissionRecords
<1>1. Omission(Top.node, i, code) \in OmissionRecords
 BY TopFacts DEF Omission, OmissionRecords
<1> QED BY <1>1 DEF CsgInv, CsgTypeOK

\* An operand that is refused or shared.
LEMMA VisitAnswered ==
  ASSUME CsgAssumption, model \in Models, CsgInv, NEW o,
         VisitTooDeep(o) \/ VisitCycle(o) \/ VisitShared(o) \/ VisitOverLimits(o)
  PROVE  CsgInv'
<1>1. NextOperand(o)
 BY DEF VisitTooDeep, VisitCycle, VisitShared, VisitOverLimits, Enterable
<1>2. /\ o.step \in Nat /\ outcome = "building" BY <1>1, OperandFacts
<1>3. SameCalls(OperandDone(o)) BY <1>2, OperandDoneCalls
<1>4. Top.node \in NodeIndex BY <1>2, TopFacts
<1>5. truncated \subseteq NodeIndex \X Objects /\ omissions \subseteq OmissionRecords
 BY DEF CsgInv, CsgTypeOK
<1>6. ASSUME NEW code \in {"resource_limit", "invalid_topology"}, Omit(o, code), nodes' = nodes
      PROVE  omissions' \subseteq OmissionRecords' /\ SameCalls(stack')
 <2>1. OmissionRecords' = OmissionRecords BY <1>6 DEF OmissionRecords, NodeIndex
 <2>2. omissions' \subseteq OmissionRecords BY <1>2, <1>6, OmissionType DEF Omit
 <2> QED BY <1>3, <1>6, <2>1, <2>2 DEF Omit
<1>7. CASE VisitShared(o)
 <2> PICK n \in Matches(o.target, o.shape) :
         /\ links' = Append(links, Link(Top.node, LinkKind(o), n))
         /\ truncated' = Inherits(Top.node, n)
  BY <1>7 DEF VisitShared
 <2>1. n \in Registered /\ n \in NodeIndex BY RegisteredFacts DEF Matches
 <2>2. LinkKind(o) \in {"union", "subtract"} BY DEF LinkKind
 <2> DEFINE l == Link(Top.node, LinkKind(o), n)
 <2>3. l \in LinkRecords /\ l.from = Top.node /\ l.to \in Registered
  BY <1>4, <2>1, <2>2 DEF Link, LinkRecords
 <2> HIDE DEF l
 <2>4. links' = Append(links, l) BY DEF l
 <2>5. /\ stack' = OperandDone(o)
       /\ UNCHANGED <<model, nodes, planes, active, shared, counterVars, omissions, outcome>>
  BY <1>7 DEF VisitShared
 <2>6. ReportsTyped
  <3>1. truncated' \subseteq NodeIndex \X Objects BY <1>4, InheritsType
  <3> QED BY <1>5, <2>5, <3>1 DEF ReportsTyped, OmissionRecords, NodeIndex
 <2>7. SameCalls(stack') BY <1>3, <2>5
 <2> QED BY <1>2, <2>3, <2>4, <2>5, <2>6, <2>7, AnswerStep
<1>8. ASSUME ReportsTyped, SameCalls(stack'),
             UNCHANGED <<model, nodes, links, planes, active, shared, counterVars, outcome>>
      PROVE  CsgInv'
 <2>1. NodesKept BY <1>8 DEF NodesKept, CsgInv, CsgTypeOK
 <2>2. /\ NodeIndex' = NodeIndex /\ FrameRecords' = FrameRecords
       /\ LinkRecords' = LinkRecords
  BY <1>8 DEF NodeIndex, FrameRecords, LinkRecords, OperandRecords
 <2>3. stack' \in Seq(FrameRecords) BY <1>8 DEF SameCalls
 <2>4. CsgTypeOK' BY <1>8, <2>2, <2>3 DEF CsgInv, CsgTypeOK, counterVars, ReportsTyped
 <2>5. ActiveIsThePath' /\ FramesAreOpen' /\ CallsAreTracked'
  BY <1>2, <1>8, SameCallsInvariant
 <2>6. WithinLimits' BY <1>8 DEF CsgInv, WithinLimits, counterVars
 <2>7. RequestIsAcyclic' BY <1>8, <2>1, AcyclicStep
 <2>8. SharedOnce' BY <1>8 DEF CsgInv, SharedOnce
 <2> QED BY <2>4, <2>5, <2>6, <2>7, <2>8 DEF CsgInv
<1>9. CASE VisitTooDeep(o)
 <2>1. /\ Omit(o, "resource_limit") /\ truncated' = truncated
       /\ UNCHANGED <<model, nodes, links, planes, active, shared, counterVars, outcome>>
  BY <1>9 DEF VisitTooDeep, requestVars
 <2>2. truncated' \subseteq NodeIndex' \X Objects BY <1>5, <2>1 DEF NodeIndex
 <2> QED BY <1>6, <1>8, <2>1, <2>2 DEF ReportsTyped
<1>10. CASE VisitCycle(o)
 <2>1. /\ Omit(o, "invalid_topology") /\ truncated' = truncated \cup LostAt(Top.node, {o.target})
       /\ UNCHANGED <<model, nodes, links, planes, active, shared, counterVars, outcome>>
  BY <1>10 DEF VisitCycle, requestVars
 <2>3. {o.target} \in SUBSET Objects BY <1>1, OperandFacts
 <2>2. truncated' \subseteq NodeIndex' \X Objects
  <3>1. LostAt(Top.node, {o.target}) \subseteq NodeIndex \X Objects BY <1>4, <2>3, LostType
  <3>2. truncated' \subseteq NodeIndex \X Objects BY <1>5, <2>1, <3>1
  <3> QED BY <2>1, <3>2 DEF NodeIndex
 <2> QED BY <1>6, <1>8, <2>1, <2>2 DEF ReportsTyped
<1>11. CASE VisitOverLimits(o)
 <2>1. /\ Omit(o, "resource_limit") /\ truncated' = truncated
       /\ UNCHANGED <<model, nodes, links, planes, active, shared, counterVars, outcome>>
  BY <1>11 DEF VisitOverLimits, requestVars
 <2>2. truncated' \subseteq NodeIndex' \X Objects BY <1>5, <2>1 DEF NodeIndex
 <2> QED BY <1>6, <1>8, <2>1, <2>2 DEF ReportsTyped
<1> QED BY <1>7, <1>9, <1>10, <1>11

\* An operand that gets a node but no call.
LEMMA VisitAppended ==
  ASSUME CsgAssumption, model \in Models, CsgInv, NEW o,
         VisitLeaf(o) \/ VisitOverEdges(o)
  PROVE  CsgInv'
<1>1. Appendable(o) BY DEF VisitLeaf, VisitOverEdges
<1>2. /\ NextOperand(o) /\ o.target \notin active
      /\ Matches(o.target, o.shape) = {} /\ NodeFits(o.target)
 BY <1>1 DEF Appendable, Enterable
<1>3. /\ o.step \in Nat /\ o.target \in Objects /\ o.shape \in Shapes /\ outcome = "building"
 BY <1>2, OperandFacts
<1>4. SameCalls(OperandDone(o)) BY <1>3, OperandDoneCalls
<1>5. AppendNode(o.target, o.shape) BY DEF VisitLeaf, VisitOverEdges
<1>6. NodesKept BY <1>2, <1>3, <1>5, AppendFacts
<1>7. NodeIndex \subseteq NodeIndex' /\ OmissionRecords \subseteq OmissionRecords'
 BY <1>6, NodesKeptIndex
<1>8. truncated \subseteq NodeIndex \X Objects /\ omissions \subseteq OmissionRecords
 BY DEF CsgInv, CsgTypeOK
<1>9. CASE VisitLeaf(o)
 <2>1. /\ shared' = Append(shared, Len(nodes) + 1)
       /\ links' = Append(links, Link(Top.node, LinkKind(o), Len(nodes) + 1))
       /\ stack' = OperandDone(o)
       /\ UNCHANGED <<model, planes, active, edges, omissions, truncated, outcome>>
  BY <1>9 DEF VisitLeaf
 <2>2. ReportsTyped BY <1>7, <1>8, <2>1 DEF ReportsTyped
 <2>3. shared' # shared
  <3>1. shared \in Seq(NodeIndex) BY DEF CsgInv, CsgTypeOK
  <3> QED BY <2>1, <3>1
 <2>4. LinkKind(o) \in {"union", "subtract"} BY DEF LinkKind
 <2>5. SameCalls(stack') BY <1>4, <2>1
 <2> QED BY <1>2, <1>3, <1>5, <2>1, <2>2, <2>3, <2>4, <2>5, AppendStep
<1>10. CASE VisitOverEdges(o)
 <2>1. /\ Omit(o, "resource_limit")
       /\ UNCHANGED <<model, links, planes, active, shared, edges, truncated, outcome>>
  BY <1>10 DEF VisitOverEdges
 <2>2. omissions' \subseteq OmissionRecords' BY <1>3, <1>7, <2>1, OmissionType DEF Omit
 <2>3. ReportsTyped BY <1>7, <1>8, <2>1, <2>2 DEF ReportsTyped
 <2>4. SameCalls(stack') BY <1>4, <2>1 DEF Omit
 <2> QED BY <1>2, <1>3, <1>5, <2>1, <2>3, <2>4, AppendStep
<1> QED BY <1>9, <1>10

\* An edge chamfer of the object on top.
LEMMA ChamferFacts ==
  ASSUME CsgAssumption, model \in Models, CsgInv, NEW i, NextChamfer(i)
  PROVE  /\ outcome = "building" /\ i \in Nat /\ SameCalls(ChamferDone(i))
         /\ Ops(nodes[Top.node].object)[i].target \in Objects
<1>1. outcome = "building" /\ i \in Top.chamfers BY DEF NextChamfer
<1>2. i \in Nat BY <1>1, TopFacts
<1>3. i \in DOMAIN Ops(nodes[Top.node].object)
 BY <1>1, TopFacts DEF CsgInv, FramesAreOpen, StepsOf, Top
<1>4. nodes[Top.node].object \in Objects BY <1>1, TopFacts
<1>5. Ops(nodes[Top.node].object)[i] \in Operation BY <1>3, <1>4, OpsType
<1> QED BY <1>1, <1>2, <1>5, ChamferDoneCalls DEF Operation

LEMMA ChamferCut ==
  ASSUME CsgAssumption, model \in Models, CsgInv, NEW i,
         ChamferUnsupported(i) \/ ChamferAppended(i)
  PROVE  CsgInv'
<1> DEFINE c == Ops(nodes[Top.node].object)[i].target
<1>1. NextChamfer(i) BY DEF ChamferUnsupported, ChamferAppended
<1>2. outcome = "building" /\ i \in Nat /\ SameCalls(ChamferDone(i)) /\ c \in Objects
 BY <1>1, ChamferFacts
<1>3. truncated \subseteq NodeIndex \X Objects /\ omissions \subseteq OmissionRecords
 BY DEF CsgInv, CsgTypeOK
<1>4. CASE ChamferUnsupported(i)
 <2>1. /\ stack' = ChamferDone(i)
       /\ omissions' = omissions \cup {Omission(Top.node, i, "decoder_unavailable")}
       /\ UNCHANGED <<model, nodes, links, planes, active, shared, counterVars, truncated,
                      outcome>>
  BY <1>4 DEF ChamferUnsupported, requestVars
 <2>2. NodesKept BY <2>1 DEF NodesKept, CsgInv, CsgTypeOK
 <2>3. /\ NodeIndex' = NodeIndex /\ FrameRecords' = FrameRecords
       /\ LinkRecords' = LinkRecords /\ OmissionRecords' = OmissionRecords
  BY <2>1 DEF NodeIndex, FrameRecords, LinkRecords, OperandRecords, OmissionRecords
 <2>4. omissions' \subseteq OmissionRecords BY <1>2, <2>1, OmissionType
 <2>5. stack' \in Seq(FrameRecords) /\ SameCalls(stack') BY <1>2, <2>1 DEF SameCalls
 <2>6. CsgTypeOK' BY <1>3, <2>1, <2>3, <2>4, <2>5 DEF CsgInv, CsgTypeOK, counterVars
 <2>7. ActiveIsThePath' /\ FramesAreOpen' /\ CallsAreTracked'
  BY <1>2, <2>1, <2>5, SameCallsInvariant
 <2>8. WithinLimits' BY <2>1 DEF CsgInv, WithinLimits, counterVars
 <2>9. RequestIsAcyclic' BY <2>1, <2>2, AcyclicStep
 <2>10. SharedOnce' BY <2>1 DEF CsgInv, SharedOnce
 <2> QED BY <2>6, <2>7, <2>8, <2>9, <2>10 DEF CsgInv
<1>5. CASE ChamferAppended(i)
 <2>1. /\ NodeFits(c) /\ AppendNode(c, Chamfer)
       /\ links' = Append(links, Link(Top.node, "subtract", Len(nodes) + 1))
       /\ stack' = ChamferDone(i)
       /\ UNCHANGED <<model, planes, active, edges, shared, omissions, truncated, outcome>>
  BY <1>5 DEF ChamferAppended
 <2>2. c \in Objects BY <1>2
 <2> HIDE DEF c
 <2>3. NodesKept BY <2>1, <2>2, AppendFacts
 <2>4. ReportsTyped BY <1>3, <2>1, <2>3, NodesKeptIndex DEF ReportsTyped
 <2>5. outcome = "building" /\ SameCalls(stack') BY <1>2, <2>1
 <2>6. UNCHANGED <<model, planes, active, edges, outcome>> BY <2>1
 <2>7. /\ shared' = shared
       /\ links' = Append(links, Link(Top.node, "subtract", Len(nodes) + 1))
  BY <2>1
 <2>8. NodeFits(c) /\ AppendNode(c, Chamfer) BY <2>1
 <2> QED BY <2>2, <2>4, <2>5, <2>6, <2>7, <2>8, AppendStep
<1> QED BY <1>4, <1>5

\* A call that returns.
LEMMA Returned ==
  ASSUME CsgAssumption, model \in Models, CsgInv,
         CloseNode \/ CloseRoot \/ (\E i : ChamferOverLimits(i))
  PROVE  CsgInv'
<1>1. outcome = "building"
 BY DEF CloseNode, CloseRoot, ChamferOverLimits, Through, NextChamfer
<1>2. /\ Len(stack) \in Nat \ {0} /\ DOMAIN stack = 1..Len(stack)
      /\ Top.node \in NodeIndex /\ nodes[Top.node].object \in Objects
      /\ Top.asked \in OperandRecords
 BY <1>1, TopFacts
<1>3. /\ truncated \subseteq NodeIndex \X Objects /\ omissions \subseteq OmissionRecords
      /\ planes \subseteq NodeIndex \X Nat
 BY DEF CsgInv, CsgTypeOK
<1>4. Len(stack) > 1 => Caller.node \in NodeIndex BY <1>2, FrameNodes DEF Caller
<1>5. HalfSpaces(Top.node) \subseteq NodeIndex \X Nat
 BY <1>2, PlanesType DEF HalfSpaces
<1>6. nodes' = nodes => OmissionRecords' = OmissionRecords /\ NodeIndex' = NodeIndex
 BY DEF OmissionRecords, NodeIndex
<1>7. CASE CloseNode
 <2>1. /\ Len(stack) > 1 /\ Pop
       /\ planes' = planes \cup HalfSpaces(Top.node)
       /\ shared' = Append(shared, Top.node)
       /\ links' = Append(links, Link(Caller.node, LinkKind(Top.asked), Top.node))
       /\ truncated' = Inherits(Caller.node, Top.node)
       /\ UNCHANGED <<model, nodes, counterVars, omissions, outcome>>
  BY <1>7 DEF CloseNode
 <2>2. truncated' \subseteq NodeIndex \X Objects BY <1>4, <2>1, InheritsType
 <2>3. ReportsTyped BY <1>3, <1>6, <2>1, <2>2 DEF ReportsTyped
 <2>4. planes' \subseteq NodeIndex \X Nat BY <1>3, <1>5, <2>1
 <2>5. LinkKind(Top.asked) \in {"union", "subtract"} BY DEF LinkKind
 <2> QED BY <1>1, <2>1, <2>3, <2>4, <2>5, PopStep
<1>8. CASE CloseRoot
 <2>1. /\ Len(stack) = 1 /\ Pop
       /\ planes' = planes \cup HalfSpaces(Top.node)
       /\ outcome' \in {"nothing", "request"}
       /\ UNCHANGED <<model, nodes, links, shared, counterVars, omissions, truncated>>
  BY <1>8 DEF CloseRoot
 <2>2. ReportsTyped BY <1>3, <1>6, <2>1 DEF ReportsTyped
 <2>3. planes' \subseteq NodeIndex \X Nat BY <1>3, <1>5, <2>1
 <2>4. ~(Len(stack) > 1) BY <2>1
 <2> QED BY <1>1, <2>1, <2>2, <2>3, <2>4, PopStep
<1>9. CASE \E i : ChamferOverLimits(i)
 <2>1. /\ Pop
       /\ UNCHANGED <<model, nodes, links, planes, shared, counterVars, truncated>>
       /\ IF Len(stack) = 1
          THEN outcome' = "resource_limit" /\ UNCHANGED omissions
          ELSE /\ omissions' = omissions \cup
                      {Omission(Caller.node, Top.asked.step, "resource_limit")}
               /\ UNCHANGED outcome
  BY <1>9 DEF ChamferOverLimits, requestVars
 <2>2. omissions' \subseteq OmissionRecords
  <3>1. CASE Len(stack) = 1 BY <1>3, <2>1, <3>1
  <3>2. CASE Len(stack) # 1
   <4>1. Caller.node \in NodeIndex BY <1>2, <1>4, <3>2
   <4>2. Top.asked.step \in Nat BY <1>2 DEF OperandRecords
   <4>3. Omission(Caller.node, Top.asked.step, "resource_limit") \in OmissionRecords
    BY <4>1, <4>2 DEF Omission, OmissionRecords
   <4> QED BY <1>3, <2>1, <3>2, <4>3
  <3> QED BY <3>1, <3>2
 <2>3. ReportsTyped BY <1>3, <1>6, <2>1, <2>2 DEF ReportsTyped
 <2>4. IF Len(stack) > 1 THEN outcome' = "building"
                         ELSE outcome' \in {"nothing", "request", "resource_limit"}
  BY <1>1, <1>2, <2>1, SMTT(40)
 <2>5. planes' \subseteq NodeIndex \X Nat BY <1>3, <2>1
 <2> QED BY <1>1, <2>1, <2>3, <2>4, <2>5, PopStep
<1> QED BY <1>7, <1>8, <1>9

\* Every step keeps the invariant, and the model.
LEMMA NextInv ==
  ASSUME CsgAssumption, model \in Models, CsgInv, [Next]_csgVars
  PROVE  model' \in Models /\ CsgInv'
<1>1. CASE StartNothing \/ StartOverLimits
 <2>1. /\ outcome = "idle" /\ outcome' \in {"nothing", "resource_limit"}
       /\ UNCHANGED <<model, nodes, links, planes, stack, active, shared, visited, edges,
                      bytes, omissions, truncated>>
  BY <1>1 DEF StartNothing, StartOverLimits, requestVars, counterVars
 <2>2. /\ NodeIndex' = NodeIndex /\ FrameRecords' = FrameRecords
       /\ LinkRecords' = LinkRecords /\ OmissionRecords' = OmissionRecords
  BY <2>1 DEF NodeIndex, FrameRecords, LinkRecords, OperandRecords, OmissionRecords
 <2>3. CsgTypeOK' BY <2>1, <2>2 DEF CsgInv, CsgTypeOK
 <2>4. NodesKept BY <2>1 DEF NodesKept, CsgInv, CsgTypeOK
 <2>5. RequestIsAcyclic' BY <2>1, <2>4, AcyclicStep
 <2>6. ActiveIsThePath' BY <2>1 DEF CsgInv, ActiveIsThePath, StackedObjects
 <2>7. WithinLimits' BY <2>1 DEF CsgInv, WithinLimits
 <2>8. SharedOnce' BY <2>1 DEF CsgInv, SharedOnce
 <2>9. FramesAreOpen'
  <3>1. FramesAreOpen BY DEF CsgInv
  <3>2. UNCHANGED <<model, nodes, shared>> /\ stack' = stack BY <2>1
  <3> QED BY ONLY <3>1, <3>2 DEF FramesAreOpen, Registered, StepsOf, Ops
 <2>10. CallsAreTracked' BY <2>1 DEF CsgInv, CallsAreTracked
 <2> QED BY <2>1, <2>3, <2>5, <2>6, <2>7, <2>8, <2>9, <2>10 DEF CsgInv
<1>2. CASE Start
 <2>1. model' = model BY <1>2 DEF Start
 <2> QED BY <1>2, <2>1, StartStep
<1>3. ASSUME NEW o, Visit(o) PROVE model' \in Models /\ CsgInv'
 <2>1. model' = model
  BY <1>3 DEF Visit, VisitTooDeep, VisitCycle, VisitShared, VisitOverLimits, VisitLeaf,
              VisitOverEdges, VisitNode
 <2>2. CASE VisitTooDeep(o) \/ VisitCycle(o) \/ VisitShared(o) \/ VisitOverLimits(o)
  BY <2>1, <2>2, VisitAnswered
 <2>3. CASE VisitLeaf(o) \/ VisitOverEdges(o) BY <2>1, <2>3, VisitAppended
 <2>4. CASE VisitNode(o) BY <2>1, <2>4, VisitNodeStep
 <2> QED BY <1>3, <2>2, <2>3, <2>4 DEF Visit
<1>4. ASSUME NEW i, CutChamfer(i) PROVE model' \in Models /\ CsgInv'
 <2>1. model' = model
  BY <1>4 DEF CutChamfer, ChamferUnsupported, ChamferAppended, ChamferOverLimits
 <2>2. CASE ChamferUnsupported(i) \/ ChamferAppended(i) BY <2>1, <2>2, ChamferCut
 <2>3. CASE ChamferOverLimits(i) BY <2>1, <2>3, Returned
 <2> QED BY <1>4, <2>2, <2>3 DEF CutChamfer
<1>5. CASE CloseNode \/ CloseRoot
 <2>1. model' = model BY <1>5 DEF CloseNode, CloseRoot
 <2> QED BY <1>5, <2>1, Returned
<1>6. CASE UNCHANGED csgVars
 <2>1. UNCHANGED <<model, nodes, links, planes, stack, active, shared, visited, edges,
                   bytes, omissions, truncated, outcome>>
  BY <1>6 DEF csgVars, requestVars, counterVars
 <2>2. /\ NodeIndex' = NodeIndex /\ FrameRecords' = FrameRecords
       /\ LinkRecords' = LinkRecords /\ OmissionRecords' = OmissionRecords
  BY <2>1 DEF NodeIndex, FrameRecords, LinkRecords, OperandRecords, OmissionRecords
 <2>3. CsgTypeOK' BY <2>1, <2>2 DEF CsgInv, CsgTypeOK
 <2>4. NodesKept BY <2>1 DEF NodesKept, CsgInv, CsgTypeOK
 <2>5. RequestIsAcyclic' BY <2>1, <2>4, AcyclicStep
 <2>6. ActiveIsThePath' BY <2>1 DEF CsgInv, ActiveIsThePath, StackedObjects
 <2>7. WithinLimits' BY <2>1 DEF CsgInv, WithinLimits
 <2>8. SharedOnce' BY <2>1 DEF CsgInv, SharedOnce
 <2>9. FramesAreOpen'
  <3>1. FramesAreOpen BY DEF CsgInv
  <3>2. UNCHANGED <<model, nodes, shared>> /\ stack' = stack BY <2>1
  <3> QED BY ONLY <3>1, <3>2 DEF FramesAreOpen, Registered, StepsOf, Ops
 <2>10. CallsAreTracked' BY <2>1 DEF CsgInv, CallsAreTracked
 <2> QED BY <2>1, <2>3, <2>5, <2>6, <2>7, <2>8, <2>9, <2>10 DEF CsgInv
<1> QED BY <1>1, <1>2, <1>3, <1>4, <1>5, <1>6 DEF Next, Build, Done

\* The inductive invariant holds in every reachable state of the planner, for every model and
\* every value of the limits.
THEOREM PlannerInvariant == ASSUME CsgAssumption PROVE Spec => [](model \in Models /\ CsgInv)
<1>1. Init => model \in Models /\ CsgInv BY InitInv DEF Init
<1>2. model \in Models /\ CsgInv /\ [Next]_csgVars => (model \in Models /\ CsgInv)'
 BY NextInv
<1> QED BY <1>1, <1>2, PTL DEF Spec

\* No request exceeds the limits of nodes, edges and mesh bytes.
THEOREM PlannerWithinLimits == ASSUME CsgAssumption PROVE Spec => []WithinLimits
<1>1. CsgInv => WithinLimits BY DEF CsgInv
<1> QED BY <1>1, PlannerInvariant, PTL

\* No request has a cycle, and none links to what a failed call left behind.
THEOREM PlannerIsAcyclic == ASSUME CsgAssumption PROVE Spec => []RequestIsAcyclic
<1>1. CsgInv => RequestIsAcyclic BY DEF CsgInv
<1> QED BY <1>1, PlannerInvariant, PTL

\* No request holds the same operative mesh twice among its registered nodes.
THEOREM PlannerSharesOnce == ASSUME CsgAssumption PROVE Spec => []SharedOnce
<1>1. CsgInv => SharedOnce BY DEF CsgInv
<1> QED BY <1>1, PlannerInvariant, PTL
-----------------------------------------------------------------------------
(***************************************************************************)
(* No operative is lost: where the operatives of a call in progress are.   *)
(***************************************************************************)

AnsweredOperand(n, o) ==
  \/ Node(o.target, o.shape) \in LinkTargets(n, LinkKind(o))
  \/ \E x \in omissions : x.node = n /\ x.step = o.step

AnsweredChamfer(n, i) ==
  \/ Node(Ops(nodes[n].object)[i].target, Chamfer) \in LinkTargets(n, "subtract")
  \/ \E x \in omissions : x.node = n /\ x.step = i

ReportsMissing(n) ==
  \A i \in MissingSteps(nodes[n].object) : Omission(n, i, "invalid_geometry") \in omissions

\* The operative whose call is on top of call d.
LeftTo(d, o) == d < Len(stack) /\ o = stack[d + 1].asked

\* Of a call's operatives each is still to go through, answered, or the one being called.
FrameAccounts(d) ==
  LET f == stack[d]
      p == nodes[f.node].object
  IN
  /\ \A o \in Operands(p, nodes[f.node].shape) :
         o \in f.operands \/ AnsweredOperand(f.node, o) \/ LeftTo(d, o)
  /\ \A i \in StepsOf(p, {79}) : i \in f.chamfers \/ AnsweredChamfer(f.node, i)
  /\ ReportsMissing(f.node)
  /\ d > 1 => nodes[f.node] = Node(f.asked.target, f.asked.shape)

CallsAccount ==
  /\ \A d \in DOMAIN stack : FrameAccounts(d)
  /\ stack # <<>> => stack[1].node = 1
  /\ EveryOperandAccounted

\* Nothing that was said of the request is taken back.
Grows ==
  /\ NodesKept /\ model' = model /\ omissions \subseteq omissions'
  /\ \A l \in DOMAIN links : l \in DOMAIN links' /\ links'[l] = links[l]

LEMMA LinksGrow ==
  ASSUME CsgInv, NEW l, links' = links \/ links' = Append(links, l)
  PROVE  /\ \A k \in DOMAIN links : k \in DOMAIN links' /\ links'[k] = links[k]
         /\ links' # links => \E k \in DOMAIN links' : links'[k] = l
<1>1. links \in Seq(LinkRecords) BY DEF CsgInv, CsgTypeOK
<1>2. CASE links' = links BY <1>2
<1>3. CASE links' = Append(links, l)
 <2>1. /\ Len(links) + 1 \in DOMAIN links' /\ links'[Len(links) + 1] = l
       /\ \A k \in DOMAIN links : k \in DOMAIN links' /\ links'[k] = links[k]
  BY <1>1, <1>3
 <2> QED BY <2>1
<1> QED BY <1>2, <1>3

LEMMA AnswersStay ==
  ASSUME CsgInv, Grows, NEW n \in NodeIndex
  PROVE  /\ nodes'[n] = nodes[n]
         /\ \A p, shape : Operands(p, shape)' = Operands(p, shape)
         /\ \A p : StepsOf(p, {79})' = StepsOf(p, {79})
         /\ \A o : AnsweredOperand(n, o) => AnsweredOperand(n, o)'
         /\ \A i : AnsweredChamfer(n, i) => AnsweredChamfer(n, i)'
         /\ ReportsMissing(n) => ReportsMissing(n)'
         /\ Accounted(n) => Accounted(n)'
<1>1. nodes'[n] = nodes[n] BY DEF Grows, NodesKept
<1>2. \A p, shape : Operands(p, shape)' = Operands(p, shape)
 BY DEF Grows, Operands, Operand, ReplaysBooleans, BooleanSteps, StepsOf, Ops, IsAddition
<1>3. \A p : StepsOf(p, {79})' = StepsOf(p, {79}) /\ Ops(p)' = Ops(p)
 BY DEF Grows, StepsOf, Ops
<1>4. \A p : MissingSteps(p)' = MissingSteps(p)
 BY DEF Grows, MissingSteps, ReplaysBooleans, BooleanSteps, StepsOf, Ops
<1>5. \A kind : LinkTargets(n, kind) \subseteq LinkTargets(n, kind)'
 <2> SUFFICES ASSUME NEW kind, NEW l \in DOMAIN links,
                     links[l].from = n, links[l].kind = kind
              PROVE  nodes[links[l].to] \in LinkTargets(n, kind)'
  BY DEF LinkTargets
 <2>1. links[l].to \in NodeIndex BY RegisteredFacts
 <2>2. l \in DOMAIN links' /\ links'[l] = links[l] BY DEF Grows
 <2>3. nodes'[links[l].to] = nodes[links[l].to] BY <2>1 DEF Grows, NodesKept
 <2> QED BY <2>2, <2>3 DEF LinkTargets
<1>6. omissions \subseteq omissions' BY DEF Grows
<1>7. \A o : AnsweredOperand(n, o) => AnsweredOperand(n, o)'
 BY <1>5, <1>6 DEF AnsweredOperand
<1>8. \A i : AnsweredChamfer(n, i) => AnsweredChamfer(n, i)'
 BY <1>1, <1>3, <1>5, <1>6 DEF AnsweredChamfer
<1>9. ReportsMissing(n) => ReportsMissing(n)'
 BY <1>1, <1>4, <1>6 DEF ReportsMissing
<1>10. Accounted(n) => Accounted(n)'
 <2>1. Accounted(n) <=> /\ \A o \in Operands(nodes[n].object, nodes[n].shape) :
                              AnsweredOperand(n, o)
                        /\ \A i \in StepsOf(nodes[n].object, {79}) : AnsweredChamfer(n, i)
                        /\ ReportsMissing(n)
  BY DEF Accounted, AnsweredOperand, AnsweredChamfer, ReportsMissing
 <2>2. Accounted(n)' <=>
           /\ \A o \in Operands(nodes[n].object, nodes[n].shape)' : AnsweredOperand(n, o)'
           /\ \A i \in StepsOf(nodes[n].object, {79})' : AnsweredChamfer(n, i)'
           /\ ReportsMissing(n)'
  BY DEF Accounted, AnsweredOperand, AnsweredChamfer, ReportsMissing
 <2>3. /\ Operands(nodes[n].object, nodes[n].shape)'
             = Operands(nodes[n].object, nodes[n].shape)
       /\ StepsOf(nodes[n].object, {79})' = StepsOf(nodes[n].object, {79})
  BY <1>1 DEF Grows, Operands, Operand, ReplaysBooleans, BooleanSteps, StepsOf, Ops,
              IsAddition
 <2> QED BY <1>7, <1>8, <1>9, <2>1, <2>2, <2>3
<1> QED BY <1>1, <1>2, <1>3, <1>7, <1>8, <1>9, <1>10

\* A call of which all operatives have an answer has accounted for its node.
LEMMA AnsweredAll ==
  ASSUME NEW n,
         \A o \in Operands(nodes[n].object, nodes[n].shape) : AnsweredOperand(n, o),
         \A i \in StepsOf(nodes[n].object, {79}) : AnsweredChamfer(n, i),
         ReportsMissing(n)
  PROVE  Accounted(n)
BY DEF Accounted, AnsweredOperand, AnsweredChamfer, ReportsMissing

\* A frame loses from its lists only what has been answered or is being called.
LEMMA FrameStays ==
  ASSUME CsgInv, Grows, NEW d \in DOMAIN stack, FrameAccounts(d),
         NEW n, n = stack[d].node, stack'[d].node = n, stack'[d].asked = stack[d].asked,
         \A o \in stack[d].operands :
             o \in stack'[d].operands \/ AnsweredOperand(n, o)' \/ LeftTo(d, o)',
         \A i \in stack[d].chamfers : i \in stack'[d].chamfers \/ AnsweredChamfer(n, i)',
         \A o : LeftTo(d, o) => AnsweredOperand(n, o)' \/ LeftTo(d, o)'
  PROVE  FrameAccounts(d)'
<1>1. n \in NodeIndex BY FrameNodes
<1>2. nodes'[n] = nodes[n] BY <1>1, AnswersStay
<1>3. /\ \A o \in Operands(nodes[n].object, nodes[n].shape) :
             o \in stack[d].operands \/ AnsweredOperand(n, o) \/ LeftTo(d, o)
      /\ \A i \in StepsOf(nodes[n].object, {79}) :
             i \in stack[d].chamfers \/ AnsweredChamfer(n, i)
      /\ ReportsMissing(n)
      /\ d > 1 => nodes[n] = Node(stack[d].asked.target, stack[d].asked.shape)
 BY DEF FrameAccounts
<1>4. /\ Operands(nodes[n].object, nodes[n].shape)' = Operands(nodes[n].object, nodes[n].shape)
      /\ StepsOf(nodes[n].object, {79})' = StepsOf(nodes[n].object, {79})
 BY <1>2 DEF Grows, Operands, Operand, ReplaysBooleans, BooleanSteps, StepsOf, Ops, IsAddition
<1>5. \A o \in Operands(nodes[n].object, nodes[n].shape)' :
          o \in stack'[d].operands \/ AnsweredOperand(n, o)' \/ LeftTo(d, o)'
 BY <1>1, <1>3, <1>4, AnswersStay
<1>6. \A i \in StepsOf(nodes[n].object, {79})' :
          i \in stack'[d].chamfers \/ AnsweredChamfer(n, i)'
 BY <1>1, <1>3, <1>4, AnswersStay
<1>7. ReportsMissing(n)' BY <1>1, <1>3, AnswersStay
<1>8. d > 1 => nodes'[n] = Node(stack'[d].asked.target, stack'[d].asked.shape)
 BY <1>2, <1>3 DEF Node
<1> HIDE DEF AnsweredOperand, AnsweredChamfer, LeftTo, ReportsMissing
<1> QED
 BY <1>5, <1>6, <1>7, <1>8 DEF FrameAccounts, Node

\* What is registered stays accounted for, and a node is registered only once it is.
LEMMA RegisteredStay ==
  ASSUME CsgInv, Grows, EveryOperandAccounted, NEW m,
         shared' = shared \/ (shared' = Append(shared, m) /\ Accounted(m)'),
         outcome' \in {"request", "nothing"} /\ nodes' # <<>> => Accounted(1)'
  PROVE  EveryOperandAccounted'
<1> SUFFICES ASSUME NEW k \in DOMAIN shared' PROVE Accounted(shared[k])'
 BY DEF EveryOperandAccounted
<1>1. shared \in Seq(NodeIndex) BY DEF CsgInv, CsgTypeOK
<1>2. CASE k \in DOMAIN shared /\ shared'[k] = shared[k]
 <2> PICK n : n = shared[k] OBVIOUS
 <2>1. n \in NodeIndex /\ Accounted(n) BY <1>1, <1>2 DEF EveryOperandAccounted
 <2>2. Accounted(n)' BY <2>1, AnswersStay
 <2> QED BY <1>2, <2>2 DEF Accounted
<1>3. CASE shared' = Append(shared, m) /\ k = Len(shared) + 1
 <2>1. shared'[k] = m BY <1>1, <1>3
 <2> QED BY <1>3, <2>1 DEF Accounted
<1>4. \/ k \in DOMAIN shared /\ shared'[k] = shared[k]
      \/ shared' = Append(shared, m) /\ k = Len(shared) + 1
 BY <1>1
<1> QED BY <1>2, <1>3, <1>4

\* The calls below the top one are as they were, and the one on top has the same node.
SameTower ==
  /\ Len(stack') = Len(stack) /\ DOMAIN stack' = DOMAIN stack
  /\ \A d \in DOMAIN stack :
         /\ stack'[d].node = stack[d].node /\ stack'[d].asked = stack[d].asked
         /\ d # Len(stack) => stack'[d] = stack[d]

\* The call on top gets on with its lists.
LEMMA ShortenedAccounts ==
  ASSUME CsgInv, CallsAccount, outcome = "building", outcome' = outcome, Grows, SameTower,
         NEW m, shared' = shared \/ (shared' = Append(shared, m) /\ Accounted(m)'),
         NEW n, n = Top.node,
         \A o \in Top.operands : o \in stack'[Len(stack)].operands \/ AnsweredOperand(n, o)',
         \A i \in Top.chamfers : i \in stack'[Len(stack)].chamfers \/ AnsweredChamfer(n, i)'
  PROVE  CallsAccount'
<1>1. /\ Len(stack) \in Nat \ {0} /\ DOMAIN stack = 1..Len(stack) BY TopFacts
<1>2. EveryOperandAccounted' BY RegisteredStay DEF CallsAccount
<1>3. stack'[1].node = 1 BY <1>1, TopFacts DEF CallsAccount, SameTower
<1>4. \A d, o : d \in DOMAIN stack => (LeftTo(d, o)' <=> LeftTo(d, o))
 BY <1>1 DEF LeftTo, SameTower
<1>5. ASSUME NEW d \in DOMAIN stack PROVE FrameAccounts(d)'
 <2> PICK c : c = stack[d].node OBVIOUS
 <2>1. FrameAccounts(d) BY DEF CallsAccount
 <2>2. stack'[d].node = c /\ stack'[d].asked = stack[d].asked BY DEF SameTower
 <2>3. CASE d = Len(stack)
  <3>1. c = n /\ stack[d] = Top BY <2>3 DEF Top
  <3> HIDE DEF AnsweredOperand, AnsweredChamfer
  <3> QED BY <1>4, <2>1, <2>2, <2>3, <3>1, FrameStays
 <2>4. CASE d # Len(stack)
  <3>1. stack'[d] = stack[d] BY <2>4 DEF SameTower
  <3> QED BY <1>4, <2>1, <2>2, <3>1, FrameStays
 <2> QED BY <2>3, <2>4
<1>6. DOMAIN stack' = DOMAIN stack BY DEF SameTower
<1> QED BY <1>2, <1>3, <1>5, <1>6 DEF CallsAccount

\* The call on top with one operative, or one chamfer, less.
LEMMA OperandDoneTower ==
  ASSUME CsgInv, outcome = "building", NEW o, stack' = OperandDone(o)
  PROVE  /\ SameTower
         /\ stack'[Len(stack)].operands = Top.operands \ {o}
         /\ stack'[Len(stack)].chamfers = Top.chamfers
<1>1. stack \in Seq(FrameRecords) /\ Len(stack) \in DOMAIN stack
 BY TopFacts DEF CsgInv, CsgTypeOK
<1>2. stack[Len(stack)] \in FrameRecords BY <1>1
<1>3. /\ stack'[Len(stack)] = [stack[Len(stack)] EXCEPT !.operands = @ \ {o}]
      /\ \A d \in DOMAIN stack : d # Len(stack) => stack'[d] = stack[d]
      /\ DOMAIN stack' = DOMAIN stack /\ Len(stack') = Len(stack)
 BY <1>1 DEF OperandDone
<1>4. /\ stack'[Len(stack)].operands = Top.operands \ {o}
      /\ stack'[Len(stack)].chamfers = Top.chamfers
      /\ stack'[Len(stack)].node = Top.node /\ stack'[Len(stack)].asked = Top.asked
 BY <1>2, <1>3 DEF FrameRecords, Top
<1> QED BY <1>3, <1>4 DEF SameTower, Top

LEMMA ChamferDoneTower ==
  ASSUME CsgInv, outcome = "building", NEW i, stack' = ChamferDone(i)
  PROVE  /\ SameTower
         /\ stack'[Len(stack)].operands = Top.operands
         /\ stack'[Len(stack)].chamfers = Top.chamfers \ {i}
<1>1. stack \in Seq(FrameRecords) /\ Len(stack) \in DOMAIN stack
 BY TopFacts DEF CsgInv, CsgTypeOK
<1>2. stack[Len(stack)] \in FrameRecords BY <1>1
<1>3. /\ stack'[Len(stack)] = [stack[Len(stack)] EXCEPT !.chamfers = @ \ {i}]
      /\ \A d \in DOMAIN stack : d # Len(stack) => stack'[d] = stack[d]
      /\ DOMAIN stack' = DOMAIN stack /\ Len(stack') = Len(stack)
 BY <1>1 DEF ChamferDone
<1>4. /\ stack'[Len(stack)].operands = Top.operands
      /\ stack'[Len(stack)].chamfers = Top.chamfers \ {i}
      /\ stack'[Len(stack)].node = Top.node /\ stack'[Len(stack)].asked = Top.asked
 BY <1>2, <1>3 DEF FrameRecords, Top
<1> QED BY <1>3, <1>4 DEF SameTower, Top

LEMMA RequestGrows ==
  ASSUME CsgInv, NodesKept, model' = model, omissions \subseteq omissions',
         NEW l, links' = links \/ links' = Append(links, l)
  PROVE  Grows
BY LinksGrow DEF Grows

\* The node a link leads to is among the link's targets.
LEMMA LinkAnswers ==
  ASSUME CsgInv, NEW n, NEW kind, NEW t, links' = Append(links, Link(n, kind, t))
  PROVE  nodes'[t] \in LinkTargets(n, kind)'
<1>1. links \in Seq(LinkRecords) BY DEF CsgInv, CsgTypeOK
<1>2. Len(links) + 1 \in DOMAIN links' /\ links'[Len(links) + 1] = Link(n, kind, t) BY <1>1
<1> QED BY <1>2 DEF LinkTargets, Link

\* An operative of the call on top is answered: reported omitted, or linked to a node that
\* holds its mesh.
LEMMA OperandAnswered ==
  ASSUME CsgInv, CallsAccount, NEW o, NextOperand(o), stack' = OperandDone(o), Grows,
         outcome' = outcome, NEW n, n = Top.node, AnsweredOperand(n, o)',
         NEW m, shared' = shared \/ (shared' = Append(shared, m) /\ Accounted(m)')
  PROVE  CallsAccount'
<1>1. outcome = "building" BY DEF NextOperand
<1>2. /\ SameTower
      /\ stack'[Len(stack)].operands = Top.operands \ {o}
      /\ stack'[Len(stack)].chamfers = Top.chamfers
 BY <1>1, OperandDoneTower
<1>3. \A q \in Top.operands : q \in stack'[Len(stack)].operands \/ AnsweredOperand(n, q)'
 <2> TAKE q \in Top.operands
 <2>1. CASE q = o BY <2>1 DEF AnsweredOperand
 <2>2. CASE q # o BY <1>2, <2>2
 <2> QED BY <2>1, <2>2
<1> HIDE DEF AnsweredOperand, AnsweredChamfer
<1> QED BY <1>1, <1>2, <1>3, ShortenedAccounts

LEMMA OmitAnswers ==
  ASSUME CsgInv, NEW o, NEW code, Omit(o, code), NEW n, n = Top.node
  PROVE  /\ AnsweredOperand(n, o)' /\ omissions \subseteq omissions'
         /\ stack' = OperandDone(o)
<1>1. omissions' = omissions \cup {Omission(n, o.step, code)} /\ stack' = OperandDone(o)
 BY DEF Omit
<1>2. PICK x : x = Omission(n, o.step, code) OBVIOUS
<1>3. x \in omissions' BY <1>1, <1>2
<1>4. x.node = n /\ x.step = o.step BY <1>2 DEF Omission
<1>5. \E y \in omissions' : y.node = n /\ y.step = o.step BY <1>3, <1>4
<1> QED BY <1>1, <1>5 DEF AnsweredOperand

\* Operatives that get no node of their own: refused, or linked to a registered node.
LEMMA VisitAnsweredAccounts ==
  ASSUME CsgAssumption, model \in Models, CsgInv, CallsAccount, NEW o,
         VisitTooDeep(o) \/ VisitCycle(o) \/ VisitShared(o) \/ VisitOverLimits(o)
  PROVE  CallsAccount'
<1> PICK n : n = Top.node OBVIOUS
<1>1. /\ NextOperand(o)
      /\ UNCHANGED <<model, nodes, shared, outcome>>
 BY DEF VisitTooDeep, VisitCycle, VisitShared, VisitOverLimits, Enterable, requestVars
<1>2. NodesKept BY <1>1 DEF NodesKept, CsgInv, CsgTypeOK
<1>3. CASE VisitShared(o)
 <2>1. PICK t \in Matches(o.target, o.shape) :
           links' = Append(links, Link(Top.node, LinkKind(o), t))
  BY <1>3 DEF VisitShared
 <2>2. nodes[t] = Node(o.target, o.shape) BY DEF Matches
 <2>3. links' = Append(links, Link(n, LinkKind(o), t)) BY <2>1
 <2>4. nodes'[t] \in LinkTargets(n, LinkKind(o))' BY <2>3, LinkAnswers DEF LinkKind
 <2>5. AnsweredOperand(n, o)' BY <1>1, <2>2, <2>4 DEF AnsweredOperand, Node
 <2>6. stack' = OperandDone(o) /\ omissions' = omissions BY <1>3 DEF VisitShared
 <2>7. Grows BY <1>1, <1>2, <2>3, <2>6, RequestGrows
 <2> QED BY <1>1, <2>5, <2>6, <2>7, OperandAnswered
<1>4. CASE VisitTooDeep(o) \/ VisitCycle(o) \/ VisitOverLimits(o)
 <2>1. /\ links' = links
       /\ \E code : Omit(o, code)
  BY <1>4 DEF VisitTooDeep, VisitCycle, VisitOverLimits, requestVars
 <2>2. AnsweredOperand(n, o)' /\ omissions \subseteq omissions' /\ stack' = OperandDone(o)
  BY <2>1, OmitAnswers
 <2>3. Grows BY <1>1, <1>2, <2>1, <2>2, RequestGrows
 <2> QED BY <1>1, <2>2, <2>3, OperandAnswered
<1> QED BY <1>3, <1>4

\* A node without operations has nothing to account for.
LEMMA LeafAccounts ==
  ASSUME CsgAssumption, model \in Models, model' = model, NEW m, NEW p, NEW shape,
         Ops(p) = <<>>, nodes'[m] = Node(p, shape)
  PROVE  Accounted(m)'
<1>1. \A types : StepsOf(p, types)' = {} BY DEF StepsOf, Ops
<1>2. /\ BooleanSteps(p)' = {} BY <1>1 DEF BooleanSteps
<1>3. Operands(p, shape)' = {} /\ MissingSteps(p)' = {} BY <1>2 DEF Operands, MissingSteps
<1>4. nodes'[m].object = p /\ nodes'[m].shape = shape BY DEF Node
<1> QED BY <1>1, <1>3, <1>4 DEF Accounted

\* An operative that gets a node but no call.
LEMMA VisitAppendedAccounts ==
  ASSUME CsgAssumption, model \in Models, CsgInv, CallsAccount, NEW o,
         VisitLeaf(o) \/ VisitOverEdges(o)
  PROVE  CallsAccount'
<1> PICK n : n = Top.node OBVIOUS
<1>1. Appendable(o) /\ AppendNode(o.target, o.shape) BY DEF VisitLeaf, VisitOverEdges
<1>2. /\ NextOperand(o) /\ o.target \notin active
      /\ Matches(o.target, o.shape) = {} /\ NodeFits(o.target)
 BY <1>1 DEF Appendable, Enterable
<1>3. /\ o.step \in Nat /\ o.target \in Objects /\ o.shape \in Shapes /\ outcome = "building"
 BY <1>2, OperandFacts
<1>4. NodesKept BY <1>1, <1>2, <1>3, AppendFacts
<1>5. model' = model /\ outcome' = outcome BY DEF VisitLeaf, VisitOverEdges
<1>6. CASE VisitLeaf(o)
 <2> PICK t : t = Len(nodes) + 1 OBVIOUS
 <2>1. /\ shared' = Append(shared, t)
       /\ links' = Append(links, Link(n, LinkKind(o), t))
       /\ stack' = OperandDone(o) /\ omissions' = omissions
       /\ Ops(o.target) = <<>>
  BY <1>6 DEF VisitLeaf
 <2>2. nodes'[t] = Node(o.target, o.shape)
  BY <1>1 DEF AppendNode, CsgInv, CsgTypeOK
 <2>3. nodes'[t] \in LinkTargets(n, LinkKind(o))' BY <2>1, LinkAnswers DEF LinkKind
 <2>4. AnsweredOperand(n, o)' BY <2>2, <2>3 DEF AnsweredOperand, Node
 <2>5. Grows BY <1>4, <1>5, <2>1, RequestGrows
 <2>6. Accounted(t)' BY <1>5, <2>1, <2>2, LeafAccounts
 <2> QED BY <1>2, <1>5, <2>1, <2>4, <2>5, <2>6, OperandAnswered
<1>7. CASE VisitOverEdges(o)
 <2>1. /\ links' = links /\ shared' = shared
       /\ Omit(o, "resource_limit")
  BY <1>7 DEF VisitOverEdges
 <2>2. AnsweredOperand(n, o)' /\ omissions \subseteq omissions' /\ stack' = OperandDone(o)
  BY <2>1, OmitAnswers
 <2>3. Grows BY <1>4, <1>5, <2>1, <2>2, RequestGrows
 <2> QED BY <1>2, <1>5, <2>1, <2>2, <2>3, OperandAnswered
<1> QED BY <1>6, <1>7

\* A chamfer is answered: refused, or a node with its cutter is linked.
LEMMA ChamferCutAccounts ==
  ASSUME CsgAssumption, model \in Models, CsgInv, CallsAccount, NEW i,
         ChamferUnsupported(i) \/ ChamferAppended(i)
  PROVE  CallsAccount'
<1> PICK n : n = Top.node OBVIOUS
<1> PICK c : c = Ops(nodes[Top.node].object)[i].target OBVIOUS
<1>1. NextChamfer(i) /\ stack' = ChamferDone(i)
 BY DEF ChamferUnsupported, ChamferAppended
<1>2. outcome = "building" /\ c \in Objects BY <1>1, ChamferFacts
<1>3. /\ SameTower
      /\ stack'[Len(stack)].operands = Top.operands
      /\ stack'[Len(stack)].chamfers = Top.chamfers \ {i}
 BY <1>1, <1>2, ChamferDoneTower
<1>4. UNCHANGED <<model, shared, outcome>> BY DEF ChamferUnsupported, ChamferAppended
<1>5. Grows /\ AnsweredChamfer(n, i)'
 <2>1. CASE ChamferUnsupported(i)
  <3>1. /\ omissions' = omissions \cup {Omission(n, i, "decoder_unavailable")}
        /\ UNCHANGED <<nodes, links>>
   BY <2>1 DEF ChamferUnsupported, requestVars
  <3>2. NodesKept BY <3>1 DEF NodesKept, CsgInv, CsgTypeOK
  <3>3. Grows BY <1>4, <3>1, <3>2, RequestGrows
  <3> PICK x : x = Omission(n, i, "decoder_unavailable") OBVIOUS
  <3>4. x \in omissions' /\ x.node = n /\ x.step = i BY <3>1 DEF Omission
  <3>5. \E y \in omissions' : y.node = n /\ y.step = i BY <3>4
  <3> QED BY <3>3, <3>5 DEF AnsweredChamfer
 <2>2. CASE ChamferAppended(i)
  <3> PICK t : t = Len(nodes) + 1 OBVIOUS
  <3>1. /\ AppendNode(c, Chamfer) /\ NodeFits(c)
        /\ links' = Append(links, Link(n, "subtract", t))
        /\ omissions' = omissions
   BY <2>2 DEF ChamferAppended
  <3>2. NodesKept BY <1>2, <3>1, AppendFacts
  <3>3. Grows BY <1>4, <3>1, <3>2, RequestGrows
  <3>4. nodes'[t] = Node(c, Chamfer) BY <3>1 DEF AppendNode, CsgInv, CsgTypeOK
  <3>5. nodes'[t] \in LinkTargets(n, "subtract")' BY <3>1, LinkAnswers
  <3>6. nodes'[n] = nodes[n] BY <1>2, <3>2, TopFacts DEF NodesKept
  <3>7. Ops(nodes[n].object)[i].target' = c BY <1>4, <3>6 DEF Ops
  <3> QED BY <3>3, <3>4, <3>5, <3>7 DEF AnsweredChamfer, Node
 <2> QED BY <2>1, <2>2
<1>6. \A j \in Top.chamfers : j \in stack'[Len(stack)].chamfers \/ AnsweredChamfer(n, j)'
 <2> TAKE j \in Top.chamfers
 <2>1. CASE j = i BY <1>5, <2>1 DEF AnsweredChamfer
 <2>2. CASE j # i BY <1>3, <2>2
 <2> QED BY <2>1, <2>2
<1> HIDE DEF AnsweredOperand, AnsweredChamfer
<1> QED BY <1>2, <1>3, <1>4, <1>5, <1>6, ShortenedAccounts

\* A call begins with all its operatives and chamfers to go through.
LEMMA FreshAccounts ==
  ASSUME model' = model, NEW d, NEW n, NEW p, NEW shape, NEW o,
         stack'[d] = Frame(n, p, shape, o), nodes'[n] = Node(p, shape),
         \A i \in MissingSteps(p) : Omission(n, i, "invalid_geometry") \in omissions',
         d > 1 => p = o.target /\ shape = o.shape
  PROVE  FrameAccounts(d)'
<1>1. /\ Operands(p, shape)' = Operands(p, shape) /\ StepsOf(p, {79})' = StepsOf(p, {79})
      /\ MissingSteps(p)' = MissingSteps(p)
 BY DEF Operands, Operand, ReplaysBooleans, BooleanSteps, StepsOf, Ops, IsAddition,
        MissingSteps
<1>2. /\ stack'[d].node = n /\ stack'[d].operands = Operands(p, shape)
      /\ stack'[d].chamfers = StepsOf(p, {79}) /\ stack'[d].asked = o
 BY DEF Frame
<1>3. nodes'[n].object = p /\ nodes'[n].shape = shape BY DEF Node
<1>4. ReportsMissing(n)' BY <1>1, <1>3 DEF ReportsMissing, Omission
<1>5. \A q \in Operands(nodes[n].object, nodes[n].shape)' : q \in stack'[d].operands
 BY <1>1, <1>2, <1>3
<1>6. \A i \in StepsOf(nodes[n].object, {79})' : i \in stack'[d].chamfers
 BY <1>1, <1>2, <1>3
<1>7. d > 1 => nodes'[n] = Node(stack'[d].asked.target, stack'[d].asked.shape)
 BY <1>2 DEF Node
<1> HIDE DEF AnsweredOperand, AnsweredChamfer, LeftTo, ReportsMissing
<1> QED BY <1>2, <1>4, <1>5, <1>6, <1>7 DEF FrameAccounts, Node

LEMMA StartAccounts ==
  ASSUME CsgAssumption, model \in Models, CsgInv, Start
  PROVE  CallsAccount'
<1>1. nodes = <<>> /\ shared = <<>> BY DEF CsgInv, CallsAreTracked, Start
<1>2. /\ model' = model /\ shared' = <<>> /\ outcome' = "building"
      /\ stack' = <<Frame(1, Root, AsDecoded, NoOperand)>>
      /\ omissions' = {Omission(1, i, "invalid_geometry") : i \in MissingSteps(Root)}
 BY <1>1 DEF Start
<1>3. nodes'[1] = Node(Root, AsDecoded) BY <1>1 DEF Start, AppendNode
<1>4. DOMAIN stack' = {1} /\ stack'[1] = Frame(1, Root, AsDecoded, NoOperand) BY <1>2
<1>5. FrameAccounts(1)'
 <2> PICK o : o = NoOperand OBVIOUS
 <2>1. stack'[1] = Frame(1, Root, AsDecoded, o) BY <1>4
 <2>2. \A i \in MissingSteps(Root) : Omission(1, i, "invalid_geometry") \in omissions'
  BY <1>2
 <2> QED BY <1>2, <1>3, <2>1, <2>2, FreshAccounts
<1>6. \A d \in DOMAIN stack' : FrameAccounts(d)' BY <1>4, <1>5
<1>7. EveryOperandAccounted' BY <1>2 DEF EveryOperandAccounted
<1>8. stack'[1].node = 1 BY <1>4 DEF Frame
<1> QED BY <1>6, <1>7, <1>8 DEF CallsAccount

\* The operative that is called leaves the list of its caller for the call on top of it.
LEMMA VisitNodeAccounts ==
  ASSUME CsgAssumption, model \in Models, CsgInv, CallsAccount, NEW o, VisitNode(o)
  PROVE  CallsAccount'
<1> PICK t : t = Len(nodes) + 1 OBVIOUS
<1> PICK fresh : fresh = Frame(t, o.target, o.shape, o) OBVIOUS
<1>1. /\ Appendable(o) /\ AppendNode(o.target, o.shape)
      /\ stack' = Append(OperandDone(o), fresh)
      /\ omissions' = omissions \cup
             {Omission(t, i, "invalid_geometry") : i \in MissingSteps(o.target)}
      /\ UNCHANGED <<model, links, shared, outcome>>
 BY DEF VisitNode
<1>2. /\ NextOperand(o) /\ o.target \notin active
      /\ Matches(o.target, o.shape) = {} /\ NodeFits(o.target)
 BY <1>1 DEF Appendable, Enterable
<1>3. /\ o.step \in Nat /\ o.target \in Objects /\ o.shape \in Shapes /\ outcome = "building"
 BY <1>2, OperandFacts
<1>4. NodesKept BY <1>1, <1>2, <1>3, AppendFacts
<1>5. Grows BY <1>1, <1>4, RequestGrows
<1>6. stack \in Seq(FrameRecords) /\ Len(stack) \in Nat \ {0} /\ DOMAIN stack = 1..Len(stack)
 BY <1>3, TopFacts DEF CsgInv, CsgTypeOK
<1>7. /\ OperandDone(o) \in Seq(FrameRecords) /\ Len(OperandDone(o)) = Len(stack)
 BY <1>3, OperandDoneCalls DEF SameCalls
<1>8. /\ \A d \in DOMAIN stack : d # Len(stack) => OperandDone(o)[d] = stack[d]
      /\ OperandDone(o)[Len(stack)] = [stack[Len(stack)] EXCEPT !.operands = @ \ {o}]
 <2>1. OperandDone(o) = [stack EXCEPT ![Len(stack)] =
                            [stack[Len(stack)] EXCEPT !.operands = @ \ {o}]]
  BY DEF OperandDone
 <2> PICK f : f = [stack[Len(stack)] EXCEPT !.operands = @ \ {o}] OBVIOUS
 <2>2. OperandDone(o) = [stack EXCEPT ![Len(stack)] = f] BY <2>1
 <2>3. Len(stack) \in DOMAIN stack BY <1>6
 <2>4. OperandDone(o)[Len(stack)] = f BY <2>2, <2>3
 <2>5. \A d \in DOMAIN stack : d # Len(stack) => OperandDone(o)[d] = stack[d] BY <2>2
 <2> QED BY <2>4, <2>5
<1>9. /\ DOMAIN stack' = 1..(Len(stack) + 1) /\ Len(stack') = Len(stack) + 1
      /\ stack'[Len(stack) + 1] = fresh
      /\ \A d \in DOMAIN stack : stack'[d] = OperandDone(o)[d]
 BY <1>1, <1>6, <1>7
<1>10. stack[Len(stack)] \in FrameRecords BY <1>6
<1>11. /\ \A d \in DOMAIN stack : d # Len(stack) => stack'[d] = stack[d]
       /\ stack'[Len(stack)].operands = stack[Len(stack)].operands \ {o}
       /\ stack'[Len(stack)].chamfers = stack[Len(stack)].chamfers
       /\ stack'[Len(stack)].node = stack[Len(stack)].node
       /\ stack'[Len(stack)].asked = stack[Len(stack)].asked
 BY <1>6, <1>8, <1>9, <1>10 DEF FrameRecords
<1>12. fresh.asked = o BY DEF Frame
<1>13. ASSUME NEW d \in DOMAIN stack PROVE FrameAccounts(d)'
 <2> PICK c : c = stack[d].node OBVIOUS
 <2>1. FrameAccounts(d) BY DEF CallsAccount
 <2>2. CASE d = Len(stack)
  <3>1. LeftTo(d, o)' BY <1>6, <1>9, <1>12, <2>2 DEF LeftTo
  <3>2. \A q : ~LeftTo(d, q) BY <1>6, <2>2 DEF LeftTo
  <3>3. \A q \in stack[d].operands : q \in stack'[d].operands \/ LeftTo(d, q)'
   <4> TAKE q \in stack[d].operands
   <4>1. CASE q = o BY <3>1, <4>1 DEF LeftTo
   <4>2. CASE q # o BY <1>11, <2>2, <4>2
   <4> QED BY <4>1, <4>2
  <3>4. stack'[d].node = c /\ stack'[d].asked = stack[d].asked
   BY <1>11, <2>2
  <3>5. \A i \in stack[d].chamfers : i \in stack'[d].chamfers BY <1>11, <2>2
  <3> HIDE DEF AnsweredOperand, AnsweredChamfer, LeftTo
  <3> QED BY <1>5, <2>1, <3>2, <3>3, <3>4, <3>5, FrameStays
 <2>3. CASE d # Len(stack)
  <3>1. stack'[d] = stack[d] BY <1>11, <2>3
  <3>2. d \in 1..Len(stack) /\ d + 1 \in 1..Len(stack) BY <1>6, <2>3
  <3>3. stack'[d + 1].asked = stack[d + 1].asked BY <1>6, <1>11, <3>2
  <3>4. \A q : LeftTo(d, q) => LeftTo(d, q)' BY <1>6, <1>9, <3>2, <3>3 DEF LeftTo
  <3> HIDE DEF AnsweredOperand, AnsweredChamfer, LeftTo
  <3> QED BY <1>5, <2>1, <3>1, <3>4, FrameStays
 <2> QED BY <2>2, <2>3
<1>14. ASSUME NEW d, d = Len(stack) + 1 PROVE FrameAccounts(d)'
 <2> PICK p, shape : p = o.target /\ shape = o.shape OBVIOUS
 <2>1. stack'[d] = Frame(t, p, shape, o) BY <1>9, <1>14
 <2>2. nodes'[t] = Node(p, shape) BY <1>1 DEF AppendNode, CsgInv, CsgTypeOK
 <2>3. \A i \in MissingSteps(p) : Omission(t, i, "invalid_geometry") \in omissions'
  BY <1>1
 <2>4. model' = model BY <1>1
 <2>5. d > 1 => p = o.target /\ shape = o.shape OBVIOUS
 <2> HIDE DEF AnsweredOperand, AnsweredChamfer, LeftTo
 <2> QED BY <2>1, <2>2, <2>3, <2>4, <2>5, FreshAccounts
<1>15. \A d \in DOMAIN stack' : FrameAccounts(d)' BY <1>6, <1>9, <1>13, <1>14
<1>16. EveryOperandAccounted'
 BY <1>1, <1>3, <1>5, RegisteredStay DEF CallsAccount
<1>17. stack'[1].node = 1
 <2>1. stack[1].node = 1 BY <1>3, TopFacts DEF CallsAccount
 <2> QED BY <1>6, <1>11, <2>1
<1> QED BY <1>15, <1>16, <1>17 DEF CallsAccount

\* A call that returns has answered all it had, and its caller has an answer for it.
LEMMA PopAccounts ==
  ASSUME CsgAssumption, model \in Models, CsgInv, CallsAccount, outcome = "building",
         Pop, Grows, NEW q, q = Top.asked, NEW c,
         Len(stack) > 1 => c = Caller.node /\ AnsweredOperand(c, q)',
         NEW m, shared' = shared \/ (shared' = Append(shared, m) /\ Accounted(m)'),
         outcome' \in {"request", "nothing"} => Accounted(1)'
  PROVE  CallsAccount'
<1>1. stack \in Seq(FrameRecords) /\ Len(stack) \in Nat \ {0} /\ DOMAIN stack = 1..Len(stack)
 BY TopFacts DEF CsgInv, CsgTypeOK
<1>2. /\ stack' = SubSeq(stack, 1, Len(stack) - 1)
 BY DEF Pop
<1>3. /\ Len(stack') = Len(stack) - 1 /\ DOMAIN stack' = 1..(Len(stack) - 1)
      /\ \A d \in 1..(Len(stack) - 1) : stack'[d] = stack[d]
 BY <1>1, <1>2
<1>4. EveryOperandAccounted' BY RegisteredStay DEF CallsAccount
<1>5. ASSUME NEW d \in DOMAIN stack' PROVE FrameAccounts(d)'
 <2> PICK n : n = stack[d].node OBVIOUS
 <2>1. d \in DOMAIN stack /\ d \in 1..(Len(stack) - 1) BY <1>1, <1>3
 <2>2. stack'[d] = stack[d] BY <1>3, <2>1
 <2>3. FrameAccounts(d) BY <2>1 DEF CallsAccount
 <2>4. \A o : LeftTo(d, o) => AnsweredOperand(n, o)' \/ LeftTo(d, o)'
  <3> TAKE o
  <3>1. CASE d = Len(stack) - 1
   <4>1. Len(stack) > 1 /\ n = c BY <1>1, <2>1, <3>1 DEF Caller
   <4>2. stack[d + 1].asked = q BY <1>1, <3>1 DEF Top
   <4>3. AnsweredOperand(n, q)' BY <4>1 DEF AnsweredOperand
   <4>4. LeftTo(d, o) => o = q BY <4>2 DEF LeftTo
   <4> QED BY <4>3, <4>4 DEF AnsweredOperand
  <3>2. CASE d # Len(stack) - 1
   <4>1. d + 1 \in 1..(Len(stack) - 1) BY <1>1, <2>1, <3>2
   <4>2. stack'[d + 1] = stack[d + 1] BY <1>3, <4>1
   <4>3. d < Len(stack') BY <1>1, <1>3, <4>1
   <4> QED BY <4>2, <4>3 DEF LeftTo
  <3> QED BY <3>1, <3>2
 <2> HIDE DEF AnsweredOperand, AnsweredChamfer, LeftTo
 <2> QED BY <2>1, <2>2, <2>3, <2>4, FrameStays
<1>6. stack' # <<>> => stack'[1].node = 1
 <2> SUFFICES ASSUME stack' # <<>> PROVE stack'[1].node = 1
  OBVIOUS
 <2>1. 1 \in 1..(Len(stack) - 1) BY <1>1, <1>2, <1>3
 <2>2. stack[1].node = 1 BY TopFacts DEF CallsAccount
 <2> QED BY <1>3, <2>1, <2>2
<1> QED BY <1>4, <1>5, <1>6 DEF CallsAccount

\* A call that has gone through its lists has accounted for its node.
LEMMA ThroughAccounts ==
  ASSUME CsgInv, CallsAccount, Through
  PROVE  Accounted(Top.node)
<1>1. Len(stack) \in DOMAIN stack /\ Len(stack) \in Nat BY TopFacts DEF Through
<1>2. FrameAccounts(Len(stack)) BY <1>1 DEF CallsAccount
<1>3. \A o : ~LeftTo(Len(stack), o) BY <1>1 DEF LeftTo
<1>4. Top.operands = {} /\ Top.chamfers = {} BY DEF Through
<1>5. /\ \A o \in Operands(nodes[Top.node].object, nodes[Top.node].shape) :
             AnsweredOperand(Top.node, o)
      /\ \A i \in StepsOf(nodes[Top.node].object, {79}) : AnsweredChamfer(Top.node, i)
      /\ ReportsMissing(Top.node)
 BY <1>2, <1>3, <1>4 DEF FrameAccounts, Top
<1> QED BY <1>5, AnsweredAll

LEMMA ReturnedAccounts ==
  ASSUME CsgAssumption, model \in Models, CsgInv, CallsAccount,
         CloseNode \/ CloseRoot \/ (\E i : ChamferOverLimits(i))
  PROVE  CallsAccount'
<1> PICK q : q = Top.asked OBVIOUS
<1> PICK n : n = Top.node OBVIOUS
<1> PICK c : c = Caller.node OBVIOUS
<1>1. outcome = "building"
 BY DEF CloseNode, CloseRoot, ChamferOverLimits, Through, NextChamfer
<1>2. /\ Len(stack) \in Nat \ {0} /\ Len(stack) \in DOMAIN stack /\ n \in NodeIndex
 BY <1>1, TopFacts
<1>3. Pop /\ UNCHANGED <<model, nodes>>
 BY DEF CloseNode, CloseRoot, ChamferOverLimits, requestVars
<1>4. NodesKept BY <1>3 DEF NodesKept, CsgInv, CsgTypeOK
<1>5. CASE CloseNode
 <2>1. /\ Through /\ Len(stack) > 1 /\ omissions' = omissions
       /\ shared' = Append(shared, n)
       /\ links' = Append(links, Link(c, LinkKind(q), n))
       /\ outcome' = outcome
  BY <1>5 DEF CloseNode
 <2>2. Grows BY <1>3, <1>4, <2>1, RequestGrows
 <2>3. nodes'[n] = Node(q.target, q.shape)
  <3>1. FrameAccounts(Len(stack)) BY <1>2 DEF CallsAccount
  <3> QED BY <1>3, <2>1, <3>1 DEF FrameAccounts, Top
 <2>4. nodes'[n] \in LinkTargets(c, LinkKind(q))' BY <2>1, LinkAnswers DEF LinkKind
 <2>5. AnsweredOperand(c, q)' BY <2>3, <2>4 DEF AnsweredOperand, Node
 <2>6. Accounted(n) BY <2>1, ThroughAccounts
 <2>7. Accounted(n)' BY <1>2, <2>2, <2>6, AnswersStay
 <2>8. ~(outcome' \in {"request", "nothing"}) BY <1>1, <2>1
 <2> HIDE DEF AnsweredOperand, AnsweredChamfer, Accounted
 <2> QED BY <1>1, <1>3, <2>1, <2>2, <2>5, <2>7, <2>8, PopAccounts
<1>6. CASE CloseRoot
 <2>1. /\ Through /\ Len(stack) = 1 /\ UNCHANGED <<links, shared, omissions>>
  BY <1>6 DEF CloseRoot
 <2>2. Grows BY <1>3, <1>4, <2>1, RequestGrows
 <2>3. n = 1
  <3>1. stack[1].node = 1 BY <1>1, TopFacts DEF CallsAccount
  <3> QED BY <2>1, <3>1 DEF Top
 <2>4. Accounted(n) BY <2>1, ThroughAccounts
 <2>5. Accounted(n)' BY <1>2, <2>2, <2>4, AnswersStay
 <2>6. Accounted(1)' BY <2>3, <2>5
 <2>7. ~(Len(stack) > 1) BY <2>1
 <2> HIDE DEF AnsweredOperand, AnsweredChamfer, Accounted
 <2> QED BY <1>1, <1>3, <2>1, <2>2, <2>6, <2>7, PopAccounts
<1>7. CASE \E i : ChamferOverLimits(i)
 <2>1. /\ UNCHANGED <<links, shared>>
       /\ IF Len(stack) = 1
          THEN outcome' = "resource_limit" /\ UNCHANGED omissions
          ELSE /\ omissions' = omissions \cup {Omission(c, q.step, "resource_limit")}
               /\ UNCHANGED outcome
  BY <1>7 DEF ChamferOverLimits, requestVars
 <2>2. omissions \subseteq omissions' BY <2>1
 <2>3. Grows BY <1>3, <1>4, <2>1, <2>2, RequestGrows
 <2>4. ASSUME Len(stack) > 1 PROVE AnsweredOperand(c, q)'
  <3> PICK x : x = Omission(c, q.step, "resource_limit") OBVIOUS
  <3>1. x \in omissions' /\ x.node = c /\ x.step = q.step
   BY <1>2, <2>1, <2>4 DEF Omission
  <3>2. \E y \in omissions' : y.node = c /\ y.step = q.step BY <3>1
  <3> QED BY <3>2 DEF AnsweredOperand
 <2>5. ~(outcome' \in {"request", "nothing"}) BY <1>1, <2>1
 <2> HIDE DEF AnsweredOperand, AnsweredChamfer, Accounted
 <2> QED BY <1>1, <1>3, <2>1, <2>3, <2>4, <2>5, PopAccounts
<1> QED BY <1>5, <1>6, <1>7

\* Before the first call, and after the last, nothing is disturbed.
LEMMA IdleAccounts ==
  ASSUME CsgInv, CallsAccount,
         StartNothing \/ StartOverLimits \/ UNCHANGED csgVars
  PROVE  CallsAccount'
<1>1. UNCHANGED <<model, nodes, links, stack, shared, omissions>>
 BY DEF StartNothing, StartOverLimits, csgVars, requestVars
<1>2. outcome' = outcome \/ nodes = <<>>
 BY DEF StartNothing, StartOverLimits, csgVars, CsgInv, CallsAreTracked
<1>3. NodesKept BY <1>1 DEF NodesKept, CsgInv, CsgTypeOK
<1>4. Grows BY <1>1, <1>3 DEF Grows
<1>5. DOMAIN stack' = DOMAIN stack BY <1>1
<1>6. ASSUME NEW d \in DOMAIN stack PROVE FrameAccounts(d)'
 <2> PICK n : n = stack[d].node OBVIOUS
 <2>1. FrameAccounts(d) BY DEF CallsAccount
 <2>2. \A o : LeftTo(d, o) => LeftTo(d, o)' BY <1>1 DEF LeftTo
 <2>3. stack'[d] = stack[d] BY <1>1
 <2> HIDE DEF AnsweredOperand, AnsweredChamfer, LeftTo
 <2> QED BY <1>4, <2>1, <2>2, <2>3, FrameStays
<1>7. EveryOperandAccounted'
 <2>1. \A k \in DOMAIN shared : Accounted(shared[k])'
  <3> TAKE k \in DOMAIN shared
  <3> PICK n : n = shared[k] OBVIOUS
  <3>1. n \in NodeIndex BY DEF CsgInv, CsgTypeOK
  <3>2. Accounted(n) BY DEF CallsAccount, EveryOperandAccounted
  <3>3. Accounted(n)' BY <1>4, <3>1, <3>2, AnswersStay
  <3>4. shared'[k] = n BY <1>1
  <3> QED BY <3>3, <3>4 DEF Accounted
 <2>2. ASSUME outcome' \in {"request", "nothing"}, nodes' # <<>> PROVE Accounted(1)'
  <3>1. nodes # <<>> /\ outcome \in {"request", "nothing"} BY <1>1, <1>2, <2>2
  <3>2. Accounted(1) BY <3>1 DEF CallsAccount, EveryOperandAccounted
  <3>3. nodes \in Seq(NodeRecords) BY DEF CsgInv, CsgTypeOK
  <3>4. 1 \in NodeIndex BY <3>1, <3>3 DEF NodeIndex
  <3> QED BY <1>4, <3>2, <3>4, AnswersStay
 <2> QED BY <1>1, <2>1, <2>2 DEF EveryOperandAccounted
<1>8. stack' # <<>> => stack'[1].node = 1 BY <1>1 DEF CallsAccount
<1> QED BY <1>5, <1>6, <1>7, <1>8 DEF CallsAccount

\* No operative is lost, for every decoded model and every limit: when a call returns, each
\* operative of its object is linked to a node that holds its mesh, on the right side, or was
\* reported omitted, each edge chamfer likewise, and each operative without geometry is reported.
THEOREM NoOperandIsLost == ASSUME CsgAssumption PROVE Spec => []EveryOperandAccounted
<1>1. Init => CallsAccount
 <2> SUFFICES ASSUME Init PROVE CallsAccount
  OBVIOUS
 <2>1. stack = <<>> /\ shared = <<>> /\ outcome = "idle" BY DEF Init
 <2> QED BY <2>1 DEF CallsAccount, EveryOperandAccounted
<1>2. ASSUME model \in Models, CsgInv, CallsAccount, [Next]_csgVars PROVE CallsAccount'
 <2>1. CASE StartNothing \/ StartOverLimits \/ UNCHANGED csgVars BY <1>2, <2>1, IdleAccounts
 <2>2. CASE Start BY <1>2, <2>2, StartAccounts
 <2>3. ASSUME NEW o, Visit(o) PROVE CallsAccount'
  <3>1. CASE VisitTooDeep(o) \/ VisitCycle(o) \/ VisitShared(o) \/ VisitOverLimits(o)
   BY <1>2, <3>1, VisitAnsweredAccounts
  <3>2. CASE VisitLeaf(o) \/ VisitOverEdges(o) BY <1>2, <3>2, VisitAppendedAccounts
  <3>3. CASE VisitNode(o) BY <1>2, <3>3, VisitNodeAccounts
  <3> QED BY <2>3, <3>1, <3>2, <3>3 DEF Visit
 <2>4. ASSUME NEW i, CutChamfer(i) PROVE CallsAccount'
  <3>1. CASE ChamferUnsupported(i) \/ ChamferAppended(i)
   BY <1>2, <3>1, ChamferCutAccounts
  <3>2. CASE ChamferOverLimits(i) BY <1>2, <3>2, ReturnedAccounts
  <3> QED BY <2>4, <3>1, <3>2 DEF CutChamfer
 <2>5. CASE CloseNode \/ CloseRoot BY <1>2, <2>5, ReturnedAccounts
 <2> QED BY <1>2, <2>1, <2>2, <2>3, <2>4, <2>5 DEF Next, Build, Done
<1>3. CallsAccount => EveryOperandAccounted BY DEF CallsAccount
<1> QED BY <1>1, <1>2, <1>3, PlannerInvariant, PTL DEF Spec

-----------------------------------------------------------------------------
(***************************************************************************)
(* The order of a request, on which the evaluator relies: nodes are        *)
(* numbered when their calls begin, links are made when calls return.      *)
(***************************************************************************)

\* The first link to a node: the one that was made when its call returned.
First(l) == \A k \in DOMAIN links : k < l => links[k].to # links[l].to

IsPart(n) == nodes[n].shape # Chamfer

\* The links of a node precede the links to it, and the unions among them the subtractions.
LinksInOrder ==
  /\ \A k, l \in DOMAIN links : links[k].from = links[l].to => k < l
  /\ \A k, l \in DOMAIN links : k < l /\ links[k].from = links[l].from =>
         links[k].kind = "union" \/ links[l].kind = "subtract"

\* A call has additions to go through only as long as it has cut nothing.
KindsAhead ==
  \A d \in DOMAIN stack :
      LET cutting == \/ \E l \in DOMAIN links : /\ links[l].from = stack[d].node
                                                /\ links[l].kind = "subtract"
                     \/ d < Len(stack) /\ ~stack[d + 1].asked.addition
      IN cutting => /\ \A o \in stack[d].operands : ~o.addition
                    /\ d < Len(stack) => ~stack[d + 1].asked.addition

\* Node u is numbered when its call begins: links made before the first link to it lead to
\* earlier nodes, but for those its own call, and the calls on top of it, made.
MadeWithin(u, k) == links[k].to < u \/ u <= links[k].from

NodesInOrder ==
  /\ \A c, d \in DOMAIN stack : c < d => stack[c].node < stack[d].node
  /\ \A d \in DOMAIN stack, k \in DOMAIN links : MadeWithin(stack[d].node, k)
  /\ \A l \in DOMAIN links : First(l) /\ IsPart(links[l].to) =>
         /\ links[l].from < links[l].to
         /\ \A k \in DOMAIN links : k < l => MadeWithin(links[l].to, k)

\* The root is node one and nobody's operative, and only parts have operatives.
RootStandsOut ==
  /\ stack # <<>> => stack[1].node = 1
  /\ nodes # <<>> => IsPart(1)
  /\ 1 \notin Registered
  /\ \A l \in DOMAIN links : IsPart(links[l].from)

RegisteredIsLinked == \A n \in Registered : \E l \in DOMAIN links : links[l].to = n

\* level[n]: how many calls deep node n was called.
IsLevel(level) ==
  /\ level \in [NodeIndex -> Nat]
  /\ nodes # <<>> => level[1] = 1
  /\ \A d \in DOMAIN stack : level[stack[d].node] = d
  /\ \A l \in DOMAIN links : IsPart(links[l].to) =>
         /\ level[links[l].from] < MaxDepth
         /\ First(l) => level[links[l].to] = level[links[l].from] + 1

PlanInOrder ==
  /\ LinksInOrder /\ KindsAhead /\ NodesInOrder
  /\ RootStandsOut /\ RegisteredIsLinked
  /\ \E level \in [NodeIndex -> Nat] : IsLevel(level)


LEMMA LinkFacts ==
  ASSUME CsgInv
  PROVE  /\ Len(links) \in Nat /\ DOMAIN links = 1..Len(links)
         /\ \A l \in DOMAIN links :
                /\ links[l].from \in NodeIndex /\ links[l].to \in NodeIndex
                /\ links[l].kind \in {"union", "subtract"}
                /\ IsPart(links[l].to) => links[l].to \in Registered
<1>1. links \in Seq(LinkRecords) BY DEF CsgInv, CsgTypeOK
<1>2. \A l \in DOMAIN links : links[l] \in LinkRecords BY <1>1
<1>3. Len(links) \in Nat /\ DOMAIN links = 1..Len(links) BY <1>1
<1> QED BY <1>2, <1>3, RegisteredFacts DEF LinkRecords, IsPart, IsChamfer

LEMMA OpenFacts ==
  ASSUME CsgAssumption, CsgInv, NEW d \in DOMAIN stack
  PROVE  /\ stack[d].node \in NodeIndex /\ IsPart(stack[d].node)
         /\ stack[d].node \notin Registered
         /\ \A l \in DOMAIN links : links[l].to # stack[d].node
<1>1. stack[d].node \in NodeIndex BY FrameNodes
<1>2. nodes[stack[d].node].shape \in Shapes /\ stack[d].node \notin Registered
 BY DEF CsgInv, FramesAreOpen
<1>3. IsPart(stack[d].node) BY <1>2 DEF CsgAssumption, IsPart
<1> QED BY <1>1, <1>2, <1>3, LinkFacts

LEMMA StackFacts ==
  ASSUME CsgInv
  PROVE  Len(stack) \in Nat /\ DOMAIN stack = 1..Len(stack) /\ Len(stack) <= MaxDepth
BY DEF CsgInv, CsgTypeOK, ActiveIsThePath

\* Calls only get on or return.
Shrinks ==
  /\ Len(stack') \in Nat /\ Len(stack') <= Len(stack) /\ DOMAIN stack' = 1..Len(stack')
  /\ \A d \in DOMAIN stack' : /\ stack'[d].node = stack[d].node
                             /\ stack'[d].asked = stack[d].asked
                             /\ stack'[d].operands \subseteq stack[d].operands

\* The request gets at most one more node, and keeps those it has.
OneMoreNode == NodesKept /\ Len(nodes') \in {Len(nodes), Len(nodes) + 1}

LEMMA NodeIndexFacts ==
  ASSUME CsgInv, OneMoreNode
  PROVE  /\ Len(nodes) \in Nat /\ Len(nodes') \in Nat
         /\ NodeIndex = 1..Len(nodes) /\ NodeIndex' = 1..Len(nodes')
         /\ NodeIndex \subseteq NodeIndex'
         /\ NodeIndex' \subseteq NodeIndex \cup {Len(nodes) + 1}
         /\ \A n \in NodeIndex : nodes'[n] = nodes[n] /\ (IsPart(n)' <=> IsPart(n))
<1>1. nodes \in Seq(NodeRecords) BY DEF CsgInv, CsgTypeOK
<1> QED BY <1>1 DEF OneMoreNode, NodesKept, NodeIndex, IsPart

\* A level for the new node: one below the call on top.
Extended(level) ==
  [n \in NodeIndex' |-> IF n \in NodeIndex THEN level[n] ELSE Len(stack) + 1]

\* A step that makes no link keeps the order.
LEMMA OrderKept ==
  ASSUME CsgAssumption, CsgInv, PlanInOrder, OneMoreNode, Shrinks,
         links' = links, shared' = shared, nodes # <<>>
  PROVE  PlanInOrder'
<1>1. /\ Len(nodes) \in Nat /\ NodeIndex = 1..Len(nodes) /\ NodeIndex \subseteq NodeIndex'
      /\ \A n \in NodeIndex : nodes'[n] = nodes[n] /\ (IsPart(n)' <=> IsPart(n))
 BY NodeIndexFacts
<1>2. /\ Len(stack) \in Nat /\ DOMAIN stack = 1..Len(stack) /\ DOMAIN stack' \subseteq DOMAIN stack
 BY StackFacts DEF Shrinks
<1>3. LinksInOrder' BY DEF LinksInOrder, PlanInOrder
<1>4. KindsAhead'
 <2> SUFFICES ASSUME NEW d \in DOMAIN stack',
                     \/ \E l \in DOMAIN links : /\ links[l].from = stack'[d].node
                                               /\ links[l].kind = "subtract"
                     \/ d < Len(stack') /\ ~stack'[d + 1].asked.addition
              PROVE  /\ \A o \in stack'[d].operands : ~o.addition
                     /\ d < Len(stack') => ~stack'[d + 1].asked.addition
  BY DEF KindsAhead
 <2>1. d \in DOMAIN stack /\ stack'[d].node = stack[d].node BY <1>2 DEF Shrinks
 <2>2. d < Len(stack') => d < Len(stack) /\ stack'[d + 1].asked = stack[d + 1].asked
  BY <1>2 DEF Shrinks
 <2>3. /\ \A o \in stack[d].operands : ~o.addition
       /\ d < Len(stack) => ~stack[d + 1].asked.addition
  BY <2>1, <2>2 DEF PlanInOrder, KindsAhead
 <2> QED BY <2>2, <2>3 DEF Shrinks
<1>5. \A l \in DOMAIN links : First(l)' <=> First(l) BY DEF First
<1>6. NodesInOrder'
 <2>1. \A d \in DOMAIN stack' : d \in DOMAIN stack /\ stack'[d].node = stack[d].node
  BY <1>2 DEF Shrinks
 <2>2. \A l \in DOMAIN links : IsPart(links[l].to)' <=> IsPart(links[l].to)
  BY <1>1, LinkFacts DEF IsPart
 <2>3. \A l \in DOMAIN links' : First(l)' /\ IsPart(links[l].to)' =>
           First(l) /\ IsPart(links[l].to)
  BY <1>5, <2>2
 <2>4. \A u, k : MadeWithin(u, k)' <=> MadeWithin(u, k) BY DEF MadeWithin
 <2>5. /\ \A c, d \in DOMAIN stack' : c < d => stack'[c].node < stack'[d].node
       /\ \A d \in DOMAIN stack', k \in DOMAIN links : MadeWithin(stack'[d].node, k)
  BY <2>1 DEF NodesInOrder, PlanInOrder
 <2>6. \A l \in DOMAIN links : First(l) /\ IsPart(links[l].to) =>
           /\ links[l].from < links[l].to
           /\ \A k \in DOMAIN links : k < l => MadeWithin(links[l].to, k)
  BY DEF NodesInOrder, PlanInOrder
 <2> HIDE DEF MadeWithin, First, IsPart
 <2> QED BY <2>3, <2>4, <2>5, <2>6 DEF NodesInOrder, MadeWithin
<1>7. RootStandsOut'
 <2>1. 1 \in NodeIndex BY <1>1 DEF CsgInv, CsgTypeOK
 <2>2. IsPart(1)' BY <1>1, <2>1 DEF RootStandsOut, PlanInOrder
 <2>3. stack' # <<>> => stack'[1].node = 1
  BY <1>2 DEF Shrinks, RootStandsOut, PlanInOrder
 <2>4. \A l \in DOMAIN links : IsPart(links[l].from)'
  BY <1>1, LinkFacts DEF RootStandsOut, PlanInOrder, IsPart
 <2> QED BY <2>2, <2>3, <2>4 DEF RootStandsOut, PlanInOrder, Registered, IsPart
<1>8. RegisteredIsLinked' BY DEF RegisteredIsLinked, PlanInOrder, Registered
<1>9. \E level \in [NodeIndex -> Nat]' : IsLevel(level)'
 <2> PICK level \in [NodeIndex -> Nat] : IsLevel(level) BY DEF PlanInOrder
 <2> PICK next : next = Extended(level) OBVIOUS
 <2>1. next \in [NodeIndex' -> Nat] BY <1>1, <1>2 DEF Extended
 <2>2. \A n \in NodeIndex : next[n] = level[n] BY <1>1 DEF Extended
 <2>3. next[1] = 1 BY <1>1, <2>2 DEF IsLevel, CsgInv, CsgTypeOK
 <2>4. \A d \in DOMAIN stack' : next[stack'[d].node] = d
  BY <1>2, <2>2, FrameNodes DEF Shrinks, IsLevel
 <2>5. ASSUME NEW l \in DOMAIN links, IsPart(links[l].to)'
       PROVE  /\ next[links[l].from] < MaxDepth
              /\ First(l)' => next[links[l].to] = next[links[l].from] + 1
  <3>1. links[l].from \in NodeIndex /\ links[l].to \in NodeIndex BY LinkFacts
  <3>2. IsPart(links[l].to) BY <1>1, <2>5, <3>1 DEF IsPart
  <3> QED BY <1>5, <2>2, <3>1, <3>2 DEF IsLevel
 <2>6. IsLevel(next)' BY <2>1, <2>3, <2>4, <2>5 DEF IsLevel, IsPart
 <2> QED BY <2>1, <2>6
<1> QED BY <1>3, <1>4, <1>6, <1>7, <1>8, <1>9 DEF PlanInOrder

\* Call c is on top after the step, and gets a link from its node f to t: a registered node, a
\* new one, or the node of the call that returned.
Linking(c, f, t, kind) ==
  /\ c = Len(stack') /\ c \in DOMAIN stack /\ f = stack[c].node
  /\ t \in NodeIndex' /\ kind \in {"union", "subtract"}
  /\ links' = Append(links, Link(f, kind, t))
  /\ kind = "union" => \/ \E o \in stack[c].operands : o.addition
                       \/ c < Len(stack) /\ stack[c + 1].asked.addition
  /\ kind = "subtract" => \A o \in stack'[c].operands : ~o.addition
  /\ IsPart(t)' => c < MaxDepth
  /\ \/ t \in Registered /\ shared' = shared
     \/ /\ t = Len(nodes) + 1 /\ c = Len(stack)
        /\ shared' = Append(shared, t) \/ (shared' = shared /\ ~IsPart(t)')
     \/ /\ c + 1 = Len(stack) /\ t = stack[c + 1].node /\ shared' = Append(shared, t)

LEMMA OrderLinked ==
  ASSUME CsgAssumption, CsgInv, PlanInOrder, OneMoreNode, Shrinks, nodes # <<>>,
         NEW c, NEW f, NEW t, NEW kind, Linking(c, f, t, kind)
  PROVE  PlanInOrder'
<1>a. /\ c = Len(stack') /\ c \in DOMAIN stack /\ f = stack[c].node
      /\ t \in NodeIndex' /\ kind \in {"union", "subtract"}
 BY DEF Linking
<1>b. links' = Append(links, Link(f, kind, t)) BY DEF Linking
<1>c. kind = "union" => \/ \E o \in stack[c].operands : o.addition
                        \/ c < Len(stack) /\ stack[c + 1].asked.addition
 BY DEF Linking
<1>d. kind = "subtract" => \A o \in stack'[c].operands : ~o.addition BY DEF Linking
<1>e. IsPart(t)' => c < MaxDepth BY DEF Linking
<1>f. \/ t \in Registered /\ shared' = shared
      \/ /\ t = Len(nodes) + 1 /\ c = Len(stack)
         /\ shared' = Append(shared, t) \/ (shared' = shared /\ ~IsPart(t)')
      \/ /\ c + 1 = Len(stack) /\ t = stack[c + 1].node /\ shared' = Append(shared, t)
 BY DEF Linking
<1>1. /\ Len(nodes) \in Nat /\ NodeIndex = 1..Len(nodes) /\ NodeIndex \subseteq NodeIndex'
      /\ \A n \in NodeIndex : nodes'[n] = nodes[n] /\ (IsPart(n)' <=> IsPart(n))
 BY NodeIndexFacts
<1>2. /\ Len(stack) \in Nat /\ DOMAIN stack = 1..Len(stack) /\ DOMAIN stack' \subseteq DOMAIN stack
      /\ c \in 1..Len(stack) /\ DOMAIN stack' = 1..c
 BY <1>a, StackFacts DEF Shrinks
<1>3. /\ f \in NodeIndex /\ IsPart(f) /\ f \notin Registered
      /\ \A l \in DOMAIN links : links[l].to # f
 BY <1>a, OpenFacts
<1> PICK e : e = Len(links) + 1 OBVIOUS
<1>4. /\ Len(links) \in Nat /\ DOMAIN links = 1..Len(links)
      /\ \A l \in DOMAIN links : links[l].from \in NodeIndex /\ links[l].to \in NodeIndex
 BY LinkFacts
<1>5. /\ DOMAIN links' = DOMAIN links \cup {e} /\ e \in Nat /\ e \notin DOMAIN links
      /\ \A l \in DOMAIN links : l < e /\ l \in Nat /\ links'[l] = links[l]
      /\ links'[e].from = f /\ links'[e].to = t /\ links'[e].kind = kind
 <2>1. links \in Seq(LinkRecords) BY DEF CsgInv, CsgTypeOK
 <2>2. links'[e] = Link(f, kind, t) BY <1>b, <2>1
 <2> QED BY <1>4, <1>b, <2>1, <2>2 DEF Link
<1>6. t # f
 <2>1. CASE t \in Registered BY <1>3, <2>1
 <2>2. CASE t = Len(nodes) + 1 BY <1>1, <1>3, <2>2
 <2>3. CASE c + 1 = Len(stack) /\ t = stack[c + 1].node
  <3>1. stack[c].node < stack[c + 1].node
   BY <1>2, <2>3 DEF PlanInOrder, NodesInOrder
  <3> QED BY <1>1, <1>3, <1>a, <2>3, <3>1
 <2> QED BY <1>f, <2>1, <2>2, <2>3
<1>7. LinksInOrder'
 <2>1. ASSUME NEW k \in DOMAIN links', NEW l \in DOMAIN links', links'[k].from = links'[l].to
       PROVE  k < l
  <3>1. CASE k = e BY <1>3, <1>5, <1>6, <2>1, <3>1
  <3>2. CASE k # e /\ l = e BY <1>5, <3>2
  <3>3. CASE k # e /\ l # e
   BY <1>5, <2>1, <3>3 DEF PlanInOrder, LinksInOrder
  <3> QED BY <3>1, <3>2, <3>3
 <2>2. ASSUME NEW k \in DOMAIN links', NEW l \in DOMAIN links', k < l,
              links'[k].from = links'[l].from
       PROVE  links'[k].kind = "union" \/ links'[l].kind = "subtract"
  <3>1. CASE k = e BY <1>5, <2>2, <3>1
  <3>2. CASE k # e /\ l # e BY <1>5, <2>2, <3>2 DEF PlanInOrder, LinksInOrder
  <3>3. CASE k # e /\ l = e /\ kind = "union"
   <4>1. links[k].from = stack[c].node BY <1>5, <1>a, <2>2, <3>3
   <4>2. links[k].kind # "subtract"
    BY <1>2, <1>5, <1>a, <1>c, <3>3, <4>1 DEF PlanInOrder, KindsAhead
   <4>3. links[k].kind \in {"union", "subtract"} BY <1>5, <3>3, LinkFacts
   <4> QED BY <1>5, <3>3, <4>2, <4>3
  <3>4. CASE k # e /\ l = e /\ kind = "subtract" BY <1>5, <3>4
  <3> QED BY <1>5, <1>a, <3>1, <3>2, <3>3, <3>4
 <2> QED BY <2>1, <2>2 DEF LinksInOrder
<1>8. KindsAhead'
 <2> SUFFICES ASSUME NEW d \in DOMAIN stack',
                     \/ \E l \in DOMAIN links' : /\ links'[l].from = stack'[d].node
                                                /\ links'[l].kind = "subtract"
                     \/ d < Len(stack') /\ ~stack'[d + 1].asked.addition
              PROVE  /\ \A o \in stack'[d].operands : ~o.addition
                     /\ d < Len(stack') => ~stack'[d + 1].asked.addition
  BY DEF KindsAhead
 <2>1. d \in DOMAIN stack /\ stack'[d].node = stack[d].node /\ d <= c
  BY <1>2 DEF Shrinks
 <2>2. d < Len(stack') => d < Len(stack) /\ stack'[d + 1].asked = stack[d + 1].asked
  BY <1>2, <1>a DEF Shrinks
 <2>3. CASE \/ \E l \in DOMAIN links : /\ links[l].from = stack[d].node
                                       /\ links[l].kind = "subtract"
            \/ d < Len(stack') /\ ~stack'[d + 1].asked.addition
  <3>1. /\ \A o \in stack[d].operands : ~o.addition
        /\ d < Len(stack) => ~stack[d + 1].asked.addition
   BY <2>1, <2>2, <2>3 DEF PlanInOrder, KindsAhead
  <3> QED BY <2>2, <3>1 DEF Shrinks
 <2>4. CASE f = stack[d].node /\ kind = "subtract"
  <3>1. ~(d < c)
   <4>1. d < c => stack[d].node < stack[c].node
    BY <1>2, <2>1 DEF PlanInOrder, NodesInOrder
   <4> QED BY <1>1, <1>3, <1>a, <2>4, <4>1
  <3>2. d = c BY <1>2, <2>1, <3>1
  <3> QED BY <1>2, <1>a, <1>d, <2>4, <3>2
 <2>5. \/ \E l \in DOMAIN links : /\ links[l].from = stack[d].node
                                 /\ links[l].kind = "subtract"
       \/ d < Len(stack') /\ ~stack'[d + 1].asked.addition
       \/ f = stack[d].node /\ kind = "subtract"
  BY <1>5, <2>1
 <2> QED BY <2>3, <2>4, <2>5
<1>9. \A l \in DOMAIN links : First(l)' <=> First(l) BY <1>5 DEF First
<1>10. First(e)' => t \notin Registered
 <2> SUFFICES ASSUME First(e)', t \in Registered PROVE FALSE
  OBVIOUS
 <2>1. PICK l \in DOMAIN links : links[l].to = t BY DEF PlanInOrder, RegisteredIsLinked
 <2> QED BY <1>5, <2>1 DEF First
<1>11. NodesInOrder'
 <2>1. \A d \in DOMAIN stack' : d \in DOMAIN stack /\ stack'[d].node = stack[d].node
  BY <1>2 DEF Shrinks
 <2>2. \A c1, d \in DOMAIN stack' : c1 < d => stack'[c1].node < stack'[d].node
  BY <2>1 DEF NodesInOrder, PlanInOrder
 <2>3. \A u : \A k \in DOMAIN links : MadeWithin(u, k)' <=> MadeWithin(u, k)
  BY <1>5 DEF MadeWithin
 <2>4. ASSUME NEW d \in DOMAIN stack', NEW k \in DOMAIN links'
       PROVE  MadeWithin(stack[d].node, k)'
  <3>1. CASE k \in DOMAIN links
   <4>1. MadeWithin(stack[d].node, k) BY <2>1, <3>1 DEF NodesInOrder, PlanInOrder
   <4> QED BY <1>5, <2>1, <3>1, <4>1 DEF MadeWithin
  <3>2. CASE k = e
   <4>1. stack'[d].node <= f
    <5>1. d \in 1..c BY <1>2
    <5>2. CASE d = c BY <1>1, <1>3, <1>a, <2>1, <5>2
    <5>3. CASE d < c
     <6>1. stack[d].node < f
      BY <1>2, <1>a, <2>1, <5>3 DEF NodesInOrder, PlanInOrder
     <6>2. stack[d].node \in NodeIndex BY <2>1, FrameNodes
     <6> QED BY <1>1, <1>3, <2>1, <6>1, <6>2
    <5> QED BY <1>2, <5>1, <5>2, <5>3
   <4> QED BY <1>5, <3>2, <4>1 DEF MadeWithin
  <3> QED BY <1>5, <3>1, <3>2
 <2>5. ASSUME NEW l \in DOMAIN links', First(l)', IsPart(links[l].to)'
       PROVE  /\ links'[l].from < links'[l].to
              /\ \A k \in DOMAIN links' : k < l => MadeWithin(links[l].to, k)'
  <3>1. CASE l \in DOMAIN links
   <4>1. First(l) /\ IsPart(links[l].to) BY <1>1, <1>4, <1>5, <1>9, <2>5, <3>1 DEF IsPart
   <4>2. /\ links[l].from < links[l].to
         /\ \A k \in DOMAIN links : k < l => MadeWithin(links[l].to, k)
    BY <3>1, <4>1 DEF NodesInOrder, PlanInOrder
   <4>3. \A k \in DOMAIN links' : k < l => k \in DOMAIN links BY <1>5, <3>1
   <4> QED BY <1>5, <3>1, <4>2, <4>3 DEF MadeWithin
  <3>2. CASE l = e
   <4>1. t \notin Registered BY <1>10, <2>5, <3>2
   <4>2. \A k \in DOMAIN links' : k < e => k \in DOMAIN links BY <1>5
   <4>3. CASE t = Len(nodes) + 1
    <5>1. f < t BY <1>1, <1>3, <4>3
    <5>2. \A k \in DOMAIN links : links[k].to < t BY <1>1, <1>4, <4>3
    <5> QED BY <1>5, <3>2, <4>2, <5>1, <5>2 DEF MadeWithin
   <4>4. CASE c + 1 = Len(stack) /\ t = stack[c + 1].node
    <5>1. f < t BY <1>2, <1>a, <4>4 DEF NodesInOrder, PlanInOrder
    <5>2. \A k \in DOMAIN links : MadeWithin(t, k)
     BY <1>2, <4>4 DEF NodesInOrder, PlanInOrder
    <5> QED BY <1>5, <3>2, <4>2, <5>1, <5>2 DEF MadeWithin
   <4> QED BY <1>f, <4>1, <4>3, <4>4
  <3> QED BY <1>5, <3>1, <3>2
 <2>6. \A c1, d \in DOMAIN stack' : c1 < d => stack'[c1].node < stack'[d].node BY <2>2
 <2> HIDE DEF MadeWithin, First, IsPart
 <2> QED BY <2>4, <2>5, <2>6 DEF NodesInOrder
<1>12. 1 \in NodeIndex BY <1>1 DEF CsgInv, CsgTypeOK
<1>13. \A n : n \in Registered' => n \in Registered \/ (n = t /\ shared' = Append(shared, t))
 <2>1. shared \in Seq(NodeIndex) BY DEF CsgInv, CsgTypeOK
 <2>2. shared' = shared \/ shared' = Append(shared, t) BY <1>f
 <2>3. \A k \in DOMAIN shared' : \/ k \in DOMAIN shared /\ shared'[k] = shared[k]
                                 \/ shared'[k] = t /\ shared' = Append(shared, t)
  BY <2>1, <2>2
 <2> QED BY <2>3 DEF Registered
<1>14. RootStandsOut'
 <2>1. IsPart(1)' BY <1>1, <1>12 DEF RootStandsOut, PlanInOrder
 <2>2. stack' # <<>> => stack'[1].node = 1
  BY <1>2 DEF Shrinks, RootStandsOut, PlanInOrder
 <2>3. \A l \in DOMAIN links' : IsPart(links[l].from)'
  <3> TAKE l \in DOMAIN links'
  <3>1. CASE l \in DOMAIN links
   BY <1>1, <1>4, <1>5, <3>1 DEF RootStandsOut, PlanInOrder, IsPart
  <3>2. CASE l = e BY <1>1, <1>3, <1>5, <3>2 DEF IsPart
  <3> QED BY <1>5, <3>1, <3>2
 <2>4. 1 \notin Registered'
  <3>1. 1 \notin Registered BY DEF RootStandsOut, PlanInOrder
  <3>2. CASE t = Len(nodes) + 1 BY <1>1, <1>12, <1>13, <3>1, <3>2
  <3>3. CASE c + 1 = Len(stack) /\ t = stack[c + 1].node
   <4>1. stack[1].node < t
    BY <1>2, <3>3 DEF NodesInOrder, PlanInOrder
   <4>2. stack[1].node = 1 BY <1>2 DEF RootStandsOut, PlanInOrder
   <4>3. t # 1 BY <4>1, <4>2
   <4> QED BY <1>13, <3>1, <4>3
  <3>4. CASE shared' = shared BY <3>1, <3>4 DEF Registered
  <3> QED BY <1>f, <3>2, <3>3, <3>4
 <2> HIDE DEF IsPart
 <2> QED BY <2>1, <2>2, <2>3, <2>4 DEF RootStandsOut
<1>15. RegisteredIsLinked'
 <2> SUFFICES ASSUME NEW n \in Registered' PROVE \E l \in DOMAIN links' : links'[l].to = n
  BY DEF RegisteredIsLinked
 <2>1. CASE n \in Registered
  <3>1. PICK l \in DOMAIN links : links[l].to = n
   BY <2>1 DEF RegisteredIsLinked, PlanInOrder
  <3> QED BY <1>5, <3>1
 <2>2. CASE n = t BY <1>5, <2>2
 <2> QED BY <1>13, <2>1, <2>2
<1>16. \E level \in [NodeIndex -> Nat]' : IsLevel(level)'
 <2> PICK level \in [NodeIndex -> Nat] : IsLevel(level) BY DEF PlanInOrder
 <2> PICK next : next = Extended(level) OBVIOUS
 <2>1. next \in [NodeIndex' -> Nat] BY <1>1, <1>2 DEF Extended
 <2>2. \A n \in NodeIndex : next[n] = level[n] BY <1>1 DEF Extended
 <2>3. next[1] = 1 BY <1>12, <2>2 DEF IsLevel
 <2>4. \A d \in DOMAIN stack' : next[stack'[d].node] = d
  BY <1>2, <2>2, FrameNodes DEF Shrinks, IsLevel
 <2>5. next[f] = c BY <1>3, <1>a, <2>2 DEF IsLevel
 <2>6. ASSUME NEW l \in DOMAIN links', IsPart(links[l].to)'
       PROVE  /\ next[links'[l].from] < MaxDepth
              /\ First(l)' => next[links'[l].to] = next[links'[l].from] + 1
  <3>1. CASE l \in DOMAIN links
   <4>1. links[l].from \in NodeIndex /\ links[l].to \in NodeIndex BY <1>4, <3>1
   <4>2. IsPart(links[l].to) BY <1>1, <1>5, <2>6, <3>1, <4>1 DEF IsPart
   <4> QED BY <1>5, <1>9, <2>2, <3>1, <4>1, <4>2 DEF IsLevel
  <3>2. CASE l = e
   <4>1. c < MaxDepth BY <1>5, <1>e, <2>6, <3>2 DEF IsPart
   <4>2. ASSUME First(l)' PROVE next[t] = c + 1
    <5>1. t \notin Registered BY <1>10, <3>2, <4>2
    <5>2. CASE t = Len(nodes) + 1 /\ c = Len(stack)
     BY <1>1, <1>a, <5>2 DEF Extended
    <5>3. CASE c + 1 = Len(stack) /\ t = stack[c + 1].node
     <6>1. c + 1 \in DOMAIN stack BY <1>2, <5>3
     <6>2. t \in NodeIndex BY <5>3, <6>1, FrameNodes
     <6> QED BY <2>2, <5>3, <6>1, <6>2 DEF IsLevel
    <5> QED BY <1>f, <5>1, <5>2, <5>3
   <4> QED BY <1>5, <2>5, <3>2, <4>1, <4>2
  <3> QED BY <1>5, <3>1, <3>2
 <2> HIDE DEF First, IsPart
 <2>7. IsLevel(next)' BY <2>1, <2>3, <2>4, <2>6 DEF IsLevel
 <2> QED BY <2>1, <2>7
<1> QED BY <1>7, <1>8, <1>11, <1>14, <1>15, <1>16 DEF PlanInOrder

\* A call begins: its node has the highest number, and no links yet.
LEMMA OrderCalled ==
  ASSUME CsgAssumption, model \in Models, CsgInv, PlanInOrder, NEW o, VisitNode(o)
  PROVE  PlanInOrder'
<1> PICK t : t = Len(nodes) + 1 OBVIOUS
<1> PICK fresh : fresh = Frame(t, o.target, o.shape, o) OBVIOUS
<1> PICK m : m = Len(stack) OBVIOUS
<1>1. /\ Appendable(o) /\ AppendNode(o.target, o.shape)
      /\ stack' = Append(OperandDone(o), fresh)
      /\ UNCHANGED <<model, links, shared, outcome>>
 BY DEF VisitNode
<1>2. /\ NextOperand(o) /\ o.target \notin active /\ Depth < MaxDepth
      /\ Matches(o.target, o.shape) = {} /\ NodeFits(o.target)
 BY <1>1 DEF Appendable, Enterable
<1>3. /\ o.step \in Nat /\ o.target \in Objects /\ o.shape \in Shapes /\ outcome = "building"
 BY <1>2, OperandFacts
<1>4. NodesKept BY <1>1, <1>2, <1>3, AppendFacts
<1>5. nodes \in Seq(NodeRecords) BY DEF CsgInv, CsgTypeOK
<1>6. /\ Len(nodes') = Len(nodes) + 1 /\ nodes'[t] = Node(o.target, o.shape)
 BY <1>1, <1>5 DEF AppendNode
<1>7. OneMoreNode BY <1>4, <1>6 DEF OneMoreNode
<1>8. /\ Len(nodes) \in Nat /\ NodeIndex = 1..Len(nodes) /\ NodeIndex' = 1..t
      /\ NodeIndex \subseteq NodeIndex'
      /\ \A n \in NodeIndex : nodes'[n] = nodes[n] /\ (IsPart(n)' <=> IsPart(n))
 BY <1>6, <1>7, NodeIndexFacts
<1>9. stack \in Seq(FrameRecords) /\ m \in Nat \ {0} /\ DOMAIN stack = 1..m
 BY <1>3, TopFacts DEF CsgInv, CsgTypeOK
<1>10. OperandDone(o) \in Seq(FrameRecords) /\ Len(OperandDone(o)) = m
 BY <1>3, <1>9, OperandDoneCalls DEF SameCalls
<1>11. /\ DOMAIN stack' = 1..(m + 1) /\ Len(stack') = m + 1 /\ stack'[m + 1] = fresh
       /\ \A d \in DOMAIN stack : stack'[d] = OperandDone(o)[d]
 BY <1>1, <1>9, <1>10
<1>12. /\ \A d \in DOMAIN stack : OperandDone(o)[d].node = stack[d].node
       /\ \A d \in DOMAIN stack : OperandDone(o)[d].asked = stack[d].asked
       /\ \A d \in DOMAIN stack : OperandDone(o)[d].operands \subseteq stack[d].operands
 <2> PICK f : f = [stack[m] EXCEPT !.operands = @ \ {o}] OBVIOUS
 <2>1. stack[m] \in FrameRecords BY <1>9
 <2>2. f.node = stack[m].node /\ f.asked = stack[m].asked /\ f.operands \subseteq stack[m].operands
  BY <2>1 DEF FrameRecords
 <2>3. OperandDone(o) = [stack EXCEPT ![m] = f] BY DEF OperandDone
 <2> HIDE DEF FrameRecords
 <2>4. \A d \in DOMAIN stack : OperandDone(o)[d] = IF d = m THEN f ELSE stack[d]
  BY <1>9, <2>3
 <2> QED BY <2>2, <2>4
<1>13. fresh.node = t /\ fresh.asked = o BY DEF Frame
<1>14. \A d \in DOMAIN stack : /\ stack'[d].node = stack[d].node
                              /\ stack'[d].asked = stack[d].asked
                              /\ stack'[d].operands \subseteq stack[d].operands
 BY <1>11, <1>12
<1>15. \A d \in DOMAIN stack' : d \in DOMAIN stack \/ d = m + 1 BY <1>9, <1>11
<1>16. \A l \in DOMAIN links : /\ links[l].from \in NodeIndex /\ links[l].to \in NodeIndex
                              /\ l \in Nat
 BY LinkFacts
<1>17. LinksInOrder' BY <1>1 DEF LinksInOrder, PlanInOrder
<1>18. KindsAhead'
 <2> SUFFICES ASSUME NEW d \in DOMAIN stack',
                     \/ \E l \in DOMAIN links' : /\ links'[l].from = stack'[d].node
                                                /\ links'[l].kind = "subtract"
                     \/ d < Len(stack') /\ ~stack'[d + 1].asked.addition
              PROVE  /\ \A q \in stack'[d].operands : ~q.addition
                     /\ d < Len(stack') => ~stack'[d + 1].asked.addition
  BY DEF KindsAhead
 <2>1. CASE d \in DOMAIN stack /\ d # m
  <3>1. d < m /\ d + 1 \in DOMAIN stack BY <1>9, <2>1
  <3>2. stack'[d + 1].asked = stack[d + 1].asked BY <1>14, <3>1
  <3>3. \/ \E l \in DOMAIN links : /\ links[l].from = stack[d].node
                                  /\ links[l].kind = "subtract"
        \/ d < Len(stack) /\ ~stack[d + 1].asked.addition
   BY <1>1, <1>9, <1>14, <2>1, <3>1, <3>2
  <3>4. /\ \A q \in stack[d].operands : ~q.addition
        /\ d < Len(stack) => ~stack[d + 1].asked.addition
   BY <2>1, <3>3 DEF PlanInOrder, KindsAhead
  <3> QED BY <1>9, <1>14, <2>1, <3>1, <3>2, <3>4
 <2>2. CASE d = m
  <3>1. stack'[d + 1].asked = o BY <1>11, <1>13, <2>2
  <3>2. o \in stack[m].operands /\ \A q \in stack[m].operands : Before(o, q)
   BY <1>2, <1>9 DEF NextOperand, Top
  <3>3. CASE \E l \in DOMAIN links : /\ links[l].from = stack[m].node
                                    /\ links[l].kind = "subtract"
   <4>1. \A q \in stack[m].operands : ~q.addition
    BY <1>9, <3>3 DEF PlanInOrder, KindsAhead
   <4> QED BY <1>9, <1>14, <2>2, <3>1, <3>2, <4>1
  <3>4. CASE ~o.addition
   <4>1. o \in OperandRecords /\ \A q \in stack[m].operands : q \in OperandRecords
    BY <1>3, <1>9, <3>2, TopFacts DEF Top
   <4>2. \A q \in stack[m].operands : ~q.addition
    BY <3>2, <3>4, <4>1 DEF Before, OperandRecords
   <4> QED BY <1>9, <1>14, <2>2, <3>1, <3>4, <4>2
  <3> QED BY <1>1, <1>9, <1>14, <2>2, <3>1, <3>3, <3>4
 <2>3. CASE d = m + 1
  <3>1. \A l \in DOMAIN links : links[l].from # t BY <1>8, <1>16
  <3> QED BY <1>1, <1>9, <1>11, <1>13, <2>3, <3>1
 <2> QED BY <1>15, <2>1, <2>2, <2>3
<1>19. \A l \in DOMAIN links : First(l)' <=> First(l) BY <1>1 DEF First
<1>20. NodesInOrder'
 <2>1. \A c, d \in DOMAIN stack' : c < d => stack'[c].node < stack'[d].node
  <3> TAKE c, d \in DOMAIN stack'
  <3>1. CASE c \in DOMAIN stack /\ d \in DOMAIN stack
   BY <1>14, <3>1 DEF PlanInOrder, NodesInOrder
  <3>2. CASE c \in DOMAIN stack /\ d = m + 1
   <4>1. stack'[c].node \in NodeIndex BY <1>14, <3>2, FrameNodes
   <4>2. stack'[d].node = t BY <1>11, <1>13, <3>2
   <4>3. stack'[c].node < stack'[d].node BY <1>8, <4>1, <4>2
   <4> QED BY <4>3
  <3>3. CASE c = m + 1 BY <1>9, <1>11, <3>3
  <3> QED BY <1>15, <3>1, <3>2, <3>3
 <2>2. ASSUME NEW d \in DOMAIN stack', NEW k \in DOMAIN links
       PROVE  MadeWithin(stack'[d].node, k)
  <3>1. CASE d \in DOMAIN stack BY <1>14, <3>1 DEF PlanInOrder, NodesInOrder
  <3>2. CASE d = m + 1
   <4>1. stack'[d].node = t BY <1>11, <1>13, <3>2
   <4> QED BY <1>8, <1>16, <4>1 DEF MadeWithin
  <3> QED BY <1>15, <3>1, <3>2
 <2>3. ASSUME NEW l \in DOMAIN links, First(l)', IsPart(links[l].to)'
       PROVE  /\ links[l].from < links[l].to
              /\ \A k \in DOMAIN links : k < l => MadeWithin(links[l].to, k)
  <3>1. First(l) /\ IsPart(links[l].to)
   BY <1>1, <1>8, <1>16, <1>19, <2>3 DEF IsPart
  <3> QED BY <3>1 DEF PlanInOrder, NodesInOrder
 <2>4. \A u, k : MadeWithin(u, k)' <=> MadeWithin(u, k) BY <1>1 DEF MadeWithin
 <2> HIDE DEF MadeWithin, First, IsPart
 <2> QED BY <1>1, <2>1, <2>2, <2>3, <2>4 DEF NodesInOrder, MadeWithin
<1>21. 1 \in NodeIndex
 <2>1. stack[1].node \in NodeIndex /\ stack[1].node = 1
  BY <1>9, FrameNodes DEF PlanInOrder, RootStandsOut
 <2> QED BY <2>1
<1>22. RootStandsOut'
 <2>1. IsPart(1)' BY <1>8, <1>21 DEF RootStandsOut, PlanInOrder, CsgInv, CsgTypeOK, NodeIndex
 <2>2. stack'[1].node = 1 BY <1>9, <1>14 DEF RootStandsOut, PlanInOrder
 <2>3. \A l \in DOMAIN links : IsPart(links[l].from)'
  BY <1>1, <1>8, <1>16 DEF RootStandsOut, PlanInOrder, IsPart
 <2> QED BY <1>1, <2>1, <2>2, <2>3 DEF RootStandsOut, PlanInOrder, Registered, IsPart
<1>23. RegisteredIsLinked' BY <1>1 DEF RegisteredIsLinked, PlanInOrder, Registered
<1>24. \E level \in [NodeIndex -> Nat]' : IsLevel(level)'
 <2> PICK level \in [NodeIndex -> Nat] : IsLevel(level) BY DEF PlanInOrder
 <2> PICK next : next = Extended(level) OBVIOUS
 <2>1. next \in [NodeIndex' -> Nat] BY <1>8, <1>9 DEF Extended
 <2>2. \A n \in NodeIndex : next[n] = level[n] BY <1>8 DEF Extended
 <2>3. next[t] = m + 1 BY <1>8 DEF Extended
 <2>4. next[1] = 1
  <3>1. nodes # <<>> BY <1>5, <1>21 DEF NodeIndex
  <3> QED BY <1>21, <2>2, <3>1 DEF IsLevel
 <2>5. \A d \in DOMAIN stack' : next[stack'[d].node] = d
  <3> TAKE d \in DOMAIN stack'
  <3>1. CASE d \in DOMAIN stack BY <1>14, <2>2, <3>1, FrameNodes DEF IsLevel
  <3>2. CASE d = m + 1 BY <1>11, <1>13, <2>3, <3>2
  <3> QED BY <1>15, <3>1, <3>2
 <2>6. ASSUME NEW l \in DOMAIN links, IsPart(links[l].to)'
       PROVE  /\ next[links[l].from] < MaxDepth
              /\ First(l)' => next[links[l].to] = next[links[l].from] + 1
  <3>1. IsPart(links[l].to) BY <1>1, <1>8, <1>16, <2>6 DEF IsPart
  <3> QED BY <1>16, <1>19, <2>2, <3>1 DEF IsLevel
 <2> HIDE DEF First, IsPart
 <2>7. IsLevel(next)' BY <1>1, <2>1, <2>4, <2>5, <2>6 DEF IsLevel, IsPart
 <2> QED BY <2>1, <2>7
<1> QED BY <1>17, <1>18, <1>20, <1>22, <1>23, <1>24 DEF PlanInOrder

LEMMA OrderStarted ==
  ASSUME CsgAssumption, model \in Models, CsgInv, Start
  PROVE  PlanInOrder'
<1>1. /\ nodes = <<>> /\ links = <<>> /\ shared = <<>>
 BY DEF Start, CsgInv, CallsAreTracked
<1>2. /\ links' = <<>> /\ shared' = <<>> /\ nodes' = <<Node(Root, AsDecoded)>>
      /\ stack' = <<Frame(1, Root, AsDecoded, NoOperand)>>
 BY <1>1 DEF Start, AppendNode
<1>3. /\ DOMAIN links' = {} /\ DOMAIN stack' = {1} /\ Len(stack') = 1 /\ stack'[1].node = 1
      /\ NodeIndex' = {1} /\ IsPart(1)' /\ Registered' = {}
 BY <1>2 DEF Frame, NodeIndex, IsPart, Node, Registered, CsgAssumption
<1>4. LinksInOrder' BY <1>3 DEF LinksInOrder
<1>5. KindsAhead' BY <1>3 DEF KindsAhead
<1>6. NodesInOrder' BY <1>3 DEF NodesInOrder
<1>7. RootStandsOut' /\ RegisteredIsLinked' BY <1>3 DEF RootStandsOut, RegisteredIsLinked
<1>8. \E level \in [NodeIndex -> Nat]' : IsLevel(level)'
 <2> PICK level : level = [n \in {1} |-> 1] OBVIOUS
 <2>1. level \in [{1} -> Nat] /\ level[1] = 1 OBVIOUS
 <2>2. IsLevel(level)' BY <1>3, <2>1 DEF IsLevel
 <2> QED BY <1>3, <2>1, <2>2
<1> QED BY <1>4, <1>5, <1>6, <1>7, <1>8 DEF PlanInOrder

LEMMA OrderBefore ==
  ASSUME CsgInv, nodes = <<>>, links = <<>>, stack = <<>>, shared = <<>>
  PROVE  PlanInOrder
<1>1. DOMAIN links = {} /\ DOMAIN stack = {} /\ NodeIndex = {} /\ Registered = {}
 BY DEF NodeIndex, Registered
<1>2. \E level \in [NodeIndex -> Nat] : IsLevel(level)
 <2> PICK level : level = [n \in {} |-> 1] OBVIOUS
 <2>1. level \in [{} -> Nat] OBVIOUS
 <2> QED BY <1>1, <2>1 DEF IsLevel
<1> QED BY <1>1, <1>2 DEF PlanInOrder, LinksInOrder, KindsAhead, NodesInOrder, RootStandsOut,
                      RegisteredIsLinked

LEMMA OrderIdle ==
  ASSUME PlanInOrder, UNCHANGED <<nodes, links, stack, shared>>
  PROVE  PlanInOrder'
<1>1. LinksInOrder' BY DEF PlanInOrder, LinksInOrder
<1>2. KindsAhead' BY DEF PlanInOrder, KindsAhead
<1>3. NodesInOrder' BY DEF PlanInOrder, NodesInOrder, MadeWithin, First, IsPart
<1>4. RootStandsOut' BY DEF PlanInOrder, RootStandsOut, Registered, IsPart
<1>5. RegisteredIsLinked' BY DEF PlanInOrder, RegisteredIsLinked, Registered
<1>6. \E level \in [NodeIndex -> Nat]' : IsLevel(level)'
 <2> PICK level \in [NodeIndex -> Nat] : IsLevel(level) BY DEF PlanInOrder
 <2>1. NodeIndex' = NodeIndex BY DEF NodeIndex
 <2>2. IsLevel(level)' BY <2>1 DEF IsLevel, First, IsPart
 <2> QED BY <2>1, <2>2
<1> QED BY <1>1, <1>2, <1>3, <1>4, <1>5, <1>6 DEF PlanInOrder

LEMMA OperandDoneShrinks ==
  ASSUME CsgInv, outcome = "building", NEW o, stack' = OperandDone(o)
  PROVE  Shrinks /\ Len(stack') = Len(stack)
         /\ stack'[Len(stack)].operands = Top.operands \ {o}
<1>1. /\ SameTower /\ stack'[Len(stack)].operands = Top.operands \ {o}
 BY OperandDoneTower
<1>2. Len(stack) \in DOMAIN stack BY TopFacts
<1> QED BY <1>1, <1>2, StackFacts DEF Shrinks, SameTower, Top

LEMMA ChamferDoneShrinks ==
  ASSUME CsgInv, outcome = "building", NEW i, stack' = ChamferDone(i)
  PROVE  Shrinks /\ Len(stack') = Len(stack)
         /\ stack'[Len(stack)].operands = Top.operands
<1>1. /\ SameTower /\ stack'[Len(stack)].operands = Top.operands
 BY ChamferDoneTower
<1>2. Len(stack) \in DOMAIN stack BY TopFacts
<1> QED BY <1>1, <1>2, StackFacts DEF Shrinks, SameTower, Top

LEMMA PopShrinks ==
  ASSUME CsgInv, outcome = "building", Pop
  PROVE  Shrinks /\ Len(stack') = Len(stack) - 1
<1>1. stack \in Seq(FrameRecords) /\ Len(stack) \in Nat \ {0} /\ DOMAIN stack = 1..Len(stack)
 BY TopFacts DEF CsgInv, CsgTypeOK
<1>2. /\ Len(stack') = Len(stack) - 1 /\ DOMAIN stack' = 1..(Len(stack) - 1)
      /\ \A d \in 1..(Len(stack) - 1) : stack'[d] = stack[d]
 BY <1>1 DEF Pop
<1> QED BY <1>1, <1>2 DEF Shrinks

LEMMA BuildingHasNodes ==
  ASSUME CsgInv, outcome = "building"
  PROVE  nodes # <<>>
BY TopFacts DEF NodeIndex, CsgInv, CsgTypeOK

\* The operative on turn: an addition, or no additions are left.
LEMMA OperandOnTurn ==
  ASSUME CsgInv, NEW o, NextOperand(o), stack' = OperandDone(o)
  PROVE  /\ outcome = "building" /\ nodes # <<>>
         /\ Len(stack) \in DOMAIN stack /\ Len(stack') = Len(stack) /\ Shrinks
         /\ LinkKind(o) \in {"union", "subtract"}
         /\ LinkKind(o) = "union" => \E q \in stack[Len(stack)].operands : q.addition
         /\ LinkKind(o) = "subtract" => \A q \in stack'[Len(stack)].operands : ~q.addition
<1>1. outcome = "building" /\ o \in Top.operands /\ \A q \in Top.operands : Before(o, q)
 BY DEF NextOperand
<1>2. /\ Shrinks /\ Len(stack') = Len(stack)
      /\ stack'[Len(stack)].operands = Top.operands \ {o}
 BY <1>1, OperandDoneShrinks
<1>3. Len(stack) \in DOMAIN stack /\ Top.operands \subseteq OperandRecords BY <1>1, TopFacts
<1>4. \A q \in Top.operands : q.addition \in BOOLEAN BY <1>3 DEF OperandRecords
<1>5. LinkKind(o) = "union" => \E q \in stack[Len(stack)].operands : q.addition
 BY <1>1 DEF LinkKind, Top
<1>6. LinkKind(o) = "subtract" => \A q \in Top.operands : ~q.addition
 BY <1>1, <1>4 DEF LinkKind, Before
<1> QED BY <1>1, <1>2, <1>3, <1>5, <1>6, BuildingHasNodes DEF LinkKind

LEMMA SameNodes ==
  ASSUME CsgInv, nodes' = nodes
  PROVE  OneMoreNode
BY DEF OneMoreNode, NodesKept, CsgInv, CsgTypeOK

LEMMA AppendedNode ==
  ASSUME CsgAssumption, model \in Models, CsgInv, NEW p \in Objects,
         NEW shape \in Shapes \cup {Chamfer}, NodeFits(p), AppendNode(p, shape)
  PROVE  /\ OneMoreNode /\ Len(nodes) + 1 \in NodeIndex'
         /\ nodes'[Len(nodes) + 1] = Node(p, shape)
<1>1. NodesKept BY AppendFacts
<1>2. nodes \in Seq(NodeRecords) BY DEF CsgInv, CsgTypeOK
<1>3. Len(nodes') = Len(nodes) + 1 /\ nodes'[Len(nodes) + 1] = Node(p, shape)
 BY <1>2 DEF AppendNode
<1> QED BY <1>1, <1>2, <1>3 DEF OneMoreNode, NodeIndex

LEMMA NextOrder ==
  ASSUME CsgAssumption, model \in Models, CsgInv, PlanInOrder, [Next]_csgVars
  PROVE  PlanInOrder'
<1>1. CASE StartNothing \/ StartOverLimits \/ UNCHANGED csgVars
 BY <1>1, OrderIdle DEF StartNothing, StartOverLimits, csgVars, requestVars
<1>2. CASE Start BY <1>2, OrderStarted
<1>3. ASSUME NEW o, VisitTooDeep(o) \/ VisitCycle(o) \/ VisitOverLimits(o) PROVE PlanInOrder'
 <2>1. /\ NextOperand(o) /\ stack' = OperandDone(o)
       /\ UNCHANGED <<nodes, links, shared>>
  BY <1>3 DEF VisitTooDeep, VisitCycle, VisitOverLimits, Enterable, Omit, requestVars
 <2>2. Shrinks /\ nodes # <<>> BY <2>1, OperandOnTurn
 <2> QED BY <2>1, <2>2, SameNodes, OrderKept
<1>4. ASSUME NEW o, VisitShared(o) PROVE PlanInOrder'
 <2>1. /\ NextOperand(o) /\ Depth < MaxDepth /\ stack' = OperandDone(o)
       /\ nodes' = nodes /\ shared' = shared
  BY <1>4 DEF VisitShared, Enterable
 <2>2. PICK t \in Matches(o.target, o.shape) :
           links' = Append(links, Link(Top.node, LinkKind(o), t))
  BY <1>4 DEF VisitShared
 <2>3. t \in Registered /\ t \in NodeIndex BY RegisteredFacts DEF Matches
 <2> PICK c : c = Len(stack) OBVIOUS
 <2> PICK f : f = stack[c].node OBVIOUS
 <2>4. links' = Append(links, Link(f, LinkKind(o), t)) BY <2>2 DEF Top
 <2>5. NodeIndex' = NodeIndex BY <2>1 DEF NodeIndex
 <2>6. Linking(c, f, t, LinkKind(o))
  BY <2>1, <2>3, <2>4, <2>5, OperandOnTurn DEF Linking, Depth
 <2> QED BY <2>1, <2>6, OperandOnTurn, SameNodes, OrderLinked
<1>5. ASSUME NEW o, VisitLeaf(o) \/ VisitOverEdges(o) PROVE PlanInOrder'
 <2>1. Appendable(o) /\ AppendNode(o.target, o.shape) BY <1>5 DEF VisitLeaf, VisitOverEdges
 <2>2. /\ NextOperand(o) /\ o.target \notin active /\ Depth < MaxDepth
       /\ Matches(o.target, o.shape) = {} /\ NodeFits(o.target)
  BY <2>1 DEF Appendable, Enterable
 <2>3. o.target \in Objects /\ o.shape \in Shapes BY <2>2, OperandFacts
 <2>4. stack' = OperandDone(o) BY <1>5 DEF VisitLeaf, VisitOverEdges, Omit
 <2> PICK c : c = Len(stack) OBVIOUS
 <2> PICK f : f = stack[c].node OBVIOUS
 <2> PICK t : t = Len(nodes) + 1 OBVIOUS
 <2>5. OneMoreNode /\ t \in NodeIndex' BY <2>1, <2>2, <2>3, AppendedNode
 <2>6. CASE VisitLeaf(o)
  <3>1. /\ links' = Append(links, Link(f, LinkKind(o), t)) /\ shared' = Append(shared, t)
   BY <2>6 DEF VisitLeaf, Top
  <3> PICK kind : kind = LinkKind(o) OBVIOUS
  <3>2. /\ c \in DOMAIN stack /\ c = Len(stack') /\ kind \in {"union", "subtract"}
        /\ kind = "union" => \E q \in stack[c].operands : q.addition
        /\ kind = "subtract" => \A q \in stack'[c].operands : ~q.addition
   BY <2>2, <2>4, OperandOnTurn
  <3>3. c < MaxDepth BY <2>2 DEF Depth
  <3>4. Linking(c, f, t, kind) BY <2>5, <3>1, <3>2, <3>3 DEF Linking
  <3> QED BY <2>2, <2>4, <2>5, <3>4, OperandOnTurn, OrderLinked
 <2>7. CASE VisitOverEdges(o)
  <3>1. links' = links /\ shared' = shared BY <2>7 DEF VisitOverEdges
  <3> QED BY <2>2, <2>4, <2>5, <3>1, OperandOnTurn, OrderKept
 <2> QED BY <1>5, <2>6, <2>7
<1>6. ASSUME NEW o, VisitNode(o) PROVE PlanInOrder' BY <1>6, OrderCalled
<1>7. ASSUME NEW i, ChamferUnsupported(i) \/ ChamferAppended(i) PROVE PlanInOrder'
 <2>1. NextChamfer(i) /\ stack' = ChamferDone(i)
  BY <1>7 DEF ChamferUnsupported, ChamferAppended
 <2>2. outcome = "building" BY <2>1 DEF NextChamfer
 <2>3. /\ Shrinks /\ Len(stack') = Len(stack) /\ Len(stack) \in DOMAIN stack
       /\ stack'[Len(stack)].operands = {} /\ nodes # <<>>
  BY <2>1, <2>2, ChamferDoneShrinks, BuildingHasNodes, TopFacts DEF NextChamfer
 <2>4. CASE ChamferUnsupported(i)
  <3>1. UNCHANGED <<nodes, links, shared>> BY <2>4 DEF ChamferUnsupported, requestVars
  <3> QED BY <2>3, <3>1, SameNodes, OrderKept
 <2>5. CASE ChamferAppended(i)
  <3> PICK p : p = Ops(nodes[Top.node].object)[i].target OBVIOUS
  <3> PICK c : c = Len(stack) OBVIOUS
  <3> PICK f : f = stack[c].node OBVIOUS
  <3> PICK t : t = Len(nodes) + 1 OBVIOUS
  <3>1. p \in Objects BY <2>1, ChamferFacts
  <3>2. NodeFits(p) /\ AppendNode(p, Chamfer) BY <2>5 DEF ChamferAppended
  <3>3. OneMoreNode /\ t \in NodeIndex' /\ nodes'[t] = Node(p, Chamfer)
   BY <3>1, <3>2, AppendedNode
  <3>4. links' = Append(links, Link(f, "subtract", t)) /\ shared' = shared
   BY <2>5 DEF ChamferAppended, Top
  <3>5. ~IsPart(t)' BY <3>3 DEF IsPart, Node
  <3>6. Linking(c, f, t, "subtract") BY <2>3, <3>3, <3>4, <3>5 DEF Linking
  <3> QED BY <2>3, <3>3, <3>6, OrderLinked
 <2> QED BY <1>7, <2>4, <2>5
<1>8. ASSUME NEW i, ChamferOverLimits(i) PROVE PlanInOrder'
 <2>1. Pop /\ outcome = "building" /\ UNCHANGED <<nodes, links, shared>>
  BY <1>8 DEF ChamferOverLimits, NextChamfer, requestVars
 <2> QED BY <2>1, PopShrinks, BuildingHasNodes, SameNodes, OrderKept
<1>9. CASE CloseRoot
 <2>1. Pop /\ outcome = "building" /\ UNCHANGED <<nodes, links, shared>>
  BY <1>9 DEF CloseRoot, Through
 <2> QED BY <2>1, PopShrinks, BuildingHasNodes, SameNodes, OrderKept
<1>10. CASE CloseNode
 <2> PICK c : c = Len(stack) - 1 OBVIOUS
 <2> PICK f : f = stack[c].node OBVIOUS
 <2> PICK t : t = Top.node OBVIOUS
 <2> PICK kind : kind = LinkKind(Top.asked) OBVIOUS
 <2>1. /\ Pop /\ outcome = "building" /\ nodes' = nodes /\ Len(stack) > 1
       /\ links' = Append(links, Link(f, kind, t)) /\ shared' = Append(shared, t)
  BY <1>10 DEF CloseNode, Through, Caller
 <2>2. Shrinks /\ Len(stack') = c /\ nodes # <<>> BY <2>1, PopShrinks, BuildingHasNodes
 <2>3. c \in DOMAIN stack /\ c + 1 = Len(stack) /\ c + 1 \in DOMAIN stack /\ c < Len(stack)
       /\ Len(stack) <= MaxDepth /\ c \in Nat
  BY <2>1, StackFacts
 <2>4. t = stack[c + 1].node /\ Top = stack[c + 1] BY <2>3 DEF Top
 <2>5. t \in NodeIndex' BY <2>1, TopFacts DEF NodeIndex
 <2>6. kind \in {"union", "subtract"} BY DEF LinkKind
 <2>7. kind = "union" => stack[c + 1].asked.addition BY <2>4 DEF LinkKind
 <2>8. kind = "subtract" => \A o \in stack'[c].operands : ~o.addition
  <3>1. kind = "subtract" => ~stack[c + 1].asked.addition BY <2>4 DEF LinkKind
  <3>2. kind = "subtract" => \A o \in stack[c].operands : ~o.addition
   BY <2>3, <3>1 DEF PlanInOrder, KindsAhead
  <3>3. stack'[c].operands \subseteq stack[c].operands BY <2>2, <2>3 DEF Shrinks
  <3> QED BY <3>2, <3>3
 <2>9. c < MaxDepth BY <2>3 DEF CsgAssumption
 <2>10. Linking(c, f, t, kind)
  BY <2>1, <2>2, <2>3, <2>4, <2>5, <2>6, <2>7, <2>8, <2>9 DEF Linking
 <2> QED BY <2>1, <2>2, <2>10, SameNodes, OrderLinked
<1> QED BY <1>1, <1>2, <1>3, <1>4, <1>5, <1>6, <1>7, <1>8, <1>9, <1>10
        DEF Next, Build, Done, Visit, CutChamfer
-----------------------------------------------------------------------------
(***************************************************************************)
(* The evaluator follows the plan: what holds of its calls c and of the    *)
(* states s of the nodes while a request is evaluated.                     *)
(***************************************************************************)

\* c[d] is a call of build_csg_node, with the edges it has still to follow.
CallRecords == [node : NodeIndex, edges : SUBSET (DOMAIN links)]

\* What is finished is finished with all it links to, and what is begun is linked.
FinishedIsClosed(s) ==
  /\ \A l \in DOMAIN links : s[links[l].from] = 2 => s[links[l].to] = 2
  /\ \A n \in NodeIndex : s[n] # 0 => Linked(n)

\* The nodes in progress are those of the calls, and the first of them is the root.
ProgressIsCalls(c, s) ==
  /\ \A n \in NodeIndex : s[n] = 1 <=> \E d \in DOMAIN c : c[d].node = n
  /\ c # <<>> => c[1].node = 1

\* Each edge of a call is still to be followed, or leads to a finished node, or to the call on
\* top of it.
EdgesAccounted(c, s) ==
  \A d \in DOMAIN c :
      /\ c[d].edges \subseteq EdgesOf(c[d].node)
      /\ \A l \in EdgesOf(c[d].node) :
             \/ l \in c[d].edges
             \/ s[links[l].to] = 2
             \/ d < Len(c) /\ links[l].to = c[d + 1].node

\* via[d] is the edge that led to call d. The deeper the call, the earlier its edge was made.
IsVia(c, via) ==
  /\ via \in [2..Len(c) -> DOMAIN links]
  /\ \A d \in 2..Len(c) :
         /\ via[d] \in EdgesOf(c[d - 1].node)
         /\ links[via[d]].to = c[d].node
         /\ \A k \in c[d - 1].edges : via[d] < k
         /\ (~LeftBehind /\ IsPart(c[d].node)) => First(via[d])
  /\ \A d, e \in 2..Len(c) : d < e => via[e] < via[d]

\* Parts are begun in the order the planner numbered them.
BegunInOrder(s) ==
  \A m, u \in NodeIndex :
      u < m /\ IsPart(m) /\ IsPart(u) /\ Linked(u) /\ s[m] # 0 => s[u] # 0

\* Calls are as deep as the planner's.
AsDeep(c, level) ==
  IsLevel(level) /\ (~LeftBehind => \A d \in DOMAIN c : IsPart(c[d].node) => level[c[d].node] = d)

Walk(c, s) ==
  /\ c \in Seq(CallRecords)
  /\ s \in [NodeIndex -> {0, 1, 2}]
  /\ FinishedIsClosed(s) /\ ProgressIsCalls(c, s) /\ EdgesAccounted(c, s)
  /\ ~LeftBehind => BegunInOrder(s)
  /\ \E via \in [2..Len(c) -> DOMAIN links] : IsVia(c, via)
  /\ \E level \in [NodeIndex -> Nat] : AsDeep(c, level)

EvaluationInv ==
  /\ outcome = "request" => nodes # <<>>
  /\ outcome # "request" => calls = <<>> /\ verdict = "none"
  /\ verdict # "none" => calls = <<>>
  /\ calls # <<>> \/ verdict = "solid" => Walk(calls, state)
  /\ verdict = "solid" => state[1] = 2

\* A set of numbers up to n that has zero and with each number the next one does not exist.
LEMMA NoEndlessAscent ==
  ASSUME NEW n \in Nat, NEW D, D \subseteq 0..n, 0 \in D, \A x \in D : x + 1 \in D
  PROVE  FALSE
<1>1. IsFiniteSet(0..n) BY FS_Interval
<1>2. IsFiniteSet(D) /\ Cardinality(D) \in Nat BY <1>1, FS_Subset, FS_CardinalityType
<1> PICK T : T = D \ {0} OBVIOUS
<1>3. IsFiniteSet(T) /\ Cardinality(T) < Cardinality(D) BY <1>2, FS_RemoveElement
<1> PICK f : f = [x \in D |-> x + 1] OBVIOUS
<1>4. f \in [D -> T] /\ \A x \in D : f[x] = x + 1 OBVIOUS
<1>5. f \in [D -> T] /\ IsFiniteSet(D) /\ IsFiniteSet(T) /\ Cardinality(T) < Cardinality(D)
 BY <1>2, <1>3, <1>4
<1>6. \E x, y \in D : x # y /\ f[x] = f[y]
 <2> QED BY ONLY <1>5, FS_PigeonHole
<1> QED BY <1>4, <1>6

\* A set of numbers that is not empty has a least one.
LEMMA Earliest ==
  ASSUME NEW S, S \subseteq Nat, S # {}
  PROVE  \E m \in S : \A k \in S : m <= k
<1> SUFFICES ASSUME \A m \in S : \E k \in S : k < m PROVE FALSE
 OBVIOUS
<1> PICK n \in S : TRUE OBVIOUS
<1> PICK D : D = {x \in 0..n : \A k \in S : x <= k} OBVIOUS
<1>1. D \subseteq 0..n /\ 0 \in D OBVIOUS
<1>2. ASSUME NEW x \in D PROVE x + 1 \in D
 <2>1. \A k \in S : x <= k /\ x # k OBVIOUS
 <2>2. \A k \in S : x + 1 <= k BY <2>1
 <2> QED BY <2>2
<1> QED BY <1>1, <1>2, NoEndlessAscent

LEMMA PlanFacts ==
  ASSUME CsgInv, PlanInOrder
  PROVE  /\ \A k, l \in DOMAIN links : links[k].from = links[l].to => k < l
         /\ \A l \in DOMAIN links : IsPart(links[l].from) /\ links[l].to # 1
         /\ \A l \in DOMAIN links : First(l) /\ IsPart(links[l].to) =>
                /\ links[l].from < links[l].to
                /\ \A k \in DOMAIN links : k < l => MadeWithin(links[l].to, k)
<1>1. \A l \in DOMAIN links : links[l].to # 1
 <2> SUFFICES ASSUME NEW l \in DOMAIN links, links[l].to = 1 PROVE FALSE
  OBVIOUS
 <2>1. 1 \in NodeIndex /\ (IsPart(1) => 1 \in Registered) BY LinkFacts
 <2>2. nodes # <<>> BY <2>1 DEF NodeIndex, CsgInv, CsgTypeOK
 <2> QED BY <2>1, <2>2 DEF PlanInOrder, RootStandsOut
<1> HIDE DEF First, IsPart, MadeWithin
<1> QED BY <1>1 DEF PlanInOrder, LinksInOrder, RootStandsOut, NodesInOrder

\* The edge on turn is the earliest of those left.
LEMMA NextIsEarliest ==
  ASSUME CsgInv, PlanInOrder, NEW n, NEW left, left \subseteq EdgesOf(n), NEW l \in left,
         \A k \in left : FollowedBefore(l, k)
  PROVE  \A k \in left : l <= k
<1> SUFFICES ASSUME NEW k \in left, k < l PROVE FALSE
 <2>1. \A k \in left : k \in Nat BY LinkFacts DEF EdgesOf
 <2> QED BY <2>1
<1>1. k \in DOMAIN links /\ l \in DOMAIN links /\ links[k].from = links[l].from BY DEF EdgesOf
<1>2. links[k].kind = "union" \/ links[l].kind = "subtract"
 BY <1>1 DEF PlanInOrder, LinksInOrder
<1>3. k \in Nat /\ l \in Nat BY <1>1, LinkFacts
<1> QED BY <1>2, <1>3 DEF FollowedBefore

LEMMA WalkFacts ==
  ASSUME NEW c, NEW s, Walk(c, s)
  PROVE  /\ Len(c) \in Nat /\ DOMAIN c = 1..Len(c)
         /\ \A d \in DOMAIN c : /\ c[d] \in CallRecords /\ c[d].node \in NodeIndex
                                /\ c[d].edges \subseteq DOMAIN links
                                /\ c[d].edges \subseteq EdgesOf(c[d].node)
                                /\ s[c[d].node] = 1
         /\ c # <<>> => Len(c) \in DOMAIN c
<1>1. c \in Seq(CallRecords) BY DEF Walk
<1>2. Len(c) \in Nat /\ DOMAIN c = 1..Len(c) /\ (c # <<>> => Len(c) \in DOMAIN c) BY <1>1
<1>3. \A d \in DOMAIN c : c[d] \in CallRecords BY <1>1
<1>4. \A d \in DOMAIN c : c[d].node \in NodeIndex /\ c[d].edges \subseteq DOMAIN links
 BY <1>3 DEF CallRecords
<1>5. \A d \in DOMAIN c : s[c[d].node] = 1 BY <1>4 DEF Walk, ProgressIsCalls
<1> QED BY <1>2, <1>3, <1>4, <1>5 DEF Walk, EdgesAccounted
\* Deeper calls follow earlier edges, so no node is on the path of calls twice.
LEMMA PathFacts ==
  ASSUME CsgInv, PlanInOrder, NEW c, NEW s, Walk(c, s), NEW via, IsVia(c, via)
  PROVE  /\ \A d, e \in DOMAIN c : d < e => c[d].node # c[e].node
         /\ \A l \in c[Len(c)].edges : c # <<>> =>
                /\ \A d \in 2..Len(c) : l < via[d]
                /\ \A d \in 1..(Len(c) - 1) : \A k \in c[d].edges : l < k
                /\ \A d \in DOMAIN c : c[d].node # links[l].to
<1>1. /\ Len(c) \in Nat /\ DOMAIN c = 1..Len(c)
      /\ \A d \in DOMAIN c : c[d].edges \subseteq EdgesOf(c[d].node)
 BY WalkFacts
<1>2. \A k, l \in DOMAIN links : links[k].from = links[l].to => k < l BY PlanFacts
<1>3. Len(links) \in Nat /\ DOMAIN links = 1..Len(links) BY LinkFacts
<1>4. \A d \in 2..Len(c) : /\ via[d] \in DOMAIN links /\ links[via[d]].from = c[d - 1].node
                           /\ links[via[d]].to = c[d].node
                           /\ \A k \in c[d - 1].edges : via[d] < k
 BY DEF IsVia, EdgesOf
<1>5. \A d, e \in 2..Len(c) : d <= e => via[e] <= via[d]
 <2> TAKE d, e \in 2..Len(c)
 <2> HAVE d <= e
 <2>1. via[d] \in Nat /\ via[e] \in Nat BY <1>3, <1>4
 <2>2. CASE d = e BY <2>1, <2>2
 <2>3. CASE d # e
  <3>1. d < e BY <1>1, <2>3
  <3> QED BY <2>1, <3>1 DEF IsVia
 <2> QED BY <2>2, <2>3
<1>6. \A d, e \in DOMAIN c : d < e =>
          d + 1 \in 2..Len(c) /\ e \in 2..Len(c) /\ via[e] <= via[d + 1]
 BY <1>1, <1>5
<1>7. \A d, e \in DOMAIN c : d < e => c[d].node # c[e].node
 <2> SUFFICES ASSUME NEW d \in DOMAIN c, NEW e \in DOMAIN c, d < e, c[d].node = c[e].node
              PROVE  FALSE
  OBVIOUS
 <2>1. d + 1 \in 2..Len(c) /\ e \in 2..Len(c) /\ via[e] <= via[d + 1] BY <1>6
 <2>2. links[via[d + 1]].from = c[d].node /\ links[via[e]].to = c[e].node BY <1>1, <1>4, <2>1
 <2>3. via[d + 1] < via[e] BY <1>2, <1>4, <2>1, <2>2
 <2> QED BY <1>3, <1>4, <2>1, <2>3
<1>8. ASSUME c # <<>>, NEW l \in c[Len(c)].edges
      PROVE  /\ \A d \in 2..Len(c) : l < via[d]
             /\ \A d \in 1..(Len(c) - 1) : \A k \in c[d].edges : l < k
             /\ \A d \in DOMAIN c : c[d].node # links[l].to
 <2>1. /\ Len(c) \in DOMAIN c /\ l \in DOMAIN links /\ links[l].from = c[Len(c)].node
  BY <1>1, <1>8, WalkFacts DEF EdgesOf
 <2>2. \A d \in 2..Len(c) : l < via[d]
  <3> TAKE d \in 2..Len(c)
  <3>1. Len(c) \in 2..Len(c) BY <1>1
  <3>2. l < via[Len(c)] BY <1>2, <1>4, <2>1, <3>1
  <3>3. via[Len(c)] <= via[d] BY <1>1, <1>5, <3>1
  <3>4. via[Len(c)] \in Nat /\ via[d] \in Nat /\ l \in Nat BY <1>3, <1>4, <2>1, <3>1
  <3> QED BY <3>2, <3>3, <3>4
 <2>3. ASSUME NEW d \in 1..(Len(c) - 1)
       PROVE  d + 1 \in 2..Len(c) /\ via[d + 1] \in DOMAIN links
              /\ links[via[d + 1]].from = c[d].node /\ \A k \in c[d].edges : via[d + 1] < k
  <3>1. d + 1 \in 2..Len(c) /\ (d + 1) - 1 = d BY <1>1
  <3> QED BY <1>4, <3>1
 <2>4. \A d \in 1..(Len(c) - 1) : \A k \in c[d].edges : l < k
  <3> TAKE d \in 1..(Len(c) - 1)
  <3> TAKE k \in c[d].edges
  <3>1. k \in DOMAIN links BY <1>1 DEF EdgesOf
  <3>2. l < via[d + 1] /\ via[d + 1] < k /\ via[d + 1] \in DOMAIN links BY <2>2, <2>3
  <3> QED BY <1>3, <2>1, <3>1, <3>2
 <2>5. \A d \in DOMAIN c : c[d].node # links[l].to
  <3> SUFFICES ASSUME NEW d \in DOMAIN c, c[d].node = links[l].to PROVE FALSE
   OBVIOUS
  <3>1. CASE d = Len(c) BY <1>2, <1>3, <2>1, <3>1
  <3>2. CASE d # Len(c)
   <4>1. d \in 1..(Len(c) - 1) BY <1>1, <3>2
   <4>2. /\ l < via[d + 1] /\ via[d + 1] \in DOMAIN links
         /\ links[via[d + 1]].from = links[l].to
    BY <2>2, <2>3, <4>1
   <4>3. via[d + 1] < l BY <1>2, <2>1, <4>2
   <4> QED BY <1>3, <2>1, <4>2, <4>3
  <3> QED BY <3>1, <3>2
 <2> QED BY <2>2, <2>4, <2>5
<1> QED BY <1>7, <1>8

\* Where the edge on turn leads when nothing was left behind: to the first part not yet begun.
LEMMA FirstUnbegun ==
  ASSUME CsgInv, PlanInOrder, ~LeftBehind, NEW c, NEW s, Walk(c, s), c # <<>>,
         NEW l \in c[Len(c)].edges, \A k \in c[Len(c)].edges : FollowedBefore(l, k),
         IsPart(links[l].to), s[links[l].to] = 0
  PROVE  /\ First(l)
         /\ \A u \in NodeIndex : u < links[l].to /\ IsPart(u) /\ Linked(u) => s[u] # 0
<1> PICK via : IsVia(c, via) BY DEF Walk
<1> PICK top : top = c[Len(c)].node OBVIOUS
<1> PICK child : child = links[l].to OBVIOUS
<1>1. /\ Len(c) \in Nat /\ DOMAIN c = 1..Len(c) /\ Len(c) \in DOMAIN c
      /\ \A d \in DOMAIN c : c[d].edges \subseteq EdgesOf(c[d].node) /\ s[c[d].node] = 1
 BY WalkFacts
<1>2. l \in DOMAIN links /\ links[l].from = top BY <1>1 DEF EdgesOf
<1>3. Len(links) \in Nat /\ DOMAIN links = 1..Len(links) BY LinkFacts
<1>4. NodeIndex \subseteq Nat /\ child \in NodeIndex /\ top \in NodeIndex
 BY <1>2, LinkFacts DEF NodeIndex
<1>5. IsPart(top) /\ s[top] = 1 BY <1>1, <1>2, PlanFacts
<1> PICK S : S = {u \in NodeIndex : IsPart(u) /\ Linked(u) /\ s[u] = 0} OBVIOUS
<1>6. child \in S BY <1>2, <1>4 DEF Linked
<1> HIDE DEF IsPart, First, MadeWithin
<1>7. S \subseteq Nat BY <1>4
<1> PICK u \in S : \A v \in S : u <= v BY <1>6, <1>7, Earliest
<1>8. u \in NodeIndex /\ IsPart(u) /\ Linked(u) /\ s[u] = 0 /\ u <= child BY <1>6
<1>9. u # 1
 <2>1. c[1].node = 1 /\ 1 \in DOMAIN c BY <1>1 DEF Walk, ProgressIsCalls
 <2> QED BY <1>1, <1>8, <2>1
<1>10. \E f \in DOMAIN links : links[f].to = u /\ First(f)
 <2> PICK T : T = {k \in DOMAIN links : links[k].to = u} OBVIOUS
 <2>1. T # {} BY <1>8, <1>9 DEF Linked
 <2>2. T \subseteq Nat BY <1>3
 <2> PICK f \in T : \A k \in T : f <= k BY <2>1, <2>2, Earliest
 <2>3. First(f) BY <1>3 DEF First
 <2> QED BY <2>3
<1> PICK f \in DOMAIN links : links[f].to = u /\ First(f) BY <1>10
<1> PICK p : p = links[f].from OBVIOUS
<1>11. /\ p < u /\ IsPart(p) /\ p \in NodeIndex
       /\ \A k \in DOMAIN links : k < f => MadeWithin(u, k)
 BY <1>8, PlanFacts, LinkFacts
<1>12. Linked(p)
 <2>1. p \in Registered \cup {1} BY DEF LeftBehind
 <2> QED BY <2>1 DEF PlanInOrder, RegisteredIsLinked, Linked
<1>13. s[p] # 0
 <2>1. p \notin S BY <1>4, <1>8, <1>11
 <2> QED BY <1>11, <1>12, <2>1
<1>14. s[p] # 2 BY <1>8 DEF Walk, FinishedIsClosed
<1>15. PICK d \in DOMAIN c : c[d].node = p
 <2>1. s[p] = 1 BY <1>11, <1>13, <1>14 DEF Walk
 <2> QED BY <1>11, <2>1 DEF Walk, ProgressIsCalls
<1>16. f \in c[d].edges
 <2>1. f \in EdgesOf(c[d].node) BY <1>15 DEF EdgesOf
 <2>2. \/ f \in c[d].edges \/ s[u] = 2 \/ (d < Len(c) /\ u = c[d + 1].node)
  BY <2>1 DEF Walk, EdgesAccounted
 <2>3. d < Len(c) => s[c[d + 1].node] = 1 BY <1>1
 <2> QED BY <1>8, <2>2, <2>3
<1>17. l <= f
 <2>1. CASE d = Len(c)
  <3>1. c[Len(c)].edges \subseteq EdgesOf(top) BY <1>1
  <3> QED BY <1>16, <2>1, <3>1, NextIsEarliest
 <2>2. CASE d # Len(c)
  <3>1. d \in 1..(Len(c) - 1) BY <1>1, <2>2
  <3>2. l < f BY <1>16, <3>1, PathFacts
  <3> QED BY <1>2, <1>3, <3>2
 <2> QED BY <2>1, <2>2
<1>18. top < u
 <2>1. ~(u < top) BY <1>4, <1>5, <1>8 DEF Walk, BegunInOrder
 <2>2. u # top BY <1>5, <1>8
 <2> QED BY <1>4, <1>8, <2>1, <2>2
<1>19. l = f
 <2> SUFFICES ASSUME l < f PROVE FALSE
  BY <1>2, <1>3, <1>17
 <2>1. MadeWithin(u, l) BY <1>2, <1>11
 <2>2. child < u \/ u <= top BY <1>2, <2>1 DEF MadeWithin
 <2> QED BY <1>4, <1>8, <1>18, <2>2
<1>20. child = u BY <1>19
<1>21. \A v \in NodeIndex : v < u /\ IsPart(v) /\ Linked(v) => s[v] # 0 BY <1>4, <1>7
<1> QED BY <1>19, <1>20, <1>21

\* The evaluator's four steps, each on calls c and states s.
LEMMA WalkStarts ==
  ASSUME CsgInv, PlanInOrder, nodes # <<>>,
         NEW c, c = <<Call(1)>>, NEW s, s = [n \in NodeIndex |-> IF n = 1 THEN 1 ELSE 0]
  PROVE  Walk(c, s)
<1>1. 1 \in NodeIndex /\ NodeIndex \subseteq Nat \ {0} BY DEF NodeIndex, CsgInv, CsgTypeOK
<1>2. /\ DOMAIN c = {1} /\ Len(c) = 1 /\ c[1].node = 1 /\ c[1].edges = EdgesOf(1)
 BY DEF Call
<1>3. c \in Seq(CallRecords)
 <2>1. Call(1) \in CallRecords BY <1>1 DEF Call, CallRecords, EdgesOf
 <2> QED BY <2>1
<1>4. s \in [NodeIndex -> {0, 1, 2}] /\ s[1] = 1 /\ \A n \in NodeIndex : n # 1 => s[n] = 0
 BY <1>1
<1>5. FinishedIsClosed(s)
 <2>1. \A l \in DOMAIN links : s[links[l].from] # 2 BY <1>4, LinkFacts
 <2> QED BY <1>4, <2>1 DEF FinishedIsClosed, Linked
<1>6. ProgressIsCalls(c, s) BY <1>1, <1>2, <1>4 DEF ProgressIsCalls
<1>7. EdgesAccounted(c, s) BY <1>2 DEF EdgesAccounted
<1>8. BegunInOrder(s) BY <1>1, <1>4 DEF BegunInOrder
<1>9. \E via \in [2..Len(c) -> DOMAIN links] : IsVia(c, via)
 <2> PICK via : via = [d \in 2..Len(c) |-> 1] OBVIOUS
 <2>1. 2..Len(c) = {} BY <1>2
 <2>2. via \in [2..Len(c) -> DOMAIN links] BY <2>1
 <2> QED BY <2>1, <2>2 DEF IsVia
<1>10. \E level \in [NodeIndex -> Nat] : AsDeep(c, level)
 <2> PICK level \in [NodeIndex -> Nat] : IsLevel(level) BY DEF PlanInOrder
 <2>1. level[1] = 1 BY DEF IsLevel
 <2> QED BY <1>2, <2>1 DEF AsDeep
<1> QED BY <1>3, <1>4, <1>5, <1>6, <1>7, <1>8, <1>9, <1>10 DEF Walk

\* Edge l has been taken from the call on top of c, which gives b.
Took(c, l, b) ==
  /\ b \in Seq(CallRecords) /\ Len(b) = Len(c) /\ DOMAIN b = DOMAIN c
  /\ \A d \in DOMAIN c : b[d].node = c[d].node /\ b[d].edges \subseteq c[d].edges
  /\ \A d \in DOMAIN c : d # Len(c) => b[d] = c[d]
  /\ b[Len(c)].edges = c[Len(c)].edges \ {l}

LEMMA EdgeTaken ==
  ASSUME NEW c, NEW s, Walk(c, s), c # <<>>, NEW l,
         NEW b, b = [c EXCEPT ![Len(c)].edges = @ \ {l}]
  PROVE  Took(c, l, b)
<1>1. /\ Len(c) \in Nat /\ DOMAIN c = 1..Len(c) /\ Len(c) \in DOMAIN c
      /\ \A d \in DOMAIN c : c[d] \in CallRecords
 BY WalkFacts
<1>2. c \in Seq(CallRecords) BY DEF Walk
<1> PICK r : r = [c[Len(c)] EXCEPT !.edges = @ \ {l}] OBVIOUS
<1>3. r \in CallRecords /\ r.node = c[Len(c)].node /\ r.edges = c[Len(c)].edges \ {l}
 BY <1>1 DEF CallRecords
<1>4. b = [c EXCEPT ![Len(c)] = r] BY <1>1
<1>5. b \in Seq(CallRecords) /\ Len(b) = Len(c) /\ DOMAIN b = DOMAIN c BY <1>2, <1>3, <1>4
<1>6. b[Len(c)] = r /\ \A d \in DOMAIN c : d # Len(c) => b[d] = c[d] BY <1>1, <1>4
<1> QED BY <1>1, <1>3, <1>5, <1>6 DEF Took

LEMMA WalkOn ==
  ASSUME CsgInv, PlanInOrder, NEW c, NEW s, Walk(c, s), c # <<>>,
         NEW l \in c[Len(c)].edges, s[links[l].to] = 2,
         NEW b, Took(c, l, b)
  PROVE  Walk(b, s)
<1>1. /\ b \in Seq(CallRecords) /\ Len(b) = Len(c) /\ DOMAIN b = DOMAIN c
      /\ \A d \in DOMAIN c : b[d].node = c[d].node /\ b[d].edges \subseteq c[d].edges
      /\ \A d \in DOMAIN c : d # Len(c) => b[d] = c[d]
      /\ b[Len(c)].edges = c[Len(c)].edges \ {l}
 BY DEF Took
<1>2. Len(c) \in Nat /\ DOMAIN c = 1..Len(c) /\ Len(c) \in DOMAIN c BY WalkFacts
<1>3. ProgressIsCalls(b, s)
 <2>1. \A n : (\E d \in DOMAIN c : c[d].node = n) <=> (\E d \in DOMAIN b : b[d].node = n)
  BY <1>1
 <2>2. b[1].node = c[1].node BY <1>1, <1>2
 <2> QED BY <2>1, <2>2 DEF Walk, ProgressIsCalls
<1>4. EdgesAccounted(b, s)
 <2> SUFFICES ASSUME NEW d \in DOMAIN c
              PROVE  /\ b[d].edges \subseteq EdgesOf(c[d].node)
                     /\ \A k \in EdgesOf(c[d].node) :
                            \/ k \in b[d].edges
                            \/ s[links[k].to] = 2
                            \/ d < Len(c) /\ links[k].to = c[d + 1].node
  BY <1>1, <1>2 DEF EdgesAccounted
 <2>1. /\ c[d].edges \subseteq EdgesOf(c[d].node)
       /\ \A k \in EdgesOf(c[d].node) :
              \/ k \in c[d].edges
              \/ s[links[k].to] = 2
              \/ d < Len(c) /\ links[k].to = c[d + 1].node
  BY DEF Walk, EdgesAccounted
 <2>2. \A k \in c[d].edges : k \in b[d].edges \/ s[links[k].to] = 2 BY <1>1
 <2> QED BY <1>1, <2>1, <2>2
<1>5. \E via \in [2..Len(b) -> DOMAIN links] : IsVia(b, via)
 <2> PICK via \in [2..Len(c) -> DOMAIN links] : IsVia(c, via) BY DEF Walk
 <2>1. \A d \in 2..Len(c) : d \in DOMAIN c /\ d - 1 \in DOMAIN c BY <1>2
 <2>2. IsVia(b, via)
  <3> HIDE DEF First, IsPart, LeftBehind, EdgesOf
  <3> QED BY <1>1, <2>1 DEF IsVia
 <2> QED BY <1>1, <2>2
<1>6. \E level \in [NodeIndex -> Nat] : AsDeep(b, level)
 <2> PICK level \in [NodeIndex -> Nat] : AsDeep(c, level) BY DEF Walk
 <2>1. AsDeep(b, level) BY <1>1 DEF AsDeep
 <2> QED BY <2>1
<1> QED BY <1>1, <1>3, <1>4, <1>5, <1>6 DEF Walk

LEMMA WalkUp ==
  ASSUME CsgInv, PlanInOrder, NEW c, NEW s, Walk(c, s), c # <<>>, c[Len(c)].edges = {},
         NEW b, b = SubSeq(c, 1, Len(c) - 1), NEW r, r = [s EXCEPT ![c[Len(c)].node] = 2]
  PROVE  Walk(b, r) /\ (Len(c) = 1 => r[1] = 2 /\ b = <<>>)
<1> PICK top : top = c[Len(c)].node OBVIOUS
<1>1. /\ Len(c) \in Nat \ {0} /\ DOMAIN c = 1..Len(c) /\ Len(c) \in DOMAIN c
      /\ top \in NodeIndex /\ \A d \in DOMAIN c : c[d].node \in NodeIndex
 BY WalkFacts, SMTT(40) DEF Walk
<1>2. c \in Seq(CallRecords) /\ s \in [NodeIndex -> {0, 1, 2}] BY DEF Walk
<1>3. /\ b \in Seq(CallRecords) /\ Len(b) = Len(c) - 1 /\ DOMAIN b = 1..(Len(c) - 1)
      /\ \A d \in DOMAIN b : b[d] = c[d] /\ d \in DOMAIN c
 BY <1>1, <1>2
<1>4. /\ r \in [NodeIndex -> {0, 1, 2}] /\ r[top] = 2
      /\ \A n \in NodeIndex : n # top => r[n] = s[n]
 BY <1>1, <1>2
<1>5. \A n \in NodeIndex : (s[n] = 2 => r[n] = 2) /\ (r[n] # 0 => s[n] # 0)
 <2>1. s[top] = 1 BY <1>1, WalkFacts
 <2> QED BY <1>4, <2>1
<1>6. FinishedIsClosed(r)
 <2>1. \A l \in EdgesOf(top) : s[links[l].to] = 2
  <3>1. EdgesAccounted(c, s) BY DEF Walk
  <3>2. \A l \in EdgesOf(top) : \/ l \in c[Len(c)].edges
                                \/ s[links[l].to] = 2
                                \/ Len(c) < Len(c)
   BY <1>1, <3>1 DEF EdgesAccounted
  <3> QED BY <1>1, <3>2
 <2>2. \A l \in DOMAIN links : r[links[l].from] = 2 => r[links[l].to] = 2
  <3> SUFFICES ASSUME NEW l \in DOMAIN links, r[links[l].from] = 2 PROVE r[links[l].to] = 2
   OBVIOUS
  <3>1. links[l].from \in NodeIndex /\ links[l].to \in NodeIndex BY LinkFacts
  <3>2. CASE links[l].from = top BY <1>5, <2>1, <3>1, <3>2 DEF EdgesOf
  <3>3. CASE links[l].from # top
   <4>1. s[links[l].from] = 2 BY <1>4, <3>1, <3>3
   <4> QED BY <1>5, <3>1, <4>1 DEF Walk, FinishedIsClosed
  <3> QED BY <3>2, <3>3
 <2> QED BY <1>5, <2>2 DEF Walk, FinishedIsClosed
<1> PICK via \in [2..Len(c) -> DOMAIN links] : IsVia(c, via) BY DEF Walk
<1>7. \A d \in DOMAIN b : b[d].node # top
 <2>1. \A d \in DOMAIN b : d < Len(c) BY <1>1, <1>3
 <2> QED BY <1>1, <1>3, <2>1, PathFacts, SMTT(30)
<1>8. ProgressIsCalls(b, r)
 <2>1. \A n \in NodeIndex : r[n] = 1 <=> \E d \in DOMAIN b : b[d].node = n
  <3> TAKE n \in NodeIndex
  <3>1. CASE n = top BY <1>4, <1>7, <3>1
  <3>2. CASE n # top
   <4>1. r[n] = 1 <=> \E d \in DOMAIN c : c[d].node = n
    BY <1>4, <3>2 DEF Walk, ProgressIsCalls
   <4>2. \A d \in DOMAIN c : c[d].node = n => d \in DOMAIN b BY <1>1, <1>3, <3>2
   <4> QED BY <1>3, <4>1, <4>2
  <3> QED BY <3>1, <3>2
 <2>2. b # <<>> => b[1].node = 1
  <3>1. b # <<>> => 1 \in DOMAIN b BY <1>3
  <3> QED BY <1>3, <3>1 DEF Walk, ProgressIsCalls
 <2> QED BY <2>1, <2>2 DEF ProgressIsCalls
<1>9. EdgesAccounted(b, r)
 <2> SUFFICES ASSUME NEW d \in DOMAIN b, NEW l \in EdgesOf(c[d].node)
              PROVE  \/ l \in c[d].edges
                     \/ r[links[l].to] = 2
                     \/ d < Len(b) /\ links[l].to = b[d + 1].node
  BY <1>3 DEF Walk, EdgesAccounted
 <2>1. \/ l \in c[d].edges
       \/ s[links[l].to] = 2
       \/ d < Len(c) /\ links[l].to = c[d + 1].node
  BY <1>3 DEF Walk, EdgesAccounted
 <2>2. links[l].to \in NodeIndex BY LinkFacts DEF EdgesOf
 <2>3. CASE d + 1 = Len(c) BY <1>4, <1>5, <2>1, <2>2, <2>3
 <2>4. CASE d + 1 # Len(c)
  <3>1. d + 1 \in DOMAIN b /\ d < Len(b) BY <1>1, <1>3, <2>4
  <3> QED BY <1>3, <1>5, <2>1, <2>2, <3>1
 <2> QED BY <2>3, <2>4
<1>10. ~LeftBehind => BegunInOrder(r)
 <2> HAVE ~LeftBehind
 <2>1. BegunInOrder(s) BY DEF Walk
 <2>2. \A n \in NodeIndex : s[n] # 0 => r[n] # 0 BY <1>4
 <2> HIDE DEF IsPart, Linked
 <2> QED BY <1>5, <2>1, <2>2 DEF BegunInOrder
<1>11. \E up \in [2..Len(b) -> DOMAIN links] : IsVia(b, up)
 <2> PICK up : up = [d \in 2..Len(b) |-> via[d]] OBVIOUS
 <2>1. \A d \in 2..Len(b) : d \in 2..Len(c) /\ b[d] = c[d] /\ b[d - 1] = c[d - 1]
  BY <1>1, <1>3
 <2>2. up \in [2..Len(b) -> DOMAIN links] /\ \A d \in 2..Len(b) : up[d] = via[d] BY <2>1
 <2>3. IsVia(b, up)
  <3> HIDE DEF First, IsPart, LeftBehind, EdgesOf
  <3>1. \A d \in 2..Len(b) : /\ via[d] \in EdgesOf(b[d - 1].node)
                             /\ links[via[d]].to = b[d].node
                             /\ \A k \in b[d - 1].edges : via[d] < k
                             /\ (~LeftBehind /\ IsPart(b[d].node)) => First(via[d])
   BY <2>1 DEF IsVia
  <3>2. \A d, e \in 2..Len(b) : d < e => via[e] < via[d]
   BY <2>1 DEF IsVia
  <3>3. \A d \in 2..Len(b) : /\ up[d] \in EdgesOf(b[d - 1].node)
                             /\ links[up[d]].to = b[d].node
                             /\ \A k \in b[d - 1].edges : up[d] < k
                             /\ (~LeftBehind /\ IsPart(b[d].node)) => First(up[d])
   BY ONLY <2>2, <3>1
  <3>4. \A d, e \in 2..Len(b) : d < e => up[e] < up[d]
   BY ONLY <2>2, <3>2
  <3> QED BY ONLY <2>2, <3>3, <3>4 DEF IsVia
 <2> QED BY <2>2, <2>3
<1>12. \E level \in [NodeIndex -> Nat] : AsDeep(b, level)
 <2> PICK level \in [NodeIndex -> Nat] : AsDeep(c, level) BY DEF Walk
 <2>1. AsDeep(b, level) BY <1>3 DEF AsDeep
 <2> QED BY <2>1
<1>13. Len(c) = 1 => r[1] = 2 /\ b = <<>>
 BY <1>3, <1>4 DEF Walk, ProgressIsCalls
<1> QED BY <1>3, <1>4, <1>6, <1>8, <1>9, <1>10, <1>11, <1>12, <1>13 DEF Walk

\* A call on child has been put on top of b.
Entered(b, child, q) ==
  /\ q \in Seq(CallRecords) /\ Len(q) = Len(b) + 1
  /\ DOMAIN q = DOMAIN b \cup {Len(b) + 1}
  /\ \A d \in DOMAIN b : q[d] = b[d]
  /\ q[Len(b) + 1].node = child /\ q[Len(b) + 1].edges = EdgesOf(child)

LEMMA CallEntered ==
  ASSUME NEW b, b \in Seq(CallRecords), NEW child \in NodeIndex,
         NEW q, q = Append(b, Call(child))
  PROVE  Entered(b, child, q)
<1>1. Call(child).node = child /\ Call(child).edges = EdgesOf(child) BY DEF Call
<1>2. Call(child) \in CallRecords BY DEF Call, CallRecords, EdgesOf
<1> HIDE DEF Call
<1> PICK r : r = Call(child) OBVIOUS
<1>3. Len(b) \in Nat /\ DOMAIN b = 1..Len(b) OBVIOUS
<1>4. q \in Seq(CallRecords) /\ Len(q) = Len(b) + 1 /\ DOMAIN q = 1..(Len(b) + 1) BY <1>2
<1>5. \A d \in 1..Len(b) : q[d] = b[d] BY <1>2
<1>6. q[Len(b) + 1] = r OBVIOUS
<1> QED BY <1>1, <1>3, <1>4, <1>5, <1>6 DEF Entered

LEMMA WalkDown ==
  ASSUME CsgInv, PlanInOrder, NEW c, NEW s, Walk(c, s), c # <<>>,
         NEW l \in c[Len(c)].edges, \A k \in c[Len(c)].edges : FollowedBefore(l, k),
         NEW child, child = links[l].to, s[child] = 0,
         NEW b, Took(c, l, b), NEW q, Entered(b, child, q),
         NEW r, r = [s EXCEPT ![child] = 1]
  PROVE  Walk(q, r)
<1> PICK e : e = Len(c) + 1 OBVIOUS
<1>1. /\ b \in Seq(CallRecords) /\ Len(b) = Len(c) /\ DOMAIN b = DOMAIN c
      /\ \A d \in DOMAIN c : b[d].node = c[d].node /\ b[d].edges \subseteq c[d].edges
      /\ \A d \in DOMAIN c : d # Len(c) => b[d] = c[d]
      /\ b[Len(c)].edges = c[Len(c)].edges \ {l}
 BY DEF Took
<1>2. /\ Len(c) \in Nat \ {0} /\ DOMAIN c = 1..Len(c) /\ Len(c) \in DOMAIN c
      /\ \A d \in DOMAIN c : /\ c[d].node \in NodeIndex /\ s[c[d].node] = 1
                             /\ c[d].edges \subseteq EdgesOf(c[d].node)
 <2>1. Len(c) \in Nat /\ DOMAIN c = 1..Len(c) /\ Len(c) \in DOMAIN c BY WalkFacts
 <2> QED BY <2>1, WalkFacts
<1>3. /\ l \in DOMAIN links /\ links[l].from = c[Len(c)].node
      /\ child \in NodeIndex /\ IsPart(links[l].from)
 BY <1>2, LinkFacts, PlanFacts DEF EdgesOf
<1>6. /\ q \in Seq(CallRecords) /\ Len(q) = e /\ DOMAIN q = DOMAIN c \cup {e}
      /\ \A d \in DOMAIN c : q[d] = b[d]
      /\ q[e].node = child /\ q[e].edges = EdgesOf(child)
 BY <1>1 DEF Entered
<1>4. e \in Nat /\ e \notin DOMAIN c BY <1>2
<1>7. \A d \in DOMAIN c : q[d].node = c[d].node /\ q[d].edges \subseteq c[d].edges
 BY <1>1, <1>6
<1>8. /\ r \in [NodeIndex -> {0, 1, 2}] /\ r[child] = 1
      /\ \A n \in NodeIndex : n # child => r[n] = s[n]
 BY <1>3 DEF Walk
<1>9. \A n \in NodeIndex : r[n] = 2 <=> s[n] = 2 BY <1>8
<1>10. FinishedIsClosed(r)
 <2>1. \A k \in DOMAIN links : links[k].from \in NodeIndex /\ links[k].to \in NodeIndex
  BY LinkFacts
 <2>2. \A k \in DOMAIN links : r[links[k].from] = 2 => r[links[k].to] = 2
  BY <1>9, <2>1 DEF Walk, FinishedIsClosed
 <2>3. Linked(child) BY <1>3 DEF Linked
 <2>4. \A n \in NodeIndex : s[n] # 0 => Linked(n) BY DEF Walk, FinishedIsClosed
 <2> HIDE DEF Linked
 <2> QED BY <1>8, <2>2, <2>3, <2>4 DEF FinishedIsClosed
<1>11. ProgressIsCalls(q, r)
 <2>1. \A n \in NodeIndex : r[n] = 1 <=> \E d \in DOMAIN q : q[d].node = n
  <3> TAKE n \in NodeIndex
  <3>1. CASE n = child BY <1>4, <1>6, <1>8, <3>1
  <3>2. CASE n # child
   <4>1. r[n] = 1 <=> \E d \in DOMAIN c : c[d].node = n
    BY <1>8, <3>2 DEF Walk, ProgressIsCalls
   <4> QED BY <1>4, <1>6, <1>7, <3>2, <4>1
  <3> QED BY <3>1, <3>2
 <2>2. q[1].node = 1 BY <1>2, <1>7 DEF Walk, ProgressIsCalls
 <2> QED BY <2>1, <2>2 DEF ProgressIsCalls
<1>12. EdgesAccounted(q, r)
 <2> SUFFICES ASSUME NEW d \in DOMAIN q
              PROVE  /\ q[d].edges \subseteq EdgesOf(q[d].node)
                     /\ \A k \in EdgesOf(q[d].node) :
                            \/ k \in q[d].edges
                            \/ r[links[k].to] = 2
                            \/ d < Len(q) /\ links[k].to = q[d + 1].node
  BY DEF EdgesAccounted
 <2>1. CASE d = e BY <1>4, <1>6, <2>1
 <2>2. CASE d \in DOMAIN c
  <3>1. q[d].edges \subseteq EdgesOf(q[d].node) BY <1>2, <1>7, <2>2
  <3>2. ASSUME NEW k \in EdgesOf(c[d].node)
        PROVE  \/ k \in q[d].edges
               \/ r[links[k].to] = 2
               \/ d < Len(q) /\ links[k].to = q[d + 1].node
   <4>1. \/ k \in c[d].edges
         \/ s[links[k].to] = 2
         \/ d < Len(c) /\ links[k].to = c[d + 1].node
    BY <2>2 DEF Walk, EdgesAccounted
   <4>2. links[k].to \in NodeIndex BY LinkFacts DEF EdgesOf
   <4>3. CASE d = Len(c)
    <5>1. k \in c[d].edges => k \in q[d].edges \/ k = l BY <1>1, <1>6, <2>2, <4>3
    <5>2. d + 1 = e /\ d < Len(q)
     <6>1. Len(c) \in Nat /\ Len(q) = Len(c) + 1 BY <1>2, <1>6
     <6> QED BY <4>3, <6>1
    <5>3. links[l].to = q[d + 1].node BY <1>4, <1>6, <5>2
    <5> QED BY <1>2, <1>9, <4>1, <4>2, <4>3, <5>1, <5>2, <5>3
   <4>4. CASE d # Len(c)
    <5>1. q[d] = c[d] /\ d + 1 \in DOMAIN c /\ d < Len(q)
     BY <1>1, <1>2, <1>6, <2>2, <4>4
    <5>2. q[d + 1].node = c[d + 1].node BY <1>7, <5>1
    <5> QED BY <1>9, <4>1, <4>2, <5>1, <5>2
   <4> QED BY <4>3, <4>4
  <3> QED BY <1>7, <2>2, <3>1, <3>2
 <2> QED BY <1>6, <2>1, <2>2
<1>13. ~LeftBehind /\ IsPart(child) =>
           /\ First(l)
           /\ \A u \in NodeIndex : u < child /\ IsPart(u) /\ Linked(u) => s[u] # 0
 <2> HAVE ~LeftBehind /\ IsPart(child)
 <2>1. IsPart(links[l].to) /\ s[links[l].to] = 0 OBVIOUS
 <2> HIDE DEF IsPart, First, Linked, LeftBehind, FollowedBefore
 <2> QED BY <2>1, FirstUnbegun
<1>14. ~LeftBehind => BegunInOrder(r)
 <2> HAVE ~LeftBehind
 <2>1. BegunInOrder(s) BY DEF Walk
 <2> HIDE DEF IsPart, First, Linked, LeftBehind
 <2> SUFFICES ASSUME NEW m \in NodeIndex, NEW u \in NodeIndex,
                     u < m, IsPart(m), IsPart(u), Linked(u), r[m] # 0, r[u] = 0
              PROVE  FALSE
  BY DEF BegunInOrder
 <2>2. u # child /\ s[u] = 0 BY <1>8
 <2>3. CASE m = child BY <1>13, <2>2, <2>3
 <2>4. CASE m # child
  <3>1. s[m] # 0 BY <1>8, <2>4
  <3> QED BY <2>1, <2>2, <3>1 DEF BegunInOrder
 <2> QED BY <2>3, <2>4
<1>15. \E down \in [2..Len(q) -> DOMAIN links] : IsVia(q, down)
 <2> PICK via \in [2..Len(c) -> DOMAIN links] : IsVia(c, via) BY DEF Walk
 <2> PICK down : down = [d \in 2..Len(q) |-> IF d = e THEN l ELSE via[d]] OBVIOUS
 <2>1. 2..Len(q) = 2..Len(c) \cup {e} /\ e \notin 2..Len(c) /\ e - 1 = Len(c)
  BY <1>2, <1>6
 <2>2. /\ down \in [2..Len(q) -> DOMAIN links] /\ down[e] = l
       /\ \A d \in 2..Len(c) : down[d] = via[d]
  BY <1>3, <2>1
 <2>3. \A d \in 2..Len(c) : l < via[d] BY PathFacts
 <2>4. \A k \in c[Len(c)].edges : l <= k
  <3>1. c[Len(c)].edges \subseteq EdgesOf(c[Len(c)].node) BY <1>2
  <3> HIDE DEF EdgesOf, FollowedBefore
  <3> QED BY <3>1, NextIsEarliest
 <2>5. ASSUME NEW d \in 2..Len(q)
       PROVE  /\ down[d] \in EdgesOf(q[d - 1].node)
              /\ links[down[d]].to = q[d].node
              /\ \A k \in q[d - 1].edges : down[d] < k
              /\ (~LeftBehind /\ IsPart(q[d].node)) => First(down[d])
  <3> HIDE DEF First, IsPart, LeftBehind
  <3>1. CASE d = e
   <4>1. q[d].node = child /\ q[d - 1].node = c[Len(c)].node BY <1>2, <1>4, <1>6, <1>7, <2>1, <3>1
   <4>2. q[d - 1].edges = c[Len(c)].edges \ {l} BY <1>1, <1>2, <1>6, <2>1, <3>1
   <4>3. \A k \in q[d - 1].edges : l < k
    <5> TAKE k \in q[d - 1].edges
    <5>1. l <= k /\ k # l /\ k \in DOMAIN links BY <1>2, <2>4, <4>2 DEF EdgesOf
    <5>2. k \in Nat /\ l \in Nat BY <1>3, <5>1, LinkFacts
    <5> QED BY <5>1, <5>2
   <4>4. l \in EdgesOf(c[Len(c)].node) BY <1>3 DEF EdgesOf
   <4> QED BY <1>13, <2>2, <3>1, <4>1, <4>3, <4>4
  <3>2. CASE d \in 2..Len(c)
   <4>1. d \in DOMAIN c /\ d - 1 \in DOMAIN c BY <1>2, <3>2
   <4>2. /\ via[d] \in EdgesOf(c[d - 1].node)
         /\ links[via[d]].to = c[d].node
         /\ \A k \in c[d - 1].edges : via[d] < k
         /\ (~LeftBehind /\ IsPart(c[d].node)) => First(via[d])
    BY <3>2 DEF IsVia
   <4> HIDE DEF EdgesOf
   <4> QED BY <1>7, <2>2, <3>2, <4>1, <4>2
  <3> QED BY <2>1, <3>1, <3>2
 <2>6. \A d, f \in 2..Len(q) : d < f => down[f] < down[d]
  <3> TAKE d, f \in 2..Len(q)
  <3> HAVE d < f
  <3>1. d \in 2..Len(c) BY <1>2, <1>6, <2>1
  <3>2. CASE f = e BY <2>2, <2>3, <3>1, <3>2
  <3>3. CASE f # e BY <2>1, <2>2, <3>1, <3>3 DEF IsVia
  <3> QED BY <3>2, <3>3
 <2>7. IsVia(q, down)
  <3> HIDE DEF First, IsPart, LeftBehind, EdgesOf
  <3> QED BY <2>2, <2>5, <2>6 DEF IsVia
 <2> QED BY <2>2, <2>7
<1>16. \E level \in [NodeIndex -> Nat] : AsDeep(q, level)
 <2> PICK level \in [NodeIndex -> Nat] : AsDeep(c, level) BY DEF Walk
 <2>1. ~LeftBehind => \A d \in DOMAIN q : IsPart(q[d].node) => level[q[d].node] = d
  <3> HAVE ~LeftBehind
  <3> TAKE d \in DOMAIN q
  <3> HAVE IsPart(q[d].node)
  <3>1. CASE d = e
   <4>1. q[d].node = child BY <1>4, <1>6, <3>1
   <4>2. First(l) /\ IsPart(links[l].to) BY <1>13, <4>1
   <4>3. level[child] = level[links[l].from] + 1 BY <1>3, <4>2 DEF AsDeep, IsLevel
   <4>4. level[links[l].from] = Len(c) BY <1>2, <1>3 DEF AsDeep
   <4> QED BY <3>1, <4>1, <4>3, <4>4
  <3>2. CASE d \in DOMAIN c BY <1>7, <3>2 DEF AsDeep
  <3> QED BY <1>6, <3>1, <3>2
 <2>2. AsDeep(q, level) BY <2>1 DEF AsDeep
 <2> QED BY <2>2
<1> QED BY <1>6, <1>8, <1>10, <1>11, <1>12, <1>14, <1>15, <1>16 DEF Walk

\* A walk is a walk as long as the plan stays.
LEMMA WalkStays ==
  ASSUME UNCHANGED csgVars, NEW c, NEW s, c = calls', s = state', Walk(c, s)
  PROVE  Walk(calls, state)'
<1>1. UNCHANGED <<nodes, links, stack, shared>> BY DEF csgVars, requestVars
<1>2. NodeIndex' = NodeIndex /\ Registered' = Registered BY <1>1 DEF NodeIndex, Registered
<1>3. LeftBehind' <=> LeftBehind BY <1>1, <1>2 DEF LeftBehind
<1>4. /\ (calls \in Seq(CallRecords))' /\ (state \in [NodeIndex -> {0, 1, 2}])'
 BY <1>1, <1>2 DEF Walk, CallRecords
<1>5. FinishedIsClosed(state)' BY <1>1, <1>2 DEF Walk, FinishedIsClosed, Linked
<1>6. ProgressIsCalls(calls, state)' BY <1>2 DEF Walk, ProgressIsCalls
<1>7. EdgesAccounted(calls, state)' BY <1>1 DEF Walk, EdgesAccounted, EdgesOf
<1>8. (~LeftBehind => BegunInOrder(state))'
 BY <1>1, <1>2, <1>3 DEF Walk, BegunInOrder, IsPart, Linked
<1>9. (\E via \in [2..Len(calls) -> DOMAIN links] : IsVia(calls, via))'
 <2> PICK via \in [2..Len(c) -> DOMAIN links] : IsVia(c, via) BY DEF Walk
 <2> HIDE DEF LeftBehind
 <2>1. IsVia(calls, via)' BY <1>1, <1>3, SMTT(30) DEF IsVia, EdgesOf, IsPart, First
 <2> QED BY <1>1, <2>1
<1>10. (\E level \in [NodeIndex -> Nat] : AsDeep(calls, level))'
 <2> PICK level \in [NodeIndex -> Nat] : AsDeep(c, level) BY DEF Walk
 <2> HIDE DEF LeftBehind
 <2>1. IsLevel(level)' BY <1>1, <1>2 DEF AsDeep, IsLevel, IsPart, First
 <2>2. (~LeftBehind => \A d \in DOMAIN calls : IsPart(calls[d].node) => level[calls[d].node] = d)'
  BY <1>1, <1>3 DEF AsDeep, IsPart
 <2>3. AsDeep(calls, level)' BY <2>1, <2>2 DEF AsDeep
 <2> QED BY <1>2, <2>3
<1> QED BY <1>4, <1>5, <1>6, <1>7, <1>8, <1>9, <1>10 DEF Walk

\* The checks of build_csg_node: of the edge on turn only the depth can be refused, and that
\* only at an edge chamfer or when a call left a node behind.
LEMMA RefusalFacts ==
  ASSUME CsgAssumption, EvaluatorAssumption, CsgInv, PlanInOrder, Walk(calls, state),
         calls # <<>>, NEW l, NextEdge(l)
  PROVE  /\ l \in calls[Len(calls)].edges
         /\ \A k \in calls[Len(calls)].edges : FollowedBefore(l, k)
         /\ Refusal(links[l].to) \in {"none", "depth_limit"}
         /\ Refusal(links[l].to) = "depth_limit" => LeftBehind \/ IsChamfer(links[l].to)
<1> PICK top : top = calls[Len(calls)].node OBVIOUS
<1>1. l \in calls[Len(calls)].edges /\ \A k \in calls[Len(calls)].edges : FollowedBefore(l, k)
 BY DEF NextEdge, LastCall
<1>2. /\ Len(calls) \in Nat /\ Len(calls) \in DOMAIN calls
      /\ calls[Len(calls)].edges \subseteq EdgesOf(top)
 BY WalkFacts
<1>3. l \in DOMAIN links /\ links[l].from = top BY <1>1, <1>2 DEF EdgesOf
<1>4. links[l].to \in NodeIndex /\ top \in NodeIndex /\ IsPart(top) BY <1>3, LinkFacts, PlanFacts
<1>5. state[links[l].to] # 1
 <2> PICK via : IsVia(calls, via) BY DEF Walk
 <2>1. \A d \in DOMAIN calls : calls[d].node # links[l].to BY <1>1, PathFacts
 <2> QED BY <1>4, <2>1 DEF Walk, ProgressIsCalls
<1>6. Len(calls) >= EvaluatorDepth => LeftBehind \/ IsChamfer(links[l].to)
 <2> SUFFICES ASSUME Len(calls) >= EvaluatorDepth, ~LeftBehind, IsPart(links[l].to)
              PROVE  FALSE
  BY DEF IsPart, IsChamfer
 <2> PICK level \in [NodeIndex -> Nat] : AsDeep(calls, level) BY DEF Walk
 <2>1. level[top] = Len(calls) BY <1>2, <1>4 DEF AsDeep
 <2>2. level[top] < MaxDepth BY <1>3 DEF AsDeep, IsLevel
 <2> QED BY <1>2, <2>1, <2>2 DEF EvaluatorAssumption, CsgAssumption
<1> HIDE DEF LeftBehind, IsChamfer, FollowedBefore
<1> QED BY <1>1, <1>4, <1>5, <1>6 DEF Refusal

LEMMA EvaluationStarts == EvaluationInit => EvaluationInv
BY DEF EvaluationInit, EvaluationInv, Init

\* What following the edge on turn comes to.
LEMMA FollowFacts ==
  ASSUME CsgAssumption, EvaluatorAssumption, CsgInv, PlanInOrder, EvaluationInv,
         NEW l, FollowEdge(l)
  PROVE  /\ outcome = "request" /\ UNCHANGED csgVars /\ calls # <<>> /\ verdict = "none"
         /\ Walk(calls, state) /\ NextEdge(l) /\ l \in PendingEdges
         /\ \/ calls' = <<>> /\ verdict' = Refusal(links[l].to) /\ verdict' # "none"
            \/ Walk(calls, state)' /\ verdict' = "none"
<1>1. /\ calls # <<>> /\ verdict = "none" /\ NextEdge(l) /\ UNCHANGED csgVars
 BY DEF FollowEdge, Evaluating
<1>2. outcome = "request" /\ Walk(calls, state) BY <1>1 DEF EvaluationInv
<1>3. l \in PendingEdges BY <1>1 DEF NextEdge, PendingEdges
<1> PICK c : c = calls OBVIOUS
<1> PICK s : s = state OBVIOUS
<1> PICK q : q = calls' OBVIOUS
<1> PICK r : r = state' OBVIOUS
<1> PICK b : b = [c EXCEPT ![Len(c)].edges = @ \ {l}] OBVIOUS
<1> PICK child : child = links[l].to OBVIOUS
<1>4. b = EdgeFollowed(l) BY DEF EdgeFollowed
<1>5. /\ l \in c[Len(c)].edges /\ c # <<>> /\ Walk(c, s)
      /\ \A k \in c[Len(c)].edges : FollowedBefore(l, k)
 BY <1>1, <1>2, RefusalFacts
<1>8. Took(c, l, b) BY <1>5, EdgeTaken
<1>6. CASE Refusal(child) # "none"
 BY <1>1, <1>2, <1>3, <1>6 DEF FollowEdge, Fail
<1>7. CASE Refusal(child) = "none"
 <2>1. /\ verdict' = verdict
       /\ \/ s[child] = 2 /\ q = b /\ r = s
          \/ s[child] = 0 /\ q = Append(b, Call(child)) /\ r = [s EXCEPT ![child] = 1]
  BY <1>4, <1>7 DEF FollowEdge
 <2>2. Walk(q, r)
  <3> HIDE DEF FollowedBefore, Call
  <3>1. CASE s[child] = 2 /\ q = b /\ r = s BY <1>5, <1>8, <3>1, WalkOn
  <3>2. CASE s[child] = 0 /\ q = Append(b, Call(child)) /\ r = [s EXCEPT ![child] = 1]
   <4>1. child \in NodeIndex /\ b \in Seq(CallRecords)
    BY <1>5, <1>8, WalkFacts, LinkFacts DEF Took
   <4>2. Entered(b, child, q) BY <3>2, <4>1, CallEntered
   <4>3. /\ CsgInv /\ PlanInOrder /\ child = links[l].to /\ s[child] = 0
         /\ r = [s EXCEPT ![child] = 1]
    BY <3>2
   <4> QED BY ONLY <1>5, <1>8, <4>2, <4>3, WalkDown
  <3> QED BY <2>1, <3>1, <3>2
 <2>3. Walk(calls, state)' BY <1>1, <2>2, WalkStays
 <2> QED BY <1>1, <1>2, <1>3, <2>1, <2>3
<1> QED BY <1>6, <1>7

LEMMA FinishFacts ==
  ASSUME CsgInv, PlanInOrder, EvaluationInv, FinishNode
  PROVE  EvaluationInv'
<1>1. /\ verdict = "none" /\ calls # <<>> /\ LastCall.edges = {} /\ UNCHANGED csgVars
 BY DEF FinishNode, Evaluating
<1>2. outcome = "request" /\ Walk(calls, state) BY <1>1 DEF EvaluationInv
<1> PICK c : c = calls OBVIOUS
<1> PICK s : s = state OBVIOUS
<1> PICK b : b = calls' OBVIOUS
<1> PICK r : r = state' OBVIOUS
<1>3. b = SubSeq(c, 1, Len(c) - 1) /\ r = [s EXCEPT ![c[Len(c)].node] = 2]
 BY DEF FinishNode, LastCall
<1>4. Walk(c, s) /\ c # <<>> /\ c[Len(c)].edges = {} BY <1>1, <1>2 DEF LastCall
<1>5. Walk(b, r) /\ (Len(c) = 1 => r[1] = 2 /\ b = <<>>) BY <1>3, <1>4, WalkUp
<1>6. Walk(calls, state)' BY <1>1, <1>5, WalkStays
<1>7. nodes' = nodes /\ outcome' = outcome BY <1>1 DEF csgVars, requestVars
<1>8. verdict' = IF Len(c) = 1 THEN "solid" ELSE "none" BY DEF FinishNode
<1> QED BY <1>2, <1>5, <1>6, <1>7, <1>8 DEF EvaluationInv

\* A request has nodes, not more than the evaluator takes.
LEMMA BeginFacts ==
  ASSUME CsgAssumption, EvaluatorAssumption, CsgInv, PlanInOrder, EvaluationInv,
         BeginEvaluation
  PROVE  EvaluationInv' /\ verdict' = "none"
<1>1. /\ outcome = "request" /\ verdict = "none" /\ calls = <<>> /\ UNCHANGED csgVars
 BY DEF BeginEvaluation
<1>2. nodes # <<>> BY <1>1 DEF EvaluationInv
<1>3. Len(nodes) \in Nat /\ Len(nodes) <= MaxNodes
 BY DEF CsgInv, CsgTypeOK, WithinLimits
<1>4. ~(Len(nodes) > EvaluatorNodes) BY <1>3 DEF EvaluatorAssumption, CsgAssumption
<1> PICK c : c = calls' OBVIOUS
<1> PICK s : s = state' OBVIOUS
<1>5. /\ c = <<Call(1)>> /\ s = [n \in NodeIndex |-> IF n = 1 THEN 1 ELSE 0]
      /\ verdict' = verdict
 BY <1>4 DEF BeginEvaluation
<1>6. Walk(c, s) BY <1>2, <1>5, WalkStarts
<1>7. Walk(calls, state)' BY <1>1, <1>6, WalkStays
<1>8. nodes' = nodes /\ outcome' = outcome BY <1>1 DEF csgVars, requestVars
<1> QED BY <1>1, <1>2, <1>5, <1>7, <1>8 DEF EvaluationInv

LEMMA EvaluationStep ==
  ASSUME CsgAssumption, EvaluatorAssumption, model \in Models, CsgInv, PlanInOrder,
         EvaluationInv, [EvaluationNext]_evaluationVars
  PROVE  EvaluationInv'
<1>1. CASE Build /\ UNCHANGED evaluatorVars
 <2>1. outcome # "request" /\ (outcome' = "request" => outcome = "building" /\ nodes' = nodes)
  BY <1>1 DEF Build, StartNothing, StartOverLimits, Start, Visit, CutChamfer, CloseNode,
              CloseRoot, VisitTooDeep, VisitCycle, VisitShared, VisitOverLimits, VisitLeaf,
              VisitOverEdges, VisitNode, Appendable, Enterable, NextOperand, NextChamfer,
              ChamferUnsupported, ChamferAppended, ChamferOverLimits, Through
 <2>2. outcome' = "request" => nodes' # <<>> BY <2>1, BuildingHasNodes
 <2>3. calls' = <<>> /\ verdict' = "none" BY <1>1, <2>1 DEF EvaluationInv, evaluatorVars
 <2> QED BY <2>2, <2>3 DEF EvaluationInv
<1>2. CASE BeginEvaluation BY <1>2, BeginFacts
<1>3. ASSUME NEW l \in PendingEdges, FollowEdge(l) PROVE EvaluationInv'
 <2>1. /\ outcome = "request" /\ UNCHANGED csgVars
       /\ \/ calls' = <<>> /\ verdict' = Refusal(links[l].to) /\ verdict' # "none"
          \/ Walk(calls, state)' /\ verdict' = "none"
  BY <1>3, FollowFacts
 <2>2. nodes' = nodes /\ outcome' = outcome BY <2>1 DEF csgVars, requestVars
 <2>3. Refusal(links[l].to) # "solid" BY DEF Refusal
 <2> QED BY <2>1, <2>2, <2>3 DEF EvaluationInv
<1>4. CASE KernelFails
 <2>1. /\ verdict = "none" /\ calls # <<>> /\ calls' = <<>> /\ verdict' = "geometry"
       /\ UNCHANGED csgVars
  BY <1>4 DEF KernelFails, Evaluating, Fail
 <2>2. nodes' = nodes /\ outcome' = outcome BY <2>1 DEF csgVars, requestVars
 <2> QED BY <2>1, <2>2 DEF EvaluationInv
<1>5. CASE FinishNode BY <1>5, FinishFacts
<1>6. CASE UNCHANGED evaluationVars
 <2>1. UNCHANGED csgVars /\ UNCHANGED <<calls, state, verdict>>
  BY <1>6 DEF evaluationVars, evaluatorVars
 <2>2. nodes' = nodes /\ outcome' = outcome BY <2>1 DEF csgVars, requestVars
 <2> PICK c : c = calls' OBVIOUS
 <2> PICK s : s = state' OBVIOUS
 <2>3. Walk(calls, state) => Walk(c, s) BY <2>1
 <2>4. Walk(c, s) => Walk(calls, state)' BY <2>1, WalkStays
 <2> QED BY <2>1, <2>2, <2>3, <2>4 DEF EvaluationInv
<1> QED BY <1>1, <1>2, <1>3, <1>4, <1>5, <1>6 DEF EvaluationNext, Evaluate, EvaluationDone

LEMMA PlannerSteps ==
  ASSUME [EvaluationNext]_evaluationVars
  PROVE  [Next]_csgVars
BY DEF EvaluationNext, Evaluate, BeginEvaluation, FollowEdge, KernelFails, FinishNode,
       EvaluationDone, evaluationVars, Next

\* What planner and evaluator keep between them: every request is in order, and every
\* evaluation in progress is a walk of the plan.
THEOREM EvaluatorInvariant ==
  ASSUME CsgAssumption, EvaluatorAssumption
  PROVE  EvaluationSpec => [](model \in Models /\ CsgInv /\ PlanInOrder /\ EvaluationInv)
<1>1. EvaluationInit => model \in Models /\ CsgInv /\ PlanInOrder /\ EvaluationInv
 <2> SUFFICES ASSUME EvaluationInit
              PROVE  model \in Models /\ CsgInv /\ PlanInOrder /\ EvaluationInv
  OBVIOUS
 <2>1. Init BY DEF EvaluationInit
 <2>2. model \in Models /\ CsgInv BY <2>1, InitInv DEF Init
 <2>3. PlanInOrder BY <2>1, <2>2, OrderBefore DEF Init
 <2> QED BY <2>2, <2>3, EvaluationStarts
<1>2. ASSUME model \in Models, CsgInv, PlanInOrder, EvaluationInv,
             [EvaluationNext]_evaluationVars
      PROVE  (model \in Models /\ CsgInv /\ PlanInOrder /\ EvaluationInv)'
 <2>1. [Next]_csgVars BY <1>2, PlannerSteps
 <2>2. (model \in Models /\ CsgInv)' BY <1>2, <2>1, NextInv
 <2>3. PlanInOrder' BY <1>2, <2>1, NextOrder
 <2>4. EvaluationInv' BY <1>2, EvaluationStep
 <2> QED BY <2>2, <2>3, <2>4
<1> QED BY <1>1, <1>2, PTL DEF EvaluationSpec

\* A solid is made of everything the planner linked, for every model and every limit: no
\* operative of a finished node is left out, and none is applied that nothing links to.
THEOREM SolidsAreComplete ==
  ASSUME CsgAssumption, EvaluatorAssumption
  PROVE  EvaluationSpec => []SolidIsComplete
<1>1. EvaluationInv => SolidIsComplete
 <2> SUFFICES ASSUME EvaluationInv, verdict = "solid"
              PROVE  /\ state[1] = 2
                     /\ \A l \in DOMAIN links : state[links[l].from] = 2 => state[links[l].to] = 2
                     /\ \A n \in NodeIndex : state[n] # 1 /\ (state[n] = 2 => Linked(n))
  BY DEF SolidIsComplete
 <2>1. calls = <<>> /\ Walk(calls, state) /\ state[1] = 2 BY DEF EvaluationInv
 <2>2. \A n \in NodeIndex : state[n] # 1 BY <2>1 DEF Walk, ProgressIsCalls
 <2> HIDE DEF Linked
 <2>3. /\ \A l \in DOMAIN links : state[links[l].from] = 2 => state[links[l].to] = 2
       /\ \A n \in NodeIndex : state[n] # 0 => Linked(n)
  BY <2>1 DEF Walk, FinishedIsClosed
 <2> QED BY <2>1, <2>2, <2>3
<1> QED BY <1>1, EvaluatorInvariant, PTL

\* The evaluator refuses no planned request but for its depth, and for its depth only below an
\* edge chamfer or what a failed call left behind: its own checks of order, size and cycles
\* never contradict the planner.
THEOREM EvaluatorTakesPlans ==
  ASSUME CsgAssumption, EvaluatorAssumption
  PROVE  EvaluationSpec => RefusesOnlyChamfers
<1> DEFINE Sound == /\ verdict' \notin {"edge_target", "cycle", "node_limit"}
                    /\ verdict' = "depth_limit" =>
                           LeftBehind \/ \E l \in PendingEdges : NextEdge(l) /\ IsChamfer(links[l].to)
<1>1. ASSUME CsgInv, PlanInOrder, EvaluationInv, [EvaluationNext]_evaluationVars,
             verdict' # verdict
      PROVE  Sound
 <2>1. CASE Build /\ UNCHANGED evaluatorVars BY <1>1, <2>1 DEF evaluatorVars
 <2>2. CASE BeginEvaluation BY <1>1, <2>2, BeginFacts
 <2>3. ASSUME NEW l \in PendingEdges, FollowEdge(l) PROVE Sound
  <3>1. /\ Walk(calls, state) /\ calls # <<>> /\ NextEdge(l)
        /\ verdict' = Refusal(links[l].to) \/ verdict' = "none"
   BY <1>1, <2>3, FollowFacts
  <3>2. /\ Refusal(links[l].to) \in {"none", "depth_limit"}
        /\ Refusal(links[l].to) = "depth_limit" => LeftBehind \/ IsChamfer(links[l].to)
   BY <1>1, <3>1, RefusalFacts
  <3> HIDE DEF LeftBehind, IsChamfer, NextEdge
  <3> QED BY <2>3, <3>1, <3>2
 <2>4. CASE KernelFails BY <2>4 DEF KernelFails, Fail
 <2>5. CASE FinishNode BY <2>5 DEF FinishNode
 <2>6. CASE UNCHANGED evaluationVars BY <1>1, <2>6 DEF evaluationVars, evaluatorVars
 <2> QED BY <1>1, <2>1, <2>2, <2>3, <2>4, <2>5, <2>6
         DEF EvaluationNext, Evaluate, EvaluationDone
<1>2. CsgInv /\ PlanInOrder /\ EvaluationInv /\ [EvaluationNext]_evaluationVars =>
          [verdict' # verdict => Sound]_evaluationVars
 BY <1>1
<1> QED BY <1>2, EvaluatorInvariant, PTL DEF EvaluationSpec, RefusesOnlyChamfers
=============================================================================
