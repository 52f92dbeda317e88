# TLA+ models of the Tekla DB1 SDK

The SDK reads a Tekla model database (`.db1`) and streams its contents as batches: identities,
properties, relations, definitions and display meshes. Most of it is sequential decoding. The parts
that are hard are those where something is *shared, limited, retried or resumed*: worker processes
that evaluate solids, the plan of a solid shared between operatives, the cache of finished solids,
readers that are called again and again and must go on where they stopped, budgets that several
decoders spend in turn, and files that disappear while a package is opened. Besides there are the
algorithms whose results a test can only sample: finding tables without lengths, triangulating faces
with holes, closing solids, widening cutters. These are modelled here, model-checked with TLC on
small instances and, for the core, proved with TLAPS for every value of the constants.

## 1. Inventory

Paths are relative to the repository root, `src/` of it being the library.

| Part | State | Operations | What makes it correct |
|---|---|---|---|
| Container (`src/container.cpp`) | the inflated payload, table layouts over it | `decode_payload`, `inspect_payload`, `TableLayout::record` | a payload is whole or refused; tables, whose lengths are written nowhere, are read as they were written |
| Package (`src/mapped_file.cpp`, `src/package.cpp`, `src/archive_budget.hpp`) | assets found beside the model, three budgets | `map_model_package` and its archives | budgets bound what is read; the package is what was there, in path order, and a vanished optional file hides nothing else |
| Schema (`src/schema_validation.cpp`, `src/role_schema.cpp`, generated tables) | none | `validate_schema`, `project_keyed_role_schema` | what passes has the tables the readers expect |
| `process` and the composite stream (`src/model.cpp`) | list of streams, index of the current one | `process`, `CompositeReader::next`, `DeferredNonPartReader::next` | stages leave in order, an error does not skip a stream |
| Identity, property, relation and instance readers (`src/identity.cpp`, `src/semantic.cpp`) | row counters | `next` | every row a reader takes once; of a property stored twice the strongest |
| Semantic relations (`src/semantic.cpp`, `SemanticRelationReader`) | phase, seven cursors, three sets of known edges, ordinals | `next` | each edge once, ordinals without gaps, wherever a batch ends |
| Part geometry (`src/geometry.cpp`, `GeometryReader`) | row, `pending_`, the views of the current batch, the cache, the host | `next` | each part's definition, mesh and diagnostics once and in order |
| CSG planner (`GeometryReader::append_csg_node`) | request, active path, shared nodes, counters | one recursive call per operative | the request means what the decoded operations mean, is acyclic and limited; omissions are reported |
| CSG evaluator (`src/occt/evaluator.cpp`) | shapes by node | `build_csg_node` | accepts what was planned, uses every operand |
| Retry and fallback (`GeometryReader::evaluate_operations_csg`) | first failure | analytic request, then a faceted one | the last valid mesh stays, downgrades and failures are reported |
| Evaluation cache (`src/geometry_evaluation_cache.cpp`) | entries by key, bytes | `evaluate`, `find`, `insert` | never changes an answer, stays within limits |
| Supervised host (`src/occt/supervised_posix.cpp`) | worker pid, socket | `evaluate`, `start`, `stop`, destructor | an answer belongs to its call, a call returns, no worker is lost |
| Worker (`tools/occt_worker.cpp`), protocol (`src/occt/protocol.cpp`) | one request at a time | read, evaluate, write | leaves at end of file; messages have a size known from their header |
| Non-part geometry (`src/nonpart_geometry.cpp`) | three budgets (retained bytes, linked rows visited, bars expanded); rows, contours and welds kept aside; curves, meshes and diagnostics | `make_nonpart_geometry_stream`, `NonPartReader::next` | budgets bound what is retained and pay for all of it, linked rows are read whole or not at all, every element is drawn or reported |
| Base meshes (`src/geometry.cpp`, `src/shape.cpp`), profiles (`src/profile.cpp`, `src/standard_profile.cpp`) | the contour at work, the mesh that grows | three triangulations, `decode_shape`, `parse_section` and the tapered profiles, `extrude_*`, lofts, sweeps, plates, bolts, fillets | triangles tile their contour; solids are closed and face outwards, as the worker needs them |
| Operands (`src/geometry.cpp`) | host mesh, cutters | `make_bounded_topology_base`, `set_fitted_report_length`, `expand_tangent_cutter`, `prism_recipe_from_mesh`, `edge_chamfer_cutter` | a member is sent as long as it is reported; no cutter ends on a face of its host |
| glTF adapter (`adapters/gltf`) | one buffer, the list of slices in it, the output file | `write_glb` | a file holds what the stream delivered, at the offsets it states, or is refused |
| Command line tools (`tools/`) | none | print a stream | wording |

Interaction. A caller owns a stream and calls `next` on it; the composite stream calls the reader of
the current stage; the part reader plans a request, asks the cache, and on a miss the cache calls
the host given to it, which talks to its worker over a socket pair. Streams share nothing in memory,
but `docs/occt-execution.md` lets a scheduler run several of them side by side with one host each,
and then *all hosts are in one process*: whatever one of them forks inherits the descriptors of the
others. That is the only real concurrency of the program and the first thing modelled.

Hard behaviours, by part: time-outs, crashes and late answers, descriptor inheritance between pooled
hosts (host); cycles, sharing, limits and partial failures in a recursion (planner); reuse of a mesh
at another place and in another frame (cache); retry with another request (fallback); batches that
end anywhere (readers); files that vanish between listing and mapping, tables recognised by patterns
that rows may hold (package, container); limits met in the middle of an element, rows linked in a
circle, weld rows in the order of a hash table (non-part geometry); constructions that count
vertices each in its own way round (meshes); three lengths that decide which plane moves how far
(operands). `PROJECT.json` lists each of them at its line, with the properties about it.

## 2. Modules

| Module | Models | Role |
|---|---|---|
| `TopologyService` | contract of `SupervisedOcctHost` (`occt.hpp`) | abstract specification |
| `SupervisedHost` | `supervised_posix.cpp`, `occt_worker.cpp`, framing of `protocol.cpp` | implements `TopologyService` |
| `SupervisedHostProofs` | | theorems |
| `CsgGraph` | `append_csg_node` and the request it builds | planner |
| `CsgGraphProofs` | | theorems |
| `CsgEvaluation` | `build_csg_node` over the planned request | composes planner and evaluator |
| `TopologyAnswers` | failure contract of `docs/occt-execution.md` | abstract specification |
| `TopologyEvaluation` | `evaluate_operations_csg`, `GeometryEvaluationCache` | implements `TopologyAnswers` |
| `TopologyEvaluationProofs` | | theorems |
| `PagedStream` | a list handed out in full pages, as `tekla::db1::Stream` promises | abstract specification |
| `SemanticTables` | `make_semantic_relation_stream`: rows to pairs, filters, orders | input of the next one |
| `SemanticRelations` | `SemanticRelationReader` | implements `PagedStream` |
| `SemanticRelationsProofs` | | theorems |
| `PropertyWinners` | `load_definitions`, `find_property_winners`, `PropertyReader`'s choice (`semantic.cpp:123-332`) | operators of the next one |
| `StreamOpening` | the `make_..._stream` factories: which tables each reader needs | operators of `ProcessStream` |
| `BatchStream` | what a stream of batches promises its consumer (`process.hpp`) | abstract specification |
| `ProcessStream` | `Model::process`, the composite, chained and deferred readers, the batches of every reader | implements `BatchStream` |
| `ProcessStreamProofs` | | theorems |
| `ContainerFraming` | `inspect_payload`, `validate_schema`, `project_keyed_role_schema` | operators of `PackageOpening` |
| `PackageCatalogs` | shapes, profiles, component names and materials of a package (`shape.cpp`, `profile.cpp`, `semantic.cpp`) | operators of `PackageOpening` |
| `PackageOpening` | `map_model_package`, `open`, `decode_payload`, what stages ask of the package | a file name to a model |
| `PackageOpeningProofs` | | theorems |
| `BarSpacing` | `spacing_distances`, exclusions, `regular_distances` | operators of `NonPartGeometry` |
| `LinkedRows` | `RetainedGeometryBudget`, `LinkedRowVisitBudget`, `resolve_string`, `resolve_array` | budgets and chains for `NonPartGeometry` |
| `NonPartGeometry` | `make_nonpart_geometry_stream` | surfaces, welds, grids, reinforcement, bolts |
| `NonPartGeometryProofs` | | theorems |
| `ContourClipping` | `triangulate`, `triangulate_polygon`, `triangulate_face` | the ear clippings, step by step |
| `ImportedShapes` | `decode_shape` | faces with holes for `SolidMeshes` |
| `ProfileSections` | `parse_section`, the tapered profiles | sections of `MeshConstruction` |
| `MeshConstruction` | every routine that puts a solid together | meshes of `SolidMeshes` |
| `SolidMeshes` | the part reader's choice of a construction, `operative_mesh` | composes the four before |
| `FittedMembers` | `set_fitted_report_length`, `make_bounded_topology_base` | a member and its fittings |
| `OperandEnvelopes` | `expand_tangent_cutter`, `offset_polygon_outward`, `prism_recipe_from_mesh`, `edge_chamfer_cutter` | what cuts a host |
| `WorkerMessages` | `occt/protocol.cpp` | requests and answers, field by field |
| `GlbWriter` | `write_glb` | a stream to a file |
| `TransferProofs` | | theorems about the last two |
| `MC...` | | instances for TLC |

### SupervisedHost

`pc[h]` is where host `h` is in `Impl::evaluate`, `start`, `stop` or its destructor; `worker[h]` is
`Impl::pid`. A member of `Pids` is a worker process *and* the socket pair made for it: `hostEnd[p]`
and `workerEnd[p]` are the processes that hold a descriptor of the two ends, `down[p]` and `up[p]`
what is in flight. Actions follow the code between two system calls: `OpenChannel` is `socketpair`,
`Fork` the `fork` with the copies of descriptors it makes (`InheritedBy`), `CloseWorkerEnd` the
parent's `close(sockets[1])`, `SendPiece`, `ReceiveHeader`, `ReceiveBody` one `send`/`read`,
`Deadline` and `HangupSeen` the two failures of `wait_until_ready`, `StopForced` and `Collect` the
two halves of `stop` (kill and close, `waitpid`), `Destroy` the destructor. The worker reads,
evaluates, writes, leaves at end of file, or dies at any step. A deadline may pass at any point of a
wait, so no timing assumption is made. A message is two pieces (fixed header and rest), so partial
sends, partial reads and deaths in the middle are steps of their own.

`TopologyService` knows hosts that are ready, busy, closing or closed and answers that belong to the
last call; its fairness half says every call is answered.

### CsgGraph and CsgEvaluation

The recursion is a stack of frames; each action is what the code does between two calls:
`VisitTooDeep`, `VisitCycle`, `VisitShared`, `VisitOverLimits`, `VisitLeaf`, `VisitOverEdges`,
`VisitNode` for the next operative of the frame on top, `ChamferUnsupported`, `ChamferAppended`,
`ChamferOverLimits` for its edge chamfers and `CloseNode`/`CloseRoot` for the return. A mesh is an
object with a *shape*: an operative trimmed and expanded for one host differs from the one adapted
to another, and the decoded model says which (`fit`). The decoded model, with every combination the
bounds allow, is the input. `CsgEvaluation` walks the finished request the way the evaluator does,
with its own limits.

### TopologyEvaluation

One stream's parts, in order, each with what the planner makes of it. `Hit`, `EvaluatorSucceeds`,
`FailsAndRetries` and `FailsForGood` are the ways an attempt can end; insertion into the cache is
part of the step that evaluates. Geometry is abstract: `Local` and `World` are the two changes of
coordinates, `Solid` the kernel, `Float` the narrowing to `float`. What makes a rigid cache sound is
stated as assumptions: the changes of coordinates are inverse, the kernel commutes with them, and
below the size checked by `safe_world_float_request` narrowing loses nothing. In the code these hold
up to the rounding of keys (1e-6 of a model unit) and one float step; the model does not have
rounding errors. The code's key is a byte string of the localized request; here it is the pair of
recipe and localized positions, which the encoding is injective on.

### SemanticTables and SemanticRelations

`RawTables` is what the link tables hold, a row a record of ids and its visibility; `Load` is what
the factory makes of them: endpoints and their kinds, assemblies with their members in row order,
pour memberships, splices and surfaces in the order of their ids. `EdgesOf` is the list the
documentation of the stream implies, without cursors: every candidate has a place (table, row,
number in the row), kept are the places whose edge holds and was not met at an earlier one
(`KeptPlaces`), and the list goes through them in lexicographic order. `SemanticRelations` is the reader: a call opens a page (`Call`), each phase is an action
that takes one row (`EmitParent`, `EmitStored`, `EmitMain`, `EmitMember`, `EmitPour`,
`EmitSpliceFirst`, `EmitSpliceSecond`, `EmitSurface`, `EmitJoint`), `SkipPhase` is the end of a
phase, `Return` hands the page out. A row may give no edge (an end that is not an object, a pair
that is already out) and a page may end after any row.

An `in_assembly` edge from a pour object to its pour unit has ordinal 0 (`semantic.cpp:677`), which
`README.md:83-84` reserves for the persisted main member. The model follows the code; a consumer
must look at the origin of the edge to tell the two apart.

### PropertyWinners and ProcessStream

`readers` is what is left of the streams, in the order of `Wanted`: the property stage is one reader
per family of rows in the chain. Readers that are drained are gone and those to come are untouched,
so one cursor (`row`, `source`) serves them all. `Process` opens the stages, `ChooseWinner`,
`LinkTableDone` and `WinnersChosen` are the first pass over the attribute links, `Call` and the
`Answer...` actions the consumer's calls, `ChainAdvances` and `StageAdvances` the two loops that go
on to the next reader. `ReadObject` and `FailObject` are turns of the identity reader, `ReadLink` of
the attribute reader, `ReadSemanticRow` of the twelve others, which differ in the rows they take
(`PartTakes`, `BoltTakes`, ...), in what a row may have to say (`Describes`), and in the materials
that wait for the call after the properties (`AnswerMaterials`). The part geometry has a window:
`StartWindow`, `ReadPart`, then definitions, meshes and diagnostics at once (`AnswerDefinitions`,
...) or in the calls after (`PendingMeshes`, ...). The non-part stage is opened by the first call
that reaches it (`OpenNonPart`, `FailNonPart`).

A row is known by its number, which for a part is also its object id, and has four marks: visible,
its attribute exists, it has text, what its geometry comes to. One batch size stands for the sizes
the readers derive from one budget; `TEKLA_DB1_EMIT_BOOLEAN_OPERATIVES`, a debugging switch, is not
set; the two kinds of numbers have one precedence in the code and are one kind here. The semantic
relations are a list here; how it comes about is `SemanticRelations`. Records outside the payload
cannot be: the layout was checked when the model was opened.

A `binding` is what is known of a model's tables when a factory looks for them: those the schema of
its format has whole, and those with rows. `StreamOpening` says for each reader which of them it
needs. One property family that cannot be opened fails the whole request. By the generated schemas
that happens to surfaces in formats 8.95 and 9.08, to splitters in 8.74 and 8.95, to parts, bolts
and objects of old formats without rows in any attribute table, and to welds without common
attributes.

### ContainerFraming, PackageCatalogs and PackageOpening

`PackageOpening` goes from a file name to a model. `disk` is what was there at first, `gone` what
has disappeared since (`Vanish`, at most `MaxVanished` files), `listed` the order in which a
directory was listed, `budget` the three limits over all archives, `package` the assets mapped so
far. `MapPackage` is `map_model_package`, one action per file or entry; `OpenModel` is `open` with
`decode_payload` in chunks of `ChunkBytes` and `inspect_payload`; `Ask` is what stages ask later, in
any order and again: the schema, components, materials, shapes, sections. The bytes of a gzip stream
are sizes of its members, damaged or not. A table is a sequence of symbols: a section between two
delimiters has a size, the descriptors its header announces and the set of footers its last bytes
look like, so that rows which look like a footer, or hold the end pattern, are inputs. What a
snapshot or an XML file says is a model value; the first and the last of equal names are told apart.

### LinkedRows, BarSpacing and NonPartGeometry

Everything is decoded when the stream is made: `stage` goes through surfaces, contours, welds,
grids, reinforcement and bolts, and each action takes one row, one chain of linked rows or one
polygon of a weld. `used` and `visits` are the two budgets; a reader asks first and spends later,
and some of them set the budget to its end when they are refused: all of that is in the actions. The
bars a group may expand to are the third limit. Chains are remembered by the link of their first
row, those that lead nowhere too. A weld's polygons wait until all of them are read, and are visited
in any order, as a hash table does. Coordinates are left out: what they make impossible (a curve of
no length, a section that cannot be swept) is given with the row; a distance between bars is a
fraction with its denominator.

### ContourClipping to SolidMeshes

`SolidMeshes` chooses a construction for a record and for who asks (the drawn member, its envelope,
an operative, the hollow of a member), triangulates the contours it needs one ear at a time with the
rule of that routine, decodes an imported shape, and puts the solid together. Points are pairs and
triples of integers, so signs are exact and the code's tolerances are zero. A swept body is drawn
along a straight axis: the frames the code builds along a path are right-handed, so the triangles
are the same and turn the same way; paths still decide how many rings there are. A circle has four
facets. Of each family of profile texts there is a text that is read and one that is refused for
each test the code makes on its numbers. `KnownGap` names the solids that do not close, and
`SolidsClose` says that they are exactly those (see section 6).

### FittedMembers and OperandEnvelopes

A member with fittings is seen from the side: a section is a row of heights, a fitting a line that
meets the axis at a whole station. `Report` is the length that the definition gets, `Bound` and
`KeepFittings` the padded base and the half spaces sent to the worker, worked out apart, as in the
code. A member without fittings, or of which they leave nothing, keeps its nominal length. Straight
members and fittings of type 9 are modelled; of paths and arcs only that their length is reported the
same way and their base is not padded. In `OperandEnvelopes` cutters lie along
the axes of the host and have contours of right angles; the three small lengths that decide (a
vertex is on a plane, a cutter across an end, any other) are numbers of which only the order counts.

### WorkerMessages and GlbWriter

A message is a sequence of cells, a width and a value each; the writer writes a request, moved to
its own origin or not, and the reader works off an agenda of what is still to be read, as its counts
announce, with every limit of either side. Byte order and the bits of a number are left out.
`GlbWriter` reads a stream to its end, lays each mesh and curve into the buffer (`Copy`) or gives up
(`Stop`), and writes header, text and buffer (`StartFile`, `WriteChunk`) or fails (`WriteFails`);
the text is a length from a set.

`MCSolidMeshes` holds `SolidMeshes`, `FittedMembers`, `OperandEnvelopes`, `WorkerMessages` and
`GlbWriter` in one instance: five machines that share nothing, of which a behaviour runs one.

## 3. Runs

| Run | Instance | Shows |
|---|---|---|
| `host_pool` | two hosts, two workers, two requests, buffers of two pieces, symmetric | answers match calls, warm workers are quiet, workers have owners, only leaks hide crashes, the inductive invariant (types included) |
| `host_pool_live` | two hosts, one request, fairness | every call of either host is answered although descriptors leak; a destructor hangs on nothing but a leak |
| `host_pool_destroy` | the same | **violated**: a destructor may wait for ever |
| `host_pool_crash` | the same | **violated**: a crash may look like a time-out |
| `csg_evaluation` | planner, then evaluator with equal limits; a part and up to five others, every graph of up to two operations per part, three ways meshes adapt, longer lists with planes, additions, missing operatives, and deeper chains of cutters; limits of 4 levels, 6 nodes, 7 edges, 7 units of mesh | the request is within limits, acyclic, shares once, accounts for every operand, means what the model means; the evaluator refuses nothing but chamfers too deep, solids are complete, every request is settled; the inductive invariant |
| `csg_cycle` | the planner alone | **violated**: a node that lost an operative for being active is reused for a host that does not have that operative above it |
| `topology` | streams of three parts out of ten, on the integer plane, four frames (one turned by an angle of a 3-4-5 triangle, one mirrored), one part far from the origin; a cache of two entries and eight units | the cache never changes an answer, stays within its limits and counts what it holds; failures are reported; every part is answered |
| `relations` | nine objects, three families of small tables (links of all kinds with repeated pairs, assemblies with shared and missing mains, pours with splices and surfaces), pages of 1, 2 and 5 edges | the stream is the promised list cut into full pages, and it ends; each edge once, between two live ends; children numbered without gaps |
| `process` | each reader alone with up to three or four rows of every kind, batches of 1 and 2; all 256 choices of stages over one model with rows for each, where one stage or none cannot be opened; the same model with each table in turn not in the schema; attributes of two objects in two names, three kinds, a definition loaded twice, dangling links | the stream is the promised lists stage by stage; one value per object and name; meshes after definitions, materials after properties; every part drawn or reported; the consumer hears the end |
| `package` | four families of directories: databases whose rows look like footers or hold the end pattern; gzip streams of one to three members, one damaged; two sidecars and up to three archives with odd entries; component and material catalogs of this model or another, damaged or too large. Limits of 2 archives, 4 entries, 5 units inflated, 3 in one entry; payload limits of none and 3; one file may disappear | limits hold; a package has what was there, in path order; a payload is whole; no table is misread; of equal shapes and profiles the last counts |
| `nonpart` | surfaces, polygon welds, reinforcement of every kind of spacing on lines of 0, 3 and 10 with every exclusion, grids and bolts; whole, shared, cyclic and broken chains of linked rows; budgets from too small for one curve to the default | limits hold and pay for all that is retained; chains are whole; bars fit and lie on their line; welds have all their seams; every element is drawn or reported |
| `solids` | every simple contour of 3 to 5 points of a 3 by 3 grid, both ways round and from two starts; faces with up to three holes; every family of profiles, straight, swept on an arc and along paths of up to three steps; plates, rails, polyhedra, bolts, seams, surfaces, curves; members with up to two fittings; cutters along each axis of a host; requests of up to two nodes; GLB streams of up to three items | triangles tile their contour; solids close but for the listed cases; a member is as long as reported; cutters reach through; a message says what was asked; a file holds its stream |

Why the bounds are enough. *Host*: a leak needs two hosts and two workers, a late answer two
requests; a third host adds no new holder of a descriptor that is not symmetric to the second. Two
pieces are the smallest message that can be cut in the middle. *Planner*: depth 4 has room for a
cycle through an operative, for sharing between two hosts at different depths and for a limit met
below a node that goes on; each limit is small enough to be the first one met for some input.
*Cache*: three parts fill a cache of two entries and hit either of them; ten parts cover equal,
moved, turned, mirrored and boxed frames, a part far away, one that cannot be planned, and one whose
second plan is refused. *Relations*: a page of one edge ends after every row, a page of two between
the two ends of a splice or between a main member and its members, a page of five spans phases; two
tables with the same pair are enough for a repetition. *Stream*: a window of one row ends after each
row, a window of two can hold a part with a mesh and one without, and three rows give a second
window, so every order of pending batches occurs; two rows per link table let a later row of a
stronger kind, of an equal kind and of a weaker kind meet an earlier one. *Package*: a limit is met
in the first archive or in a later one, with entries before it that are ignored; a member of a
stream is damaged alone or after an intact one, and three members have one in the middle; one file
may vanish at every step. *Non-part geometry*: for each kind of element there is a budget that ends
before it, inside it and after it; six polygons that go round one circle of rows, each from another,
use up the visits; lengths of 0, 3 and 10 against a spacing of 4 are nothing, less than one spacing,
and more with something left over. *Solids*: five points have room for two reflex corners, side by
side or apart; two holes can hide each other from the rim and a third can stand between them; a path
of three steps has an inner ring, a turn and a repeated point; two fittings meet at one end or stand
at both; a second node is the first that is written after another's operands; three items put one
slice after any two others, or after two that are passed over.

## 4. Fairness

Weak fairness of the host's own steps (a thread that can go on does) and of the deadline, and of the
worker's steps that follow end of file; none of the worker's evaluation: it may hang for ever.
`waitpid` is fair once the process is gone. The planner and the topology stage are loops of one
thread, weakly fair as a whole; the stage relies on the host to answer each call, which
`host_pool_live` shows. The kernel behind the evaluator is taken to return, which the host's
deadline enforces. A stream has no thread of its own: it moves inside the calls of its consumer, and
the fairness is that of a consumer that asks until it is told the end, as `tools/` and the glTF
adapter do. The stages of `package`, `nonpart` and `solids` run to their end inside one call;
nothing is claimed of them that would need fairness, and none is assumed.

## 5. Proofs

Every theorem holds for all values of the constants that satisfy the assumptions at the end of this
section. An induction over data is done over a set of numbers: `SetInduction` (a set with zero and
the successor of each member has all numbers) rests on `NoEndlessAscent`, a pigeonhole on finite
sets. With it the folds of the community modules are shown to be what they are meant to be: a sum
does not depend on its order, a flattened list is its parts one after the other.

`SupervisedHostProofs`: `HostInv` says of each host which descriptors and pieces there can be at
each point of a call (`Conversation`, `CallUnderWay`), that workers without a host have nothing in
flight, and who owns which process. The properties alone are not inductive: `AnswerMatchesCall`
needs to know that what is in flight belongs to the call of the host that owns the worker, and that
needs the ownership to be exclusive. `HostsImplementService` shows, step by step, that hosts refine
the safety half of `TopologyService`. `EndsInv` follows the copies of a worker's own end through
`fork` and `close`: `OnlyRunningWorkersHide` is `OnlyLeaksHideCrashes`.

`CsgGraphProofs`: `CsgInv` joins the types with the shape of the stack (`ActiveIsThePath`,
`FramesAreOpen`, `CallsAreTracked`), the counters with the request, and the order of links.
`RequestIsAcyclic` follows because a link leads to a registered node, and a node is registered only
after its own call has returned; `SharedOnce` needs that two calls on one object never overlap.
`NoOperandIsLost`: of a call under way every operand before its cursor is linked or reported
(`CallsAccount`), of a finished one all. For the evaluator, a plan is in the order of its walk
(`PlanInOrder`): what a node links to was registered before it, so each shared node is finished at
the place where the walk meets it first. `EvaluationInv` then gives `SolidsAreComplete` and
`EvaluatorTakesPlans` (`RefusesOnlyChamfers`).

`TopologyEvaluationProofs`: an entry found is the solid of some request near the origin with the
same key; both ways of moving a mesh are "out of the old frame, into the new one"
(`MovedIsWorldOfLocal`), and two requests with one key have the same solid, each in its own frame
(`SolidFollowsFrame`), so a hit is what the evaluator would have computed (`HitIsEvaluation`). The
entry's origin (`EntriesAreSolids`) is the strengthening: the contract alone says nothing about what
the cache holds. `CacheCountsBytes`: the counter is the sum of the entries, over their keys.

`SemanticRelationsProofs`: a turn appends at most one edge, with both ends valid, and if that edge
is a link its pair enters the set of its kind, if a child its parent's counter moves with it. From
it `EmittedInvariant`: the sets hold exactly the pairs that are out and the counters the number of
children. `ReaderInv` says what this memory is worth: the places before the reader's in
lexicographic order are `Behind` it; a pair is in a set exactly if such a place asks for it and
holds (`PairsExact`), the counters are the numbers of kept places behind (`CountersExact`,
`OrdinalExact`), and what is out, with the page in work, is the promised list up to there
(`ListInv`). A turn passes one place (`Passes`) and emits it exactly if it is kept, with its number
(`EveryDone`), so pages are pages of the list (`PagesArePromised`), which has no edge twice
(`EdgesGoOutOnce`). For edges into assemblies the reader keeps no set: they go out once because
their rows were sorted and cleared of repetitions. Both theorems need `UnitsAreNoAssemblies`: were
a pour unit's id also that of an assembly, an edge could come from both tables.

`ProcessStreamProofs`: in `WinnersInv` every row read so far that has an ambiguous name is counted
at its path (`MetOK`), so when the paths counted once are dropped, a path with rivals is kept
(`ContestedOK`), and what was sent passed `GoesOut` against these winners. `GeometryInv` splits the
window of the part reader into what was sent, what waits and what is to come, which gives
`MeshesAreDescribed` and `PartsAreDrawnOrReported`. `TrackInv` says of every channel that what was
heard and what waits are the part of its promised list before the cursor, all of it for drained
readers and nothing for those to come; with the best winners it is the refinement of `BatchStream`
(`StreamsAreBatchStreams`).

`PackageOpeningProofs`: a record is longer than two footers differ, so the length of a section fits
at most one of them (`OneFooterParses`); hence a written table is read back (`WrittenTableReadsBack`),
and a payload that passes its schema was not cut in a row (`DatabaseIsNeverMisread`). `PackageIInv`
adds to the limits where an archive and an entry are. `PromisedInv`: what is done lies before what
is listed, and the join of the listed assets grows at its last part that is not empty
(`PackagesAreAsPromised`). `WholeInv`: bytes taken and bytes left are the sizes of the members up to
the current one, and the members before it are intact (`PayloadsAreWhole`). `CatalogsIInv`: a pass
over a catalog holds the last value of every name it has met (`LastAssetWins`).

`NonPartGeometryProofs`: `GeometryInv` holds that a budget is never above its limit at any step
(`BudgetOK`), that the rows met on a walk are the first of the chain asked for, none twice
(`PathOK`), and that each answer kept is the whole chain of its link. `PaidInv`: no action adds more
to the sums of what is retained than it spends (`EverythingIsPaidFor`). `WeldsInv`: every mesh is
whole all along, a sweep begins where the sum of those before it ends, and no polygon is swept
before all weld rows are read. `BarsAreOnTheirLine` goes through the kinds of spacing: bars are even
or joined pieces from low to high, and exclusions keep their order. `AnswersInv`: rows behind the
cursor are settled and rows ahead are blank; the polygons gone through are counted by their sweeps
and reports (`ElementsAreAnswered`, for models where no two visible rows of a kind have one id,
`IdsAreKeys`).

`TransferProofs`: `TransferInv` says that a message is what was read of it followed by the cells of
the parts that are still due (`Midway`), that the agenda is their names and counts, and that what was
heard and what those parts say is what the request says. An item on the agenda has at least 4, 8 or
120 bytes, so no count passes what is left and no limit of the reader refuses what the writer let
out. A request that is moved has the same sizes and says the same, elsewhere. The answer decodes to
itself (`MessagesSurvive`). `GlbInv`: the buffer is a multiple of four after each item, so the three
spare bytes that `HasRoom` asks for cover the alignments of both slices and the sum that the code
does not check cannot pass the limit; slices are disjoint and in order, each drawing has two, and
what is written adds up to the header's size (`FilesHoldStreams`).

Only model-checked:
- liveness: `HeardOut`, `RequestIsSettled`, `EveryPartIsAnswered`, `IsAnsweringService`,
  `OnlyLeaksHoldDestructors`, that the end is reached (`Drained`) in `IsPaged`;
- `RequestMeansModel`: both of its sides unfold a graph by a recursive operator, which the prover
  does not take;
- `CapsTile`, `SolidsClose`, `LengthIsFitted`, `CuttersReachThrough`: they compare areas, edges and
  divisions of concrete integers at the end of a construction; for every contour they would need
  plane geometry (that an ear exists, that a cut polygon stays simple) that no library here has.

Assumptions of the proofs are the ASSUMEs of the modules, evaluated by TLC in the runs: a parent
that is not a worker, limits that are natural numbers, decoded models, directories, tables and
streams of the stated type, records of at least one byte, for the topology stage the laws of
coordinates named above, for non-part geometry natural numbers of bars and positive spacings of
groups (a row without one never gets to its bars), and for messages (`MessageAssumption`) that the
fields before the nodes are empty when there are nodes, as the planner leaves them, that a solid
measured exactly has a positive area and volume, and that an error carries no mesh.

## 6. Disagreements found

Three are in `findings` of `PROJECT.json`, each with a run that shows it: two in pooled hosts
(descriptors without close-on-exec; the window between `socketpair` and `close`) and one in the
planner. There, a root is cut by b and a, which cut each other: below b the cut of a by b is refused
as a cycle, and the root, with neither of them active, is then linked to the same uncut a. Reuse by a
host that has the refused operative on its own active path is not counted, as it would be refused
there too (`truncated` keeps, with each node, what it lost). The others were met while modelling;
the models follow the code.

Where the code does not do what a text says:
- Requests turned against each other share a cache entry (`geometry_evaluation_cache.cpp:363`);
  `docs/occt-execution.md:117-118` says they do not.
- Only invalid topology and time-outs are retried (`geometry.cpp:4243`), against
  `docs/occt-execution.md:32-33`.
- An edge chamfer may be planned one level too deep (`geometry.cpp:4141`, refused at
  `evaluator.cpp:557`), against `docs/occt-execution.md:99-100`. So may an operative that was
  registered inside a call that failed and is shared later from a deeper host: nothing links to the
  place where it was built, so it is evaluated there, deeper than it was counted.
  `RefusesOnlyChamfers` admits these two cases only.
- A pour member's edge has ordinal 0 (`semantic.cpp:677`), which `README.md:83-84` keeps for the
  main member of an assembly.
- The triangles of a surface treatment whose contour runs clockwise face inwards
  (`nonpart_geometry.cpp:1562-1571`), where `CHANGELOG.md:25-26` speaks of closed treatment solids.
- The comment at `geometry.cpp:2607-2614` takes it that fittings come one plane per side; with two
  planes of different slope the reported length differs from the solid's (polygons come out too
  short, round sections too long).

Solids that do not close (`KnownGap`): sections swept clockwise; hollow sections whose rings differ
in number; the cap of a tank, whose end rings are wound the wrong way (`geometry.cpp:1713-1717`);
the clockwise surface treatment.

Unusual results:
- A path that turns back beside itself loses its mesh (`geometry.cpp:2022-2024`); one that runs
  against the definition's x axis is mirrored in y (2001). A CAP of a length between 64 and 160 is
  read as an ordinary section (1644).
- The reader looks at an arc before a path and `operative_mesh` at the path first; the latter knows
  neither lofted plates nor tapered I sections.
- Fittings are oriented by the middle of the axis for the report and the end flags and by the middle
  of the mesh's box for the half spaces. A fitting beyond the padding of the base is reported, while
  the solid ends at the padding. Lofts other than form 51 have their end rings moved without being
  carried on (3451-3466, 3565-3580), which flattens the taper.
- A cutter that crosses an end of its host and touches a face from outside is widened into the host
  by the difference of the two allowances; a plate cutter whose contour touches a face along its own
  axis, away from its ends, stays coplanar; a vertex within the tolerance and more than the small
  allowance short of a face stays short. The legs of a plate's chamfer depend on the direction of
  its edge, those of a member's do not.
- A line shorter than its spacing with the rest left at both ends has three bars, where the guard at
  `nonpart_geometry.cpp:686` asked for room for two (`BarsFit` admits this case only).
- Grids, groups, meshes, bars and bolt patterns that are refused spend the rest of the byte budget,
  bent meshes, surfaces and welds do not. Weld rows of an unusable side are passed over before the
  check that all rows of a polygon have one side. Groups that leave out all of their bars and bolts
  in a hole without length are neither drawn nor reported. Bolt patterns are not budgeted.
- A GLB without items has empty arrays and a buffer of no bytes.

## 7. Not modelled

Rounded corners and chamfers of contours, report metrics, the XML of catalogs, the table of standard
profiles, the contents of the generated schemas, the trimming of regular sweeps to what is relevant
for a host: numbers or data without an order of events. What a row decodes to as properties: one
field after another. The kernel behind the evaluator: external. The command line tools: they print a
stream. Rounding, except where a property is about it. `TEKLA_DB1_*` switches that only print
profiles or add batches for debugging. `GeometryReader::resolved_operative` and `operative_cache_`
are not called by the current code.

## 8. Plan

Done, in this order: pooled hosts; planner and evaluator; topology stage with its cache; semantic
relations; the stream of a model with its property winners; container and package; non-part
geometry; sections, triangulation and solids; fittings and cutters; messages; the GLB file.

Left, by what they would add:
1. Trimming of regular sweeps, against the cutters of section 2.
2. Report metrics as functions of the solids in `MeshConstruction`.
3. A theorem for `CapsTile`, from a theory of simple polygons; then `SolidsClose` for the lofts.
