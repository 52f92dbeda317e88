-------------------------- MODULE TopologyEvaluation ---------------------------
(***************************************************************************)
(* The topology stage of one geometry stream:                              *)
(* GeometryReader::evaluate_operations_csg (geometry.cpp) evaluates the    *)
(* request of each part through GeometryEvaluationCache                    *)
(* (geometry_evaluation_cache.cpp) and, after some failures, once more as  *)
(* a faceted request.                                                      *)
(*                                                                         *)
(* The cache keeps the mesh of a request under the request's geometry in   *)
(* local coordinates: those of the part's own frame (a rigid key) or, when *)
(* that frame is not to be trusted, relative to the first point of the     *)
(* request (a translation key).  A hit moves the kept mesh to the frame of *)
(* the part at hand.  Geometry is a constant with the two changes of       *)
(* coordinates; the kernel commutes with them (KernelIsEquivariant) and    *)
(* floats are exact below a size the cache checks (FloatsAreExact).        *)
(***************************************************************************)
EXTENDS Naturals, Sequences, FiniteSets

CONSTANTS
    Geometries,    \* positions in world coordinates, of requests and of meshes
    Recipes,       \* what a request has besides positions: topology, indices, tolerances
    ObjectIds,
    Origins,       \* origins of frames
    Axes,          \* axes of frames
    RigidAxes,     \* orthonormal and right-handed ones: trustworthy_rigid_placement
    WorldAxes,     \* the axes of the world: translation_placement
    BoxAxes,       \* axes an axis-aligned box keeps its form in: axis_aligned
    Boxed,         \* recipes that contain boxes: localize_box
    Near,          \* geometries whose floats are dense enough (safe_world_float_request) and
                   \* that encode_occt_request accepts
    FirstPoint(_), \* request_origin
    Local(_, _),   \* local_point of all positions
    World(_, _),   \* world_point of all positions
    Shift(_, _, _),\* the positions moved from one origin to another
    Solid(_, _),   \* the positions of the kernel's solid, before they become floats
    Float(_),      \* static_cast<float> of all positions
    Size(_),       \* key.bytes.size() + the mesh of the entry + the entry
    Parts,         \* what the planner can have made of a part
    PartLists,     \* the sequences of parts a stream can meet
    Codes,         \* error codes of failed evaluations
    CacheDisabled, \* TEKLA_DB1_DISABLE_OCCT_CACHE
    MaxEntries,    \* kMaximumEntries
    MaxBytes       \* kMaximumBytes

Placements == [origin : Origins, axes : Axes]
Requests == [object : ObjectIds, recipe : Recipes, geometry : Geometries]

\* What build_request returns for a part without and with force_mesh_fallback.
DecodedPart ==
    [object : ObjectIds,
     placement : Placements,
     planned : {"request", "nothing", "refused"},
     analytic : Requests,
     replanned : BOOLEAN,
     faceted : Requests]

\* The failures after which the faceted request is tried.
Retried == {"invalid_topology", "geometry_timeout"}

Trusted == [origin : Origins, axes : RigidAxes]

ASSUME TopologyAssumption ==
    /\ PartLists \subseteq Seq(Parts)
    /\ Parts \subseteq DecodedPart
    /\ \A part \in Parts :
           part.analytic.object = part.object /\ part.faceted.object = part.object
    /\ RigidAxes \subseteq Axes /\ WorldAxes \in RigidAxes
    /\ Retried \cup {"resource_limit"} \subseteq Codes
    /\ MaxEntries \in Nat /\ MaxBytes \in Nat
    /\ CacheDisabled \in BOOLEAN

ASSUME CoordinatesAssumption ==
    /\ \A g \in Geometries : FirstPoint(g) \in Origins
    /\ \A g \in Geometries, p \in Trusted : World(Local(g, p), p) = g
    /\ \A g \in Geometries, p, q \in Trusted :
           p.axes = q.axes => Shift(g, p.origin, q.origin) = World(Local(g, p), q)
    /\ \A r \in Recipes, g \in Geometries : Solid(r, g) \in Geometries

\* The solid of a moved request is the moved solid.
ASSUME KernelIsEquivariant ==
    \A r \in Recipes, g \in Geometries, p \in Trusted :
        Local(Solid(r, g), p) = Solid(r, Local(g, p))

\* The positions of a request close enough to the origin are exact, and those of its solid.
ASSUME FloatsAreExact ==
    \A r \in Recipes, g \in Geometries \cap Near : Float(Solid(r, g)) = Solid(r, g)

ASSUME SizesAssumption ==
    \A kind \in {"rigid", "translation"}, r \in Recipes, g \in Geometries, p \in Trusted :
        Size([kind |-> kind, recipe |-> r, geometry |-> Local(g, p)]) \in Nat

VARIABLES
    parts,     \* the parts of the stream, never written
    meshes,    \* the answers, one for each part that is through
    reports,   \* diagnostics: <<part, code, "failed" or "downgraded">>
    attempt,   \* the request that is being evaluated for the current part
    failure,   \* semantic_failure
    entries,   \* Impl::entries: a function from keys to [placement, geometry, object]
    bytes      \* Impl::bytes

streamVars == <<parts, meshes, reports>>
cacheVars == <<entries, bytes>>
topologyVars == <<streamVars, attempt, failure, cacheVars>>

Evaluate(request) == Float(Solid(request.recipe, request.geometry))

Answers == INSTANCE TopologyAnswers
-----------------------------------------------------------------------------
\* Keys.  A request far from the origin has none, nor has one that does not encode.

TranslationPlacement(g) == [origin |-> FirstPoint(g), axes |-> WorldAxes]

HasRigidKey(request, placement) ==
    /\ placement.axes \in RigidAxes
    /\ request.recipe \in Boxed => placement.axes \in BoxAxes

\* The frame the positions of the key are relative to.
KeyPlacement(request, placement) ==
    IF HasRigidKey(request, placement) THEN placement ELSE TranslationPlacement(request.geometry)

Key(request, placement) ==
    [kind |-> IF HasRigidKey(request, placement) THEN "rigid" ELSE "translation",
     recipe |-> request.recipe,
     geometry |-> Local(request.geometry, KeyPlacement(request, placement))]

\* Faulty variant: also requests whose positions lose their differences as floats are kept.
CacheableAnywhere(request) == ~CacheDisabled

Cacheable(request) == ~CacheDisabled /\ request.geometry \in Near

\* Faulty variant: the mesh is moved by the difference of the origins whatever the axes.
MovedByOrigin(key, geometry, from, to) == Shift(geometry, from.origin, to.origin)

\* The mesh kept at one placement as it is at another, in floats.
Moved(key, geometry, from, to) ==
    Float(IF key.kind = "translation" \/ from.axes = to.axes
          THEN Shift(geometry, from.origin, to.origin)
          ELSE World(Local(geometry, from), to))

Current == parts[Len(meshes) + 1]
Request == IF attempt = "analytic" THEN Current.analytic ELSE Current.faceted
CurrentKey == Key(Request, Current.placement)
CurrentFrame == KeyPlacement(Request, Current.placement)

Found == {k \in DOMAIN entries : k = CurrentKey}
-----------------------------------------------------------------------------
Init ==
    /\ parts \in PartLists
    /\ meshes = <<>>
    /\ reports = {}
    /\ attempt = "none"
    /\ failure = "none"
    /\ entries = <<>>
    /\ bytes = 0

More == Len(meshes) < Len(parts)
Report(code, what) == <<Len(meshes) + 1, code, what>>

\* The mesh a part had before topology evaluation has no geometry here.
Base(part) == [object |-> part.object, geometry |-> <<>>]

\* evaluate_operations_csg returns: the next part is on turn.
Answer(mesh) ==
    /\ meshes' = Append(meshes, mesh)
    /\ attempt' = "none"
    /\ failure' = "none"
    /\ UNCHANGED parts

\* No operations, or none that left anything in the request.
KeepUnchanged ==
    /\ attempt = "none" /\ More
    /\ Current.planned = "nothing"
    /\ Answer(Base(Current))
    /\ UNCHANGED <<reports, cacheVars>>

\* The planner refuses the root.
PlanRefused ==
    /\ attempt = "none" /\ More
    /\ Current.planned = "refused"
    /\ Answer(Base(Current))
    /\ reports' = reports \cup {Report("resource_limit", "failed")}
    /\ UNCHANGED cacheVars

BeginAnalytic ==
    /\ attempt = "none" /\ More
    /\ Current.planned = "request"
    /\ attempt' = "analytic"
    /\ UNCHANGED <<streamVars, failure, cacheVars>>

Evaluating == attempt # "none"

\* The current request is answered; after a faceted one the first failure is reported.
Succeed(geometry, object) ==
    /\ Answer([object |-> object, geometry |-> geometry])
    /\ reports' = IF attempt = "faceted" THEN reports \cup {Report(failure, "downgraded")}
                                        ELSE reports

Hit ==
    /\ Evaluating
    /\ Cacheable(Request)
    /\ \E k \in Found :
           Succeed(Moved(CurrentKey, entries[k].geometry, entries[k].placement, CurrentFrame),
                   Request.object)
    /\ UNCHANGED cacheVars

\* The evaluator is called: there is no key or no entry for it.
Miss == Evaluating /\ (Cacheable(Request) => Found = {})

Entry == [placement |-> CurrentFrame, geometry |-> Evaluate(Request), object |-> Request.object]

\* There is room for one entry more.
Fits(key) == Cardinality(DOMAIN entries) < MaxEntries /\ Size(key) <= MaxBytes - bytes

\* Faulty variant: bytes are counted for what is not retained too.
InsertCountsAlways(key) ==
    /\ entries' = IF Fits(key)
                  THEN [k \in DOMAIN entries \cup {key} |-> IF k = key THEN Entry ELSE entries[k]]
                  ELSE entries
    /\ bytes' = bytes + Size(key)

\* A full cache goes on without retaining: nothing is evicted.
Insert(key) ==
    IF Fits(key)
    THEN /\ entries' = [k \in DOMAIN entries \cup {key} |-> IF k = key THEN Entry ELSE entries[k]]
         /\ bytes' = bytes + Size(key)
    ELSE UNCHANGED cacheVars

EvaluatorSucceeds ==
    /\ Miss
    /\ Succeed(Evaluate(Request), Request.object)
    /\ IF Cacheable(Request) THEN Insert(CurrentKey) ELSE UNCHANGED cacheVars

\* Faulty variant: a faceted request that fails is tried again.
FailsAndRetriesForever(code) ==
    /\ Miss
    /\ code \in Retried
    /\ Current.replanned
    /\ attempt' = "faceted"
    /\ failure' = code
    /\ UNCHANGED <<streamVars, cacheVars>>

\* A failure is never kept.  A topology failure or a timeout of the analytic request is
\* followed by the faceted one, unless the planner refuses that.
FailsAndRetries(code) ==
    /\ Miss
    /\ attempt = "analytic"
    /\ code \in Retried
    /\ Current.replanned
    /\ attempt' = "faceted"
    /\ failure' = code
    /\ UNCHANGED <<streamVars, cacheVars>>

\* Every other failure is the answer, the part keeps its mesh.
FailsForGood(code) ==
    /\ Miss
    /\ ~(attempt = "analytic" /\ code \in Retried /\ Current.replanned)
    /\ Answer(Base(Current))
    /\ reports' = reports \cup {Report(code, "failed")}
    /\ UNCHANGED cacheVars

Answering ==
    \/ KeepUnchanged \/ PlanRefused \/ BeginAnalytic
    \/ Hit \/ EvaluatorSucceeds
    \/ \E code \in Codes : FailsAndRetries(code) \/ FailsForGood(code)

\* The stream has no more parts.
Done == ~More /\ UNCHANGED topologyVars

Next == Answering \/ Done

Spec == Init /\ [][Next]_topologyVars

\* The evaluator answers every call: the supervised host ends it at a deadline.
FairSpec == Spec /\ WF_topologyVars(Answering)
-----------------------------------------------------------------------------
KeyRecords ==
    [kind : {"rigid", "translation"}, recipe : Recipes,
     geometry : {Local(g, p) : g \in Geometries, p \in Trusted}]

EntryRecords == [placement : Trusted, geometry : Geometries, object : ObjectIds]

Reports == (Nat \ {0}) \X Codes \X {"failed", "downgraded"}

Meshes ==
    [object : ObjectIds, geometry : Geometries \cup {Float(g) : g \in Geometries} \cup {<<>>}]

TopologyTypeOK ==
    /\ parts \in PartLists
    /\ meshes \in Seq(Meshes)
    /\ Len(meshes) <= Len(parts)
    /\ reports \subseteq Reports
    /\ attempt \in {"none", "analytic", "faceted"}
    /\ attempt # "none" => More /\ Current.planned = "request"
    /\ attempt = "faceted" => failure \in Retried /\ Current.replanned
    /\ DOMAIN entries \subseteq KeyRecords
    /\ \A k \in DOMAIN entries : entries[k] \in EntryRecords
    /\ bytes \in Nat

\* Every entry is the solid of some request near the origin, kept with the frame its key is
\* relative to: what a hit relies on when it moves the mesh (Impl::find).
EntriesAreSolids ==
    \A k \in DOMAIN entries :
        /\ k.kind = "translation" => entries[k].placement.axes = WorldAxes
        /\ \E g \in Geometries \cap Near :
               /\ k.geometry = Local(g, entries[k].placement)
               /\ entries[k].geometry = Solid(k.recipe, g)

\* The cache stays within its limits of entries and bytes.
WithinCacheLimits == Cardinality(DOMAIN entries) <= MaxEntries /\ bytes <= MaxBytes

\* The bytes of what is kept, each with the key it is kept under.
BytesKept == {b \in (DOMAIN entries) \X (1..MaxBytes) : b[2] <= Size(b[1])}

\* The limits hold and mean something: the bytes counted are those of the entries kept, none is
\* counted twice or lost.
BytesAreCounted == WithinCacheLimits /\ bytes = Cardinality(BytesKept)

\* The inductive invariant.
TopologyInv == TopologyTypeOK /\ EntriesAreSolids

\* The cache never changes an answer: whatever was evaluated before, each part gets the solid
\* of its own request, with its own id and in its own place, or keeps its mesh with a report.
IsAnswers == Answers!Spec

\* A full cache "continues uncached rather than evicting live results": an entry stays what it is.
EntriesStay ==
    [][\A k \in DOMAIN entries : k \in DOMAIN entries' /\ entries'[k] = entries[k]]_cacheVars

\* Every part of the stream is answered, failures and retries included.
EveryPartIsAnswered == <>~More
=============================================================================
