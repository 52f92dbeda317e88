------------------------ MODULE TopologyEvaluationProofs -----------------------
(***************************************************************************)
(* The cache of finished solids never changes an answer, for all parts,    *)
(* all geometry that satisfies the laws of coordinates, and all limits:    *)
(* the topology stage implements TopologyAnswers.                          *)
(***************************************************************************)
EXTENDS TopologyEvaluation, FiniteSetTheorems, TLAPS

(***************************************************************************)
(* Requests, frames and keys.                                              *)
(***************************************************************************)

\* The part on turn has the type of a decoded part.
LEMMA CurrentType ==
  ASSUME TopologyAssumption, TopologyTypeOK, More
  PROVE  /\ Current \in DecodedPart
         /\ Request \in Requests
         /\ Request.object = Current.object
<1>1. parts \in Seq(Parts) /\ meshes \in Seq(Meshes)
 BY DEF TopologyAssumption, TopologyTypeOK
<1>2. Len(meshes) + 1 \in 1..Len(parts)
 BY <1>1 DEF More
<1>3. Current \in Parts
 BY <1>1, <1>2 DEF Current
<1>4. Current \in DecodedPart
 BY <1>3 DEF TopologyAssumption
<1>5. Current.analytic \in Requests /\ Current.faceted \in Requests
 BY <1>4 DEF DecodedPart
<1>6. Current.analytic.object = Current.object /\ Current.faceted.object = Current.object
 BY <1>3 DEF TopologyAssumption
<1> QED
 BY <1>4, <1>5, <1>6 DEF Request

\* The frame of a key is always one whose axes are orthonormal.
LEMMA FramesAreTrusted ==
  ASSUME TopologyAssumption, CoordinatesAssumption,
         NEW request \in Requests, NEW placement \in Placements
  PROVE  /\ KeyPlacement(request, placement) \in Trusted
         /\ Key(request, placement).kind = "translation"
                => KeyPlacement(request, placement).axes = WorldAxes
<1>1. request.geometry \in Geometries
 BY DEF Requests
<1>2. TranslationPlacement(request.geometry) \in Trusted
 BY <1>1 DEF TopologyAssumption, CoordinatesAssumption, TranslationPlacement, Trusted
<1>3. CASE HasRigidKey(request, placement)
 BY <1>3 DEF HasRigidKey, KeyPlacement, Key, Placements, Trusted
<1>4. CASE ~HasRigidKey(request, placement)
 BY <1>2, <1>4 DEF KeyPlacement, Key, TranslationPlacement
<1> QED
 BY <1>3, <1>4

LEMMA CurrentKeyType ==
  ASSUME TopologyAssumption, CoordinatesAssumption, TopologyTypeOK, More
  PROVE  /\ CurrentFrame \in Trusted
         /\ CurrentKey \in KeyRecords
         /\ CurrentKey.recipe = Request.recipe
         /\ CurrentKey.geometry = Local(Request.geometry, CurrentFrame)
         /\ CurrentKey.kind = "translation" => CurrentFrame.axes = WorldAxes
<1>1. Request \in Requests /\ Current.placement \in Placements
 BY CurrentType DEF DecodedPart
<1>2. /\ CurrentFrame \in Trusted
      /\ CurrentKey.kind = "translation" => CurrentFrame.axes = WorldAxes
 BY <1>1, FramesAreTrusted DEF CurrentFrame, CurrentKey
<1>3. /\ CurrentKey.recipe = Request.recipe
      /\ CurrentKey.geometry = Local(Request.geometry, CurrentFrame)
      /\ CurrentKey = [kind |-> CurrentKey.kind, recipe |-> CurrentKey.recipe,
                       geometry |-> CurrentKey.geometry]
      /\ CurrentKey.kind \in {"rigid", "translation"}
 BY DEF CurrentKey, CurrentFrame, Key
<1>4. Request.recipe \in Recipes /\ Request.geometry \in Geometries
 BY <1>1 DEF Requests
<1>5. CurrentKey.geometry \in {Local(g, p) : g \in Geometries, p \in Trusted}
 BY <1>2, <1>3, <1>4
<1> QED
 BY <1>2, <1>3, <1>4, <1>5 DEF KeyRecords

(***************************************************************************)
(* A kept mesh, moved to the frame at hand, is the mesh the evaluator      *)
(* would compute.                                                          *)
(***************************************************************************)

\* Both ways of moving a mesh are one: out of the old frame and into the new one.
LEMMA MovedIsWorldOfLocal ==
  ASSUME CoordinatesAssumption,
         NEW key, NEW g \in Geometries, NEW from \in Trusted, NEW to \in Trusted,
         key.kind = "translation" => from.axes = to.axes
  PROVE  Moved(key, g, from, to) = Float(World(Local(g, from), to))
<1>1. CASE from.axes = to.axes
 <2>1. Shift(g, from.origin, to.origin) = World(Local(g, from), to)
  BY <1>1 DEF CoordinatesAssumption
 <2> QED
  BY <1>1, <2>1 DEF Moved
<1>2. CASE from.axes # to.axes
 BY <1>2 DEF Moved
<1> QED
 BY <1>1, <1>2

\* Two requests with one key have the same solid, each in its own frame.
LEMMA SolidFollowsFrame ==
  ASSUME CoordinatesAssumption, KernelIsEquivariant,
         NEW r \in Recipes, NEW g \in Geometries, NEW h \in Geometries,
         NEW p \in Trusted, NEW q \in Trusted,
         Local(g, p) = Local(h, q)
  PROVE  World(Local(Solid(r, g), p), q) = Solid(r, h)
<1>1. Local(Solid(r, g), p) = Local(Solid(r, h), q)
 BY DEF KernelIsEquivariant
<1>2. Solid(r, h) \in Geometries
 BY DEF CoordinatesAssumption
<1> QED
 BY <1>1, <1>2 DEF CoordinatesAssumption

\* What Impl::find returns is what the evaluator would have returned.
LEMMA HitIsEvaluation ==
  ASSUME TopologyAssumption, CoordinatesAssumption, KernelIsEquivariant,
         TopologyInv, More, NEW k \in Found
  PROVE  Moved(CurrentKey, entries[k].geometry, entries[k].placement, CurrentFrame)
             = Evaluate(Request)
<1>1. k \in DOMAIN entries /\ k = CurrentKey
 BY DEF Found
<1>2. entries[k] \in EntryRecords
 BY <1>1 DEF TopologyInv, TopologyTypeOK
<1>3. entries[k].placement \in Trusted /\ entries[k].geometry \in Geometries
 BY <1>2 DEF EntryRecords
<1>4. PICK g \in Geometries \cap Near :
          /\ k.geometry = Local(g, entries[k].placement)
          /\ entries[k].geometry = Solid(k.recipe, g)
 BY <1>1 DEF TopologyInv, EntriesAreSolids
<1>5. k.kind = "translation" => entries[k].placement.axes = WorldAxes
 BY <1>1 DEF TopologyInv, EntriesAreSolids
<1>6. /\ CurrentFrame \in Trusted
      /\ k.recipe = Request.recipe
      /\ k.geometry = Local(Request.geometry, CurrentFrame)
      /\ k.kind = "translation" => CurrentFrame.axes = WorldAxes
 BY <1>1, CurrentKeyType DEF TopologyInv
<1>7. Moved(CurrentKey, entries[k].geometry, entries[k].placement, CurrentFrame)
          = Float(World(Local(entries[k].geometry, entries[k].placement), CurrentFrame))
 BY <1>1, <1>3, <1>5, <1>6, MovedIsWorldOfLocal
<1>8. Request.recipe \in Recipes /\ Request.geometry \in Geometries
 BY CurrentType DEF Requests, TopologyInv
<1>9. World(Local(entries[k].geometry, entries[k].placement), CurrentFrame)
          = Solid(Request.recipe, Request.geometry)
 <2>1. entries[k].geometry = Solid(Request.recipe, g)
  BY <1>4, <1>6
 <2>2. Local(g, entries[k].placement) = Local(Request.geometry, CurrentFrame)
  BY <1>4, <1>6
 <2>3. World(Local(Solid(Request.recipe, g), entries[k].placement), CurrentFrame)
           = Solid(Request.recipe, Request.geometry)
  BY <1>3, <1>6, <1>8, <2>2, SolidFollowsFrame
 <2> QED
  BY <2>1, <2>3
<1> QED
 BY <1>7, <1>9 DEF Evaluate

(***************************************************************************)
(* The invariant.                                                          *)
(***************************************************************************)

\* An answer is a mesh.
LEMMA AnswerType ==
  ASSUME TopologyAssumption, CoordinatesAssumption, TopologyTypeOK, More
  PROVE  /\ Base(Current) \in Meshes
         /\ [object |-> Request.object, geometry |-> Evaluate(Request)] \in Meshes
<1>1. Current.object \in ObjectIds
 BY CurrentType DEF DecodedPart
<1>2. /\ Request.object \in ObjectIds
      /\ Solid(Request.recipe, Request.geometry) \in Geometries
 BY CurrentType DEF Requests, CoordinatesAssumption
<1> QED
 BY <1>1, <1>2 DEF Base, Meshes, Evaluate

\* One answer more is one part less to go.
LEMMA AnswerCounts ==
  ASSUME TopologyAssumption, TopologyTypeOK, More, NEW mesh \in Meshes, Answer(mesh)
  PROVE  /\ parts' = parts
         /\ meshes' \in Seq(Meshes)
         /\ Len(meshes') <= Len(parts)
         /\ Len(meshes') = Len(meshes) + 1
         /\ attempt' = "none"
<1>1. meshes \in Seq(Meshes) /\ parts \in Seq(Parts)
 BY DEF TopologyTypeOK, TopologyAssumption
<1>2. Len(meshes) < Len(parts) /\ Len(meshes) \in Nat /\ Len(parts) \in Nat
 BY <1>1 DEF More
<1> QED
 BY <1>1, <1>2 DEF Answer

LEMMA ReportType ==
  ASSUME TopologyTypeOK, NEW code \in Codes, NEW what \in {"failed", "downgraded"}
  PROVE  Report(code, what) \in Reports
 BY DEF Report, Reports, TopologyTypeOK

\* The evaluated part of an answer: the mesh and, after a faceted request, the report.
LEMMA SucceedType ==
  ASSUME TopologyAssumption, CoordinatesAssumption, TopologyTypeOK, Evaluating,
         Succeed(Evaluate(Request), Request.object)
  PROVE  /\ parts' = parts
         /\ meshes' \in Seq(Meshes)
         /\ Len(meshes') <= Len(parts)
         /\ reports' \subseteq Reports
         /\ attempt' = "none"
<1>1. More
 BY DEF Evaluating, TopologyTypeOK
<1>2. [object |-> Request.object, geometry |-> Evaluate(Request)] \in Meshes
 BY <1>1, AnswerType
<1>3. reports' \subseteq Reports
 <2>1. CASE attempt = "faceted"
  <3>1. failure \in Codes
   BY <2>1 DEF TopologyTypeOK, TopologyAssumption
  <3> QED
   BY <2>1, <3>1, ReportType DEF Succeed, TopologyTypeOK
 <2>2. CASE attempt # "faceted"
  BY <2>2 DEF Succeed, TopologyTypeOK
 <2> QED
  BY <2>1, <2>2
<1> QED
 BY <1>1, <1>2, <1>3, AnswerCounts DEF Succeed

\* Hit and EvaluatorSucceeds answer with the same mesh.
LEMMA HitSucceeds ==
  ASSUME TopologyAssumption, CoordinatesAssumption, KernelIsEquivariant, TopologyInv, Hit
  PROVE  /\ Evaluating
         /\ Succeed(Evaluate(Request), Request.object)
         /\ UNCHANGED cacheVars
<1>1. More
 BY DEF Hit, Evaluating, TopologyInv, TopologyTypeOK
<1> QED
 BY <1>1, HitIsEvaluation DEF Hit

\* The entries after an insertion, and what can be said of the new one.
LEMMA InsertedEntry ==
  ASSUME TopologyAssumption, CoordinatesAssumption, FloatsAreExact, TopologyTypeOK, More,
         Cacheable(Request)
  PROVE  /\ Entry \in EntryRecords
         /\ Entry.placement = CurrentFrame
         /\ \E g \in Geometries \cap Near :
                /\ CurrentKey.geometry = Local(g, Entry.placement)
                /\ Entry.geometry = Solid(CurrentKey.recipe, g)
<1>1. Request \in Requests /\ Request.geometry \in Near
 BY CurrentType DEF Cacheable
<1>2. /\ Request.recipe \in Recipes
      /\ Request.geometry \in Geometries \cap Near
      /\ Request.object \in ObjectIds
 BY <1>1 DEF Requests
<1>3. Evaluate(Request) = Solid(Request.recipe, Request.geometry)
 BY <1>2 DEF FloatsAreExact, Evaluate
<1>4. Solid(Request.recipe, Request.geometry) \in Geometries
 BY <1>2 DEF CoordinatesAssumption
<1> QED
 BY <1>2, <1>3, <1>4, CurrentKeyType DEF Entry, EntryRecords

\* An insertion keeps the types and the origin of all entries.
LEMMA InsertKeepsEntries ==
  ASSUME TopologyAssumption, CoordinatesAssumption, FloatsAreExact, SizesAssumption,
         TopologyInv, More, Cacheable(Request), Insert(CurrentKey)
  PROVE  /\ DOMAIN entries' \subseteq KeyRecords
         /\ \A k \in DOMAIN entries' : entries'[k] \in EntryRecords
         /\ bytes' \in Nat
         /\ EntriesAreSolids'
<1>1. CASE Fits(CurrentKey)
 <2>1. /\ CurrentKey \in KeyRecords
       /\ CurrentKey.kind = "translation" => CurrentFrame.axes = WorldAxes
  BY CurrentKeyType DEF TopologyInv
 <2>2. /\ DOMAIN entries' = DOMAIN entries \cup {CurrentKey}
       /\ \A k \in DOMAIN entries' :
              entries'[k] = IF k = CurrentKey THEN Entry ELSE entries[k]
       /\ bytes' = bytes + Size(CurrentKey)
  BY <1>1 DEF Insert
 <2>3. Size(CurrentKey) \in Nat
  <3>1. PICK kind \in {"rigid", "translation"}, r \in Recipes, g \in Geometries, p \in Trusted :
            CurrentKey = [kind |-> kind, recipe |-> r, geometry |-> Local(g, p)]
   BY <2>1 DEF KeyRecords
  <3> QED
   BY <3>1 DEF SizesAssumption
 <2>4. /\ Entry \in EntryRecords
       /\ Entry.placement = CurrentFrame
       /\ \E g \in Geometries \cap Near :
              /\ CurrentKey.geometry = Local(g, Entry.placement)
              /\ Entry.geometry = Solid(CurrentKey.recipe, g)
  BY InsertedEntry DEF TopologyInv
 <2>5. ASSUME NEW k \in DOMAIN entries'
       PROVE  /\ k.kind = "translation" => entries'[k].placement.axes = WorldAxes
              /\ \E g \in Geometries \cap Near :
                     /\ k.geometry = Local(g, entries'[k].placement)
                     /\ entries'[k].geometry = Solid(k.recipe, g)
  <3>1. CASE k = CurrentKey
   BY <2>1, <2>2, <2>4, <3>1
  <3>2. CASE k # CurrentKey
   BY <2>2, <3>2 DEF TopologyInv, EntriesAreSolids
  <3> QED
   BY <3>1, <3>2
 <2>6. EntriesAreSolids'
  BY <2>5 DEF EntriesAreSolids
 <2> QED
  BY <2>1, <2>2, <2>3, <2>4, <2>6 DEF TopologyInv, TopologyTypeOK
<1>2. CASE ~Fits(CurrentKey)
 BY <1>2 DEF Insert, cacheVars, TopologyInv, TopologyTypeOK, EntriesAreSolids
<1> QED
 BY <1>1, <1>2

\* The entries stay as they are.
LEMMA EntriesUnchanged ==
  ASSUME TopologyInv, UNCHANGED cacheVars
  PROVE  /\ DOMAIN entries' \subseteq KeyRecords
         /\ \A k \in DOMAIN entries' : entries'[k] \in EntryRecords
         /\ bytes' \in Nat
         /\ EntriesAreSolids'
 BY DEF cacheVars, TopologyInv, TopologyTypeOK, EntriesAreSolids

LEMMA TopologyInit ==
  ASSUME TopologyAssumption, Init
  PROVE  TopologyInv
<1>1. parts \in Seq(Parts)
 BY DEF Init, TopologyAssumption
<1> QED
 BY <1>1 DEF Init, TopologyInv, TopologyTypeOK, EntriesAreSolids

LEMMA TopologyStep ==
  ASSUME TopologyAssumption, CoordinatesAssumption, KernelIsEquivariant, FloatsAreExact,
         SizesAssumption, TopologyInv, [Next]_topologyVars
  PROVE  TopologyInv'
<1> USE DEF TopologyInv
<1>1. CASE KeepUnchanged
 <2>1. More /\ Answer(Base(Current)) /\ reports' = reports /\ UNCHANGED cacheVars
  BY <1>1 DEF KeepUnchanged
 <2> QED
  BY <2>1, AnswerType, AnswerCounts, EntriesUnchanged DEF TopologyTypeOK
<1>2. CASE PlanRefused
 <2>1. /\ More /\ Answer(Base(Current)) /\ UNCHANGED cacheVars
       /\ reports' = reports \cup {Report("resource_limit", "failed")}
  BY <1>2 DEF PlanRefused
 <2>2. reports' \subseteq Reports
  BY <2>1, ReportType DEF TopologyTypeOK, TopologyAssumption
 <2> QED
  BY <2>1, <2>2, AnswerType, AnswerCounts, EntriesUnchanged DEF TopologyTypeOK
<1>3. CASE BeginAnalytic
 <2>1. /\ More /\ Current.planned = "request" /\ attempt' = "analytic"
       /\ parts' = parts /\ meshes' = meshes /\ reports' = reports /\ UNCHANGED cacheVars
  BY <1>3 DEF BeginAnalytic, streamVars
 <2>2. More' /\ Current'.planned = "request"
  BY <2>1 DEF More, Current
 <2> QED
  BY <2>1, <2>2, EntriesUnchanged DEF TopologyTypeOK
<1>4. CASE Hit
 BY <1>4, HitSucceeds, SucceedType, EntriesUnchanged DEF TopologyTypeOK
<1>5. CASE EvaluatorSucceeds
 <2>1. /\ Evaluating /\ More
       /\ Succeed(Evaluate(Request), Request.object)
  BY <1>5 DEF EvaluatorSucceeds, Miss, Evaluating, TopologyTypeOK
 <2>2. /\ DOMAIN entries' \subseteq KeyRecords
       /\ \A k \in DOMAIN entries' : entries'[k] \in EntryRecords
       /\ bytes' \in Nat
       /\ EntriesAreSolids'
  <3>1. CASE Cacheable(Request)
   BY <1>5, <2>1, <3>1, InsertKeepsEntries DEF EvaluatorSucceeds
  <3>2. CASE ~Cacheable(Request)
   BY <1>5, <3>2, EntriesUnchanged DEF EvaluatorSucceeds
  <3> QED
   BY <3>1, <3>2
 <2> QED
  BY <2>1, <2>2, SucceedType DEF TopologyTypeOK
<1>6. ASSUME NEW code \in Codes, FailsAndRetries(code)
      PROVE  TopologyInv'
 <2>1. /\ attempt = "analytic" /\ code \in Retried /\ Current.replanned
       /\ attempt' = "faceted" /\ failure' = code
       /\ parts' = parts /\ meshes' = meshes /\ reports' = reports /\ UNCHANGED cacheVars
  BY <1>6 DEF FailsAndRetries, streamVars
 <2>2. More' /\ Current'.planned = "request" /\ Current'.replanned
  BY <2>1 DEF More, Current, TopologyTypeOK
 <2> QED
  BY <2>1, <2>2, EntriesUnchanged DEF TopologyTypeOK
<1>7. ASSUME NEW code \in Codes, FailsForGood(code)
      PROVE  TopologyInv'
 <2>1. /\ Answer(Base(Current)) /\ UNCHANGED cacheVars
       /\ reports' = reports \cup {Report(code, "failed")}
  BY <1>7 DEF FailsForGood
 <2>2. More
  BY <1>7 DEF FailsForGood, Miss, Evaluating, TopologyTypeOK
 <2>3. reports' \subseteq Reports
  BY <2>1, ReportType DEF TopologyTypeOK
 <2> QED
  BY <2>1, <2>2, <2>3, AnswerType, AnswerCounts, EntriesUnchanged DEF TopologyTypeOK
<1>8. CASE UNCHANGED topologyVars
 BY <1>8 DEF topologyVars, streamVars, cacheVars, TopologyTypeOK, EntriesAreSolids, More, Current
<1> QED
 BY <1>1, <1>2, <1>3, <1>4, <1>5, <1>6, <1>7, <1>8 DEF Next, Answering, Done

\* The inductive invariant holds of every reachable state (GeometryEvaluationCache::Impl): every
\* entry is the solid of a request near the origin, kept with the frame of its key.
THEOREM TopologyInvariant == Spec => []TopologyInv
<1>1. Init => TopologyInv
 BY TopologyInit, TopologyAssumption
<1>2. TopologyInv /\ [Next]_topologyVars => TopologyInv'
 BY TopologyStep, TopologyAssumption, CoordinatesAssumption, KernelIsEquivariant,
    FloatsAreExact, SizesAssumption
<1> QED
 BY <1>1, <1>2, PTL DEF Spec

(***************************************************************************)
(* The limits of the cache.                                                *)
(***************************************************************************)

\* WithinCacheLimits counts the entries, of which there are finitely many.
CacheCounted == IsFiniteSet(DOMAIN entries) /\ WithinCacheLimits

LEMMA InsertWithinLimits ==
  ASSUME TopologyAssumption, CoordinatesAssumption, FloatsAreExact, SizesAssumption,
         TopologyInv, More, Cacheable(Request), Insert(CurrentKey), CacheCounted
  PROVE  CacheCounted'
<1>1. CASE Fits(CurrentKey)
 <2>1. /\ DOMAIN entries' = DOMAIN entries \cup {CurrentKey}
       /\ bytes' = bytes + Size(CurrentKey)
  BY <1>1 DEF Insert
 <2>2. /\ bytes \in Nat /\ bytes' \in Nat /\ MaxBytes \in Nat /\ MaxEntries \in Nat
  BY InsertKeepsEntries DEF TopologyInv, TopologyTypeOK, TopologyAssumption
 <2>3. Size(CurrentKey) \in Nat
  <3>1. PICK kind \in {"rigid", "translation"}, r \in Recipes, g \in Geometries, p \in Trusted :
            CurrentKey = [kind |-> kind, recipe |-> r, geometry |-> Local(g, p)]
   BY CurrentKeyType DEF KeyRecords, TopologyInv
  <3> QED
   BY <3>1 DEF SizesAssumption
 <2>4. /\ IsFiniteSet(DOMAIN entries')
       /\ Cardinality(DOMAIN entries) \in Nat
       /\ Cardinality(DOMAIN entries') <= Cardinality(DOMAIN entries) + 1
  <3>1. IsFiniteSet(DOMAIN entries) /\ Cardinality(DOMAIN entries) \in Nat
   BY FS_CardinalityType DEF CacheCounted
  <3>2. /\ IsFiniteSet(DOMAIN entries \cup {CurrentKey})
        /\ \/ Cardinality(DOMAIN entries \cup {CurrentKey}) = Cardinality(DOMAIN entries)
           \/ Cardinality(DOMAIN entries \cup {CurrentKey}) = Cardinality(DOMAIN entries) + 1
   BY <3>1, FS_AddElement
  <3> QED
   BY <2>1, <3>1, <3>2
 <2>5. Cardinality(DOMAIN entries') <= MaxEntries
  <3>1. Cardinality(DOMAIN entries') \in Nat
   BY <2>4, FS_CardinalityType
  <3> QED
   BY <1>1, <2>2, <2>4, <3>1 DEF Fits
 <2>6. bytes' <= MaxBytes
  BY <1>1, <2>1, <2>2, <2>3 DEF Fits
 <2> QED
  BY <2>4, <2>5, <2>6 DEF CacheCounted, WithinCacheLimits
<1>2. CASE ~Fits(CurrentKey)
 BY <1>2 DEF Insert, cacheVars, CacheCounted, WithinCacheLimits
<1> QED
 BY <1>1, <1>2

\* Every step but one leaves the cache alone.
LEMMA OnlyEvaluationInserts ==
  ASSUME TopologyInv, [Next]_topologyVars
  PROVE  \/ UNCHANGED cacheVars
         \/ /\ EvaluatorSucceeds /\ More
            /\ Cacheable(Request) /\ Insert(CurrentKey)
<1>1. CASE EvaluatorSucceeds
 BY <1>1 DEF EvaluatorSucceeds, Miss, Evaluating, TopologyInv, TopologyTypeOK
<1>2. CASE ~EvaluatorSucceeds
 BY <1>2 DEF Next, Answering, Done, KeepUnchanged, PlanRefused, BeginAnalytic, Hit,
             FailsAndRetries, FailsForGood, topologyVars
<1> QED
 BY <1>1, <1>2

\* The cache stays within kMaximumEntries and kMaximumBytes (Impl::insert), whatever is evaluated.
THEOREM CacheWithinLimits == Spec => []WithinCacheLimits
<1>1. Init => CacheCounted
 <2>1. DOMAIN <<>> = {}
  OBVIOUS
 <2> QED
  BY <2>1, FS_EmptySet, TopologyAssumption
     DEF Init, CacheCounted, WithinCacheLimits, TopologyAssumption
<1>2. TopologyInv /\ CacheCounted /\ [Next]_topologyVars => CacheCounted'
 <2> SUFFICES ASSUME TopologyInv, CacheCounted, [Next]_topologyVars
              PROVE  CacheCounted'
  OBVIOUS
 <2>1. CASE UNCHANGED cacheVars
  BY <2>1 DEF cacheVars, CacheCounted, WithinCacheLimits
 <2>2. CASE More /\ Cacheable(Request) /\ Insert(CurrentKey)
  BY <2>2, InsertWithinLimits, TopologyAssumption, CoordinatesAssumption, FloatsAreExact,
     SizesAssumption
 <2> QED
  BY <2>1, <2>2, OnlyEvaluationInserts
<1>3. CacheCounted => WithinCacheLimits
 BY DEF CacheCounted
<1> QED
 BY <1>1, <1>2, <1>3, TopologyInvariant, PTL DEF Spec

\* What is counted is kept, and what is kept is counted.
CountIsKept ==
  /\ \A k \in DOMAIN entries : Size(k) \in Nat /\ Size(k) <= MaxBytes
  /\ IsFiniteSet(BytesKept) /\ bytes = Cardinality(BytesKept)

LEMMA InsertCounts ==
  ASSUME TopologyAssumption, CoordinatesAssumption, SizesAssumption,
         TopologyInv, More, CurrentKey \notin DOMAIN entries, Insert(CurrentKey), CountIsKept
  PROVE  CountIsKept'
<1>1. CASE Fits(CurrentKey)
 <2> PICK key : key = CurrentKey OBVIOUS
 <2> PICK own : own = {key} \X (1..Size(key)) OBVIOUS
 <2>1. /\ DOMAIN entries' = DOMAIN entries \cup {key}
       /\ bytes' = bytes + Size(key)
  BY <1>1 DEF Insert
 <2>2. bytes \in Nat /\ MaxBytes \in Nat /\ Size(key) <= MaxBytes - bytes
  BY <1>1 DEF TopologyInv, TopologyTypeOK, TopologyAssumption, Fits
 <2>3. Size(key) \in Nat
  <3>1. PICK kind \in {"rigid", "translation"}, r \in Recipes, g \in Geometries, p \in Trusted :
            key = [kind |-> kind, recipe |-> r, geometry |-> Local(g, p)]
   BY CurrentKeyType DEF KeyRecords, TopologyInv
  <3> QED
   BY <3>1 DEF SizesAssumption
 <2>4. Size(key) <= MaxBytes
  BY <2>2, <2>3
 <2>5. BytesKept' = BytesKept \cup own
  BY <2>1, <2>3, <2>4 DEF BytesKept
 <2>6. BytesKept \cap own = {}
  BY DEF BytesKept
 <2>7. IsFiniteSet(own) /\ Cardinality(own) = Size(key)
  <3>1. IsFiniteSet({key}) /\ Cardinality({key}) = 1
   BY FS_Singleton
  <3>2. IsFiniteSet(1..Size(key)) /\ Cardinality(1..Size(key)) = Size(key)
   BY <2>3, FS_Interval
  <3>3. IsFiniteSet(own) /\ Cardinality(own) = Cardinality({key}) * Cardinality(1..Size(key))
   BY <3>1, <3>2, FS_Product
  <3> QED
   BY <2>3, <3>1, <3>2, <3>3
 <2>8. /\ IsFiniteSet(BytesKept \cup own)
       /\ Cardinality(BytesKept \cup own)
              = Cardinality(BytesKept) + Cardinality(own) - Cardinality(BytesKept \cap own)
  BY <2>7, FS_Union DEF CountIsKept
 <2>9. bytes' = Cardinality(BytesKept \cup own)
  <3>1. Cardinality(BytesKept \cap own) = 0
   BY <2>6, FS_EmptySet
  <3>2. Cardinality(BytesKept \cup own) = bytes + Size(key)
   BY <2>2, <2>3, <2>7, <2>8, <3>1 DEF CountIsKept
  <3> QED
   BY <2>1, <3>2
 <2> QED
  BY <2>1, <2>3, <2>4, <2>5, <2>8, <2>9 DEF CountIsKept
<1>2. CASE ~Fits(CurrentKey)
 BY <1>2 DEF Insert, cacheVars, CountIsKept, BytesKept
<1> QED
 BY <1>1, <1>2

\* The counter is the number of bytes of the entries kept (Impl::insert): what the limit on it
\* says of the memory the cache holds.
THEOREM CacheCountsBytes == Spec => []BytesAreCounted
<1>1. Init => CountIsKept
 <2> SUFFICES ASSUME Init PROVE CountIsKept
  OBVIOUS
 <2>1. entries = <<>> /\ bytes = 0 /\ DOMAIN entries = {}
  BY DEF Init
 <2>2. BytesKept = {}
  BY <2>1 DEF BytesKept
 <2> QED
  BY <2>1, <2>2, FS_EmptySet DEF CountIsKept
<1>2. TopologyInv /\ CountIsKept /\ [Next]_topologyVars => CountIsKept'
 <2> SUFFICES ASSUME TopologyInv, CountIsKept, [Next]_topologyVars
              PROVE  CountIsKept'
  OBVIOUS
 <2>1. CASE UNCHANGED cacheVars
  BY <2>1 DEF cacheVars, CountIsKept, BytesKept
 <2>2. CASE EvaluatorSucceeds /\ More /\ Cacheable(Request) /\ Insert(CurrentKey)
  <3>1. CurrentKey \notin DOMAIN entries
   BY <2>2 DEF EvaluatorSucceeds, Miss, Found
  <3> QED
   BY <2>2, <3>1, InsertCounts, TopologyAssumption, CoordinatesAssumption, SizesAssumption
 <2> QED
  BY <2>1, <2>2, OnlyEvaluationInserts
<1>3. CountIsKept /\ WithinCacheLimits => BytesAreCounted
 BY DEF CountIsKept, BytesAreCounted
<1> QED
 BY <1>1, <1>2, <1>3, TopologyInvariant, CacheWithinLimits, PTL DEF Spec

\* An entry is never replaced or dropped (Impl::insert returns without one when the cache is full).
THEOREM CacheKeepsEntries == Spec => EntriesStay
<1> DEFINE Kept == \A k \in DOMAIN entries : k \in DOMAIN entries' /\ entries'[k] = entries[k]
<1>1. TopologyInv /\ [Next]_topologyVars => [Kept]_cacheVars
 <2> SUFFICES ASSUME TopologyInv, [Next]_topologyVars, ~UNCHANGED cacheVars
              PROVE  Kept
  OBVIOUS
 <2>1. EvaluatorSucceeds /\ Cacheable(Request) /\ Insert(CurrentKey)
  BY OnlyEvaluationInserts
 <2>2. CurrentKey \notin DOMAIN entries
  BY <2>1 DEF EvaluatorSucceeds, Miss, Found
 <2> QED
  BY <2>1, <2>2 DEF Insert
<1> HIDE DEF Kept
<1>2. Spec => [][Kept]_cacheVars
 BY <1>1, TopologyInvariant, PTL DEF Spec
<1> QED
 BY <1>2, PTL DEF EntriesStay, Kept

(***************************************************************************)
(* The stage implements its contract.                                      *)
(***************************************************************************)

LEMMA AnswersInit ==
  ASSUME Init
  PROVE  Answers!Init
 BY DEF Init, Answers!Init

\* A success is the answer to the attempt that is under way.
LEMMA SuccessIsAnswer ==
  ASSUME TopologyAssumption, TopologyInv, Evaluating,
         Succeed(Evaluate(Request), Request.object)
  PROVE  Answers!Next
<1>1. More /\ Current.planned = "request"
 BY DEF Evaluating, TopologyInv, TopologyTypeOK
<1>2. CASE attempt = "faceted"
 <2>1. failure \in Retried /\ Current.replanned
  BY <1>2 DEF TopologyInv, TopologyTypeOK
 <2>2. Answers!Downgraded(failure)
  BY <1>1, <1>2, <2>1
     DEF Succeed, Answer, Request, Current, More, Report, Answers!Downgraded,
         Answers!More, Answers!Current, Answers!SolidOf, Answers!Report
 <2> QED
  BY <2>1, <2>2 DEF Answers!Next
<1>3. CASE attempt = "analytic"
 <2>1. Answers!Solved
  BY <1>1, <1>3
     DEF Succeed, Answer, Request, Current, More, Answers!Solved,
         Answers!More, Answers!Current, Answers!SolidOf
 <2> QED
  BY <2>1 DEF Answers!Next
<1> QED
 BY <1>2, <1>3 DEF Evaluating, TopologyInv, TopologyTypeOK

\* A part that keeps its mesh has a report, unless nothing was to be done.
LEMMA FailureIsAnswer ==
  ASSUME NEW code \in Codes, More, Current.planned # "nothing", Answer(Base(Current)),
         reports' = reports \cup {Report(code, "failed")}
  PROVE  Answers!Next
<1>1. Answers!Failed(code)
 BY DEF Answer, Base, Current, More, Report, Answers!Failed, Answers!More, Answers!Current,
        Answers!Base, Answers!Report
<1> QED
 BY <1>1 DEF Answers!Next

LEMMA AnswersStep ==
  ASSUME TopologyAssumption, CoordinatesAssumption, KernelIsEquivariant, TopologyInv,
         [Next]_topologyVars
  PROVE  [Answers!Next]_Answers!answerVars
<1>1. CASE KeepUnchanged
 <2>1. Answers!Unchanged
  BY <1>1 DEF KeepUnchanged, Answer, Base, Current, More, Answers!Unchanged, Answers!More,
              Answers!Current, Answers!Base
 <2> QED
  BY <2>1 DEF Answers!Next
<1>2. CASE PlanRefused
 BY <1>2, FailureIsAnswer DEF PlanRefused, TopologyAssumption
<1>3. CASE BeginAnalytic
 BY <1>3 DEF BeginAnalytic, streamVars, Answers!answerVars
<1>4. CASE Hit
 BY <1>4, HitSucceeds, SuccessIsAnswer
<1>5. CASE EvaluatorSucceeds
 BY <1>5, SuccessIsAnswer DEF EvaluatorSucceeds, Miss
<1>6. ASSUME NEW code \in Codes, FailsAndRetries(code)
      PROVE  UNCHANGED Answers!answerVars
 BY <1>6 DEF FailsAndRetries, streamVars, Answers!answerVars
<1>7. ASSUME NEW code \in Codes, FailsForGood(code)
      PROVE  Answers!Next
 <2>1. More /\ Current.planned = "request"
  BY <1>7 DEF FailsForGood, Miss, Evaluating, TopologyInv, TopologyTypeOK
 <2> QED
  BY <1>7, <2>1, FailureIsAnswer DEF FailsForGood
<1>8. CASE UNCHANGED topologyVars
 BY <1>8 DEF topologyVars, streamVars, Answers!answerVars
<1> QED
 BY <1>1, <1>2, <1>3, <1>4, <1>5, <1>6, <1>7, <1>8 DEF Next, Answering, Done

\* The cache never changes an answer (GeometryEvaluationCache::evaluate, evaluate_operations_csg):
\* every part has the solid of its own request or its own mesh with a report.
THEOREM StageImplementsAnswers == Spec => IsAnswers
<1>1. Init => Answers!Init
 BY AnswersInit
<1>2. TopologyInv /\ [Next]_topologyVars => [Answers!Next]_Answers!answerVars
 BY AnswersStep, TopologyAssumption, CoordinatesAssumption, KernelIsEquivariant
<1> QED
 BY <1>1, <1>2, TopologyInvariant, PTL DEF Spec, IsAnswers, Answers!Spec
=============================================================================
