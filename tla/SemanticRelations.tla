---------------------------- MODULE SemanticRelations ----------------------------
(***************************************************************************)
(* SemanticRelationReader (src/semantic.cpp:438-787): the edges of a model *)
(* in pages.  A call to next() runs through the seven phases until its     *)
(* page is full or the last phase is done, and what it had read so far -   *)
(* a row of a table, the member of an assembly, one end of a splice - is   *)
(* kept for the next call.  Three sets keep an edge from going out twice,  *)
(* whichever table it comes from, and two counters number the children of  *)
(* an object and the members of an assembly.                               *)
(*                                                                         *)
(* One step here is one turn of a loop of the reader; the consumer's call  *)
(* and the answer are steps of their own.  `sent` and `edges` are history: *)
(* the pages answered so far, one after the other, and the list of edges   *)
(* promised for the tables.  No step of the reader looks at them.          *)
(***************************************************************************)
EXTENDS SemanticTables

CONSTANTS
    Tables,   \* the tables a model can have
    Sizes     \* the sizes a page can have (batch_size_for, at least 1)

ASSUME SizesAssumption == Sizes \subseteq Nat \ {0}
ASSUME IdsAssumption == Ids \subseteq Nat \ {0}
ASSUME TablesAssumption == Tables \subseteq RawTables

VARIABLES
    loaded,        \* what the stream was made from, never written
    size,          \* batch_size_, never written
    phase,         \* phase_
    row,           \* the offset of the phase: object_offset_, relation_row_, ...
    initialized,   \* assembly_initialized_
    member,        \* member_offset_
    ordinal,       \* next_member_ordinal_
    endpoint,      \* next_splice_endpoint_
    subelements, hosted, connections,   \* the pairs that went out
    childOrdinals, \* child_ordinals_
    batch,         \* batch_
    calling,       \* next() is on the stack
    answer,        \* what it answered last
    sent, edges    \* history

assemblyVars == <<initialized, member, ordinal>>
pairVars == <<subelements, hosted, connections, childOrdinals>>
callVars == <<calling, answer, sent>>
fixedVars == <<loaded, size, edges>>
relationVars == <<fixedVars, phase, row, assemblyVars, endpoint, pairVars, batch, callVars>>

PhaseAfter ==
    [parents |-> "stored_relations", stored_relations |-> "assemblies", assemblies |-> "pours",
     pours |-> "rebar_splices", rebar_splices |-> "surface_objects",
     surface_objects |-> "component_connections", component_connections |-> "done"]
Phases == DOMAIN PhaseAfter \cup {"done"}

TableOf(p) ==
    CASE p = "parents" -> loaded.objects
      [] p = "stored_relations" -> loaded.relations
      [] p = "assemblies" -> loaded.assemblies
      [] p = "pours" -> loaded.pours
      [] p = "rebar_splices" -> loaded.splices
      [] p = "surface_objects" -> loaded.surfaces
      [] p = "component_connections" -> loaded.joints

Current == TableOf(phase)[row + 1]

Page(rows) == [kind |-> "page", rows |-> rows]
NoAnswer == [kind |-> "none", rows |-> <<>>]
Ended == [kind |-> "end", rows |-> <<>>]

Init ==
    /\ \E t \in Tables : loaded = Load(t) /\ edges = EdgesOf(t)
    /\ size \in Sizes
    /\ phase = "parents" /\ row = 0
    /\ initialized = FALSE /\ member = 0 /\ ordinal = 1
    /\ endpoint = 0
    /\ subelements = {} /\ hosted = {} /\ connections = {}
    /\ childOrdinals = [id \in Ids |-> 0]
    /\ batch = <<>> /\ calling = FALSE /\ answer = NoAnswer /\ sent = <<>>

---------------------------------------------------------------------------
(* The loop of next().                                                    *)

\* Another turn: the page is not full and there is a phase left.
Turn(p) == calling /\ phase = p /\ Len(batch) < size

\* The row is through: the next one, or the next phase after the last.
RowThrough ==
    IF row + 1 = Len(TableOf(phase))
    THEN phase' = PhaseAfter[phase] /\ row' = 0
    ELSE row' = row + 1 /\ UNCHANGED phase

\* A phase whose table is empty or missing.
SkipPhase ==
    /\ phase # "done" /\ Turn(phase)
    /\ TableOf(phase) = <<>>
    /\ phase' = PhaseAfter[phase]
    /\ UNCHANGED <<fixedVars, row, assemblyVars, endpoint, pairVars, batch, callVars>>

ValidEdge(source, target) ==
    /\ source # 0 /\ target # 0 /\ source # target
    /\ source \in loaded.endpoints /\ target \in loaded.endpoints
    /\ loaded.kinds[source] \notin Features /\ loaded.kinds[target] \notin Features

Edge(kind, source, target, number, origin, via) ==
    [kind |-> kind, source |-> source, target |-> target, ordinal |-> number,
     origin |-> origin, via |-> via]

\* Faulty variant: only a parent's edge is remembered.
AppendSubelementForgets(parent, child, origin, via) ==
    IF ValidEdge(parent, child) /\ <<parent, child>> \notin subelements
    THEN /\ batch' = Append(batch, Edge("subelement", parent, child, childOrdinals[parent],
                                        origin, via))
         /\ subelements' = IF origin = "object_parent"
                           THEN subelements \cup {<<parent, child>>} ELSE subelements
         /\ childOrdinals' = [childOrdinals EXCEPT ![parent] = @ + 1]
    ELSE UNCHANGED <<batch, subelements, childOrdinals>>

\* Faulty variant: a child met again takes a number.
AppendSubelementSkipsNumbers(parent, child, origin, via) ==
    IF ValidEdge(parent, child)
    THEN /\ batch' = IF <<parent, child>> \in subelements THEN batch
                     ELSE Append(batch, Edge("subelement", parent, child, childOrdinals[parent],
                                             origin, via))
         /\ subelements' = subelements \cup {<<parent, child>>}
         /\ childOrdinals' = [childOrdinals EXCEPT ![parent] = @ + 1]
    ELSE UNCHANGED <<batch, subelements, childOrdinals>>

AppendSubelement(parent, child, origin, via) ==
    IF ValidEdge(parent, child) /\ <<parent, child>> \notin subelements
    THEN /\ batch' = Append(batch, Edge("subelement", parent, child, childOrdinals[parent],
                                        origin, via))
         /\ subelements' = subelements \cup {<<parent, child>>}
         /\ childOrdinals' = [childOrdinals EXCEPT ![parent] = @ + 1]
    ELSE UNCHANGED <<batch, subelements, childOrdinals>>

\* The pair is entered first and taken out again when the kinds do not fit.
AppendHosted(guest, host, kinds, origin, via) ==
    IF /\ ValidEdge(guest, host) /\ <<guest, host>> \notin hosted
       /\ loaded.kinds[guest] \in kinds /\ loaded.kinds[host] \in HostKinds
    THEN /\ batch' = Append(batch, Edge("hosted_on", guest, host, 0, origin, via))
         /\ hosted' = hosted \cup {<<guest, host>>}
    ELSE UNCHANGED <<batch, hosted>>

AppendConnects(primary, secondary, number, origin, via) ==
    IF ValidEdge(primary, secondary) /\ <<primary, secondary>> \notin connections
    THEN /\ batch' = Append(batch, Edge("connects_to", primary, secondary, number, origin, via))
         /\ connections' = connections \cup {<<primary, secondary>>}
    ELSE UNCHANGED <<batch, connections>>

AppendMember(source, target, number, origin) ==
    IF ValidEdge(source, target)
    THEN batch' = Append(batch, Edge("in_assembly", source, target, number, origin, 0))
    ELSE UNCHANGED batch

---------------------------------------------------------------------------
(* The phases.                                                            *)

EmitParent ==
    /\ Turn("parents") /\ row < Len(loaded.objects)
    /\ AppendSubelement(Current.parent, Current.id, "object_parent", 0)
    /\ RowThrough
    /\ UNCHANGED <<fixedVars, assemblyVars, endpoint, hosted, connections, callVars>>

\* An invisible row, or a relation of another type, is passed over.
EmitStored ==
    /\ Turn("stored_relations") /\ row < Len(loaded.relations)
    /\ \/ /\ Current.visible /\ Current.type \in ChildTypes
          /\ AppendSubelement(Current.source, Current.target, "stored_relation", Current.id)
          /\ UNCHANGED hosted
       \/ /\ Current.visible /\ Current.type = RebarType
          /\ AppendHosted(Current.target, Current.source, Reinforcement, "rebar_host",
                          Current.id)
          /\ UNCHANGED <<subelements, childOrdinals>>
       \/ /\ ~Current.visible \/ Current.type \notin ChildTypes \cup {RebarType}
          /\ UNCHANGED <<batch, subelements, hosted, childOrdinals>>
    /\ RowThrough
    /\ UNCHANGED <<fixedVars, assemblyVars, endpoint, connections, callVars>>

\* The main member comes first and has the ordinal 0.
EmitMain ==
    /\ Turn("assemblies") /\ row < Len(loaded.assemblies)
    /\ ~initialized
    /\ AppendMember(Current.main, Current.id, 0, "assembly_membership")
    /\ initialized' = TRUE /\ ordinal' = 1
    /\ UNCHANGED <<fixedVars, phase, row, member, endpoint, pairVars, callVars>>

\* The assembly is through: the cursor starts anew for the next one.
AssemblyThrough ==
    /\ RowThrough
    /\ initialized' = FALSE /\ member' = 0 /\ ordinal' = 1

EmitMember ==
    LET members == loaded.members[Current.id]
        next == members[member + 1]
        counts == next # Current.main /\ ValidEdge(next, Current.id)
    IN
    /\ Turn("assemblies") /\ row < Len(loaded.assemblies)
    /\ initialized /\ member < Len(members)
    /\ IF next # Current.main /\ next # Current.id
       THEN AppendMember(next, Current.id, ordinal, "assembly_membership")
       ELSE UNCHANGED batch
    /\ IF member + 1 = Len(members) THEN AssemblyThrough
       ELSE /\ member' = member + 1
            /\ ordinal' = IF counts THEN ordinal + 1 ELSE ordinal
            /\ UNCHANGED <<phase, row, initialized>>
    /\ UNCHANGED <<fixedVars, endpoint, pairVars, callVars>>

NoMembers ==
    /\ Turn("assemblies") /\ row < Len(loaded.assemblies)
    /\ initialized /\ loaded.members[Current.id] = <<>>
    /\ AssemblyThrough
    /\ UNCHANGED <<fixedVars, endpoint, pairVars, batch, callVars>>

EmitPour ==
    /\ Turn("pours") /\ row < Len(loaded.pours)
    /\ AppendMember(Current[2], Current[1], 0, "pour_membership")
    /\ RowThrough
    /\ UNCHANGED <<fixedVars, assemblyVars, endpoint, pairVars, callVars>>

EmitSpliceFirst ==
    /\ Turn("rebar_splices") /\ row < Len(loaded.splices)
    /\ endpoint = 0
    /\ AppendConnects(Current[1], Current[2], 0, "rebar_splice", 0)
    /\ endpoint' = 1
    /\ UNCHANGED <<fixedVars, phase, row, assemblyVars, subelements, hosted, childOrdinals,
                   callVars>>

EmitSpliceSecond ==
    /\ Turn("rebar_splices") /\ row < Len(loaded.splices)
    /\ endpoint # 0
    /\ AppendConnects(Current[1], Current[3], 1, "rebar_splice", 0)
    /\ endpoint' = 0
    /\ RowThrough
    /\ UNCHANGED <<fixedVars, assemblyVars, subelements, hosted, childOrdinals, callVars>>

EmitSurface ==
    /\ Turn("surface_objects") /\ row < Len(loaded.surfaces)
    /\ AppendHosted(Current[1], Current[2], {"surface_object"}, "surface_object", 0)
    /\ RowThrough
    /\ UNCHANGED <<fixedVars, assemblyVars, endpoint, subelements, connections, childOrdinals,
                   callVars>>

EmitJoint ==
    /\ Turn("component_connections") /\ row < Len(loaded.joints)
    /\ IF Current.visible
       THEN AppendConnects(Current.prim, Current.sek, 0, "component_connection", Current.id)
       ELSE UNCHANGED <<batch, connections>>
    /\ RowThrough
    /\ UNCHANGED <<fixedVars, assemblyVars, endpoint, subelements, hosted, childOrdinals,
                   callVars>>

---------------------------------------------------------------------------
(* The consumer and the answer.                                           *)

\* Faulty variant: a call numbers the members it is at anew.
CallRestartsNumbers ==
    /\ ~calling
    /\ calling' = TRUE /\ batch' = <<>>
    /\ ordinal' = 1
    /\ UNCHANGED <<fixedVars, phase, row, initialized, member, endpoint, pairVars, answer, sent>>

Call ==
    /\ ~calling
    /\ calling' = TRUE /\ batch' = <<>>
    /\ UNCHANGED <<fixedVars, phase, row, assemblyVars, endpoint, pairVars, answer, sent>>

Return ==
    /\ calling
    /\ Len(batch) >= size \/ phase = "done"
    /\ calling' = FALSE
    /\ answer' = IF batch = <<>> /\ phase = "done" THEN Ended ELSE Page(batch)
    /\ sent' = sent \o batch
    /\ UNCHANGED <<fixedVars, phase, row, assemblyVars, endpoint, pairVars, batch>>

Next ==
    \/ SkipPhase \/ EmitParent \/ EmitStored
    \/ EmitMain \/ EmitMember \/ NoMembers
    \/ EmitPour \/ EmitSpliceFirst \/ EmitSpliceSecond \/ EmitSurface \/ EmitJoint
    \/ Call \/ Return

Spec == Init /\ [][Next]_relationVars

\* next() has one thread and no blocking call, so a step of it that can be
\* taken is taken; and the consumer asks again until it hears the end.
FairSpec == Spec /\ WF_relationVars(Next)

---------------------------------------------------------------------------
(* Properties.                                                            *)

\* Everything the consumer has or is about to get.
Emitted == IF calling THEN sent \o batch ELSE sent

EdgeKinds == {"subelement", "hosted_on", "in_assembly", "connects_to"}
Origins == {"object_parent", "stored_relation", "rebar_host", "assembly_membership",
            "pour_membership", "rebar_splice", "surface_object", "component_connection"}
Edges ==
    [kind : EdgeKinds, source : Ids, target : Ids, ordinal : Nat, origin : Origins, via : Nat]

\* The cursor of an assembly or a splice is only in use on a row of its own
\* table, and no page is larger than asked for.
RelationsTypeOK ==
    /\ size \in Sizes /\ phase \in Phases /\ row \in Nat
    /\ initialized \in BOOLEAN /\ member \in Nat /\ ordinal \in Nat \ {0}
    /\ initialized => phase = "assemblies" /\ row < Len(loaded.assemblies)
    /\ endpoint \in {0, 1}
    /\ endpoint = 1 => phase = "rebar_splices" /\ row < Len(loaded.splices)
    /\ subelements \subseteq Ids \X Ids /\ hosted \subseteq Ids \X Ids
    /\ connections \subseteq Ids \X Ids
    /\ childOrdinals \in [Ids -> Nat]
    /\ batch \in Seq(Edges) /\ Len(batch) <= size
    /\ sent \in Seq(Edges)
    /\ calling \in BOOLEAN

\* No edge goes out twice, not within a page, not in two pages, not from two
\* tables (docs/support-matrix.md, "Relations").
EdgesOnce ==
    \A i, j \in DOMAIN Emitted : i # j => ~SameEdge(Emitted[i], Emitted[j])

\* Every edge joins two different live objects, and neither is an evaluation
\* feature (README.md, "Design").
EndpointsAreElements ==
    \A i \in DOMAIN Emitted :
        LET e == Emitted[i] IN
        /\ e.source # e.target
        /\ {e.source, e.target} \subseteq loaded.endpoints
        /\ loaded.kinds[e.source] \notin Features /\ loaded.kinds[e.target] \notin Features

\* The children of an object are numbered 0, 1, 2, ... in the order they go
\* out, whatever pages and tables they come in.
ChildrenAreNumbered ==
    \A i \in DOMAIN Emitted :
        Emitted[i].kind = "subelement" =>
            Emitted[i].ordinal =
                Cardinality({j \in 1 .. i - 1 : /\ Emitted[j].kind = "subelement"
                                                /\ Emitted[j].source = Emitted[i].source})

\* The pages, whatever their size, are the promised list, and a consumer that
\* keeps asking hears the end of it.
Pages == INSTANCE PagedStream WITH items <- edges, sent <- Len(sent)
IsPaged == Pages!Spec /\ Pages!Drained
=============================================================================
