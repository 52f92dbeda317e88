---------------------------- MODULE TopologyAnswers ----------------------------
(***************************************************************************)
(* What the topology stage of one geometry stream promises for its parts,  *)
(* in order: each part is answered once, with the solid of its own request *)
(* or with the mesh it had before, and a part that misses its solid has a  *)
(* diagnostic (docs/occt-execution.md, "Failure contract").  There is no   *)
(* cache here and no worker.                                               *)
(***************************************************************************)
EXTENDS Naturals, Sequences

CONSTANTS
    Parts,         \* what the planner can have made of a part
    PartLists,     \* the sequences of parts a stream can meet
    Codes,         \* how an evaluation can fail
    Retried,       \* the failures after which the faceted request is tried
    Evaluate(_)    \* the mesh geometry the evaluator computes for a request

VARIABLES
    parts,    \* the parts of the stream, never written
    meshes,   \* the answers, one for each part that is through
    reports   \* diagnostics: <<part, code, "failed" or "downgraded">>

answerVars == <<parts, meshes, reports>>

Current == parts[Len(meshes) + 1]

\* The mesh a part had before topology evaluation has no geometry here.
Base(part) == [object |-> part.object, geometry |-> <<>>]
SolidOf(request) == [object |-> request.object, geometry |-> Evaluate(request)]
Report(code, what) == <<Len(meshes) + 1, code, what>>

Init ==
    /\ parts \in PartLists
    /\ meshes = <<>>
    /\ reports = {}

More == Len(meshes) < Len(parts)

\* The part has no operations that apply.
Unchanged ==
    /\ More
    /\ Current.planned = "nothing"
    /\ meshes' = Append(meshes, Base(Current))
    /\ UNCHANGED <<parts, reports>>

\* The planner or the evaluator failed: the last valid mesh stays.
Failed(code) ==
    /\ More
    /\ Current.planned # "nothing"
    /\ meshes' = Append(meshes, Base(Current))
    /\ reports' = reports \cup {Report(code, "failed")}
    /\ UNCHANGED parts

\* The part's own request evaluated.
Solved ==
    /\ More
    /\ Current.planned = "request"
    /\ meshes' = Append(meshes, SolidOf(Current.analytic))
    /\ UNCHANGED <<parts, reports>>

\* It did not, and the part's own faceted request did.
Downgraded(code) ==
    /\ More
    /\ Current.planned = "request"
    /\ Current.replanned
    /\ meshes' = Append(meshes, SolidOf(Current.faceted))
    /\ reports' = reports \cup {Report(code, "downgraded")}
    /\ UNCHANGED parts

Next ==
    \/ Unchanged \/ Solved
    \/ \E code \in Codes : Failed(code)
    \/ \E code \in Retried : Downgraded(code)

Spec == Init /\ [][Next]_answerVars
=============================================================================
