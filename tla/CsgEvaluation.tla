---------------------------- MODULE CsgEvaluation -----------------------------
(***************************************************************************)
(* A planned request is evaluated: build_csg_node (evaluator.cpp) walks    *)
(* the nodes depth first with limits of its own, reuses the shape of a     *)
(* node it has finished, and fails the whole request with the first node   *)
(* that fails.  The planner is CsgGraph; the evaluator starts when the     *)
(* planner has returned a request.                                         *)
(***************************************************************************)
EXTENDS CsgGraph

CONSTANTS
    EvaluatorDepth,  \* build_csg_node's maximum_depth
    EvaluatorNodes   \* the node limit of evaluate_occt_unchecked

\* The evaluator's limits are not below the planner's: 32 and 4096 in both.
ASSUME EvaluatorAssumption ==
    /\ EvaluatorDepth \in Nat /\ EvaluatorNodes \in Nat
    /\ MaxDepth <= EvaluatorDepth /\ MaxNodes <= EvaluatorNodes

VARIABLES
    calls,    \* the build_csg_node calls in progress, outermost first
    state,    \* states: 0 not begun, 1 in progress, 2 finished
    verdict   \* what evaluate_occt_unchecked returns

evaluatorVars == <<calls, state, verdict>>
evaluationVars == <<csgVars, evaluatorVars>>
-----------------------------------------------------------------------------
\* Faulty variant: the added operatives of a node are forgotten.
EdgesOfCutsOnly(n) == {l \in DOMAIN links : links[l].from = n /\ links[l].kind = "subtract"}

\* The edges of node n, as positions among the links.
EdgesOf(n) == {l \in DOMAIN links : links[l].from = n}

\* Unions are followed before subtractions, each kind in its order of insertion.
FollowedBefore(k, l) ==
    \/ links[k].kind = "union" /\ links[l].kind = "subtract"
    \/ links[k].kind = links[l].kind /\ k <= l

Call(n) == [node |-> n, edges |-> EdgesOf(n)]

LastCall == calls[Len(calls)]

\* The edge that is on turn in the node in progress.
NextEdge(l) == l \in LastCall.edges /\ \A k \in LastCall.edges : FollowedBefore(l, k)

EdgeFollowed(l) == [calls EXCEPT ![Len(calls)].edges = @ \ {l}]

EvaluationInit ==
    /\ Init
    /\ calls = <<>>
    /\ state = <<>>
    /\ verdict = "none"

Fail(code) ==
    /\ verdict' = code
    /\ calls' = <<>>

\* evaluate_occt_unchecked: the request is received, the root is node one here.
BeginEvaluation ==
    /\ outcome = "request"
    /\ verdict = "none"
    /\ calls = <<>>
    /\ IF Len(nodes) > EvaluatorNodes
       THEN Fail("node_limit") /\ UNCHANGED state
       ELSE /\ state' = [n \in NodeIndex |-> IF n = 1 THEN 1 ELSE 0]
            /\ calls' = <<Call(1)>>
            /\ UNCHANGED verdict
    /\ UNCHANGED csgVars

Evaluating == verdict = "none" /\ calls # <<>>

\* build_csg_node's own checks of the node an edge leads to.
Refusal(child) ==
    CASE child \notin NodeIndex -> "edge_target"
      [] Len(calls) >= EvaluatorDepth -> "depth_limit"
      [] state[child] = 1 -> "cycle"
      [] OTHER -> "none"

\* build_csg_node is called for the next edge of the node in progress.
FollowEdge(l) ==
    LET child == links[l].to IN
    /\ Evaluating
    /\ NextEdge(l)
    /\ IF Refusal(child) # "none"
       THEN Fail(Refusal(child)) /\ UNCHANGED state
       ELSE /\ \/ /\ state[child] = 2
                  /\ calls' = EdgeFollowed(l)
                  /\ UNCHANGED state
               \/ /\ state[child] = 0
                  /\ calls' = Append(EdgeFollowed(l), Call(child))
                  /\ state' = [state EXCEPT ![child] = 1]
            /\ UNCHANGED verdict
    /\ UNCHANGED csgVars

\* The geometry kernel refuses a base, a clip, a fusion or a cut of the node in progress.
KernelFails ==
    /\ Evaluating
    /\ Fail("geometry")
    /\ UNCHANGED <<csgVars, state>>

\* All operands of the node in progress have been applied.
FinishNode ==
    /\ Evaluating
    /\ LastCall.edges = {}
    /\ state' = [state EXCEPT ![LastCall.node] = 2]
    /\ calls' = SubSeq(calls, 1, Len(calls) - 1)
    /\ verdict' = IF Len(calls) = 1 THEN "solid" ELSE "none"
    /\ UNCHANGED csgVars

PendingEdges == IF calls = <<>> THEN {} ELSE LastCall.edges

Evaluate ==
    \/ BeginEvaluation
    \/ \E l \in PendingEdges : FollowEdge(l)
    \/ KernelFails
    \/ FinishNode

Settled == Finished /\ (outcome = "request" => verdict # "none")

EvaluationDone == Settled /\ UNCHANGED evaluationVars

EvaluationNext ==
    \/ Build /\ UNCHANGED evaluatorVars
    \/ Evaluate
    \/ EvaluationDone

EvaluationSpec == EvaluationInit /\ [][EvaluationNext]_evaluationVars

\* Planner and evaluator run to their end on the threads that call them; neither waits for
\* anything but the kernel, which is taken to return.
EvaluationFairSpec == EvaluationSpec /\ WF_evaluationVars(EvaluationNext)
-----------------------------------------------------------------------------
\* A call that failed after it had linked operatives of its own: its node stays behind.
LeftBehind == \E l \in DOMAIN links : links[l].from \notin Registered \cup {1}

\* The evaluator never refuses a planned request as broken, cyclic or too large, and as too
\* deep only for an edge chamfer below a node at the planner's last depth or for what a failed
\* call left behind.  A shared node may be linked from further down than where it was built and
\* is still not too deep: it is finished by then, since both sides follow the operatives in the
\* same order.  Only when the call that built it failed is it evaluated where it was linked
\* later, and deeper than the planner counted.
RefusesOnlyChamfers ==
    [][verdict' # verdict =>
          /\ verdict' \notin {"edge_target", "cycle", "node_limit"}
          /\ verdict' = "depth_limit" =>
                 LeftBehind \/ \E l \in PendingEdges : NextEdge(l) /\ IsChamfer(links[l].to)
      ]_evaluationVars

\* Every request is settled, cycles and limits included: the planner returns, and the
\* evaluator returns a verdict on what it planned.
RequestIsSettled == <>Settled

Linked(n) == n = 1 \/ \E l \in DOMAIN links : links[l].to = n

\* A solid is made of everything the planner linked: when the request evaluates, every node a
\* finished node links to is finished, and a node that nothing links to was not evaluated.
SolidIsComplete ==
    verdict = "solid" =>
        /\ state[1] = 2
        /\ \A l \in DOMAIN links : state[links[l].from] = 2 => state[links[l].to] = 2
        /\ \A n \in NodeIndex : state[n] # 1 /\ (state[n] = 2 => Linked(n))
=============================================================================
