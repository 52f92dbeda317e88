--------------------------- MODULE TopologyService ---------------------------
(***************************************************************************)
(* What a topology host promises to the geometry stream that owns it, with *)
(* no process, socket or deadline in sight: a call is answered once, either*)
(* with what the evaluator makes of that very request or with a classified *)
(* failure, and a host is destroyed only between calls.                    *)
(*                                                                         *)
(* SupervisedHost implements it (see there for the refinement mapping).    *)
(***************************************************************************)
CONSTANTS
    Hosts,       \* the SupervisedOcctHost objects of one process
    Requests,    \* what may be asked
    FailureCodes \* ErrorCode values a host returns on its own account

VARIABLES
    phase,   \* phase[h]: "ready", "busy", "closing" or "closed"
    call,    \* call[h]: the request h was last asked to evaluate
    answer   \* answer[h]: the result of that call, NoAnswer while there is none

serviceVars == <<phase, call, answer>>

NoRequest == "no request"

\* Answers that carry something the evaluator computed, and answers that do not.
EvaluatedCodes == {"mesh", "evaluator_error"}

Answer(code, r) == [code |-> code, of |-> r]

NoAnswer == Answer("none", NoRequest)

AnswersTo(r) == {Answer(code, r) : code \in EvaluatedCodes \cup FailureCodes}
-----------------------------------------------------------------------------
Init ==
    /\ phase = [h \in Hosts |-> "ready"]
    /\ call = [h \in Hosts |-> NoRequest]
    /\ answer = [h \in Hosts |-> NoAnswer]

\* SupervisedOcctHost::evaluate is entered.
Ask(h, r) ==
    /\ phase[h] = "ready"
    /\ phase' = [phase EXCEPT ![h] = "busy"]
    /\ call' = [call EXCEPT ![h] = r]
    /\ answer' = [answer EXCEPT ![h] = NoAnswer]

\* SupervisedOcctHost::evaluate returns.
Reply(h) ==
    /\ phase[h] = "busy"
    /\ phase' = [phase EXCEPT ![h] = "ready"]
    /\ \E a \in AnswersTo(call[h]) : answer' = [answer EXCEPT ![h] = a]
    /\ UNCHANGED call

\* The destructor is entered; a host with no worker is closed at once.
Close(h) ==
    /\ phase[h] = "ready"
    /\ \E next \in {"closing", "closed"} : phase' = [phase EXCEPT ![h] = next]
    /\ UNCHANGED <<call, answer>>

\* The destructor returns.
Closed(h) ==
    /\ phase[h] = "closing"
    /\ phase' = [phase EXCEPT ![h] = "closed"]
    /\ UNCHANGED <<call, answer>>

\* A later stream constructs another host in the same place.
Reopen(h) ==
    /\ phase[h] = "closed"
    /\ phase' = [phase EXCEPT ![h] = "ready"]
    /\ call' = [call EXCEPT ![h] = NoRequest]
    /\ answer' = [answer EXCEPT ![h] = NoAnswer]

Next == \E h \in Hosts :
    \/ \E r \in Requests : Ask(h, r)
    \/ Reply(h)
    \/ Close(h)
    \/ Closed(h)
    \/ Reopen(h)

Safe == Init /\ [][Next]_serviceVars

\* Every call returns.
Answering == Safe /\ \A h \in Hosts : WF_serviceVars(Reply(h))
=============================================================================
