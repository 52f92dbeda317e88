--------------------------- MODULE SupervisedHost ----------------------------
(***************************************************************************)
(* The supervised topology hosts of one process (supervised_posix.cpp) and *)
(* the worker processes they fork (occt_worker.cpp): who holds which end   *)
(* of which socket pair, what is in flight on it, and what the host says   *)
(* of each call when a worker answers, crashes, hangs or is never born.    *)
(*                                                                         *)
(* A member of Pids stands for one worker process together with the socket *)
(* pair made for it.  A message travels in two pieces (its fixed header    *)
(* and the rest), so that a partial send, a partial read and a death in    *)
(* the middle of either are all steps of their own.  The wall-clock        *)
(* deadline may pass at any point of a wait.                               *)
(***************************************************************************)
EXTENDS Naturals, Sequences, FiniteSets

CONSTANTS
    Hosts,     \* SupervisedOcctHost objects, each driven by its own stream
    Pids,      \* worker processes (and socket pairs) the system can hold
    Requests,  \* topology requests
    Parent,    \* the process the SDK runs in
    NoPid,     \* SupervisedOcctHost::Impl::pid = -1
    Capacity   \* pieces the kernel buffers per direction (SO_SNDBUF)

ASSUME HostAssumption ==
    /\ Parent \notin Pids
    /\ NoPid \notin Pids
    /\ Capacity \in Nat \ {0}

VARIABLES
    pc,         \* pc[h]: where host h is in evaluate, start, stop or its destructor
    call,       \* call[h]: the request of the current or last evaluate
    answer,     \* answer[h]: the Result evaluate returns (or is about to, after stop)
    worker,     \* worker[h]: the worker of host h, NoPid when there is none
    proc,       \* proc[p]: what worker process p is doing
    holding,    \* holding[p]: the request p has read
    hostEnd,    \* hostEnd[p]: processes with a descriptor of the host's end
    workerEnd,  \* workerEnd[p]: processes with a descriptor of the worker's end
    down,       \* down[p]: pieces sent by the host and not yet read by p
    up          \* up[p]: pieces written by p and not yet read by the host

hostVars == <<pc, call, answer, worker>>
procVars == <<proc, holding>>
endVars == <<hostEnd, workerEnd>>
wireVars == <<down, up>>
vars == <<pc, call, answer, worker, proc, holding, hostEnd, workerEnd, down, up>>
-----------------------------------------------------------------------------
\* Waiting for the socket to become ready (wait_until_ready).
Waiting == {"send_header", "send_body", "receive_header", "receive_body"}

\* Inside evaluate.
Busy == {"socketpair", "fork", "forked", "reap"} \cup Waiting

Running == {"read_header", "read_body", "evaluate", "write_header", "write_body"}

FailureCodes ==
    {"io_error", "geometry_timeout", "geometry_backend_crash", "resource_limit", "encode_error"}

\* The phase of a host as its owner sees it.
Phase(h) == CASE pc[h] \in Busy -> "busy"
              [] pc[h] = "waitpid" -> "closing"
              [] pc[h] = "destroyed" -> "closed"
              [] OTHER -> "ready"

\* The answer of a host as its owner sees it: nothing until evaluate returns.
Returned(h) == IF pc[h] \in Busy THEN [code |-> "none", of |-> "no request"] ELSE answer[h]

Service == INSTANCE TopologyService WITH
    phase <- [h \in Hosts |-> Phase(h)],
    answer <- [h \in Hosts |-> Returned(h)]

RequestPiece(part, r) == [part |-> part, of |-> r]

\* kind of a header: "valid", or "bad" (wrong magic) or "huge" (announced size over the limit);
\* kind of a body: "mesh", "error", or "invalid" (fields decode_occt_response refuses).
HeaderKinds == {"valid", "bad", "huge"}
BodyKinds == {"mesh", "error", "invalid"}
ResponsePiece(part, kind, r) == [part |-> part, kind |-> kind, of |-> r]

RequestPieces == [part : {"header", "body"}, of : Requests]
ResponsePieces == [part : {"header"}, kind : HeaderKinds, of : Requests]
                  \cup [part : {"body"}, kind : BodyKinds, of : Requests]

\* Nothing is left of the process or of its socket pair.
Free(p) == proc[p] = "none" /\ hostEnd[p] = {} /\ workerEnd[p] = {}

\* POLLHUP: no process holds the worker's end any more.
Hangup(p) == workerEnd[p] = {}

\* End of file for the worker: no process holds the host's end any more.
EndOfFile(p) == hostEnd[p] = {}

\* A process that is gone holds no descriptor.
ReleasedBy(ends, p) == [c \in Pids |-> ends[c] \ {p}]

\* A fork gives the child a copy of every descriptor of the parent that is not
\* close-on-exec, and none is; start() closes only the new pair's host end.
InheritedBy(ends, p) ==
    [c \in Pids |-> IF Parent \in ends[c] THEN ends[c] \cup {p} ELSE ends[c]]
-----------------------------------------------------------------------------
Init ==
    /\ pc = [h \in Hosts |-> "idle"]
    /\ call = [h \in Hosts |-> Service!NoRequest]
    /\ answer = [h \in Hosts |-> Service!NoAnswer]
    /\ worker = [h \in Hosts |-> NoPid]
    /\ proc = [p \in Pids |-> "none"]
    /\ holding = [p \in Pids |-> Service!NoRequest]
    /\ hostEnd = [p \in Pids |-> {}]
    /\ workerEnd = [p \in Pids |-> {}]
    /\ down = [p \in Pids |-> <<>>]
    /\ up = [p \in Pids |-> <<>>]

(***************************************************************************)
(* The host.                                                               *)
(***************************************************************************)
Goto(h, label) == pc' = [pc EXCEPT ![h] = label]

\* evaluate returns with a code and leaves the worker as it is.
Return(h, code) ==
    /\ Goto(h, "idle")
    /\ answer' = [answer EXCEPT ![h] = Service!Answer(code, call[h])]

\* Faulty variant: the worker is asked to leave by closing the socket but not killed.
StopPolitely(h, code) ==
    LET p == worker[h] IN
    /\ Goto(h, "reap")
    /\ answer' = [answer EXCEPT ![h] = Service!Answer(code, call[h])]
    /\ hostEnd' = [hostEnd EXCEPT ![p] = @ \ {Parent}]
    /\ UNCHANGED <<workerEnd, proc>>

\* stop(true): close the socket, kill the worker, then wait for it (Reap).
StopForced(h, code) ==
    LET p == worker[h] IN
    /\ Goto(h, "reap")
    /\ answer' = [answer EXCEPT ![h] = Service!Answer(code, call[h])]
    /\ hostEnd' = [ReleasedBy(hostEnd, p) EXCEPT ![p] = @ \ {Parent}]
    /\ workerEnd' = ReleasedBy(workerEnd, p)
    /\ proc' = [proc EXCEPT ![p] = "exited"]

\* evaluate is called: the deadline starts, start() is a no-op with a warm worker.
Evaluate(h, r) ==
    /\ pc[h] = "idle"
    /\ Goto(h, IF worker[h] = NoPid THEN "socketpair" ELSE "send_header")
    /\ call' = [call EXCEPT ![h] = r]
    /\ answer' = [answer EXCEPT ![h] = Service!NoAnswer]
    /\ UNCHANGED <<worker, procVars, endVars, wireVars>>

\* start: socketpair and its options.
OpenChannel(h) ==
    /\ pc[h] = "socketpair"
    /\ \E p \in Pids :
        /\ Free(p)
        /\ worker' = [worker EXCEPT ![h] = p]
        /\ hostEnd' = [hostEnd EXCEPT ![p] = {Parent}]
        /\ workerEnd' = [workerEnd EXCEPT ![p] = {Parent}]
        /\ down' = [down EXCEPT ![p] = <<>>]
        /\ up' = [up EXCEPT ![p] = <<>>]
    /\ Goto(h, "fork")
    /\ UNCHANGED <<call, answer, procVars>>

\* start: socketpair or fcntl fails.
OpenFails(h) ==
    /\ pc[h] = "socketpair"
    /\ Return(h, "io_error")
    /\ UNCHANGED <<call, worker, procVars, endVars, wireVars>>

\* start: fork, then in the child the closes, the dup2s and the exec.
Fork(h) ==
    LET p == worker[h] IN
    /\ pc[h] = "fork"
    /\ Goto(h, "forked")
    /\ proc' = [proc EXCEPT ![p] = "read_header"]
    /\ holding' = [holding EXCEPT ![p] = Service!NoRequest]
    /\ hostEnd' = [InheritedBy(hostEnd, p) EXCEPT ![p] = @ \ {p}]
    /\ workerEnd' = InheritedBy(workerEnd, p)
    /\ UNCHANGED <<call, answer, worker, wireVars>>

\* start: fork fails, both ends are closed again.
ForkFails(h) ==
    LET p == worker[h] IN
    /\ pc[h] = "fork"
    /\ Return(h, "io_error")
    /\ worker' = [worker EXCEPT ![h] = NoPid]
    /\ hostEnd' = [hostEnd EXCEPT ![p] = @ \ {Parent}]
    /\ workerEnd' = [workerEnd EXCEPT ![p] = @ \ {Parent}]
    /\ UNCHANGED <<call, procVars, wireVars>>

\* Faulty variant: the parent keeps its copy of the worker's end.
CloseWorkerEndForgotten(h) ==
    /\ pc[h] = "forked"
    /\ Goto(h, "send_header")
    /\ UNCHANGED <<call, answer, worker, procVars, endVars, wireVars>>

\* start: the parent closes the worker's end.
CloseWorkerEnd(h) ==
    /\ pc[h] = "forked"
    /\ Goto(h, "send_header")
    /\ workerEnd' = [workerEnd EXCEPT ![worker[h]] = @ \ {Parent}]
    /\ UNCHANGED <<call, answer, worker, procVars, hostEnd, wireVars>>

\* Faulty variant: a request that cannot be encoded abandons the worker just started.
EncodeFailsAbandonsWorker(h) ==
    /\ pc[h] = "send_header"
    /\ Return(h, "encode_error")
    /\ worker' = [worker EXCEPT ![h] = NoPid]
    /\ UNCHANGED <<call, procVars, endVars, wireVars>>

\* encode_occt_request refuses the request: the started worker stays.
EncodeFails(h) ==
    /\ pc[h] = "send_header"
    /\ Return(h, "encode_error")
    /\ UNCHANGED <<call, worker, procVars, endVars, wireVars>>

\* send_all: the socket is writable and has not hung up.
SendPiece(h) ==
    LET p == worker[h] IN
    /\ pc[h] \in {"send_header", "send_body"}
    /\ ~Hangup(p)
    /\ Len(down[p]) < Capacity
    /\ IF pc[h] = "send_header"
       THEN /\ down' = [down EXCEPT ![p] = Append(@, RequestPiece("header", call[h]))]
            /\ Goto(h, "send_body")
       ELSE /\ down' = [down EXCEPT ![p] = Append(@, RequestPiece("body", call[h]))]
            /\ Goto(h, "receive_header")
    /\ UNCHANGED <<call, answer, worker, procVars, endVars, up>>

\* Faulty variant: a timeout is reported and the worker kept for the next call.
DeadlineKeepsWorker(h) ==
    /\ pc[h] \in Waiting
    /\ Return(h, "geometry_timeout")
    /\ UNCHANGED <<call, worker, procVars, endVars, wireVars>>

\* wait_until_ready: the deadline passed; send_all or receive_all fails.
Deadline(h) ==
    /\ pc[h] \in Waiting
    /\ StopForced(h, "geometry_timeout")
    /\ UNCHANGED <<call, worker, holding, wireVars>>

\* wait_until_ready: a hang-up is reported before any readable bytes are looked at.
HangupSeen(h) ==
    /\ pc[h] \in Waiting
    /\ Hangup(worker[h])
    /\ StopForced(h, "geometry_backend_crash")
    /\ UNCHANGED <<call, worker, holding, wireVars>>

\* receive_all of the response header, then occt_response_size.
ReceiveHeader(h) ==
    LET p == worker[h] IN
    /\ pc[h] = "receive_header"
    /\ ~Hangup(p)
    /\ up[p] # <<>>
    /\ up' = [up EXCEPT ![p] = Tail(@)]
    /\ \/ /\ Head(up[p]).kind = "valid"
          /\ Goto(h, "receive_body")
          /\ UNCHANGED <<answer, proc, endVars>>
       \/ /\ Head(up[p]).kind = "huge"
          /\ StopForced(h, "resource_limit")
       \/ /\ Head(up[p]).kind \notin {"valid", "huge"}
          /\ StopForced(h, "geometry_backend_crash")
    /\ UNCHANGED <<call, worker, holding, down>>

\* receive_all of the rest, then decode_occt_response; the worker is kept whatever it says.
ReceiveBody(h) ==
    LET p == worker[h]
        piece == Head(up[p])
    IN
    /\ pc[h] = "receive_body"
    /\ ~Hangup(p)
    /\ up[p] # <<>>
    /\ up' = [up EXCEPT ![p] = Tail(@)]
    /\ Goto(h, "idle")
    /\ answer' = [answer EXCEPT ![h] =
           CASE piece.kind = "mesh" -> Service!Answer("mesh", piece.of)
             [] piece.kind = "error" -> Service!Answer("evaluator_error", piece.of)
             [] OTHER -> Service!Answer("geometry_backend_crash", call[h])]
    /\ UNCHANGED <<call, worker, procVars, endVars, down>>

\* stop: waitpid collects the exited worker.
Collect(h) ==
    /\ proc[worker[h]] = "exited"
    /\ proc' = [proc EXCEPT ![worker[h]] = "none"]
    /\ worker' = [worker EXCEPT ![h] = NoPid]
    /\ UNCHANGED <<call, answer, holding, endVars, wireVars>>

\* stop(true) returns, and evaluate with it.
Reap(h) ==
    /\ pc[h] = "reap"
    /\ Goto(h, "idle")
    /\ Collect(h)

\* Faulty variant: the destructor waits with the socket still open.
DestroyWithOpenSocket(h) ==
    /\ pc[h] = "idle"
    /\ Goto(h, IF worker[h] = NoPid THEN "destroyed" ELSE "waitpid")
    /\ UNCHANGED <<call, answer, worker, procVars, endVars, wireVars>>

\* ~Impl: stop(false) closes the socket and waits for the worker to leave by itself.
Destroy(h) ==
    /\ pc[h] = "idle"
    /\ IF worker[h] = NoPid
       THEN /\ Goto(h, "destroyed")
            /\ UNCHANGED hostEnd
       ELSE /\ Goto(h, "waitpid")
            /\ hostEnd' = [hostEnd EXCEPT ![worker[h]] = @ \ {Parent}]
    /\ UNCHANGED <<call, answer, worker, procVars, workerEnd, wireVars>>

\* ~Impl: waitpid returns.
Destroyed(h) ==
    /\ pc[h] = "waitpid"
    /\ Goto(h, "destroyed")
    /\ Collect(h)

\* Another stream constructs a host.
Construct(h) ==
    /\ pc[h] = "destroyed"
    /\ Goto(h, "idle")
    /\ call' = [call EXCEPT ![h] = Service!NoRequest]
    /\ answer' = [answer EXCEPT ![h] = Service!NoAnswer]
    /\ UNCHANGED <<worker, procVars, endVars, wireVars>>

(***************************************************************************)
(* The worker process.                                                     *)
(***************************************************************************)

\* read_exact of a request header, then of the rest.
WorkerRead(p) ==
    /\ down[p] # <<>>
    /\ \/ /\ proc[p] = "read_header"
          /\ proc' = [proc EXCEPT ![p] = "read_body"]
          /\ UNCHANGED holding
       \/ /\ proc[p] = "read_body"
          /\ proc' = [proc EXCEPT ![p] = "evaluate"]
          /\ holding' = [holding EXCEPT ![p] = Head(down[p]).of]
    /\ down' = [down EXCEPT ![p] = Tail(@)]
    /\ UNCHANGED <<hostVars, endVars, up>>

\* evaluate_occt returns; nothing says that it ever does.
WorkerEvaluates(p) ==
    /\ proc[p] = "evaluate"
    /\ proc' = [proc EXCEPT ![p] = "write_header"]
    /\ UNCHANGED <<hostVars, holding, endVars, wireVars>>

\* write_exact of the response; native code may also have printed to stdout.
WorkerWrite(p) ==
    /\ Len(up[p]) < Capacity
    /\ \/ /\ proc[p] = "write_header"
          /\ proc' = [proc EXCEPT ![p] = "write_body"]
          /\ \E kind \in HeaderKinds :
                up' = [up EXCEPT ![p] = Append(@, ResponsePiece("header", kind, holding[p]))]
       \/ /\ proc[p] = "write_body"
          /\ proc' = [proc EXCEPT ![p] = "read_header"]
          /\ \E kind \in BodyKinds :
                up' = [up EXCEPT ![p] = Append(@, ResponsePiece("body", kind, holding[p]))]
    /\ UNCHANGED <<hostVars, holding, endVars, down>>

\* The process ends and its descriptors are closed.
Exit(p) ==
    /\ proc' = [proc EXCEPT ![p] = "exited"]
    /\ hostEnd' = ReleasedBy(hostEnd, p)
    /\ workerEnd' = ReleasedBy(workerEnd, p)
    /\ UNCHANGED <<hostVars, holding, wireVars>>

\* End of file where a request would start: the loop returns 0.
WorkerLeaves(p) ==
    /\ proc[p] = "read_header"
    /\ down[p] = <<>>
    /\ EndOfFile(p)
    /\ Exit(p)

\* A failed exec, an access violation, an exit code 1 or 2, the OOM killer.
WorkerDies(p) ==
    /\ proc[p] \in Running
    /\ Exit(p)
-----------------------------------------------------------------------------
HostStep(h) ==
    \/ OpenChannel(h) \/ OpenFails(h) \/ Fork(h) \/ ForkFails(h) \/ CloseWorkerEnd(h)
    \/ EncodeFails(h) \/ SendPiece(h) \/ ReceiveHeader(h) \/ ReceiveBody(h)
    \/ Deadline(h) \/ HangupSeen(h) \/ Reap(h) \/ Destroyed(h)

OwnerStep(h) ==
    \/ \E r \in Requests : Evaluate(h, r)
    \/ Destroy(h)
    \/ Construct(h)

WorkerStep(p) == WorkerRead(p) \/ WorkerWrite(p) \/ WorkerLeaves(p)

Next ==
    \/ \E h \in Hosts : HostStep(h) \/ OwnerStep(h)
    \/ \E p \in Pids : WorkerStep(p) \/ WorkerEvaluates(p) \/ WorkerDies(p)

Spec == Init /\ [][Next]_vars

\* The thread inside a host runs, and a worker that can read, write or see the
\* end of its input does.  Owners may never call again and evaluations may hang.
Fairness ==
    /\ \A h \in Hosts : WF_vars(HostStep(h))
    /\ \A p \in Pids : WF_vars(WorkerStep(p))

FairSpec == Spec /\ Fairness
-----------------------------------------------------------------------------
(***************************************************************************)
(* Properties.                                                             *)
(***************************************************************************)

\* Every variable has its type.
TypeOK ==
    /\ pc \in [Hosts -> Busy \cup {"idle", "waitpid", "destroyed"}]
    /\ call \in [Hosts -> Requests \cup {Service!NoRequest}]
    /\ answer \in [Hosts -> [code : {"none"} \cup Service!EvaluatedCodes \cup FailureCodes,
                             of : Requests \cup {Service!NoRequest}]]
    /\ worker \in [Hosts -> Pids \cup {NoPid}]
    /\ proc \in [Pids -> Running \cup {"none", "exited"}]
    /\ holding \in [Pids -> Requests \cup {Service!NoRequest}]
    /\ hostEnd \in [Pids -> SUBSET (Pids \cup {Parent})]
    /\ workerEnd \in [Pids -> SUBSET (Pids \cup {Parent})]
    /\ down \in [Pids -> Seq(RequestPieces)]
    /\ up \in [Pids -> Seq(ResponsePieces)]

\* What evaluate returns is what the evaluator made of the request it was given: no
\* byte of an earlier call, answered late or not at all, is ever taken for this one's.
AnswerMatchesCall ==
    \A h \in Hosts :
        answer[h].code \in Service!EvaluatedCodes => answer[h].of = call[h]

\* A worker kept warm between two calls is at the start of its loop with nothing in
\* flight in either direction, so stop(false) never waits for an evaluation.
QuietBetweenCalls ==
    \A h \in Hosts :
        LET p == worker[h] IN
        (pc[h] \in {"idle", "waitpid"} /\ p # NoPid) =>
            /\ proc[p] \in {"read_header", "exited"}
            /\ down[p] = <<>>
            /\ up[p] = <<>>

\* No worker process, running or waiting to be collected, is ever without a host
\* that will wait for it, and no two hosts drive the same worker.
EveryWorkerOwned ==
    /\ \A p \in Pids : proc[p] # "none" => \E h \in Hosts : worker[h] = p
    /\ \A g, h \in Hosts : worker[g] = worker[h] /\ worker[g] # NoPid => g = h

\* While the host waits for its worker, a worker that is dead shows as a hang-up: the
\* call ends as a crash at once instead of running into its deadline.
CrashIsVisible ==
    \A h \in Hosts :
        pc[h] \in Waiting /\ proc[worker[h]] = "exited" => Hangup(worker[h])

\* Every destructor returns, whatever the owners of other hosts do.
DestructorReturns == \A h \in Hosts : pc[h] = "waitpid" ~> pc[h] = "destroyed"

\* A host of a pool is a topology service: every call is answered once, by what became
\* of that very request.
IsAnsweringService == Service!Answering

\* The only processes that can hide a dead worker from its host are workers of other hosts,
\* forked while this one was being started: the host itself, and whoever has left, has closed
\* its end.
OnlyLeaksHideCrashes ==
    \A h \in Hosts :
        pc[h] \in Waiting =>
            workerEnd[worker[h]] \subseteq {p \in Pids : proc[p] \in Running}

\* A destructor waits for ever only if the worker of another host holds this host's end for
\* ever; in particular the destructor of a host without company always returns.
OnlyLeaksHoldDestructors ==
    \A h \in Hosts :
        <>[](pc[h] = "waitpid") =>
            <>[](worker[h] \in Pids /\ hostEnd[worker[h]] \cap (Pids \ {worker[h]}) # {})
-----------------------------------------------------------------------------
(***************************************************************************)
(* The inductive invariant behind AnswerMatchesCall, QuietBetweenCalls and *)
(* EveryWorkerOwned: at every point of evaluate, what is in flight and     *)
(* where the worker stands.                                                *)
(***************************************************************************)

\* Where each host is decides whether it has a worker and whether that worker lives.
WorkerOfHost(h) ==
    LET p == worker[h] IN
    /\ pc[h] \in {"socketpair", "destroyed"} => p = NoPid
    /\ pc[h] \in Busy \cup {"waitpid"} /\ pc[h] # "socketpair" => p # NoPid
    /\ pc[h] = "fork" => proc[p] = "none" /\ Parent \in hostEnd[p]
    /\ pc[h] # "fork" /\ p # NoPid => proc[p] # "none"
    /\ pc[h] = "reap" => proc[p] = "exited"

RequestSeqs(r) == {<<>>, <<RequestPiece("body", r)>>,
                   <<RequestPiece("header", r), RequestPiece("body", r)>>}

IsHeader(s, r) == \E kind \in HeaderKinds : s = <<ResponsePiece("header", kind, r)>>

IsBody(s, r) == \E kind \in BodyKinds : s = <<ResponsePiece("body", kind, r)>>

IsHeaderAndBody(s, r) == \E hk \in HeaderKinds, bk \in BodyKinds :
    s = <<ResponsePiece("header", hk, r), ResponsePiece("body", bk, r)>>

\* Nothing is in flight and the worker is at the start of its loop.
Quiet(p) == proc[p] \in {"read_header", "exited"} /\ down[p] = <<>> /\ up[p] = <<>>

\* The request is half sent.
HalfSent(p, r) ==
    /\ up[p] = <<>>
    /\ \/ proc[p] = "read_header" /\ down[p] = <<RequestPiece("header", r)>>
       \/ proc[p] = "read_body" /\ down[p] = <<>>
       \/ proc[p] = "exited" /\ down[p] \in {<<>>, <<RequestPiece("header", r)>>}

\* The request is sent and no part of the response has been received.
Sent(p, r) ==
    \/ /\ up[p] = <<>>
       /\ \/ /\ proc[p] = "read_header"
             /\ down[p] = <<RequestPiece("header", r), RequestPiece("body", r)>>
          \/ proc[p] = "read_body" /\ down[p] = <<RequestPiece("body", r)>>
          \/ proc[p] \in {"evaluate", "write_header"} /\ down[p] = <<>> /\ holding[p] = r
          \/ proc[p] = "exited" /\ down[p] \in RequestSeqs(r)
    \/ /\ down[p] = <<>>
       /\ \/ proc[p] = "write_body" /\ IsHeader(up[p], r) /\ holding[p] = r
          \/ proc[p] = "read_header" /\ IsHeaderAndBody(up[p], r)
          \/ proc[p] = "exited" /\ (IsHeader(up[p], r) \/ IsHeaderAndBody(up[p], r))

\* The response header has been received.
HalfReceived(p, r) ==
    /\ down[p] = <<>>
    /\ \/ proc[p] = "write_body" /\ up[p] = <<>> /\ holding[p] = r
       \/ proc[p] = "read_header" /\ IsBody(up[p], r)
       \/ proc[p] = "exited" /\ (up[p] = <<>> \/ IsBody(up[p], r))

Conversation(h) ==
    /\ pc[h] \in {"idle", "waitpid", "forked", "send_header"} /\ worker[h] # NoPid =>
           Quiet(worker[h])
    /\ pc[h] = "fork" => down[worker[h]] = <<>> /\ up[worker[h]] = <<>>
    /\ pc[h] = "send_body" => HalfSent(worker[h], call[h])
    /\ pc[h] = "receive_header" => Sent(worker[h], call[h])
    /\ pc[h] = "receive_body" => HalfReceived(worker[h], call[h])

\* A call that is under way is a call for a request, and fails with a code of its own
\* once the worker is being stopped.
CallUnderWay(h) ==
    /\ pc[h] \in Busy => call[h] \in Requests
    /\ pc[h] = "reap" => \E code \in FailureCodes : answer[h] = Service!Answer(code, call[h])

HostInv ==
    /\ TypeOK
    /\ EveryWorkerOwned
    /\ AnswerMatchesCall
    /\ \A h \in Hosts : WorkerOfHost(h) /\ Conversation(h) /\ CallUnderWay(h)
=============================================================================
