------------------------ MODULE SupervisedHostProofs -------------------------
(***************************************************************************)
(* HostInv is an invariant of SupervisedHost for any number of hosts,      *)
(* processes and requests and any buffer capacity, and with it that        *)
(* answers match calls, that a kept worker is quiet, that every worker has *)
(* an owner, and that every step of a host is a step of TopologyService.   *)
(***************************************************************************)
EXTENDS SupervisedHost, SequenceTheorems, TLAPS

\* What HostInv says of one host.
HostOK(h) == WorkerOfHost(h) /\ Conversation(h) /\ CallUnderWay(h)

(***************************************************************************)
(* Pieces and the short sequences they form.                               *)
(***************************************************************************)

\* Appending to and taking from a wire with at most two pieces on it.
LEMMA ShortSequences ==
  ASSUME NEW a, NEW b
  PROVE  /\ Append(<<>>, a) = <<a>>
         /\ Append(<<a>>, b) = <<a, b>>
         /\ Tail(<<a>>) = <<>>
         /\ Tail(<<a, b>>) = <<b>>
         /\ Head(<<a>>) = a
         /\ Head(<<a, b>>) = a
         /\ <<a>> # <<>>
         /\ <<a, b>> # <<>>
<1> DEFINE s == Append(<<a>>, b)
           t == <<a, b>>
<1>1. <<a>> \in Seq({a, b}) /\ t \in Seq({a, b})
 OBVIOUS
<1>2. s \in Seq({a, b}) /\ Len(s) = 2
 BY <1>1, AppendProperties
<1>3. Len(t) = 2 /\ \A i \in 1..2 : s[i] = t[i]
 BY <1>1
<1> HIDE DEF s, t
<1>4. s = t
 BY <1>1, <1>2, <1>3, SeqEqual
<1>5. Append(<<a>>, b) = <<a, b>>
 BY <1>4 DEF s, t
<1>6. Append(<<>>, a) = <<a>>
 OBVIOUS
<1>7. Tail(<<a>>) = <<>> /\ Tail(<<a, b>>) = <<b>>
 OBVIOUS
<1>8. Head(<<a>>) = a /\ Head(<<a, b>>) = a
 OBVIOUS
<1>9. <<a>> # <<>> /\ <<a, b>> # <<>>
 OBVIOUS
<1>10. QED
 BY <1>5, <1>6, <1>7, <1>8, <1>9

\* Request pieces and response pieces are of their types.
LEMMA PieceTypes ==
  ASSUME NEW r \in Requests
  PROVE  /\ RequestPiece("header", r) \in RequestPieces
         /\ RequestPiece("body", r) \in RequestPieces
         /\ \A kind \in HeaderKinds : ResponsePiece("header", kind, r) \in ResponsePieces
         /\ \A kind \in BodyKinds : ResponsePiece("body", kind, r) \in ResponsePieces
 BY DEF RequestPiece, RequestPieces, ResponsePiece, ResponsePieces

\* A step that touches neither a host nor its worker leaves what HostInv says of it alone.
LEMMA OtherHost ==
  ASSUME NEW g \in Hosts, HostOK(g),
         UNCHANGED <<pc[g], call[g], answer[g], worker[g]>>,
         worker[g] # NoPid =>
             /\ UNCHANGED <<proc[worker[g]], holding[worker[g]],
                            down[worker[g]], up[worker[g]]>>
             /\ Parent \in hostEnd[worker[g]] => Parent \in hostEnd[worker[g]]'
  PROVE  HostOK(g)'
<1>1. WorkerOfHost(g)'
 BY DEF HostOK, WorkerOfHost, Busy, Waiting
<1>2. Conversation(g)'
 BY DEF HostOK, WorkerOfHost, Conversation, Quiet, HalfSent, Sent, HalfReceived,
        IsHeader, IsBody, IsHeaderAndBody, RequestSeqs, Busy, Waiting
<1>3. CallUnderWay(g)'
 BY DEF HostOK, CallUnderWay
<1>4. QED
 BY <1>1, <1>2, <1>3 DEF HostOK

-----------------------------------------------------------------------------
LEMMA InitHostInv == Init => HostInv
<1> SUFFICES ASSUME Init PROVE HostInv
 OBVIOUS
<1>1. TypeOK
 <2>1. down \in [Pids -> Seq(RequestPieces)] /\ up \in [Pids -> Seq(ResponsePieces)]
  BY DEF Init
 <2>2. QED
  BY <2>1 DEF Init, TypeOK, Service!NoAnswer, Service!Answer, Service!NoRequest
<1>2. EveryWorkerOwned /\ AnswerMatchesCall
 BY DEF Init, EveryWorkerOwned, AnswerMatchesCall, Service!NoAnswer, Service!Answer,
        Service!EvaluatedCodes
<1>3. \A h \in Hosts : WorkerOfHost(h) /\ Conversation(h) /\ CallUnderWay(h)
 BY DEF Init, WorkerOfHost, Conversation, CallUnderWay, Busy, Waiting
<1>4. QED
 BY <1>1, <1>2, <1>3 DEF HostInv

LEMMA EvaluateStep ==
  ASSUME HostInv, NEW h \in Hosts, NEW r \in Requests, Evaluate(h, r)
  PROVE  HostInv'
<1>1. TypeOK'
 BY DEF HostInv, TypeOK, Evaluate, Goto, procVars, endVars, wireVars, Busy, Waiting,
        Service!NoAnswer, Service!Answer, Service!NoRequest
<1>2. EveryWorkerOwned'
 BY DEF HostInv, EveryWorkerOwned, Evaluate, procVars
<1>3. AnswerMatchesCall'
 BY DEF HostInv, TypeOK, AnswerMatchesCall, Evaluate, Service!NoAnswer, Service!Answer,
        Service!EvaluatedCodes
<1>4. HostOK(h)'
 BY DEF HostInv, TypeOK, HostOK, WorkerOfHost, Conversation, CallUnderWay, Evaluate, Goto,
        Quiet, procVars, endVars, wireVars, Busy, Waiting
<1>5. ASSUME NEW g \in Hosts, g # h PROVE HostOK(g)'
 BY <1>5, OtherHost DEF HostInv, HostOK, TypeOK, Evaluate, Goto, procVars, endVars, wireVars
<1>6. QED
 BY <1>1, <1>2, <1>3, <1>4, <1>5 DEF HostInv, HostOK
LEMMA OpenChannelStep ==
  ASSUME HostInv, NEW h \in Hosts, OpenChannel(h)
  PROVE  HostInv'
<1> PICK p \in Pids :
        /\ Free(p)
        /\ worker' = [worker EXCEPT ![h] = p]
        /\ hostEnd' = [hostEnd EXCEPT ![p] = {Parent}]
        /\ workerEnd' = [workerEnd EXCEPT ![p] = {Parent}]
        /\ down' = [down EXCEPT ![p] = <<>>]
        /\ up' = [up EXCEPT ![p] = <<>>]
 BY DEF OpenChannel
<1>0. /\ p # NoPid
      /\ \A g \in Hosts : worker[g] # p
 BY HostAssumption DEF HostInv, WorkerOfHost, Free, TypeOK
<1>1. TypeOK'
 <2>1. /\ hostEnd' \in [Pids -> SUBSET (Pids \cup {Parent})]
       /\ workerEnd' \in [Pids -> SUBSET (Pids \cup {Parent})]
  BY DEF HostInv, TypeOK
 <2>2. /\ down' \in [Pids -> Seq(RequestPieces)]
       /\ up' \in [Pids -> Seq(ResponsePieces)]
  BY DEF HostInv, TypeOK
 <2>3. QED
  BY <2>1, <2>2 DEF HostInv, TypeOK, OpenChannel, Goto, procVars, Free, Busy, Waiting, Running,
         Service!NoAnswer, Service!Answer, Service!NoRequest, Service!EvaluatedCodes, FailureCodes
<1>2. EveryWorkerOwned'
 <2>1. proc' = proc /\ worker[h] = NoPid
  BY DEF OpenChannel, procVars, HostInv, WorkerOfHost
 <2>2. QED
  BY <1>0, <2>1, HostAssumption DEF HostInv, TypeOK, EveryWorkerOwned
<1>3. AnswerMatchesCall'
 BY DEF HostInv, TypeOK, AnswerMatchesCall, OpenChannel, Goto, procVars, Free,
        Service!NoAnswer, Service!Answer, Service!NoRequest, Service!EvaluatedCodes, FailureCodes
<1>4. HostOK(h)'
 BY <1>0 DEF HostInv, TypeOK, HostOK, WorkerOfHost, Conversation, CallUnderWay, OpenChannel, Goto, procVars, Free,
        Quiet, Busy, Waiting
<1>5. ASSUME NEW g \in Hosts, g # h PROVE HostOK(g)'
 <2>1. UNCHANGED <<pc[g], call[g], answer[g], worker[g]>>
  BY <1>5 DEF HostInv, TypeOK, OpenChannel, Goto, procVars, Free
 <2>2. worker[g] # NoPid =>
           /\ UNCHANGED <<proc[worker[g]], holding[worker[g]],
                          down[worker[g]], up[worker[g]]>>
           /\ Parent \in hostEnd[worker[g]] => Parent \in hostEnd[worker[g]]'
  BY <1>0, <1>5, HostAssumption DEF HostInv, TypeOK, EveryWorkerOwned, WorkerOfHost, OpenChannel, Goto, procVars, Free, Busy, Waiting
 <2>3. QED
  BY <2>1, <2>2, OtherHost DEF HostInv, HostOK
<1>6. QED
 BY <1>1, <1>2, <1>3, <1>4, <1>5 DEF HostInv, HostOK

LEMMA OpenFailsStep ==
  ASSUME HostInv, NEW h \in Hosts, OpenFails(h)
  PROVE  HostInv'
<1>1. TypeOK'
 BY DEF HostInv, TypeOK, OpenFails, Goto, Return, procVars, endVars, wireVars, Busy, Waiting, Running,
        Service!NoAnswer, Service!Answer, Service!NoRequest, Service!EvaluatedCodes, FailureCodes
<1>2. EveryWorkerOwned'
 BY DEF HostInv, TypeOK, EveryWorkerOwned, OpenFails, Goto, Return, procVars, endVars, wireVars
<1>3. AnswerMatchesCall'
 BY DEF HostInv, TypeOK, AnswerMatchesCall, OpenFails, Goto, Return, procVars, endVars, wireVars,
        Service!NoAnswer, Service!Answer, Service!NoRequest, Service!EvaluatedCodes, FailureCodes
<1>4. HostOK(h)'
 BY DEF HostInv, TypeOK, HostOK, WorkerOfHost, Conversation, CallUnderWay, OpenFails, Goto, Return, procVars, endVars, wireVars,
        Quiet, Busy, Waiting
<1>5. ASSUME NEW g \in Hosts, g # h PROVE HostOK(g)'
 <2>1. UNCHANGED <<pc[g], call[g], answer[g], worker[g]>>
  BY <1>5 DEF HostInv, TypeOK, OpenFails, Goto, Return, procVars, endVars, wireVars
 <2>2. worker[g] # NoPid =>
           /\ UNCHANGED <<proc[worker[g]], holding[worker[g]],
                          down[worker[g]], up[worker[g]]>>
           /\ Parent \in hostEnd[worker[g]] => Parent \in hostEnd[worker[g]]'
  BY <1>5, HostAssumption DEF HostInv, TypeOK, EveryWorkerOwned, WorkerOfHost, OpenFails, Goto, Return, procVars, endVars, wireVars, Busy, Waiting
 <2>3. QED
  BY <2>1, <2>2, OtherHost DEF HostInv, HostOK
<1>6. QED
 BY <1>1, <1>2, <1>3, <1>4, <1>5 DEF HostInv, HostOK

LEMMA ForkStep ==
  ASSUME HostInv, NEW h \in Hosts, Fork(h)
  PROVE  HostInv'
<1>1. TypeOK'
 <2>1. worker[h] \in Pids
  BY DEF HostInv, TypeOK, WorkerOfHost, Fork, Busy
 <2>2. /\ hostEnd' \in [Pids -> SUBSET (Pids \cup {Parent})]
       /\ workerEnd' \in [Pids -> SUBSET (Pids \cup {Parent})]
  BY <2>1, ZenonT(60) DEF HostInv, TypeOK, Fork, InheritedBy
 <2>3. QED
  BY <2>1, <2>2 DEF HostInv, TypeOK, Fork, Goto, wireVars, InheritedBy, Busy, Waiting, Running,
         Service!NoAnswer, Service!Answer, Service!NoRequest, Service!EvaluatedCodes, FailureCodes
<1>2. EveryWorkerOwned'
 BY DEF HostInv, TypeOK, EveryWorkerOwned, Fork, Goto, wireVars, InheritedBy
<1>3. AnswerMatchesCall'
 BY DEF HostInv, TypeOK, AnswerMatchesCall, Fork, Goto, wireVars, InheritedBy,
        Service!NoAnswer, Service!Answer, Service!NoRequest, Service!EvaluatedCodes, FailureCodes
<1>4. HostOK(h)'
 BY DEF HostInv, TypeOK, HostOK, WorkerOfHost, Conversation, CallUnderWay, Fork, Goto, wireVars, InheritedBy,
        Quiet, Busy, Waiting
<1>5. ASSUME NEW g \in Hosts, g # h PROVE HostOK(g)'
 <2>1. UNCHANGED <<pc[g], call[g], answer[g], worker[g]>>
  BY <1>5 DEF HostInv, TypeOK, Fork, Goto, wireVars, InheritedBy
 <2>2. worker[g] # NoPid =>
           /\ UNCHANGED <<proc[worker[g]], holding[worker[g]],
                          down[worker[g]], up[worker[g]]>>
           /\ Parent \in hostEnd[worker[g]] => Parent \in hostEnd[worker[g]]'
  BY <1>5, HostAssumption DEF HostInv, TypeOK, EveryWorkerOwned, WorkerOfHost, Fork, Goto, wireVars, InheritedBy, Busy, Waiting
 <2>3. QED
  BY <2>1, <2>2, OtherHost DEF HostInv, HostOK
<1>6. QED
 BY <1>1, <1>2, <1>3, <1>4, <1>5 DEF HostInv, HostOK

LEMMA ForkFailsStep ==
  ASSUME HostInv, NEW h \in Hosts, ForkFails(h)
  PROVE  HostInv'
<1>1. TypeOK'
 BY DEF HostInv, TypeOK, ForkFails, Goto, Return, procVars, wireVars, Busy, Waiting, Running,
        Service!NoAnswer, Service!Answer, Service!NoRequest, Service!EvaluatedCodes, FailureCodes
<1>2. EveryWorkerOwned'
 BY DEF HostInv, TypeOK, EveryWorkerOwned, ForkFails, Goto, Return, procVars, wireVars,
        WorkerOfHost
<1>3. AnswerMatchesCall'
 BY DEF HostInv, TypeOK, AnswerMatchesCall, ForkFails, Goto, Return, procVars, wireVars,
        Service!NoAnswer, Service!Answer, Service!NoRequest, Service!EvaluatedCodes, FailureCodes
<1>4. HostOK(h)'
 BY DEF HostInv, TypeOK, HostOK, WorkerOfHost, Conversation, CallUnderWay, ForkFails, Goto, Return, procVars, wireVars,
        Quiet, Busy, Waiting
<1>5. ASSUME NEW g \in Hosts, g # h PROVE HostOK(g)'
 <2>1. UNCHANGED <<pc[g], call[g], answer[g], worker[g]>>
  BY <1>5 DEF HostInv, TypeOK, ForkFails, Goto, Return, procVars, wireVars
 <2>2. worker[g] # NoPid =>
           /\ UNCHANGED <<proc[worker[g]], holding[worker[g]],
                          down[worker[g]], up[worker[g]]>>
           /\ Parent \in hostEnd[worker[g]] => Parent \in hostEnd[worker[g]]'
  BY <1>5, HostAssumption DEF HostInv, TypeOK, EveryWorkerOwned, WorkerOfHost, ForkFails, Goto, Return, procVars, wireVars, Busy, Waiting
 <2>3. QED
  BY <2>1, <2>2, OtherHost DEF HostInv, HostOK
<1>6. QED
 BY <1>1, <1>2, <1>3, <1>4, <1>5 DEF HostInv, HostOK

LEMMA CloseWorkerEndStep ==
  ASSUME HostInv, NEW h \in Hosts, CloseWorkerEnd(h)
  PROVE  HostInv'
<1>1. TypeOK'
 BY DEF HostInv, TypeOK, CloseWorkerEnd, Goto, procVars, wireVars, Busy, Waiting, Running,
        Service!NoAnswer, Service!Answer, Service!NoRequest, Service!EvaluatedCodes, FailureCodes
<1>2. EveryWorkerOwned'
 BY DEF HostInv, TypeOK, EveryWorkerOwned, CloseWorkerEnd, Goto, procVars, wireVars
<1>3. AnswerMatchesCall'
 BY DEF HostInv, TypeOK, AnswerMatchesCall, CloseWorkerEnd, Goto, procVars, wireVars,
        Service!NoAnswer, Service!Answer, Service!NoRequest, Service!EvaluatedCodes, FailureCodes
<1>4. HostOK(h)'
 BY DEF HostInv, TypeOK, HostOK, WorkerOfHost, Conversation, CallUnderWay, CloseWorkerEnd, Goto, procVars, wireVars,
        Quiet, Busy, Waiting
<1>5. ASSUME NEW g \in Hosts, g # h PROVE HostOK(g)'
 <2>1. UNCHANGED <<pc[g], call[g], answer[g], worker[g]>>
  BY <1>5 DEF HostInv, TypeOK, CloseWorkerEnd, Goto, procVars, wireVars
 <2>2. worker[g] # NoPid =>
           /\ UNCHANGED <<proc[worker[g]], holding[worker[g]],
                          down[worker[g]], up[worker[g]]>>
           /\ Parent \in hostEnd[worker[g]] => Parent \in hostEnd[worker[g]]'
  BY <1>5, HostAssumption DEF HostInv, TypeOK, EveryWorkerOwned, WorkerOfHost, CloseWorkerEnd, Goto, procVars, wireVars, Busy, Waiting
 <2>3. QED
  BY <2>1, <2>2, OtherHost DEF HostInv, HostOK
<1>6. QED
 BY <1>1, <1>2, <1>3, <1>4, <1>5 DEF HostInv, HostOK

LEMMA EncodeFailsStep ==
  ASSUME HostInv, NEW h \in Hosts, EncodeFails(h)
  PROVE  HostInv'
<1>1. TypeOK'
 BY DEF HostInv, TypeOK, EncodeFails, Goto, Return, procVars, endVars, wireVars, Busy, Waiting, Running,
        Service!NoAnswer, Service!Answer, Service!NoRequest, Service!EvaluatedCodes, FailureCodes
<1>2. EveryWorkerOwned'
 BY DEF HostInv, TypeOK, EveryWorkerOwned, EncodeFails, Goto, Return, procVars, endVars, wireVars
<1>3. AnswerMatchesCall'
 BY DEF HostInv, TypeOK, AnswerMatchesCall, EncodeFails, Goto, Return, procVars, endVars, wireVars,
        Service!NoAnswer, Service!Answer, Service!NoRequest, Service!EvaluatedCodes, FailureCodes
<1>4. HostOK(h)'
 BY DEF HostInv, TypeOK, HostOK, WorkerOfHost, Conversation, CallUnderWay, EncodeFails, Goto, Return, procVars, endVars, wireVars,
        Quiet, Busy, Waiting
<1>5. ASSUME NEW g \in Hosts, g # h PROVE HostOK(g)'
 <2>1. UNCHANGED <<pc[g], call[g], answer[g], worker[g]>>
  BY <1>5 DEF HostInv, TypeOK, EncodeFails, Goto, Return, procVars, endVars, wireVars
 <2>2. worker[g] # NoPid =>
           /\ UNCHANGED <<proc[worker[g]], holding[worker[g]],
                          down[worker[g]], up[worker[g]]>>
           /\ Parent \in hostEnd[worker[g]] => Parent \in hostEnd[worker[g]]'
  BY <1>5, HostAssumption DEF HostInv, TypeOK, EveryWorkerOwned, WorkerOfHost, EncodeFails, Goto, Return, procVars, endVars, wireVars, Busy, Waiting
 <2>3. QED
  BY <2>1, <2>2, OtherHost DEF HostInv, HostOK
<1>6. QED
 BY <1>1, <1>2, <1>3, <1>4, <1>5 DEF HostInv, HostOK

LEMMA DeadlineStep ==
  ASSUME HostInv, NEW h \in Hosts, Deadline(h)
  PROVE  HostInv'
<1>1. TypeOK'
 BY DEF HostInv, TypeOK, Deadline, Goto, StopForced, wireVars, ReleasedBy, Busy, Waiting, Running,
        Service!NoAnswer, Service!Answer, Service!NoRequest, Service!EvaluatedCodes, FailureCodes
<1>2. EveryWorkerOwned'
 BY DEF HostInv, TypeOK, EveryWorkerOwned, Deadline, Goto, StopForced, wireVars, ReleasedBy
<1>3. AnswerMatchesCall'
 BY DEF HostInv, TypeOK, AnswerMatchesCall, Deadline, Goto, StopForced, wireVars, ReleasedBy,
        Service!NoAnswer, Service!Answer, Service!NoRequest, Service!EvaluatedCodes, FailureCodes
<1>4. HostOK(h)'
 <2>1. /\ answer'[h] = Service!Answer("geometry_timeout", call'[h])
       /\ "geometry_timeout" \in FailureCodes
  BY DEF HostInv, TypeOK, Deadline, StopForced, FailureCodes
 <2>2. QED
  BY <2>1 DEF HostInv, TypeOK, HostOK, WorkerOfHost, Conversation, CallUnderWay, Deadline, Goto, StopForced, wireVars, ReleasedBy,
         Quiet, Busy, Waiting
<1>5. ASSUME NEW g \in Hosts, g # h PROVE HostOK(g)'
 <2>1. UNCHANGED <<pc[g], call[g], answer[g], worker[g]>>
  BY <1>5 DEF HostInv, TypeOK, Deadline, Goto, StopForced, wireVars, ReleasedBy
 <2>2. worker[g] # NoPid =>
           /\ UNCHANGED <<proc[worker[g]], holding[worker[g]],
                          down[worker[g]], up[worker[g]]>>
           /\ Parent \in hostEnd[worker[g]] => Parent \in hostEnd[worker[g]]'
  BY <1>5, HostAssumption DEF HostInv, TypeOK, EveryWorkerOwned, WorkerOfHost, Deadline, Goto, StopForced, wireVars, ReleasedBy, Busy, Waiting
 <2>3. QED
  BY <2>1, <2>2, OtherHost DEF HostInv, HostOK
<1>6. QED
 BY <1>1, <1>2, <1>3, <1>4, <1>5 DEF HostInv, HostOK

LEMMA HangupSeenStep ==
  ASSUME HostInv, NEW h \in Hosts, HangupSeen(h)
  PROVE  HostInv'
<1>1. TypeOK'
 BY DEF HostInv, TypeOK, HangupSeen, Goto, StopForced, wireVars, ReleasedBy, Busy, Waiting, Running,
        Service!NoAnswer, Service!Answer, Service!NoRequest, Service!EvaluatedCodes, FailureCodes
<1>2. EveryWorkerOwned'
 BY DEF HostInv, TypeOK, EveryWorkerOwned, HangupSeen, Goto, StopForced, wireVars, ReleasedBy
<1>3. AnswerMatchesCall'
 BY DEF HostInv, TypeOK, AnswerMatchesCall, HangupSeen, Goto, StopForced, wireVars, ReleasedBy,
        Service!NoAnswer, Service!Answer, Service!NoRequest, Service!EvaluatedCodes, FailureCodes
<1>4. HostOK(h)'
 <2>1. /\ answer'[h] = Service!Answer("geometry_backend_crash", call'[h])
       /\ "geometry_backend_crash" \in FailureCodes
  BY DEF HostInv, TypeOK, HangupSeen, StopForced, FailureCodes
 <2>2. QED
  BY <2>1 DEF HostInv, TypeOK, HostOK, WorkerOfHost, Conversation, CallUnderWay, HangupSeen, Goto, StopForced, wireVars, ReleasedBy,
         Quiet, Busy, Waiting
<1>5. ASSUME NEW g \in Hosts, g # h PROVE HostOK(g)'
 <2>1. UNCHANGED <<pc[g], call[g], answer[g], worker[g]>>
  BY <1>5 DEF HostInv, TypeOK, HangupSeen, Goto, StopForced, wireVars, ReleasedBy
 <2>2. worker[g] # NoPid =>
           /\ UNCHANGED <<proc[worker[g]], holding[worker[g]],
                          down[worker[g]], up[worker[g]]>>
           /\ Parent \in hostEnd[worker[g]] => Parent \in hostEnd[worker[g]]'
  BY <1>5, HostAssumption DEF HostInv, TypeOK, EveryWorkerOwned, WorkerOfHost, HangupSeen, Goto, StopForced, wireVars, ReleasedBy, Busy, Waiting
 <2>3. QED
  BY <2>1, <2>2, OtherHost DEF HostInv, HostOK
<1>6. QED
 BY <1>1, <1>2, <1>3, <1>4, <1>5 DEF HostInv, HostOK

LEMMA ReapStep ==
  ASSUME HostInv, NEW h \in Hosts, Reap(h)
  PROVE  HostInv'
<1>1. TypeOK'
 BY DEF HostInv, TypeOK, Reap, Goto, Collect, endVars, wireVars, Busy, Waiting, Running,
        Service!NoAnswer, Service!Answer, Service!NoRequest, Service!EvaluatedCodes, FailureCodes
<1>2. EveryWorkerOwned'
 BY DEF HostInv, TypeOK, EveryWorkerOwned, Reap, Goto, Collect, endVars, wireVars
<1>3. AnswerMatchesCall'
 BY DEF HostInv, TypeOK, AnswerMatchesCall, Reap, Goto, Collect, endVars, wireVars,
        Service!NoAnswer, Service!Answer, Service!NoRequest, Service!EvaluatedCodes, FailureCodes
<1>4. HostOK(h)'
 BY DEF HostInv, TypeOK, HostOK, WorkerOfHost, Conversation, CallUnderWay, Reap, Goto, Collect, endVars, wireVars,
        Quiet, Busy, Waiting
<1>5. ASSUME NEW g \in Hosts, g # h PROVE HostOK(g)'
 <2>1. UNCHANGED <<pc[g], call[g], answer[g], worker[g]>>
  BY <1>5 DEF HostInv, TypeOK, Reap, Goto, Collect, endVars, wireVars
 <2>2. worker[g] # NoPid =>
           /\ UNCHANGED <<proc[worker[g]], holding[worker[g]],
                          down[worker[g]], up[worker[g]]>>
           /\ Parent \in hostEnd[worker[g]] => Parent \in hostEnd[worker[g]]'
  BY <1>5, HostAssumption DEF HostInv, TypeOK, EveryWorkerOwned, WorkerOfHost, Reap, Goto, Collect, endVars, wireVars, Busy, Waiting
 <2>3. QED
  BY <2>1, <2>2, OtherHost DEF HostInv, HostOK
<1>6. QED
 BY <1>1, <1>2, <1>3, <1>4, <1>5 DEF HostInv, HostOK

LEMMA DestroyStep ==
  ASSUME HostInv, NEW h \in Hosts, Destroy(h)
  PROVE  HostInv'
<1>1. TypeOK'
 <2>1. hostEnd' \in [Pids -> SUBSET (Pids \cup {Parent})]
  <3>1. CASE worker[h] = NoPid
   BY <3>1 DEF HostInv, TypeOK, Destroy
  <3>2. CASE worker[h] # NoPid
   <4>1. worker[h] \in Pids /\ hostEnd' = [hostEnd EXCEPT ![worker[h]] = @ \ {Parent}]
    BY <3>2 DEF HostInv, TypeOK, Destroy
   <4>2. QED
    BY <4>1 DEF HostInv, TypeOK
  <3>3. QED
   BY <3>1, <3>2
 <2>2. QED
  BY <2>1 DEF HostInv, TypeOK, Destroy, Goto, procVars, wireVars, Busy, Waiting, Running,
         Service!NoAnswer, Service!Answer, Service!NoRequest, Service!EvaluatedCodes, FailureCodes
<1>2. EveryWorkerOwned'
 BY DEF HostInv, TypeOK, EveryWorkerOwned, Destroy, Goto, procVars, wireVars
<1>3. AnswerMatchesCall'
 BY DEF HostInv, TypeOK, AnswerMatchesCall, Destroy, Goto, procVars, wireVars,
        Service!NoAnswer, Service!Answer, Service!NoRequest, Service!EvaluatedCodes, FailureCodes
<1>4. HostOK(h)'
 BY DEF HostInv, TypeOK, HostOK, WorkerOfHost, Conversation, CallUnderWay, Destroy, Goto, procVars, wireVars,
        Quiet, Busy, Waiting
<1>5. ASSUME NEW g \in Hosts, g # h PROVE HostOK(g)'
 <2>1. UNCHANGED <<pc[g], call[g], answer[g], worker[g]>>
  BY <1>5 DEF HostInv, TypeOK, Destroy, Goto, procVars, wireVars
 <2>2. worker[g] # NoPid =>
           /\ UNCHANGED <<proc[worker[g]], holding[worker[g]],
                          down[worker[g]], up[worker[g]]>>
           /\ Parent \in hostEnd[worker[g]] => Parent \in hostEnd[worker[g]]'
  BY <1>5, HostAssumption DEF HostInv, TypeOK, EveryWorkerOwned, WorkerOfHost, Destroy, Goto, procVars, wireVars, Busy, Waiting
 <2>3. QED
  BY <2>1, <2>2, OtherHost DEF HostInv, HostOK
<1>6. QED
 BY <1>1, <1>2, <1>3, <1>4, <1>5 DEF HostInv, HostOK

LEMMA DestroyedStep ==
  ASSUME HostInv, NEW h \in Hosts, Destroyed(h)
  PROVE  HostInv'
<1>1. TypeOK'
 BY DEF HostInv, TypeOK, Destroyed, Goto, Collect, endVars, wireVars, Busy, Waiting, Running,
        Service!NoAnswer, Service!Answer, Service!NoRequest, Service!EvaluatedCodes, FailureCodes
<1>2. EveryWorkerOwned'
 BY DEF HostInv, TypeOK, EveryWorkerOwned, Destroyed, Goto, Collect, endVars, wireVars
<1>3. AnswerMatchesCall'
 BY DEF HostInv, TypeOK, AnswerMatchesCall, Destroyed, Goto, Collect, endVars, wireVars,
        Service!NoAnswer, Service!Answer, Service!NoRequest, Service!EvaluatedCodes, FailureCodes
<1>4. HostOK(h)'
 BY DEF HostInv, TypeOK, HostOK, WorkerOfHost, Conversation, CallUnderWay, Destroyed, Goto, Collect, endVars, wireVars,
        Quiet, Busy, Waiting
<1>5. ASSUME NEW g \in Hosts, g # h PROVE HostOK(g)'
 <2>1. UNCHANGED <<pc[g], call[g], answer[g], worker[g]>>
  BY <1>5 DEF HostInv, TypeOK, Destroyed, Goto, Collect, endVars, wireVars
 <2>2. worker[g] # NoPid =>
           /\ UNCHANGED <<proc[worker[g]], holding[worker[g]],
                          down[worker[g]], up[worker[g]]>>
           /\ Parent \in hostEnd[worker[g]] => Parent \in hostEnd[worker[g]]'
  BY <1>5, HostAssumption DEF HostInv, TypeOK, EveryWorkerOwned, WorkerOfHost, Destroyed, Goto, Collect, endVars, wireVars, Busy, Waiting
 <2>3. QED
  BY <2>1, <2>2, OtherHost DEF HostInv, HostOK
<1>6. QED
 BY <1>1, <1>2, <1>3, <1>4, <1>5 DEF HostInv, HostOK

LEMMA ConstructStep ==
  ASSUME HostInv, NEW h \in Hosts, Construct(h)
  PROVE  HostInv'
<1>1. TypeOK'
 BY DEF HostInv, TypeOK, Construct, Goto, procVars, endVars, wireVars, Busy, Waiting, Running,
        Service!NoAnswer, Service!Answer, Service!NoRequest, Service!EvaluatedCodes, FailureCodes
<1>2. EveryWorkerOwned'
 BY DEF HostInv, TypeOK, EveryWorkerOwned, Construct, Goto, procVars, endVars, wireVars
<1>3. AnswerMatchesCall'
 BY DEF HostInv, TypeOK, AnswerMatchesCall, Construct, Goto, procVars, endVars, wireVars,
        Service!NoAnswer, Service!Answer, Service!NoRequest, Service!EvaluatedCodes, FailureCodes
<1>4. HostOK(h)'
 BY DEF HostInv, TypeOK, HostOK, WorkerOfHost, Conversation, CallUnderWay, Construct, Goto, procVars, endVars, wireVars,
        Quiet, Busy, Waiting
<1>5. ASSUME NEW g \in Hosts, g # h PROVE HostOK(g)'
 <2>1. UNCHANGED <<pc[g], call[g], answer[g], worker[g]>>
  BY <1>5 DEF HostInv, TypeOK, Construct, Goto, procVars, endVars, wireVars
 <2>2. worker[g] # NoPid =>
           /\ UNCHANGED <<proc[worker[g]], holding[worker[g]],
                          down[worker[g]], up[worker[g]]>>
           /\ Parent \in hostEnd[worker[g]] => Parent \in hostEnd[worker[g]]'
  BY <1>5, HostAssumption DEF HostInv, TypeOK, EveryWorkerOwned, WorkerOfHost, Construct, Goto, procVars, endVars, wireVars, Busy, Waiting
 <2>3. QED
  BY <2>1, <2>2, OtherHost DEF HostInv, HostOK
<1>6. QED
 BY <1>1, <1>2, <1>3, <1>4, <1>5 DEF HostInv, HostOK

\* The part of a step on worker p that concerns the hosts p does not belong to.
LEMMA OtherHosts ==
  ASSUME HostInv, NEW p \in Pids, UNCHANGED hostVars,
         \A q \in Pids \ {p} :
             /\ UNCHANGED <<proc[q], holding[q], down[q], up[q]>>
             /\ Parent \in hostEnd[q] => Parent \in hostEnd[q]'
  PROVE  \A g \in Hosts : worker[g] # p => HostOK(g)'
<1> SUFFICES ASSUME NEW g \in Hosts, worker[g] # p PROVE HostOK(g)'
 OBVIOUS
<1>1. UNCHANGED <<pc[g], call[g], answer[g], worker[g]>>
 BY DEF hostVars
<1>2. worker[g] # NoPid => worker[g] \in Pids \ {p}
 BY DEF HostInv, TypeOK
<1>3. QED
 BY <1>1, <1>2, OtherHost DEF HostInv, HostOK

\* A host that waits for its socket has a worker and is in a call.
LEMMA WaitingHost ==
  ASSUME HostInv, NEW h \in Hosts, pc[h] \in Waiting
  PROVE  /\ worker[h] \in Pids
         /\ proc[worker[h]] # "none"
         /\ call[h] \in Requests
<1>1. pc[h] \in Busy /\ pc[h] \notin {"socketpair", "fork"}
 BY DEF Busy, Waiting
<1>2. QED
 BY <1>1 DEF HostInv, TypeOK, WorkerOfHost, CallUnderWay

LEMMA SendPieceStep ==
  ASSUME HostInv, NEW h \in Hosts, SendPiece(h)
  PROVE  HostInv'
<1> DEFINE p == worker[h]
           part == IF pc[h] = "send_header" THEN "header" ELSE "body"
           piece == RequestPiece(part, call[h])
<1>1. /\ p \in Pids
      /\ pc[h] \in {"send_header", "send_body"}
      /\ call[h] \in Requests
      /\ down' = [down EXCEPT ![p] = Append(@, piece)]
      /\ pc' = [pc EXCEPT ![h] = IF pc[h] = "send_header" THEN "send_body"
                                                           ELSE "receive_header"]
      /\ UNCHANGED <<call, answer, worker, proc, holding, hostEnd, workerEnd, up>>
 BY DEF SendPiece, Goto, HostInv, TypeOK, WorkerOfHost, CallUnderWay, procVars, endVars,
        Busy, Waiting
<1>2. TypeOK'
 <2>1. piece \in RequestPieces
  BY <1>1, PieceTypes
 <2>2. down' \in [Pids -> Seq(RequestPieces)]
  BY <1>1, <2>1, AppendProperties DEF HostInv, TypeOK
 <2>3. pc' \in [Hosts -> Busy \cup {"idle", "waitpid", "destroyed"}]
  BY <1>1 DEF HostInv, TypeOK, Busy, Waiting
 <2>4. QED
  BY <1>1, <2>2, <2>3 DEF HostInv, TypeOK
<1>3. EveryWorkerOwned' /\ AnswerMatchesCall'
 BY <1>1 DEF HostInv, EveryWorkerOwned, AnswerMatchesCall
<1>4. HostOK(h)'
 <2>1. WorkerOfHost(h)' /\ CallUnderWay(h)'
  BY <1>1 DEF HostInv, TypeOK, WorkerOfHost, CallUnderWay, Busy, Waiting
 <2>2. CASE pc[h] = "send_header"
  <3>1. Quiet(p) /\ down'[p] = <<RequestPiece("header", call[h])>>
   <4>1. Quiet(p)
    BY <1>1, <2>2, HostAssumption DEF HostInv, Conversation
   <4>2. down'[p] = Append(<<>>, RequestPiece("header", call[h]))
    BY <1>1, <2>2, <4>1 DEF HostInv, TypeOK, Quiet
   <4>3. QED
    BY <4>1, <4>2, ShortSequences
  <3>2. HalfSent(p, call[h])'
   BY <1>1, <3>1 DEF Quiet, HalfSent
  <3>3. QED
   BY <1>1, <2>1, <2>2, <3>2 DEF HostOK, Conversation, HostInv, TypeOK
 <2>3. CASE pc[h] = "send_body"
  <3>1. HalfSent(p, call[h]) /\ down'[p] = Append(down[p], RequestPiece("body", call[h]))
   BY <1>1, <2>3 DEF HostInv, TypeOK, Conversation
  <3>2. \/ /\ down[p] = <<>>
           /\ down'[p] = <<RequestPiece("body", call[h])>>
        \/ /\ down[p] = <<RequestPiece("header", call[h])>>
           /\ down'[p] = <<RequestPiece("header", call[h]), RequestPiece("body", call[h])>>
   BY <3>1, ShortSequences DEF HalfSent
  <3>3. Sent(p, call[h])'
   BY <1>1, <3>1, <3>2, ShortSequences DEF HalfSent, Sent, RequestSeqs
  <3>4. QED
   BY <1>1, <2>1, <2>3, <3>3 DEF HostOK, Conversation, HostInv, TypeOK
 <2>4. QED
  BY <1>1, <2>2, <2>3
<1>5. ASSUME NEW g \in Hosts, g # h PROVE HostOK(g)'
 <2>1. worker[g] # p /\ UNCHANGED <<pc[g], call[g], answer[g], worker[g]>>
  BY <1>1, <1>5, HostAssumption DEF HostInv, TypeOK, EveryWorkerOwned
 <2>2. QED
  BY <1>1, <2>1, OtherHost DEF HostInv, TypeOK, HostOK
<1>6. QED
 BY <1>2, <1>3, <1>4, <1>5 DEF HostInv, HostOK

LEMMA ReceiveHeaderStep ==
  ASSUME HostInv, NEW h \in Hosts, ReceiveHeader(h)
  PROVE  HostInv'
<1> DEFINE p == worker[h]
<1>1. /\ p \in Pids
      /\ proc[p] # "none"
      /\ pc[h] = "receive_header"
      /\ call[h] \in Requests
      /\ up[p] # <<>>
      /\ up' = [up EXCEPT ![p] = Tail(@)]
      /\ UNCHANGED <<call, worker, holding, down>>
 <2>1. pc[h] \in Waiting
  BY DEF ReceiveHeader, Waiting
 <2>2. QED
  BY <2>1, WaitingHost DEF ReceiveHeader, Goto, procVars, endVars
<1>2. up' \in [Pids -> Seq(ResponsePieces)]
 BY <1>1, HeadTailProperties DEF HostInv, TypeOK
<1>3. CASE /\ pc' = [pc EXCEPT ![h] = "receive_body"]
           /\ UNCHANGED <<answer, proc, hostEnd, workerEnd>>
 <2>1. TypeOK'
  BY <1>1, <1>2, <1>3 DEF HostInv, TypeOK, Busy, Waiting
 <2>2. EveryWorkerOwned' /\ AnswerMatchesCall'
  BY <1>1, <1>3 DEF HostInv, EveryWorkerOwned, AnswerMatchesCall
 <2>3. HostOK(h)'
  <3>1. Sent(p, call[h])
   BY <1>1 DEF HostInv, Conversation
  <3>2. HalfReceived(p, call[h])'
   <4>1. \/ IsHeader(up[p], call[h]) /\ up'[p] = <<>>
         \/ IsHeaderAndBody(up[p], call[h]) /\ IsBody(up'[p], call[h])
    <5>1. IsHeader(up[p], call[h]) \/ IsHeaderAndBody(up[p], call[h])
     BY <1>1, <3>1 DEF Sent
    <5>2. up'[p] = Tail(up[p])
     BY <1>1 DEF HostInv, TypeOK
    <5>3. CASE IsHeader(up[p], call[h])
     BY <5>2, <5>3, ShortSequences DEF IsHeader
    <5>4. CASE IsHeaderAndBody(up[p], call[h])
     <6>1. PICK hk \in HeaderKinds, bk \in BodyKinds :
               up[p] = <<ResponsePiece("header", hk, call[h]),
                         ResponsePiece("body", bk, call[h])>>
      BY <5>4 DEF IsHeaderAndBody
     <6>2. up'[p] = <<ResponsePiece("body", bk, call[h])>>
      BY <5>2, <6>1, ShortSequences
     <6>3. QED
      BY <5>4, <6>2 DEF IsBody
    <5>5. QED
     BY <5>1, <5>3, <5>4
   <4>2. down'[p] = <<>> /\ UNCHANGED <<proc[p], holding[p], call[h], worker[h]>>
    BY <1>1, <1>3, <3>1 DEF Sent
   <4>3. QED
    <5>1. \/ proc[p] = "write_body" /\ IsHeader(up[p], call[h]) /\ holding[p] = call[h]
          \/ proc[p] = "read_header" /\ IsHeaderAndBody(up[p], call[h])
          \/ proc[p] = "exited"
     BY <1>1, <3>1 DEF Sent
    <5>2. ~(IsHeader(up[p], call[h]) /\ IsHeaderAndBody(up[p], call[h]))
     BY DEF IsHeader, IsHeaderAndBody
    <5>3. QED
     BY <4>1, <4>2, <5>1, <5>2 DEF HalfReceived, IsBody
  <3>3. WorkerOfHost(h)' /\ CallUnderWay(h)'
   BY <1>1, <1>3 DEF HostInv, TypeOK, WorkerOfHost, CallUnderWay, Busy, Waiting
  <3>4. QED
   BY <1>1, <1>3, <3>2, <3>3 DEF HostInv, TypeOK, HostOK, Conversation
 <2>4. ASSUME NEW g \in Hosts, g # h PROVE HostOK(g)'
  <3>1. worker[g] # p /\ UNCHANGED <<pc[g], call[g], answer[g], worker[g]>>
   BY <1>1, <1>3, <2>4, HostAssumption DEF HostInv, TypeOK, EveryWorkerOwned
  <3>2. QED
   BY <1>1, <1>3, <3>1, OtherHost DEF HostInv, TypeOK, HostOK
 <2>5. QED
  BY <2>1, <2>2, <2>3, <2>4 DEF HostInv, HostOK
<1>4. CASE \E code \in {"resource_limit", "geometry_backend_crash"} : StopForced(h, code)
 <2>1. PICK code \in {"resource_limit", "geometry_backend_crash"} : StopForced(h, code)
  BY <1>4
 <2>2. TypeOK'
  BY <1>1, <1>2, <2>1 DEF HostInv, TypeOK, StopForced, Goto, ReleasedBy, Busy, Waiting,
         Running, Service!Answer, FailureCodes, Service!NoRequest
 <2>3. EveryWorkerOwned'
  BY <1>1, <2>1 DEF HostInv, TypeOK, EveryWorkerOwned, StopForced
 <2>4. AnswerMatchesCall'
  BY <1>1, <2>1 DEF HostInv, TypeOK, AnswerMatchesCall, StopForced, Service!Answer,
         Service!EvaluatedCodes
 <2>5. HostOK(h)'
  <3>1. answer'[h] = Service!Answer(code, call'[h]) /\ code \in FailureCodes
   BY <1>1, <2>1 DEF HostInv, TypeOK, StopForced, FailureCodes
  <3>2. QED
   BY <1>1, <2>1, <3>1 DEF HostInv, TypeOK, HostOK, WorkerOfHost, Conversation,
          CallUnderWay, StopForced, Goto, Busy, Waiting
 <2>6. ASSUME NEW g \in Hosts, g # h PROVE HostOK(g)'
  <3>1. worker[g] # p /\ UNCHANGED <<pc[g], call[g], answer[g], worker[g]>>
   BY <1>1, <2>1, <2>6, HostAssumption DEF HostInv, TypeOK, EveryWorkerOwned, StopForced,
          Goto
  <3>2. worker[g] # NoPid =>
            /\ UNCHANGED <<proc[worker[g]], holding[worker[g]],
                           down[worker[g]], up[worker[g]]>>
            /\ Parent \in hostEnd[worker[g]] => Parent \in hostEnd[worker[g]]'
   BY <1>1, <2>1, <3>1, HostAssumption DEF HostInv, TypeOK, StopForced, ReleasedBy
  <3>3. QED
   BY <3>1, <3>2, OtherHost DEF HostInv, HostOK
 <2>7. QED
  BY <2>2, <2>3, <2>4, <2>5, <2>6 DEF HostInv, HostOK
<1>5. QED
 BY <1>3, <1>4 DEF ReceiveHeader, Goto, endVars

LEMMA ReceiveBodyStep ==
  ASSUME HostInv, NEW h \in Hosts, ReceiveBody(h)
  PROVE  HostInv'
<1> DEFINE p == worker[h]
           piece == Head(up[p])
<1>1. /\ p \in Pids
      /\ proc[p] # "none"
      /\ pc[h] = "receive_body"
      /\ call[h] \in Requests
      /\ up[p] # <<>>
      /\ up' = [up EXCEPT ![p] = Tail(@)]
      /\ pc' = [pc EXCEPT ![h] = "idle"]
      /\ UNCHANGED <<call, worker, proc, holding, hostEnd, workerEnd, down>>
 <2>1. pc[h] \in Waiting
  BY DEF ReceiveBody, Waiting
 <2>2. QED
  BY <2>1, WaitingHost DEF ReceiveBody, Goto, procVars, endVars
<1>2. up' \in [Pids -> Seq(ResponsePieces)]
 BY <1>1, HeadTailProperties DEF HostInv, TypeOK
<1>3. /\ HalfReceived(p, call[h])
      /\ IsBody(up[p], call[h])
 BY <1>1 DEF HostInv, Conversation, HalfReceived
<1>4. /\ piece.of = call[h]
      /\ up'[p] = <<>>
 BY <1>1, <1>3, ShortSequences DEF IsBody, ResponsePiece, HostInv, TypeOK
<1>5. \E code \in {"mesh", "evaluator_error", "geometry_backend_crash"} :
          answer' = [answer EXCEPT ![h] = Service!Answer(code, call[h])]
 <2>1. CASE piece.kind = "mesh"
  BY <1>4, <2>1 DEF ReceiveBody
 <2>2. CASE piece.kind = "error"
  BY <1>4, <2>2 DEF ReceiveBody
 <2>3. CASE piece.kind \notin {"mesh", "error"}
  BY <1>4, <2>3 DEF ReceiveBody
 <2>4. QED
  BY <2>1, <2>2, <2>3
<1>6. TypeOK'
 <2>1. PICK code \in {"mesh", "evaluator_error", "geometry_backend_crash"} :
           answer' = [answer EXCEPT ![h] = Service!Answer(code, call[h])]
  BY <1>5
 <2>2. Service!Answer(code, call[h]) \in
           [code : {"none"} \cup Service!EvaluatedCodes \cup FailureCodes,
            of : Requests \cup {Service!NoRequest}]
  BY <1>1 DEF Service!Answer, Service!EvaluatedCodes, FailureCodes
 <2>3. QED
  BY <1>1, <1>2, <2>1, <2>2 DEF HostInv, TypeOK
<1>7. EveryWorkerOwned' /\ AnswerMatchesCall'
 BY <1>1, <1>5 DEF HostInv, TypeOK, EveryWorkerOwned, AnswerMatchesCall, Service!Answer
<1>8. HostOK(h)'
 <2>1. Quiet(p)'
  BY <1>1, <1>3, <1>4, ShortSequences DEF HalfReceived, IsBody, Quiet
 <2>2. QED
  BY <1>1, <2>1 DEF HostInv, TypeOK, HostOK, WorkerOfHost, Conversation, CallUnderWay,
         Busy, Waiting
<1>9. ASSUME NEW g \in Hosts, g # h PROVE HostOK(g)'
 <2>1. worker[g] # p /\ UNCHANGED <<pc[g], call[g], answer[g], worker[g]>>
  BY <1>1, <1>5, <1>9, HostAssumption DEF HostInv, TypeOK, EveryWorkerOwned
 <2>2. QED
  BY <1>1, <2>1, OtherHost DEF HostInv, TypeOK, HostOK
<1>10. QED
 BY <1>6, <1>7, <1>8, <1>9 DEF HostInv, HostOK

\* What is known of the host a running worker belongs to.
LEMMA OwnerOf ==
  ASSUME HostInv, NEW p \in Pids, proc[p] \in Running
  PROVE  \E h \in Hosts :
             /\ worker[h] = p
             /\ pc[h] \notin {"socketpair", "fork", "reap", "destroyed"}
             /\ \A g \in Hosts : g # h => worker[g] # p
             /\ WorkerOfHost(h) /\ Conversation(h) /\ CallUnderWay(h)
<1>1. PICK h \in Hosts : worker[h] = p
 BY DEF HostInv, EveryWorkerOwned, Running
<1>2. pc[h] \notin {"socketpair", "fork", "reap", "destroyed"}
 BY <1>1, HostAssumption DEF HostInv, WorkerOfHost, Running
<1>3. QED
 BY <1>1, <1>2, HostAssumption DEF HostInv, EveryWorkerOwned

LEMMA WorkerReadStep ==
  ASSUME HostInv, NEW p \in Pids, WorkerRead(p)
  PROVE  HostInv'
<1>1. /\ proc[p] \in {"read_header", "read_body"}
      /\ down[p] # <<>>
      /\ down' = [down EXCEPT ![p] = Tail(@)]
      /\ UNCHANGED <<pc, call, answer, worker, hostEnd, workerEnd, up>>
 BY DEF WorkerRead, hostVars, endVars
<1>2. \/ /\ proc[p] = "read_header"
         /\ proc' = [proc EXCEPT ![p] = "read_body"]
         /\ holding' = holding
      \/ /\ proc[p] = "read_body"
         /\ proc' = [proc EXCEPT ![p] = "evaluate"]
         /\ holding' = [holding EXCEPT ![p] = Head(down[p]).of]
 BY DEF WorkerRead
<1>3. PICK h \in Hosts :
          /\ worker[h] = p
          /\ pc[h] \notin {"socketpair", "fork", "reap", "destroyed"}
          /\ \A g \in Hosts : g # h => worker[g] # p
          /\ WorkerOfHost(h) /\ Conversation(h) /\ CallUnderWay(h)
 BY <1>1, OwnerOf DEF Running
<1>4. down'[p] = Tail(down[p])
 BY <1>1 DEF HostInv, TypeOK
<1>5. TypeOK'
 <2>1. down[p] \in Seq(RequestPieces) /\ Tail(down[p]) \in Seq(RequestPieces)
           /\ Head(down[p]) \in RequestPieces
  BY <1>1, HeadTailProperties DEF HostInv, TypeOK
 <2>2. down' \in [Pids -> Seq(RequestPieces)]
  BY <1>1, <2>1 DEF HostInv, TypeOK
 <2>3. holding' \in [Pids -> Requests \cup {Service!NoRequest}]
  BY <1>2, <2>1 DEF HostInv, TypeOK, RequestPieces
 <2>4. QED
  BY <1>1, <1>2, <2>2, <2>3 DEF HostInv, TypeOK, Running
<1>6. EveryWorkerOwned' /\ AnswerMatchesCall'
 BY <1>1, <1>2, <1>3 DEF HostInv, TypeOK, EveryWorkerOwned, AnswerMatchesCall
<1>7. HostOK(h)'
 <2>1. WorkerOfHost(h)' /\ CallUnderWay(h)'
  BY <1>1, <1>2, <1>3 DEF HostInv, TypeOK, WorkerOfHost, CallUnderWay, Busy, Waiting
 <2>2. pc[h] \in {"send_body", "receive_header"}
  <3>1. ~Quiet(p)
   BY <1>1 DEF Quiet
  <3>2. pc[h] # "receive_body"
   BY <1>1, <1>3 DEF Conversation, HalfReceived
  <3>3. pc[h] \notin {"idle", "waitpid", "forked", "send_header"}
   BY <1>3, <3>1, HostAssumption DEF Conversation
  <3>4. QED
   BY <1>3, <3>2, <3>3 DEF HostInv, TypeOK, Busy, Waiting
 <2>3. CASE pc[h] = "send_body"
  <3>1. /\ HalfSent(p, call[h])
        /\ proc[p] = "read_header"
        /\ down'[p] = <<>>
   BY <1>1, <1>3, <1>4, <2>3, ShortSequences DEF Conversation, HalfSent
  <3>2. HalfSent(p, call[h])'
   BY <1>1, <1>2, <3>1 DEF HalfSent, HostInv, TypeOK
  <3>3. QED
   BY <1>1, <1>3, <2>1, <2>3, <3>2 DEF HostOK, Conversation
 <2>4. CASE pc[h] = "receive_header"
  <3>1. /\ up[p] = <<>>
        /\ \/ /\ proc[p] = "read_header"
              /\ down[p] = <<RequestPiece("header", call[h]),
                             RequestPiece("body", call[h])>>
           \/ /\ proc[p] = "read_body"
              /\ down[p] = <<RequestPiece("body", call[h])>>
   BY <1>1, <1>3, <2>4 DEF Conversation, Sent
  <3>2. CASE proc[p] = "read_header"
   <4>1. down'[p] = <<RequestPiece("body", call[h])>>
    <5>1. down[p] = <<RequestPiece("header", call[h]), RequestPiece("body", call[h])>>
     BY <3>1, <3>2
    <5>2. QED
     BY <1>4, <5>1, ShortSequences
   <4>2. proc'[p] = "read_body"
    BY <1>2, <3>2 DEF HostInv, TypeOK
   <4>3. QED
    BY <1>1, <1>3, <2>1, <2>4, <3>1, <4>1, <4>2 DEF HostOK, Conversation, Sent
  <3>3. CASE proc[p] = "read_body"
   <4>1. down'[p] = <<>> /\ Head(down[p]) = RequestPiece("body", call[h])
    BY <1>4, <3>1, <3>3, ShortSequences
   <4>2. proc'[p] = "evaluate" /\ holding'[p] = call[h]
    BY <1>2, <3>3, <4>1 DEF HostInv, TypeOK, RequestPiece
   <4>3. QED
    BY <1>1, <1>3, <2>1, <2>4, <3>1, <4>1, <4>2 DEF HostOK, Conversation, Sent
  <3>4. QED
   BY <1>1, <3>2, <3>3
 <2>5. QED
  BY <2>2, <2>3, <2>4
<1>8. \A g \in Hosts : worker[g] # p => HostOK(g)'
 BY <1>1, <1>2, OtherHosts DEF HostInv, TypeOK, hostVars
<1>9. QED
 BY <1>3, <1>5, <1>6, <1>7, <1>8 DEF HostInv, HostOK

LEMMA WorkerEvaluatesStep ==
  ASSUME HostInv, NEW p \in Pids, WorkerEvaluates(p)
  PROVE  HostInv'
<1>1. /\ proc[p] = "evaluate"
      /\ proc' = [proc EXCEPT ![p] = "write_header"]
      /\ UNCHANGED <<pc, call, answer, worker, holding, hostEnd, workerEnd, down, up>>
 BY DEF WorkerEvaluates, hostVars, endVars, wireVars
<1>2. PICK h \in Hosts :
          /\ worker[h] = p
          /\ pc[h] \notin {"socketpair", "fork", "reap", "destroyed"}
          /\ \A g \in Hosts : g # h => worker[g] # p
          /\ WorkerOfHost(h) /\ Conversation(h) /\ CallUnderWay(h)
 BY <1>1, OwnerOf DEF Running
<1>3. TypeOK'
 BY <1>1 DEF HostInv, TypeOK, Running
<1>4. EveryWorkerOwned' /\ AnswerMatchesCall'
 BY <1>1, <1>2 DEF HostInv, TypeOK, EveryWorkerOwned, AnswerMatchesCall
<1>5. HostOK(h)'
 <2>1. WorkerOfHost(h)' /\ CallUnderWay(h)'
  BY <1>1, <1>2 DEF HostInv, TypeOK, WorkerOfHost, CallUnderWay, Busy, Waiting
 <2>2. pc[h] = "receive_header"
  BY <1>1, <1>2, HostAssumption
  DEF HostInv, TypeOK, Conversation, Quiet, HalfSent, HalfReceived, Busy, Waiting
 <2>3. Sent(p, call[h])'
  BY <1>1, <1>2, <2>2 DEF Conversation, Sent, HostInv, TypeOK
 <2>4. QED
  BY <1>1, <1>2, <2>1, <2>2, <2>3 DEF HostOK, Conversation
<1>6. \A g \in Hosts : worker[g] # p => HostOK(g)'
 BY <1>1, OtherHosts DEF HostInv, TypeOK, hostVars
<1>7. QED
 BY <1>2, <1>3, <1>4, <1>5, <1>6 DEF HostInv, HostOK

LEMMA WorkerWriteStep ==
  ASSUME HostInv, NEW p \in Pids, WorkerWrite(p)
  PROVE  HostInv'
<1>1. /\ proc[p] \in {"write_header", "write_body"}
      /\ UNCHANGED <<pc, call, answer, worker, holding, hostEnd, workerEnd, down>>
 BY DEF WorkerWrite, hostVars, endVars
<1>2. PICK h \in Hosts :
          /\ worker[h] = p
          /\ pc[h] \notin {"socketpair", "fork", "reap", "destroyed"}
          /\ \A g \in Hosts : g # h => worker[g] # p
          /\ WorkerOfHost(h) /\ Conversation(h) /\ CallUnderWay(h)
 BY <1>1, OwnerOf DEF Running
<1>3. /\ \/ /\ pc[h] = "receive_header"
            /\ Sent(p, call[h])
         \/ /\ pc[h] = "receive_body"
            /\ HalfReceived(p, call[h])
            /\ proc[p] = "write_body"
      /\ holding[p] = call[h]
      /\ call[h] \in Requests
 <2>1. pc[h] \in {"receive_header", "receive_body"}
  BY <1>1, <1>2, HostAssumption
  DEF HostInv, TypeOK, Conversation, Quiet, HalfSent, Busy, Waiting
 <2>2. QED
  BY <1>1, <1>2, <2>1 DEF Conversation, Sent, HalfReceived, CallUnderWay, Busy, Waiting
<1>4. CASE proc[p] = "write_header"
 <2>1. PICK kind \in HeaderKinds :
           /\ proc' = [proc EXCEPT ![p] = "write_body"]
           /\ up' = [up EXCEPT ![p] = Append(@, ResponsePiece("header", kind, holding[p]))]
  BY <1>4 DEF WorkerWrite
 <2>2. up[p] = <<>> /\ down[p] = <<>> /\ pc[h] = "receive_header"
  BY <1>3, <1>4 DEF Sent
 <2>3. IsHeader(up'[p], call[h]) /\ up'[p] \in Seq(ResponsePieces)
  <3>1. up'[p] = <<ResponsePiece("header", kind, call[h])>>
   BY <1>3, <2>1, <2>2, ShortSequences DEF HostInv, TypeOK
  <3>2. ResponsePiece("header", kind, call[h]) \in ResponsePieces
   BY <1>3, PieceTypes
  <3>3. QED
   BY <3>1, <3>2 DEF IsHeader
 <2>4. TypeOK'
  <3>1. up' \in [Pids -> Seq(ResponsePieces)]
   BY <2>1, <2>3 DEF HostInv, TypeOK
  <3>2. QED
   BY <1>1, <2>1, <3>1 DEF HostInv, TypeOK, Running
 <2>5. EveryWorkerOwned' /\ AnswerMatchesCall'
  BY <1>1, <1>2, <2>1 DEF HostInv, TypeOK, EveryWorkerOwned, AnswerMatchesCall
 <2>6. HostOK(h)'
  <3>1. WorkerOfHost(h)' /\ CallUnderWay(h)'
   BY <1>1, <1>2, <2>1 DEF HostInv, TypeOK, WorkerOfHost, CallUnderWay, Busy, Waiting
  <3>2. Sent(p, call[h])'
   BY <1>1, <1>3, <2>1, <2>2, <2>3 DEF Sent, HostInv, TypeOK, IsHeader
  <3>3. QED
   BY <1>1, <1>2, <2>2, <3>1, <3>2 DEF HostOK, Conversation
 <2>7. \A g \in Hosts : worker[g] # p => HostOK(g)'
  BY <1>1, <2>1, OtherHosts DEF HostInv, TypeOK, hostVars
 <2>8. QED
  BY <1>2, <2>4, <2>5, <2>6, <2>7 DEF HostInv, HostOK
<1>5. CASE proc[p] = "write_body"
 <2>1. PICK kind \in BodyKinds :
           /\ proc' = [proc EXCEPT ![p] = "read_header"]
           /\ up' = [up EXCEPT ![p] = Append(@, ResponsePiece("body", kind, holding[p]))]
  BY <1>5 DEF WorkerWrite
 <2>2. ResponsePiece("body", kind, call[h]) \in ResponsePieces
  BY <1>3, PieceTypes
 <2>3. up'[p] = Append(up[p], ResponsePiece("body", kind, call[h]))
  BY <1>3, <2>1 DEF HostInv, TypeOK
 <2>4. TypeOK'
  <3>1. up' \in [Pids -> Seq(ResponsePieces)]
   BY <1>3, <2>1, <2>2, AppendProperties DEF HostInv, TypeOK
  <3>2. QED
   BY <1>1, <2>1, <3>1 DEF HostInv, TypeOK, Running
 <2>5. EveryWorkerOwned' /\ AnswerMatchesCall'
  BY <1>1, <1>2, <2>1 DEF HostInv, TypeOK, EveryWorkerOwned, AnswerMatchesCall
 <2>6. HostOK(h)'
  <3>1. WorkerOfHost(h)' /\ CallUnderWay(h)'
   BY <1>1, <1>2, <2>1 DEF HostInv, TypeOK, WorkerOfHost, CallUnderWay, Busy, Waiting
  <3>2. CASE pc[h] = "receive_header"
   <4>1. IsHeader(up[p], call[h]) /\ down[p] = <<>>
    BY <1>3, <1>5, <3>2 DEF Sent
   <4>2. PICK hk \in HeaderKinds : up[p] = <<ResponsePiece("header", hk, call[h])>>
    BY <4>1 DEF IsHeader
   <4>3. up'[p] = <<ResponsePiece("header", hk, call[h]),
                    ResponsePiece("body", kind, call[h])>>
    BY <2>3, <4>2, ShortSequences
   <4>4. IsHeaderAndBody(up'[p], call[h])
    BY <4>3 DEF IsHeaderAndBody
   <4>5. Sent(p, call[h])'
    BY <1>1, <2>1, <4>1, <4>4 DEF Sent, HostInv, TypeOK, IsHeaderAndBody
   <4>6. QED
    BY <1>1, <1>2, <3>1, <3>2, <4>5 DEF HostOK, Conversation
  <3>3. CASE pc[h] = "receive_body"
   <4>1. up[p] = <<>> /\ down[p] = <<>>
    BY <1>3, <1>5, <3>3 DEF HalfReceived
   <4>2. IsBody(up'[p], call[h])
    BY <2>3, <4>1, ShortSequences DEF IsBody
   <4>3. HalfReceived(p, call[h])'
    BY <1>1, <2>1, <4>1, <4>2 DEF HalfReceived, HostInv, TypeOK, IsBody
   <4>4. QED
    BY <1>1, <1>2, <3>1, <3>3, <4>3 DEF HostOK, Conversation
  <3>4. QED
   BY <1>3, <3>2, <3>3
 <2>7. \A g \in Hosts : worker[g] # p => HostOK(g)'
  BY <1>1, <2>1, OtherHosts DEF HostInv, TypeOK, hostVars
 <2>8. QED
  BY <1>2, <2>4, <2>5, <2>6, <2>7 DEF HostInv, HostOK
<1>6. QED
 BY <1>1, <1>4, <1>5

LEMMA ExitStep ==
  ASSUME HostInv, NEW p \in Pids, proc[p] \in Running, Exit(p)
  PROVE  HostInv'
<1>1. /\ proc' = [proc EXCEPT ![p] = "exited"]
      /\ UNCHANGED <<pc, call, answer, worker, holding, down, up>>
      /\ \A q \in Pids : Parent \in hostEnd[q] => Parent \in hostEnd[q]'
 BY HostAssumption DEF Exit, ReleasedBy, hostVars, wireVars
<1>2. PICK h \in Hosts :
          /\ worker[h] = p
          /\ pc[h] \notin {"socketpair", "fork", "reap", "destroyed"}
          /\ \A g \in Hosts : g # h => worker[g] # p
          /\ WorkerOfHost(h) /\ Conversation(h) /\ CallUnderWay(h)
 BY OwnerOf
<1>3. TypeOK'
 BY <1>1 DEF HostInv, TypeOK, Exit, ReleasedBy
<1>4. EveryWorkerOwned' /\ AnswerMatchesCall'
 BY <1>1, <1>2 DEF HostInv, TypeOK, EveryWorkerOwned, AnswerMatchesCall
<1>5. HostOK(h)'
 <2>1. WorkerOfHost(h)' /\ CallUnderWay(h)'
  BY <1>1, <1>2 DEF HostInv, TypeOK, WorkerOfHost, CallUnderWay, Busy, Waiting
 <2>2. proc'[p] = "exited"
  BY <1>1 DEF HostInv, TypeOK
 <2>3. CASE pc[h] \in {"idle", "waitpid", "forked", "send_header"}
  <3>1. Quiet(p)'
   BY <1>1, <1>2, <2>2, <2>3, HostAssumption DEF Conversation, Quiet
  <3>2. QED
   BY <1>1, <1>2, <2>1, <2>3, <3>1 DEF HostOK, Conversation
 <2>4. CASE pc[h] = "send_body"
  <3>1. HalfSent(p, call[h])'
   BY <1>1, <1>2, <2>2, <2>4 DEF Conversation, HalfSent, Running
  <3>2. QED
   BY <1>1, <1>2, <2>1, <2>4, <3>1 DEF HostOK, Conversation
 <2>5. CASE pc[h] = "receive_header"
  <3>1. Sent(p, call[h])'
   BY <1>1, <1>2, <2>2, <2>5
   DEF Conversation, Sent, Running, RequestSeqs, IsHeader, IsHeaderAndBody
  <3>2. QED
   BY <1>1, <1>2, <2>1, <2>5, <3>1 DEF HostOK, Conversation
 <2>6. CASE pc[h] = "receive_body"
  <3>1. HalfReceived(p, call[h])'
   BY <1>1, <1>2, <2>2, <2>6 DEF Conversation, HalfReceived, Running, IsBody
  <3>2. QED
   BY <1>1, <1>2, <2>1, <2>6, <3>1 DEF HostOK, Conversation
 <2>7. QED
  BY <1>2, <2>3, <2>4, <2>5, <2>6 DEF HostInv, TypeOK, Busy, Waiting
<1>6. \A g \in Hosts : worker[g] # p => HostOK(g)'
 BY <1>1, OtherHosts DEF HostInv, TypeOK, hostVars
<1>7. QED
 BY <1>2, <1>3, <1>4, <1>5, <1>6 DEF HostInv, HostOK
-----------------------------------------------------------------------------
LEMMA NextHostInv == HostInv /\ [Next]_vars => HostInv'
<1> SUFFICES ASSUME HostInv, [Next]_vars PROVE HostInv'
 OBVIOUS
<1>1. ASSUME NEW h \in Hosts, HostStep(h) PROVE HostInv'
 BY <1>1, OpenChannelStep, OpenFailsStep, ForkStep, ForkFailsStep, CloseWorkerEndStep,
    EncodeFailsStep, SendPieceStep, ReceiveHeaderStep, ReceiveBodyStep, DeadlineStep,
    HangupSeenStep, ReapStep, DestroyedStep DEF HostStep
<1>2. ASSUME NEW h \in Hosts, OwnerStep(h) PROVE HostInv'
 BY <1>2, EvaluateStep, DestroyStep, ConstructStep DEF OwnerStep
<1>3. ASSUME NEW p \in Pids, WorkerStep(p) \/ WorkerEvaluates(p) \/ WorkerDies(p)
      PROVE  HostInv'
 <2>1. CASE WorkerLeaves(p)
  BY <2>1, ExitStep DEF WorkerLeaves, Running
 <2>2. CASE WorkerDies(p)
  BY <2>2, ExitStep DEF WorkerDies
 <2>3. QED
  BY <1>3, <2>1, <2>2, WorkerReadStep, WorkerWriteStep, WorkerEvaluatesStep DEF WorkerStep
<1>4. CASE UNCHANGED vars
 <2>1. TypeOK'
  BY <1>4 DEF vars, HostInv, TypeOK
 <2>2. EveryWorkerOwned' /\ AnswerMatchesCall'
  BY <1>4 DEF vars, HostInv, EveryWorkerOwned, AnswerMatchesCall
 <2>3. ASSUME NEW g \in Hosts PROVE HostOK(g)'
  BY <1>4, OtherHost DEF vars, HostInv, HostOK
 <2>4. QED
  BY <2>1, <2>2, <2>3 DEF HostInv, HostOK
<1>5. QED
 BY <1>1, <1>2, <1>3, <1>4 DEF Next

\* The inductive invariant holds of every reachable state, whatever the number of hosts,
\* worker processes and requests and however much the kernel buffers.
THEOREM HostInvariant == Spec => []HostInv
 BY InitHostInv, NextHostInv, PTL DEF Spec

\* The three safety properties of the host: an answer is the answer to its own call, a
\* worker kept between calls has nothing in flight, every worker process has one owner.
THEOREM HostSafety == Spec => [](AnswerMatchesCall /\ QuietBetweenCalls /\ EveryWorkerOwned)
<1>1. HostInv => AnswerMatchesCall /\ QuietBetweenCalls /\ EveryWorkerOwned
 BY DEF HostInv, Conversation, Quiet, QuietBetweenCalls
<1>2. QED
 BY <1>1, HostInvariant, PTL

-----------------------------------------------------------------------------
(***************************************************************************)
(* Who can hide a dead worker from its host.                               *)
(***************************************************************************)

Starting == {"fork", "forked"}

\* Processes that hold a worker's end run, and the SDK's own process holds it only
\* while it starts that worker.
HoldersOf(p) ==
  /\ \A q \in Pids : q \in workerEnd[p] => proc[q] \in Running
  /\ Parent \in workerEnd[p] => \E h \in Hosts : pc[h] \in Starting /\ worker[h] = p

EndsInv == \A p \in Pids : HoldersOf(p)

\* A step that hands no end on, and closes those of a process that stops running.
LEMMA EndsKept ==
  ASSUME EndsInv,
         \A h \in Hosts : pc[h] \in Starting => UNCHANGED <<pc[h], worker[h]>>,
         \A p \in Pids : workerEnd'[p] \subseteq workerEnd[p],
         \A p, q \in Pids : proc[q] \in Running /\ q \in workerEnd'[p] => proc'[q] \in Running
  PROVE  EndsInv'
 BY DEF EndsInv, HoldersOf

\* A process that is killed or leaves has its ends closed.
LEMMA EndsReleased ==
  ASSUME TypeOK, NEW q \in Pids,
         workerEnd' = ReleasedBy(workerEnd, q), proc' = [proc EXCEPT ![q] = "exited"]
  PROVE  /\ \A p \in Pids : workerEnd'[p] \subseteq workerEnd[p]
         /\ \A p, r \in Pids :
               proc[r] \in Running /\ r \in workerEnd'[p] => proc'[r] \in Running
 BY DEF TypeOK, ReleasedBy

LEMMA StopForcedEnds ==
  ASSUME HostInv, EndsInv, NEW h \in Hosts, NEW code, pc[h] \in Waiting,
         StopForced(h, code), UNCHANGED worker
  PROVE  EndsInv'
<1>1. worker[h] \in Pids
 BY DEF HostInv, TypeOK, WorkerOfHost, Busy, Waiting
<1>2. \A g \in Hosts : pc[g] \in Starting => UNCHANGED <<pc[g], worker[g]>>
 BY DEF StopForced, Goto, HostInv, TypeOK, Starting, Waiting
<1>3. /\ \A p \in Pids : workerEnd'[p] \subseteq workerEnd[p]
      /\ \A p, r \in Pids :
            proc[r] \in Running /\ r \in workerEnd'[p] => proc'[r] \in Running
 BY <1>1, EndsReleased DEF StopForced, HostInv
<1>4. QED
 BY <1>2, <1>3, EndsKept

\* Between socketpair and the close in the parent.
LEMMA StartingEnds ==
  ASSUME HostInv, EndsInv, NEW h \in Hosts,
         OpenChannel(h) \/ Fork(h) \/ ForkFails(h) \/ CloseWorkerEnd(h)
  PROVE  EndsInv'
<1> USE DEF Starting
<1>1. CASE OpenChannel(h)
 <2>1. PICK p \in Pids : /\ worker' = [worker EXCEPT ![h] = p]
                         /\ workerEnd' = [workerEnd EXCEPT ![p] = {Parent}]
  BY <1>1 DEF OpenChannel
 <2>2. /\ pc[h] = "socketpair" /\ pc' = [pc EXCEPT ![h] = "fork"] /\ proc' = proc
       /\ TypeOK
  BY <1>1 DEF OpenChannel, Goto, procVars, HostInv
 <2>3. HoldersOf(p)'
  BY <2>1, <2>2, HostAssumption DEF HoldersOf, TypeOK
 <2>4. ASSUME NEW q \in Pids, q # p PROVE HoldersOf(q)'
  BY <2>1, <2>2, <2>4 DEF EndsInv, HoldersOf, TypeOK
 <2>5. QED
  BY <2>3, <2>4 DEF EndsInv
<1>2. CASE Fork(h)
 <2>1. /\ pc[h] = "fork" /\ pc' = [pc EXCEPT ![h] = "forked"] /\ UNCHANGED worker
       /\ proc' = [proc EXCEPT ![worker[h]] = "read_header"]
       /\ workerEnd' = InheritedBy(workerEnd, worker[h])
       /\ TypeOK
  BY <1>2 DEF Fork, Goto, HostInv
 <2>2. worker[h] \in Pids
  BY <2>1 DEF HostInv, TypeOK, WorkerOfHost, Busy
 <2>3. ASSUME NEW p \in Pids PROVE HoldersOf(p)'
  <3>1. workerEnd'[p] = IF Parent \in workerEnd[p] THEN workerEnd[p] \cup {worker[h]}
                        ELSE workerEnd[p]
   BY <2>1 DEF InheritedBy
  <3>2. Parent # worker[h]
   BY <2>2, HostAssumption
  <3>3. \A q \in Pids : q \in workerEnd'[p] => proc'[q] \in Running
   BY <2>1, <2>2, <3>1 DEF EndsInv, HoldersOf, TypeOK, Running
  <3>4. Parent \in workerEnd'[p] => \E g \in Hosts : pc'[g] \in Starting /\ worker'[g] = p
   <4>1. SUFFICES ASSUME Parent \in workerEnd[p]
                  PROVE  \E g \in Hosts : pc'[g] \in Starting /\ worker'[g] = p
    BY <3>1, <3>2
   <4>2. PICK g \in Hosts : pc[g] \in Starting /\ worker[g] = p
    BY <4>1 DEF EndsInv, HoldersOf
   <4>3. pc'[g] \in Starting /\ worker'[g] = p
    BY <2>1, <4>2 DEF TypeOK
   <4>4. QED
    BY <4>3
  <3>5. QED
   BY <3>3, <3>4 DEF HoldersOf
 <2>4. QED
  BY <2>3 DEF EndsInv
<1>3. CASE ForkFails(h) \/ CloseWorkerEnd(h)
 <2>1. /\ pc[h] \in Starting /\ proc' = proc /\ TypeOK
       /\ workerEnd' = [workerEnd EXCEPT ![worker[h]] = @ \ {Parent}]
       /\ \A g \in Hosts : g # h => UNCHANGED <<pc[g], worker[g]>>
  BY <1>3 DEF ForkFails, CloseWorkerEnd, Return, Goto, procVars, HostInv, TypeOK
 <2>2. worker[h] \in Pids
  BY <2>1 DEF HostInv, TypeOK, WorkerOfHost, Busy
 <2>3. PICK p \in Pids : p = worker[h]
  BY <2>2
 <2>4. HoldersOf(p)'
  <3>1. workerEnd'[p] = workerEnd[p] \ {Parent}
   BY <2>1, <2>3 DEF TypeOK
  <3>2. QED
   BY <2>1, <3>1 DEF EndsInv, HoldersOf
 <2>5. ASSUME NEW q \in Pids, q # p PROVE HoldersOf(q)'
  <3>1. workerEnd'[q] = workerEnd[q]
   BY <2>1, <2>3, <2>5 DEF TypeOK
  <3>2. QED
   BY <2>1, <2>3, <2>5, <3>1 DEF EndsInv, HoldersOf
 <2>6. QED
  BY <2>4, <2>5 DEF EndsInv
<1>4. QED
 BY <1>1, <1>2, <1>3

\* Every other step of a host or its owner.
LEMMA OtherEnds ==
  ASSUME HostInv, EndsInv, NEW h \in Hosts,
         \/ OpenFails(h) \/ EncodeFails(h) \/ SendPiece(h) \/ ReceiveHeader(h)
         \/ ReceiveBody(h) \/ Deadline(h) \/ HangupSeen(h) \/ Reap(h) \/ Destroyed(h)
         \/ OwnerStep(h)
  PROVE  EndsInv'
<1>1. CASE Deadline(h) \/ HangupSeen(h)
 BY <1>1, StopForcedEnds DEF Deadline, HangupSeen
<1>2. CASE ReceiveHeader(h)
 <2>1. CASE StopForced(h, "resource_limit") \/ StopForced(h, "geometry_backend_crash")
  BY <1>2, <2>1, StopForcedEnds DEF ReceiveHeader, Waiting
 <2>2. CASE Goto(h, "receive_body") /\ UNCHANGED <<answer, proc, endVars>>
  <3>1. pc[h] = "receive_header" /\ UNCHANGED <<worker, proc, workerEnd>>
   BY <1>2, <2>2 DEF ReceiveHeader, endVars
  <3>2. \A g \in Hosts : pc[g] \in Starting => UNCHANGED <<pc[g], worker[g]>>
   BY <2>2, <3>1 DEF Goto, HostInv, TypeOK, Starting
  <3>3. QED
   BY <3>1, <3>2, EndsKept
 <2>3. QED
  BY <1>2, <2>1, <2>2 DEF ReceiveHeader
<1>3. CASE \/ OpenFails(h) \/ EncodeFails(h) \/ SendPiece(h) \/ ReceiveBody(h)
           \/ OwnerStep(h)
 <2>1. /\ UNCHANGED <<worker, proc, workerEnd>> /\ pc[h] \notin Starting
       /\ \A g \in Hosts : g # h => UNCHANGED pc[g]
  <3>1. CASE OwnerStep(h)
   BY <3>1 DEF OwnerStep, Evaluate, Destroy, Construct, Goto, procVars, endVars, HostInv,
          TypeOK, Starting
  <3>2. CASE OpenFails(h) \/ EncodeFails(h) \/ SendPiece(h) \/ ReceiveBody(h)
   BY <3>2 DEF OpenFails, EncodeFails, SendPiece, ReceiveBody, Return, Goto, procVars,
          endVars, HostInv, TypeOK, Starting
  <3>3. QED
   BY <1>3, <3>1, <3>2
 <2>2. QED
  BY <2>1, EndsKept
<1>4. CASE Reap(h) \/ Destroyed(h)
 <2>1. /\ proc[worker[h]] = "exited" /\ proc' = [proc EXCEPT ![worker[h]] = "none"]
       /\ worker' = [worker EXCEPT ![h] = NoPid] /\ UNCHANGED workerEnd
       /\ pc[h] \notin Starting /\ \A g \in Hosts : g # h => UNCHANGED pc[g]
  BY <1>4 DEF Reap, Destroyed, Collect, Goto, endVars, HostInv, TypeOK, Starting
 <2>2. \A g \in Hosts : pc[g] \in Starting => UNCHANGED <<pc[g], worker[g]>>
  BY <2>1 DEF HostInv, TypeOK
 <2>3. \A q \in Pids : proc[q] \in Running => proc'[q] \in Running
  BY <2>1 DEF HostInv, TypeOK, Running
 <2>4. QED
  BY <2>1, <2>2, <2>3, EndsKept
<1>5. QED
 BY <1>1, <1>2, <1>3, <1>4

\* The steps of a worker process.
LEMMA WorkerEnds ==
  ASSUME HostInv, EndsInv, NEW p \in Pids,
         WorkerStep(p) \/ WorkerEvaluates(p) \/ WorkerDies(p)
  PROVE  EndsInv'
<1>1. \A g \in Hosts : UNCHANGED <<pc[g], worker[g]>>
 BY DEF WorkerStep, WorkerRead, WorkerWrite, WorkerLeaves, WorkerEvaluates, WorkerDies, Exit,
        hostVars
<1>2. CASE WorkerLeaves(p) \/ WorkerDies(p)
 <2>1. workerEnd' = ReleasedBy(workerEnd, p) /\ proc' = [proc EXCEPT ![p] = "exited"]
  BY <1>2 DEF WorkerLeaves, WorkerDies, Exit
 <2>2. QED
  BY <1>1, <2>1, EndsReleased, EndsKept DEF HostInv
<1>3. CASE WorkerRead(p) \/ WorkerWrite(p) \/ WorkerEvaluates(p)
 <2>1. /\ UNCHANGED workerEnd
       /\ \E label \in Running : proc' = [proc EXCEPT ![p] = label]
  BY <1>3 DEF WorkerRead, WorkerWrite, WorkerEvaluates, endVars, Running
 <2>2. \A q \in Pids : proc[q] \in Running => proc'[q] \in Running
  BY <2>1 DEF HostInv, TypeOK
 <2>3. QED
  BY <1>1, <2>1, <2>2, EndsKept
<1>4. QED
 BY <1>2, <1>3 DEF WorkerStep

LEMMA NextEnds == HostInv /\ EndsInv /\ [Next]_vars => EndsInv'
<1> SUFFICES ASSUME HostInv, EndsInv, [Next]_vars PROVE EndsInv'
 OBVIOUS
<1>1. ASSUME NEW h \in Hosts, HostStep(h) \/ OwnerStep(h) PROVE EndsInv'
 BY <1>1, StartingEnds, OtherEnds DEF HostStep
<1>2. ASSUME NEW p \in Pids, WorkerStep(p) \/ WorkerEvaluates(p) \/ WorkerDies(p)
      PROVE  EndsInv'
 BY <1>2, WorkerEnds
<1>3. CASE UNCHANGED vars
 BY <1>3 DEF vars, EndsInv, HoldersOf
<1>4. QED
 BY <1>1, <1>2, <1>3 DEF Next

\* Whatever the schedule of forks, kills and crashes, only workers of other hosts that run
\* can keep a host from seeing that its worker is gone: neither the SDK's own process nor
\* a process that has left ever holds the end it waits on.
THEOREM OnlyRunningWorkersHide == Spec => []OnlyLeaksHideCrashes
<1>1. Init => EndsInv
 BY DEF Init, EndsInv, HoldersOf
<1>2. HostInv /\ EndsInv => OnlyLeaksHideCrashes
 <2>1. SUFFICES ASSUME HostInv, EndsInv, NEW h \in Hosts, pc[h] \in Waiting
                PROVE  workerEnd[worker[h]] \subseteq {p \in Pids : proc[p] \in Running}
  BY DEF OnlyLeaksHideCrashes
 <2>2. worker[h] \in Pids
  BY <2>1 DEF HostInv, TypeOK, WorkerOfHost, Busy, Waiting
 <2>3. Parent \notin workerEnd[worker[h]]
  <3>1. SUFFICES ASSUME Parent \in workerEnd[worker[h]] PROVE FALSE
   OBVIOUS
  <3>2. PICK g \in Hosts : pc[g] \in Starting /\ worker[g] = worker[h]
   BY <2>1, <2>2, <3>1 DEF EndsInv, HoldersOf
  <3>3. g = h
   BY <2>1, <2>2, <3>2, HostAssumption DEF HostInv, EveryWorkerOwned
  <3>4. QED
   BY <2>1, <3>2, <3>3 DEF Waiting, Starting
 <2>4. workerEnd[worker[h]] \subseteq Pids \cup {Parent}
  BY <2>1, <2>2 DEF HostInv, TypeOK
 <2>5. QED
  BY <2>1, <2>2, <2>3, <2>4 DEF EndsInv, HoldersOf
<1>3. QED
 BY <1>1, <1>2, NextEnds, HostInvariant, PTL DEF Spec

-----------------------------------------------------------------------------
(***************************************************************************)
(* Every step of the hosts is a step of the abstract service.              *)
(***************************************************************************)

\* What a step must leave of the other hosts.
OnlyHost(h) == \A g \in Hosts : g # h =>
    pc'[g] = pc[g] /\ call'[g] = call[g] /\ answer'[g] = answer[g]

\* A step inside a call shows the owner nothing.
LEMMA BusyStepStutters ==
  ASSUME TypeOK, TypeOK', NEW h \in Hosts, OnlyHost(h), UNCHANGED call,
         pc[h] \in Busy, pc'[h] \in Busy
  PROVE  UNCHANGED Service!serviceVars
<1>1. \A g \in Hosts : Phase(g)' = Phase(g) /\ Returned(g)' = Returned(g)
 <2>1. Phase(h)' = Phase(h) /\ Returned(h)' = Returned(h)
  BY DEF Phase, Returned, Busy, Waiting
 <2>2. ASSUME NEW g \in Hosts, g # h
       PROVE  Phase(g)' = Phase(g) /\ Returned(g)' = Returned(g)
  BY <2>2 DEF Phase, Returned, OnlyHost
 <2>3. QED
  BY <2>1, <2>2
<1>2. QED
 BY <1>1 DEF Service!serviceVars

\* A step out of a call with an answer for it is the service's reply.
LEMMA ReturnStepReplies ==
  ASSUME TypeOK, TypeOK', NEW h \in Hosts, OnlyHost(h), UNCHANGED call,
         pc[h] \in Busy, pc'[h] = "idle",
         \E code \in Service!EvaluatedCodes \cup FailureCodes :
             answer'[h] = Service!Answer(code, call[h])
  PROVE  Service!Reply(h)
<1>1. Phase(h) = "busy" /\ Phase(h)' = "ready" /\ Returned(h)' = answer'[h]
 BY DEF Phase, Returned, Busy, Waiting
<1>2. \A g \in Hosts : g # h => Phase(g)' = Phase(g) /\ Returned(g)' = Returned(g)
 BY DEF Phase, Returned, OnlyHost
<1>3. Service!AnswersTo(call[h]) =
          {Service!Answer(code, call[h]) : code \in Service!EvaluatedCodes \cup FailureCodes}
 BY DEF Service!AnswersTo
<1>4. QED
 BY <1>1, <1>2, <1>3 DEF Service!Reply

LEMMA InitRefines == Init => Service!Init
 BY DEF Init, Service!Init, Phase, Returned, Busy, Waiting, Service!NoAnswer, Service!Answer,
        Service!NoRequest

LEMMA OwnerStepRefines ==
  ASSUME HostInv, HostInv', NEW h \in Hosts, OwnerStep(h)
  PROVE  Service!Next
<1>1. ASSUME NEW r \in Requests, Evaluate(h, r) PROVE Service!Ask(h, r)
 <2>1. \A g \in Hosts : Returned(g)' = IF g = h THEN Service!NoAnswer ELSE Returned(g)
  BY <1>1, ZenonT(60) DEF HostInv, TypeOK, Evaluate, Goto, Returned, Busy, Waiting, Service!NoAnswer,
         Service!Answer, Service!NoRequest
 <2>2. \A g \in Hosts : Phase(g)' = IF g = h THEN "busy" ELSE Phase(g)
  BY <1>1 DEF HostInv, TypeOK, Evaluate, Goto, Phase, Busy, Waiting
 <2>3. Phase(h) = "ready"
  BY <1>1 DEF Evaluate, Phase, Busy, Waiting
 <2>4. QED
  BY <1>1, <2>1, <2>2, <2>3 DEF Service!Ask, Evaluate
<1>2. ASSUME Destroy(h) PROVE Service!Close(h)
 <2>1. \A g \in Hosts : Returned(g)' = Returned(g)
  BY <1>2, ZenonT(60) DEF HostInv, TypeOK, Destroy, Goto, Returned, Busy, Waiting
 <2>2. /\ Phase(h) = "ready"
       /\ Phase(h)' \in {"closing", "closed"}
       /\ \A g \in Hosts : g # h => Phase(g)' = Phase(g)
  BY <1>2 DEF HostInv, TypeOK, Destroy, Goto, Phase, Busy, Waiting
 <2>3. QED
  BY <1>2, <2>1, <2>2 DEF Service!Close, Destroy
<1>3. ASSUME Construct(h) PROVE Service!Reopen(h)
 <2>1. \A g \in Hosts : Returned(g)' = IF g = h THEN Service!NoAnswer ELSE Returned(g)
  BY <1>3 DEF HostInv, TypeOK, Construct, Goto, Returned, Busy, Waiting
 <2>2. /\ Phase(h) = "closed"
       /\ \A g \in Hosts : Phase(g)' = IF g = h THEN "ready" ELSE Phase(g)
  BY <1>3 DEF HostInv, TypeOK, Construct, Goto, Phase, Busy, Waiting
 <2>3. QED
  BY <1>3, <2>1, <2>2 DEF Service!Reopen, Construct
<1>4. QED
 BY <1>1, <1>2, <1>3 DEF OwnerStep, Service!Next

LEMMA HostStepRefines ==
  ASSUME HostInv, HostInv', NEW h \in Hosts, HostStep(h)
  PROVE  Service!Next \/ UNCHANGED Service!serviceVars
<1>1. CASE OpenChannel(h) \/ Fork(h) \/ CloseWorkerEnd(h) \/ SendPiece(h)
           \/ Deadline(h) \/ HangupSeen(h) \/ ReceiveHeader(h)
 <2>1. pc[h] \in Busy /\ pc'[h] \in Busy /\ OnlyHost(h) /\ UNCHANGED call
  BY <1>1 DEF HostInv, TypeOK, OpenChannel, Fork, CloseWorkerEnd, SendPiece, Deadline,
         HangupSeen, ReceiveHeader, StopForced, Goto, OnlyHost, Busy, Waiting
 <2>2. QED
  BY <2>1, BusyStepStutters DEF HostInv
<1>2. CASE OpenFails(h) \/ ForkFails(h) \/ EncodeFails(h)
 <2>1. PICK code \in {"io_error", "encode_error"} : Return(h, code)
  BY <1>2 DEF OpenFails, ForkFails, EncodeFails
 <2>2. pc[h] \in Busy /\ pc'[h] = "idle" /\ OnlyHost(h) /\ UNCHANGED call
  BY <1>2 DEF HostInv, TypeOK, OpenFails, ForkFails, EncodeFails, Return, Goto, OnlyHost,
         Busy, Waiting
 <2>3. answer'[h] = Service!Answer(code, call[h]) /\ code \in FailureCodes
  BY <2>1 DEF HostInv, TypeOK, Return, FailureCodes
 <2>4. Service!Reply(h)
  BY <2>2, <2>3, ReturnStepReplies DEF HostInv
 <2>5. QED
  BY <2>4 DEF Service!Next
<1>3. CASE ReceiveBody(h)
 <2>1. pc[h] = "receive_body" /\ pc[h] \in Busy /\ pc'[h] = "idle" /\ OnlyHost(h)
           /\ UNCHANGED call
  BY <1>3 DEF HostInv, TypeOK, ReceiveBody, Goto, OnlyHost, Busy, Waiting
 <2>2. Head(up[worker[h]]).of = call[h]
  <3>1. IsBody(up[worker[h]], call[h])
   BY <1>3, <2>1 DEF HostInv, Conversation, HalfReceived, ReceiveBody
  <3>2. QED
   BY <3>1, ShortSequences DEF IsBody, ResponsePiece
 <2>3. \E code \in {"mesh", "evaluator_error", "geometry_backend_crash"} :
           answer'[h] = Service!Answer(code, call[h])
  <3>1. CASE Head(up[worker[h]]).kind = "mesh"
   BY <1>3, <2>2, <3>1 DEF HostInv, TypeOK, ReceiveBody
  <3>2. CASE Head(up[worker[h]]).kind = "error"
   BY <1>3, <2>2, <3>2 DEF HostInv, TypeOK, ReceiveBody
  <3>3. CASE Head(up[worker[h]]).kind \notin {"mesh", "error"}
   BY <1>3, <2>2, <3>3 DEF HostInv, TypeOK, ReceiveBody
  <3>4. QED
   BY <3>1, <3>2, <3>3
 <2>4. {"mesh", "evaluator_error", "geometry_backend_crash"}
           \subseteq Service!EvaluatedCodes \cup FailureCodes
  BY DEF Service!EvaluatedCodes, FailureCodes
 <2>5. Service!Reply(h)
  BY <2>1, <2>3, <2>4, ReturnStepReplies DEF HostInv
 <2>6. QED
  BY <2>5 DEF Service!Next
<1>4. CASE Reap(h)
 <2>1. pc[h] = "reap" /\ pc[h] \in Busy /\ pc'[h] = "idle" /\ OnlyHost(h) /\ UNCHANGED call
           /\ answer' = answer
  BY <1>4 DEF HostInv, TypeOK, Reap, Collect, Goto, OnlyHost, Busy
 <2>2. \E code \in FailureCodes : answer'[h] = Service!Answer(code, call[h])
  BY <2>1 DEF HostInv, CallUnderWay
 <2>3. Service!Reply(h)
  BY <2>1, <2>2, ReturnStepReplies DEF HostInv
 <2>4. QED
  BY <2>3 DEF Service!Next
<1>5. CASE Destroyed(h)
 <2>1. \A g \in Hosts : Returned(g)' = Returned(g)
  BY <1>5 DEF HostInv, TypeOK, Destroyed, Collect, Goto, Returned, Busy, Waiting
 <2>2. /\ Phase(h) = "closing"
       /\ \A g \in Hosts : Phase(g)' = IF g = h THEN "closed" ELSE Phase(g)
  BY <1>5 DEF HostInv, TypeOK, Destroyed, Goto, Phase, Busy, Waiting
 <2>3. Service!Closed(h)
  BY <1>5, <2>1, <2>2 DEF Service!Closed, Destroyed, Collect
 <2>4. QED
  BY <2>3 DEF Service!Next
<1>6. QED
 BY <1>1, <1>2, <1>3, <1>4, <1>5 DEF HostStep

LEMMA NextRefines == HostInv /\ HostInv' /\ [Next]_vars => [Service!Next]_(Service!serviceVars)
<1> SUFFICES ASSUME HostInv, HostInv', [Next]_vars
             PROVE  Service!Next \/ UNCHANGED Service!serviceVars
 OBVIOUS
<1>1. ASSUME UNCHANGED hostVars PROVE UNCHANGED Service!serviceVars
 <2>1. \A g \in Hosts : Phase(g)' = Phase(g) /\ Returned(g)' = Returned(g)
  BY <1>1 DEF hostVars, Phase, Returned
 <2>2. QED
  BY <1>1, <2>1 DEF hostVars, Service!serviceVars
<1>2. ASSUME NEW p \in Pids, WorkerStep(p) \/ WorkerEvaluates(p) \/ WorkerDies(p)
      PROVE  UNCHANGED hostVars
 BY <1>2 DEF WorkerStep, WorkerRead, WorkerWrite, WorkerLeaves, WorkerEvaluates, WorkerDies,
        Exit
<1>3. UNCHANGED vars => UNCHANGED hostVars
 BY DEF vars, hostVars
<1>4. QED
 BY <1>1, <1>2, <1>3, HostStepRefines, OwnerStepRefines DEF Next

\* Every behaviour of the hosts and their workers is one of the abstract service: each call
\* gets one answer, made from its own request or a failure code, and then only.
THEOREM HostsImplementService == Spec => Service!Safe
<1>1. Init => Service!Init
 BY InitRefines
<1>2. HostInv /\ HostInv' /\ [Next]_vars => [Service!Next]_(Service!serviceVars)
 BY NextRefines
<1>3. QED
 BY <1>1, <1>2, HostInvariant, PTL DEF Spec, Service!Safe
=============================================================================
