--------------------------------- MODULE BatchStream ---------------------------------
(***************************************************************************)
(* What Model::process promises to the loop that drains its stream         *)
(* (include/tekla/db1/process.hpp:361-402, docs/architecture.md).          *)
(*                                                                         *)
(* The model is a number of lists, one per channel: the objects, the       *)
(* properties of the parts, their materials, ...  A stage is a set of      *)
(* channels and the stages are drained one after the other.  A call        *)
(* answers with a batch, which is some of the next items of one channel    *)
(* and never empty; with an error, where something is wrong with the       *)
(* channel, which costs the items of one batch at most; or with the end,   *)
(* once every channel is drained.                                          *)
(***************************************************************************)
EXTENDS Naturals, Sequences

VARIABLES
    lists,    \* the items of every channel, never written
    stages,   \* a sequence of sets of channels, never written
    faulty,   \* the channels that can fail, never written
    size,     \* rows of a full batch, never written
    heard,    \* how far every channel is drained
    answer    \* the last answer

streamVars == <<lists, stages, faulty, size, heard, answer>>

Batch(kind, items) == [kind |-> kind, items |-> items]
NoAnswer == Batch("none", <<>>)
Ended == Batch("end", <<>>)
Failure == Batch("error", <<>>)

\* Channels are pairs: who reads it, and the kind of its batches.
Drained(stage) == \A c \in stage : heard[c] = Len(lists[c])
Reached(k) == \A j \in 1 .. k - 1 : Drained(stages[j])

Init ==
    /\ heard = [c \in DOMAIN lists |-> 0]
    /\ answer = NoAnswer

Deliver ==
    \E k \in DOMAIN stages : \E c \in stages[k] : \E n \in 1 .. Len(lists[c]) - heard[c] :
        /\ Reached(k)
        /\ answer' = Batch(c[2], SubSeq(lists[c], heard[c] + 1, heard[c] + n))
        /\ heard' = [heard EXCEPT ![c] = @ + n]
        /\ UNCHANGED <<lists, stages, faulty, size>>

Fail ==
    \E k \in DOMAIN stages : \E c \in stages[k] \cap faulty : \E n \in 0 .. size :
        /\ Reached(k) /\ heard[c] + n <= Len(lists[c])
        /\ answer' = Failure
        /\ heard' = [heard EXCEPT ![c] = @ + n]
        /\ UNCHANGED <<lists, stages, faulty, size>>

End ==
    /\ Reached(Len(stages) + 1)
    /\ answer' = Ended
    /\ UNCHANGED <<lists, stages, faulty, size, heard>>

Next == Deliver \/ Fail \/ End

Spec == Init /\ [][Next]_streamVars
=============================================================================
