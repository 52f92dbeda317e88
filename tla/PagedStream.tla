------------------------------ MODULE PagedStream ------------------------------
(***************************************************************************)
(* What a reader of rows promises to the loop that drains it               *)
(* (README.md, "Design"): every call to next() answers the next full page  *)
(* of a list that was fixed when the stream was opened, the last page may  *)
(* be short, no page is empty, and once the list is through every call     *)
(* answers the end.  How a reader finds its rows is not visible here.      *)
(***************************************************************************)
EXTENDS Naturals, Sequences

VARIABLES
    items,    \* the list, never written
    size,     \* rows of a full page, never written
    sent,     \* how many items went out
    answer    \* the last answer

pageVars == <<items, size, sent, answer>>

Page(rows) == [kind |-> "page", rows |-> rows]
NoAnswer == [kind |-> "none", rows |-> <<>>]
Ended == [kind |-> "end", rows |-> <<>>]

Smaller(a, b) == IF a < b THEN a ELSE b

Init ==
    /\ size \in Nat \ {0}
    /\ sent = 0
    /\ answer = NoAnswer

Deliver ==
    LET next == Smaller(sent + size, Len(items)) IN
    /\ sent < Len(items)
    /\ answer' = Page(SubSeq(items, sent + 1, next))
    /\ sent' = next
    /\ UNCHANGED <<items, size>>

End ==
    /\ sent = Len(items)
    /\ answer' = Ended
    /\ UNCHANGED <<items, size, sent>>

Next == Deliver \/ End

Spec == Init /\ [][Next]_pageVars

\* A consumer that keeps asking is through with the list after finitely many
\* calls (BatchReader::next is called until it answers the end).
Drained == <>(answer = Ended)
=============================================================================
