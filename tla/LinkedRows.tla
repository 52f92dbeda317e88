------------------------------ MODULE LinkedRows ------------------------------
(***************************************************************************)
(* The two budgets of the non-part geometry and what is read against both  *)
(* of them: texts and arrays of numbers kept in rows that are linked by    *)
(* the id of the next row (RetainedGeometryBudget, LinkedRowVisitBudget,   *)
(* resolve_string, resolve_array in nonpart_geometry.cpp).                 *)
(*                                                                         *)
(* A reader asks for links one after the other.  An answer is kept under   *)
(* the id of its first row, also one that says the rows are no chain.      *)
(***************************************************************************)
EXTENDS Integers, Sequences

CONSTANTS
    Links,        \* a table's name and the id of a row in it
    End,          \* the link of an id that is zero
    CurveRecord, PointBytes,               \* sizeof(CurveData), sizeof(Vector3d)
    MeshRecord, PositionBytes, IndexBytes, \* sizeof(MeshData), of a position, of an index
    VisitBytes    \* bytes of the geometry budget that allow one more visit

\* A row has the bytes of its values and the link to the next row.
LinkedRow == [next : Links \cup {End}, bytes : Nat]

\* The rows of the linked tables, by link.
LinkTable(t) == DOMAIN t \subseteq Links /\ \A k \in DOMAIN t : t[k] \in LinkedRow

ASSUME LinksAssumption ==
    /\ End \notin Links
    /\ {CurveRecord, PointBytes, MeshRecord, PositionBytes, IndexBytes, VisitBytes}
           \subseteq Nat \ {0}

VARIABLES
    rows,       \* the linked rows of all tables, by link
    limit,      \* bytes that may be retained
    mostVisits, \* linked rows that may be visited
    used,       \* bytes retained, or the limit once a reader has given up for all
    visits,     \* linked rows visited
    cache,      \* what is known of the chains asked for, by their first link
    asked,      \* links the reader waits for
    path,       \* rows of the first of them met so far
    weight      \* bytes of these rows

linkVars == <<rows, limit, mostVisits, used, visits, cache, asked, path, weight>>
fixedLinkVars == <<rows, limit, mostVisits>>
walkVars == <<visits, cache, asked, path, weight>>

Remaining == limit - used
CurveBytes(points) == CurveRecord + points * PointBytes
MeshBytes(positions, indices) == MeshRecord + positions * PositionBytes + indices * IndexBytes

Spent(bytes) == used' = used + bytes
Exhaust == used' = limit

\* consume: what does not fit leaves the budget as it is.
Affordable(bytes) == bytes \in 0..Remaining

\* Equal curves are consumed one by one until one of them does not fit.
SpentOnCurves(count, points) ==
    \E n \in 0..count :
        /\ Affordable(n * CurveBytes(points))
        /\ n < count => ~Affordable((n + 1) * CurveBytes(points))
        /\ Spent(n * CurveBytes(points))
-----------------------------------------------------------------------------
\* One visit for each row, and more of them with a larger budget, for chains that share rows.
MostVisits(count, bytes) == count + bytes \div VisitBytes

NoneAsked == asked = <<>> /\ path = <<>> /\ weight = 0

Wanted == Head(asked)
Known == Wanted \in DOMAIN cache

Met(link) == \E i \in DOMAIN path : path[i] = link

\* Faulty variant: a chain that comes back to one of its rows ends there.
CurrentUnlessMet ==
    IF path = <<>> THEN Wanted
    ELSE LET next == rows[path[Len(path)]].next IN IF Met(next) THEN End ELSE next

\* The id the loop is at.
Current == IF path = <<>> THEN Wanted ELSE rows[path[Len(path)]].next

Remember(status, chain) ==
    /\ cache' = [k \in DOMAIN cache \cup {Wanted} |->
                    IF k = Wanted THEN [status |-> status, chain |-> chain] ELSE cache[k]]
    /\ asked' = Tail(asked)
    /\ path' = <<>> /\ weight' = 0

Walking == asked # <<>> /\ ~Known

\* The answer is there already, for what it is.
Recall ==
    /\ asked # <<>> /\ Known
    /\ asked' = Tail(asked)
    /\ UNCHANGED <<fixedLinkVars, used, visits, cache, path, weight>>

\* There are no visits left: nobody gets anything any more.
VisitsExhausted ==
    /\ Walking /\ Current # End
    /\ visits = mostVisits
    /\ Remember("resource_limit", <<>>)
    /\ Exhaust
    /\ UNCHANGED <<fixedLinkVars, visits>>

\* A row met before, or one that is not there.
Broken == Met(Current) \/ Current \notin DOMAIN rows

VisitBroken ==
    /\ Walking /\ Current # End
    /\ visits < mostVisits
    /\ Broken
    /\ visits' = visits + 1
    /\ Remember("invalid", <<>>)
    /\ UNCHANGED <<fixedLinkVars, used>>

Visit ==
    /\ Walking /\ Current # End
    /\ visits < mostVisits
    /\ ~Broken
    /\ visits' = visits + 1
    /\ LET bytes == weight + rows[Current].bytes IN
       IF Affordable(bytes)
       THEN /\ path' = Append(path, Current)
            /\ weight' = bytes
            /\ UNCHANGED <<used, cache, asked>>
       ELSE /\ Remember("resource_limit", <<>>)
            /\ Exhaust
    /\ UNCHANGED fixedLinkVars

\* The values of all rows are copied and paid for.
Resolve ==
    /\ Walking /\ Current = End
    /\ Remember("success", path)
    /\ Spent(weight)
    /\ UNCHANGED <<fixedLinkVars, visits>>

Ask == Recall \/ VisitsExhausted \/ VisitBroken \/ Visit \/ Resolve
-----------------------------------------------------------------------------
\* The links of a chain of rows, each the next of the one before, the last one without a next.
Chain(chain, link) ==
    /\ IF chain = <<>> THEN link = End ELSE chain[1] = link
    /\ \A i \in DOMAIN chain :
           /\ chain[i] \in DOMAIN rows
           /\ rows[chain[i]].next = IF i = Len(chain) THEN End ELSE chain[i + 1]
           /\ \A j \in DOMAIN chain : chain[i] = chain[j] => i = j

\* Links that lead to each other for ever, or to a row that is not there.
LeadsNowhere(link) ==
    \E S \in SUBSET Links :
        /\ link \in S
        /\ \A k \in S : k \in DOMAIN rows => rows[k].next \in S

\* What is remembered of a link is the whole chain of its rows, whoever asked first and
\* whatever tails it shares with others, and only what leads nowhere is called invalid
\* (resolve_array, resolve_string).
LinkedRowsRead ==
    \A k \in DOMAIN cache :
        /\ cache[k].status = "success" => Chain(cache[k].chain, k)
        /\ cache[k].status = "invalid" => LeadsNowhere(k)
=============================================================================
