------------------------------- MODULE PropertyWinners -------------------------------
(***************************************************************************)
(* Which of an object's attributes go out (src/semantic.cpp:123-266).      *)
(*                                                                         *)
(* An attribute is a row of one of three link tables: it joins an object   *)
(* (`father`) to a definition of the table's kind, and the definition has  *)
(* a name and a value.  Several definitions may share a name.  Then the    *)
(* object has one value of that name, and find_property_winners chooses    *)
(* its row before the stream is read: a reference before a number before a *)
(* text, the first row among equals.                                       *)
(*                                                                         *)
(* A row is written <<s, r>>, row r of the s-th link table.                *)
(***************************************************************************)
EXTENDS Naturals, Sequences, FiniteSets, SequencesExt

\* Attributes of a model: links[k] is a sequence of [father, def] and
\* definitions[k] one of [id, name], the rows of every table of that kind in
\* the order they are loaded.
LinkKinds == <<"numeric", "text", "reference">>

Precedence == [reference |-> 3, numeric |-> 2, text |-> 1]

\* insert_or_assign: of two rows with one id the later one stays.
LoadDefinitions(rows) ==
    LET last(id) == CHOOSE i \in DOMAIN rows :
                        /\ rows[i].id = id
                        /\ \A j \in DOMAIN rows : rows[j].id = id => j <= i
    IN  [id \in {rows[i].id : i \in DOMAIN rows} |-> rows[last(id)].name]

\* A definition is a pair of a kind and an id.
Carriers(names, name) ==
    {d \in UNION {{k} \X DOMAIN names[k] : k \in DOMAIN names} : names[d[1]][d[2]] = name}

AllNames(names) == UNION {{names[k][id] : id \in DOMAIN names[k]} : k \in DOMAIN names}

AmbiguousNames(names) == {name \in AllNames(names) : Cardinality(Carriers(names, name)) > 1}

\* Everything the reader is made from.
LoadAttributes(attributes) ==
    LET names == [k \in DOMAIN Precedence |-> LoadDefinitions(attributes.definitions[k])] IN
    [links |-> attributes.links, names |-> names, ambiguous |-> AmbiguousNames(names)]

LinkTable(a, s) == a.links[LinkKinds[s]]
Kind(l) == LinkKinds[l[1]]
Link(a, l) == LinkTable(a, l[1])[l[2]]
Known(a, l) == Link(a, l).def \in DOMAIN a.names[Kind(l)]
Name(a, l) == a.names[Kind(l)][Link(a, l).def]
Path(a, l) == <<Link(a, l).father, Name(a, l)>>

AllLinks(a) == UNION {{s} \X (1 .. Len(LinkTable(a, s))) : s \in 1 .. 3}

---------------------------------------------------------------------------
(* The first pass.                                                        *)

Meets(a, l) == Known(a, l) /\ Name(a, l) \in a.ambiguous

\* try_emplace, and a later row takes over only with a higher precedence.
Meet(a, winners, l) ==
    LET path == Path(a, l)
        rank == Precedence[Kind(l)]
    IN
    IF ~Meets(a, l) THEN winners
    ELSE IF path \notin DOMAIN winners
    THEN [p \in DOMAIN winners \cup {path} |->
             IF p = path THEN [row |-> l, precedence |-> rank, occurrences |-> 1] ELSE winners[p]]
    ELSE [winners EXCEPT ![path] =
             [row |-> IF rank > @.precedence THEN l ELSE @.row,
              precedence |-> IF rank > @.precedence THEN rank ELSE @.precedence,
              occurrences |-> @.occurrences + 1]]

\* Only a path met twice needs a winner.
Contested(winners) == Restrict(winners, {p \in DOMAIN winners : winners[p].occurrences > 1})

\* Faulty variant: a loser is told by its row alone.
GoesOutByRow(a, winners, l) ==
    /\ Known(a, l)
    /\ Path(a, l) \in DOMAIN winners => winners[Path(a, l)].row[2] = l[2]

\* The second pass, in the reader: does row l go out?
GoesOut(a, winners, l) ==
    /\ Known(a, l)
    /\ Path(a, l) \in DOMAIN winners => winners[Path(a, l)].row = l

---------------------------------------------------------------------------
(* What docs/support-matrix.md:27 promises, without the passes.           *)

Before(l, m) == l[1] < m[1] \/ (l[1] = m[1] /\ l[2] < m[2])

Outranks(a, l, m) ==
    \/ Precedence[Kind(l)] > Precedence[Kind(m)]
    \/ Precedence[Kind(l)] = Precedence[Kind(m)] /\ Before(l, m)

\* The members of S, one after the other; `earlier` holds the pairs of which
\* the first stands before the second.
InOrder(S, earlier) ==
    [k \in 1 .. Cardinality(S) |->
        CHOOSE l \in S : Cardinality({m \in S : <<m, l>> \in earlier}) = k - 1]

\* One row of every object and name: no other row of theirs outranks it.
IsPromised(a, l) ==
    /\ Known(a, l)
    /\ Name(a, l) \in a.ambiguous =>
          ~\E m \in AllLinks(a) :
              Known(a, m) /\ Path(a, m) = Path(a, l) /\ Outranks(a, m, l)

Promised(a) ==
    InOrder({l \in AllLinks(a) : IsPromised(a, l)},
            {p \in AllLinks(a) \X AllLinks(a) : Before(p[1], p[2])})
=============================================================================
