------------------------- MODULE SemanticRelationsProofs -------------------------
(***************************************************************************)
(* What holds of the semantic relation stream for every set of ids, every  *)
(* table and every page size.  All of it rests on one lemma: a step of the *)
(* reader leaves what was emitted alone, or adds one edge at its end, and  *)
(* the sets of pairs and the counters move with it.                        *)
(***************************************************************************)
EXTENDS SemanticRelations, SequenceTheorems, FiniteSetTheorems, TLAPS

---------------------------------------------------------------------------
(* Lists of rows and sorted lists.                                        *)

\* The elements of a finite set, of which of any two one is below the other,
\* each have a rank of their own.
LEMMA RanksDiffer ==
  ASSUME NEW S, IsFiniteSet(S), NEW below,
         \A x \in S : <<x, x>> \notin below,
         \A x, y \in S : x # y => <<x, y>> \in below \/ <<y, x>> \in below,
         \A x, y, z \in S : <<x, y>> \in below /\ <<y, z>> \in below => <<x, z>> \in below
  PROVE  LET ranks == [x \in S |-> Cardinality({y \in S : <<y, x>> \in below}) + 1] IN
         /\ Cardinality(S) \in Nat /\ ranks \in [S -> 1 .. Cardinality(S)]
         /\ \A x, y \in S : ranks[x] = ranks[y] => x = y
         /\ \A x \in S : Cardinality({y \in S : <<y, x>> \in below}) = ranks[x] - 1
<1> DEFINE Under(x) == {y \in S : <<y, x>> \in below}
           ranks == [x \in S |-> Cardinality(Under(x)) + 1]
           count == Cardinality(S)
<1>1. count \in Nat
 BY FS_CardinalityType
<1>2. \A x \in S : /\ IsFiniteSet(Under(x)) /\ Cardinality(Under(x)) \in Nat
                   /\ Cardinality(Under(x)) <= count - 1
 <2> SUFFICES ASSUME NEW x \in S
              PROVE  /\ IsFiniteSet(Under(x)) /\ Cardinality(Under(x)) \in Nat
                     /\ Cardinality(Under(x)) <= count - 1
  OBVIOUS
 <2>1. IsFiniteSet(S \ {x}) /\ Cardinality(S \ {x}) = count - 1
  BY FS_RemoveElement
 <2>2. Under(x) \in SUBSET (S \ {x})
  OBVIOUS
 <2> QED
  BY ONLY <2>1, <2>2, FS_Subset, FS_CardinalityType, ZenonT(60)
<1>3. ranks \in [S -> 1 .. count]
 <2> HIDE DEF Under
 <2>1. \A x \in S : Cardinality(Under(x)) + 1 \in 1 .. count
  BY <1>1, <1>2
 <2> QED
  BY <2>1
<1>4. \A x, y \in S : <<x, y>> \in below => ranks[x] < ranks[y]
 <2> SUFFICES ASSUME NEW x \in S, NEW y \in S, <<x, y>> \in below
              PROVE  ranks[x] < ranks[y]
  OBVIOUS
 <2>1. Under(x) \in SUBSET Under(y) /\ x \in Under(y) /\ x \notin Under(x)
  OBVIOUS
 <2>2. Cardinality(Under(x)) <= Cardinality(Under(y))
         /\ Cardinality(Under(x)) # Cardinality(Under(y))
  BY ONLY <1>2, <2>1, FS_Subset
 <2>3. Cardinality(Under(x)) \in Nat /\ Cardinality(Under(y)) \in Nat
  BY ONLY <1>2
 <2> QED
  BY <2>2, <2>3
<1>5. \A x, y \in S : ranks[x] = ranks[y] => x = y
 <2> SUFFICES ASSUME NEW x \in S, NEW y \in S, x # y
              PROVE  ranks[x] # ranks[y]
  OBVIOUS
 <2> HIDE DEF ranks
 <2>1. ranks[x] \in Nat /\ ranks[y] \in Nat
  BY <1>1, <1>3
 <2>2. ranks[x] < ranks[y] \/ ranks[y] < ranks[x]
  BY <1>4
 <2> QED
  BY <2>1, <2>2
<1>6. \A x \in S : Cardinality(Under(x)) = ranks[x] - 1
 <2> HIDE DEF Under
 <2> QED
  BY <1>2
<1> QED
 BY ONLY <1>1, <1>3, <1>5, <1>6, Zenon

\* And every rank is taken.
LEMMA RanksAreTaken ==
  ASSUME NEW S, IsFiniteSet(S), NEW below,
         \A x \in S : <<x, x>> \notin below,
         \A x, y \in S : x # y => <<x, y>> \in below \/ <<y, x>> \in below,
         \A x, y, z \in S : <<x, y>> \in below /\ <<y, z>> \in below => <<x, z>> \in below
  PROVE  \A n \in 1 .. Cardinality(S) :
             \E x \in S : Cardinality({y \in S : <<y, x>> \in below}) = n - 1
<1> DEFINE Under(x) == {y \in S : <<y, x>> \in below}
           ranks == [x \in S |-> Cardinality(Under(x)) + 1]
           count == Cardinality(S)
<1>1. /\ count \in Nat /\ ranks \in [S -> 1 .. count]
      /\ \A x, y \in S : ranks[x] = ranks[y] => x = y
      /\ \A x \in S : Cardinality(Under(x)) = ranks[x] - 1
 BY RanksDiffer, Zenon
<1> HIDE DEF ranks, Under
<1>2. ranks \in Injection(S, 1 .. count)
 BY <1>1 DEF Injection, IsInjective
<1>3. IsFiniteSet(1 .. count) /\ Cardinality(1 .. count) = count
 BY <1>1, FS_Interval
<1>4. ranks \in Surjection(S, 1 .. count)
 BY <1>2, <1>3, FS_Injection
<1>5. \A n \in 1 .. count : \E x \in S : ranks[x] = n
 BY <1>4 DEF Surjection
<1>6. \A n \in 1 .. count : \E x \in S : Cardinality(Under(x)) = n - 1
 BY ONLY <1>1, <1>5
<1> QED
 BY <1>6 DEF Under

\* at[n] is the index of the row that Pick puts at n.
Picks(at, seq, I) ==
  /\ at \in [1 .. Cardinality(I) -> I]
  /\ \A n \in 1 .. Cardinality(I) : Pick(seq, I)[n] = seq[at[n]]
  /\ \A n, m \in 1 .. Cardinality(I) : at[n] = at[m] => n = m

\* Pick gives the rows at the indices, each of them once.
LEMMA PickedRows ==
  ASSUME NEW seq, NEW I \in SUBSET Nat, IsFiniteSet(I)
  PROVE  \E at : Picks(at, seq, I)
<1> DEFINE count == Cardinality(I)
           At(n) == CHOOSE i \in I : Cardinality({j \in I : j < i}) = n - 1
           at == [n \in 1 .. count |-> At(n)]
           below == {p \in I \X I : p[1] < p[2]}
<1>1. \A i \in I : {j \in I : <<j, i>> \in below} = {j \in I : j < i}
 OBVIOUS
<1>2. \A n \in 1 .. count : \E i \in I : Cardinality({j \in I : <<j, i>> \in below}) = n - 1
 <2>1. \A x \in I : <<x, x>> \notin below
  OBVIOUS
 <2>2. \A x, y \in I : x # y => <<x, y>> \in below \/ <<y, x>> \in below
  OBVIOUS
 <2>3. \A x, y, z \in I : <<x, y>> \in below /\ <<y, z>> \in below => <<x, z>> \in below
  OBVIOUS
 <2> HIDE DEF below
 <2> QED
  BY ONLY <2>1, <2>2, <2>3, IsFiniteSet(I), RanksAreTaken
<1>3. \A n \in 1 .. count : /\ At(n) \in I
                           /\ Cardinality({j \in I : j < At(n)}) = n - 1
 <2> SUFFICES ASSUME NEW n \in 1 .. count
              PROVE  At(n) \in I /\ Cardinality({j \in I : j < At(n)}) = n - 1
  OBVIOUS
 <2>1. \E i \in I : Cardinality({j \in I : j < i}) = n - 1
  BY <1>1, <1>2
 <2> QED
  BY <2>1
<1>4. count \in Nat
 BY FS_CardinalityType
<1>5. \A n, m \in 1 .. count : At(n) = At(m) => n = m
 <2> SUFFICES ASSUME NEW n \in 1 .. count, NEW m \in 1 .. count, At(n) = At(m)
              PROVE  n = m
  OBVIOUS
 <2>1. Cardinality({j \in I : j < At(n)}) = n - 1 /\ Cardinality({j \in I : j < At(m)}) = m - 1
  BY <1>3
 <2>2. n \in Nat /\ m \in Nat
  BY <1>4
 <2>3. n - 1 = m - 1
  BY ONLY <2>1, At(n) = At(m)
 <2> QED
  BY ONLY <2>2, <2>3
<1> HIDE DEF At
<1>6. at \in [1 .. count -> I] /\ \A n \in 1 .. count : at[n] = At(n)
 BY <1>3
<1>7. \A n \in 1 .. count : Pick(seq, I)[n] = seq[At(n)]
 BY DEF Pick, At
<1>8. Picks(at, seq, I)
 BY <1>5, <1>6, <1>7 DEF Picks
<1> QED
 BY <1>8

\* A set that Before orders, sorted: every element is at its rank.
LEMMA SortedRanks ==
  ASSUME NEW S, IsFiniteSet(S),
         \A a \in S : ~Before(a, a),
         \A a, b \in S : a # b => Before(a, b) \/ Before(b, a),
         \A a, b, c \in S : Before(a, b) /\ Before(b, c) => Before(a, c)
  PROVE  /\ \A n \in 1 .. Cardinality(S) :
                /\ Sorted(S)[n] \in S
                /\ Cardinality({y \in S : Before(y, Sorted(S)[n])}) = n - 1
         /\ \A x \in S : LET n == Cardinality({y \in S : Before(y, x)}) + 1 IN
                         n \in 1 .. Cardinality(S) /\ Sorted(S)[n] = x
<1> DEFINE below == {p \in S \X S : Before(p[1], p[2])}
           Under(z) == {y \in S : <<y, z>> \in below}
           Rank(z) == Cardinality({y \in S : Before(y, z)})
           ranks == [z \in S |-> Cardinality(Under(z)) + 1]
           count == Cardinality(S)
<1>1. /\ \A a, b \in S : <<a, b>> \in below <=> Before(a, b)
      /\ \A z \in S : Under(z) = {y \in S : Before(y, z)}
 OBVIOUS
<1> HIDE DEF below
<1>2. /\ count \in Nat /\ ranks \in [S -> 1 .. count]
      /\ \A y, z \in S : ranks[y] = ranks[z] => y = z
      /\ \A z \in S : Cardinality(Under(z)) = ranks[z] - 1
 BY <1>1, RanksDiffer, SMTT(30)
<1>3. \A n \in 1 .. count : \E x \in S : Cardinality(Under(x)) = n - 1
 <2>1. /\ \A a \in S : <<a, a>> \notin below
       /\ \A a, b \in S : a # b => <<a, b>> \in below \/ <<b, a>> \in below
       /\ \A a, b, c \in S : <<a, b>> \in below /\ <<b, c>> \in below => <<a, c>> \in below
  BY <1>1
 <2> QED
  BY ONLY <2>1, IsFiniteSet(S), RanksAreTaken
<1> HIDE DEF Under, ranks
<1>4. /\ \A z \in S : Rank(z) = ranks[z] - 1
      /\ \A n \in 1 .. count : \E x \in S : Rank(x) = n - 1
 BY ONLY <1>1, <1>2, <1>3
<1> HIDE DEF Rank
<1>5. \A n \in 1 .. count : Sorted(S)[n] = CHOOSE x \in S : Rank(x) = n - 1
 BY DEF Sorted, Rank
<1>6. \A n \in 1 .. count : Sorted(S)[n] \in S /\ Rank(Sorted(S)[n]) = n - 1
 <2> SUFFICES ASSUME NEW n \in 1 .. count
              PROVE  Sorted(S)[n] \in S /\ Rank(Sorted(S)[n]) = n - 1
  OBVIOUS
 <2>1. \E x \in S : Rank(x) = n - 1
  BY <1>4
 <2> QED
  BY ONLY <1>5, <2>1, n \in 1 .. count, Zenon
<1>7. \A x \in S : Rank(x) + 1 \in 1 .. count /\ Sorted(S)[Rank(x) + 1] = x
 <2> SUFFICES ASSUME NEW x \in S
              PROVE  Rank(x) + 1 \in 1 .. count /\ Sorted(S)[Rank(x) + 1] = x
  OBVIOUS
 <2>1. ranks[x] \in 1 .. count /\ Rank(x) = ranks[x] - 1
  BY <1>2, <1>4
 <2>2. Rank(x) + 1 = ranks[x]
  BY <1>2, <2>1
 <2> DEFINE z == Sorted(S)[ranks[x]]
 <2>3. z \in S /\ Rank(z) = ranks[x] - 1 /\ Rank(z) = ranks[z] - 1
  BY <1>4, <1>6, <2>1
 <2>4. ranks[z] \in 1 .. count
  BY <1>2, <2>3
 <2>5. ranks[z] = ranks[x]
  BY ONLY <1>2, <2>1, <2>3, <2>4
 <2>6. z = x
  BY ONLY <1>2, <2>3, <2>5, x \in S
 <2> QED
  BY <2>1, <2>2, <2>6
<1> QED
 BY ONLY <1>6, <1>7 DEF Rank

\* A sorted list of pairs of naturals has each of them once.
LEMMA SortedPairs ==
  ASSUME NEW S \in SUBSET (Nat \X Nat), IsFiniteSet(S)
  PROVE  /\ \A n \in 1 .. Cardinality(S) : Sorted(S)[n] \in S
         /\ \A n, m \in 1 .. Cardinality(S) : Sorted(S)[n] = Sorted(S)[m] => n = m
<1>1. \A x, y \in S : Before(x, y) <=> x[1] < y[1] \/ (x[1] = y[1] /\ x[2] < y[2])
 <2> SUFFICES ASSUME NEW x \in S, NEW y \in S
              PROVE  Before(x, y) <=> x[1] < y[1] \/ (x[1] = y[1] /\ x[2] < y[2])
  OBVIOUS
 <2>1. DOMAIN x = {1, 2} /\ 1 .. 1 - 1 = {} /\ 1 .. 2 - 1 = {1}
  OBVIOUS
 <2> QED
  BY <2>1 DEF Before
<1>2. \A x \in S : x[1] \in Nat /\ x[2] \in Nat /\ x = <<x[1], x[2]>>
 OBVIOUS
<1>3. /\ \A a \in S : ~Before(a, a)
      /\ \A a, b \in S : a # b => Before(a, b) \/ Before(b, a)
      /\ \A a, b, c \in S : Before(a, b) /\ Before(b, c) => Before(a, c)
 BY ONLY <1>1, <1>2
<1>4. \A n \in 1 .. Cardinality(S) :
          /\ Sorted(S)[n] \in S
          /\ Cardinality({y \in S : Before(y, Sorted(S)[n])}) = n - 1
 BY ONLY <1>3, IsFiniteSet(S), SortedRanks
<1>5. \A n, m \in 1 .. Cardinality(S) : n - 1 = m - 1 => n = m
 BY FS_CardinalityType
<1> QED
 BY ONLY <1>4, <1>5

---------------------------------------------------------------------------
(* What is loaded.                                                        *)

AnyId == Ids \cup {0}
RelationRows == [id : Nat, type : Nat, source : AnyId, target : AnyId, visible : BOOLEAN]
JointRows == [id : Nat, prim : AnyId, sek : AnyId, visible : BOOLEAN]

\* What the proofs need to know of the loaded tables.
LoadedOK ==
  /\ loaded.endpoints \subseteq Ids
  /\ loaded.relations \in Seq(RelationRows)
  /\ loaded.joints \in Seq(JointRows)

\* The live ids are ids, and the rows of the two tables the reader reads
\* itself are rows.
LEMMA InitLoaded == Init => LoadedOK
<1> SUFFICES ASSUME Init PROVE LoadedOK
 OBVIOUS
<1>1. PICK t \in Tables : loaded = Load(t)
 BY DEF Init
<1>2. t \in RawTables
 BY TablesAssumption
<1>3. /\ t.relations \in Seq(RelationRows)
      /\ t.joints \in Seq(JointRows)
      /\ t.objects \in Seq([id : AnyId, parent : AnyId, assembly : AnyId, kind : Kinds,
                            visible : BOOLEAN])
 BY <1>2 DEF RawTables, RelationRows, JointRows, AnyId
<1>4. \A i \in ObjectRows(t) : t.objects[i].id \in Ids
 <2> SUFFICES ASSUME NEW i \in ObjectRows(t) PROVE t.objects[i].id \in Ids
  OBVIOUS
 <2>1. i \in 1 .. Len(t.objects) /\ t.objects[i].id # 0
  BY <1>3 DEF ObjectRows
 <2>2. t.objects[i] \in [id : AnyId, parent : AnyId, assembly : AnyId, kind : Kinds,
                         visible : BOOLEAN]
  BY <1>3, <2>1, ElementOfSeq
 <2> QED
  BY <2>1, <2>2 DEF AnyId
<1>5. Endpoints(t) \subseteq Ids
 BY <1>4 DEF Endpoints
<1> QED
 BY <1>1, <1>3, <1>5 DEF LoadedOK, Load

---------------------------------------------------------------------------
(* One turn of the reader.                                                *)

\* An edge goes to the end of the page.
Appends(e) ==
  /\ e \in Edges /\ ValidEdge(e.source, e.target)
  /\ batch' = Append(batch, e)

\* An edge to an assembly or a pour unit is the one of the row, and of the
\* member, that the reader is at.
Joins(e) ==
  \/ /\ EmitMain /\ e.origin = "assembly_membership"
     /\ e.source = Current.main /\ e.target = Current.id
  \/ /\ EmitMember /\ e.origin = "assembly_membership"
     /\ e.source = loaded.members[Current.id][member + 1] /\ e.source # Current.main
     /\ e.target = Current.id
  \/ /\ EmitPour /\ e.origin = "pour_membership"
     /\ e.source = Current[2] /\ e.target = Current[1]

\* The sets and counters move with the edge, by its kind.
Remembers(e) ==
  LET pair == <<e.source, e.target>> IN
  \/ /\ e.kind = "subelement" /\ pair \notin subelements
     /\ subelements' = subelements \cup {pair}
     /\ e.ordinal = childOrdinals[e.source]
     /\ childOrdinals' = [childOrdinals EXCEPT ![e.source] = @ + 1]
     /\ UNCHANGED <<hosted, connections>>
  \/ /\ e.kind = "hosted_on" /\ pair \notin hosted
     /\ hosted' = hosted \cup {pair}
     /\ UNCHANGED <<subelements, connections, childOrdinals>>
  \/ /\ e.kind = "connects_to" /\ pair \notin connections
     /\ connections' = connections \cup {pair}
     /\ UNCHANGED <<subelements, hosted, childOrdinals>>
  \/ /\ e.kind = "in_assembly" /\ Joins(e)
     /\ UNCHANGED pairVars

Turned ==
  \/ UNCHANGED <<batch, pairVars>>
  \/ \E e \in Edges : Appends(e) /\ Remembers(e)

\* The four helpers that append.
LEMMA SubelementTurn ==
  ASSUME RelationsTypeOK, LoadedOK, NEW p, NEW c, NEW origin \in Origins, NEW via \in Nat,
         AppendSubelement(p, c, origin, via), UNCHANGED <<hosted, connections>>
  PROVE  Turned
<1>1. CASE ValidEdge(p, c) /\ <<p, c>> \notin subelements
 <2> DEFINE e == Edge("subelement", p, c, childOrdinals[p], origin, via)
 <2>1. p \in Ids /\ c \in Ids
  BY <1>1 DEF ValidEdge, LoadedOK
 <2>2. e \in Edges /\ e.source = p /\ e.target = c /\ e.kind = "subelement"
         /\ e.ordinal = childOrdinals[p]
  BY <2>1 DEF RelationsTypeOK, Edge, Edges, EdgeKinds
 <2>3. batch' = Append(batch, e) /\ subelements' = subelements \cup {<<p, c>>}
         /\ childOrdinals' = [childOrdinals EXCEPT ![p] = @ + 1]
  BY <1>1 DEF AppendSubelement
 <2>4. Appends(e) /\ Remembers(e)
  BY <1>1, <2>2, <2>3 DEF Appends, Remembers
 <2> QED
  BY <2>2, <2>4 DEF Turned
<1>2. CASE ~(ValidEdge(p, c) /\ <<p, c>> \notin subelements)
 BY <1>2 DEF AppendSubelement, Turned, pairVars
<1> QED
 BY <1>1, <1>2

LEMMA HostedTurn ==
  ASSUME RelationsTypeOK, LoadedOK, NEW g, NEW h, NEW kinds, NEW origin \in Origins,
         NEW via \in Nat, AppendHosted(g, h, kinds, origin, via),
         UNCHANGED <<subelements, connections, childOrdinals>>
  PROVE  Turned
<1> DEFINE Fits == /\ ValidEdge(g, h) /\ <<g, h>> \notin hosted
                   /\ loaded.kinds[g] \in kinds /\ loaded.kinds[h] \in HostKinds
<1>1. CASE Fits
 <2> DEFINE e == Edge("hosted_on", g, h, 0, origin, via)
 <2>1. g \in Ids /\ h \in Ids
  BY <1>1 DEF ValidEdge, LoadedOK
 <2>2. e \in Edges /\ e.source = g /\ e.target = h /\ e.kind = "hosted_on"
  BY <2>1 DEF Edge, Edges, EdgeKinds
 <2>3. batch' = Append(batch, e) /\ hosted' = hosted \cup {<<g, h>>}
  BY <1>1 DEF AppendHosted
 <2>4. Appends(e) /\ Remembers(e)
  BY <1>1, <2>2, <2>3 DEF Appends, Remembers
 <2> QED
  BY <2>2, <2>4 DEF Turned
<1>2. CASE ~Fits
 BY <1>2 DEF AppendHosted, Turned, pairVars
<1> QED
 BY <1>1, <1>2

LEMMA ConnectsTurn ==
  ASSUME RelationsTypeOK, LoadedOK, NEW p, NEW s, NEW number \in Nat, NEW origin \in Origins,
         NEW via \in Nat, AppendConnects(p, s, number, origin, via),
         UNCHANGED <<subelements, hosted, childOrdinals>>
  PROVE  Turned
<1>1. CASE ValidEdge(p, s) /\ <<p, s>> \notin connections
 <2> DEFINE e == Edge("connects_to", p, s, number, origin, via)
 <2>1. p \in Ids /\ s \in Ids
  BY <1>1 DEF ValidEdge, LoadedOK
 <2>2. e \in Edges /\ e.source = p /\ e.target = s /\ e.kind = "connects_to"
  BY <2>1 DEF Edge, Edges, EdgeKinds
 <2>3. batch' = Append(batch, e) /\ connections' = connections \cup {<<p, s>>}
  BY <1>1 DEF AppendConnects
 <2>4. Appends(e) /\ Remembers(e)
  BY <1>1, <2>2, <2>3 DEF Appends, Remembers
 <2> QED
  BY <2>2, <2>4 DEF Turned
<1>2. CASE ~(ValidEdge(p, s) /\ <<p, s>> \notin connections)
 BY <1>2 DEF AppendConnects, Turned, pairVars
<1> QED
 BY <1>1, <1>2

LEMMA MemberTurn ==
  ASSUME RelationsTypeOK, LoadedOK, NEW s, NEW a, NEW number \in Nat, NEW origin \in Origins,
         AppendMember(s, a, number, origin), UNCHANGED pairVars,
         Joins(Edge("in_assembly", s, a, number, origin, 0))
  PROVE  Turned
<1>1. CASE ValidEdge(s, a)
 <2> DEFINE e == Edge("in_assembly", s, a, number, origin, 0)
 <2>1. s \in Ids /\ a \in Ids
  BY <1>1 DEF ValidEdge, LoadedOK
 <2>2. e \in Edges /\ e.source = s /\ e.target = a /\ e.kind = "in_assembly"
  BY <2>1 DEF Edge, Edges, EdgeKinds
 <2>3. batch' = Append(batch, e)
  BY <1>1 DEF AppendMember
 <2>4. Appends(e) /\ Remembers(e)
  BY <1>1, <2>2, <2>3 DEF Appends, Remembers
 <2> QED
  BY <2>2, <2>4 DEF Turned
<1>2. CASE ~ValidEdge(s, a)
 BY <1>2 DEF AppendMember, Turned
<1> QED
 BY <1>1, <1>2

---------------------------------------------------------------------------
(* Every action.                                                          *)

Emits ==
  \/ SkipPhase \/ EmitParent \/ EmitStored \/ EmitMain \/ EmitMember \/ NoMembers
  \/ EmitPour \/ EmitSpliceFirst \/ EmitSpliceSecond \/ EmitSurface \/ EmitJoint

\* Whatever the phase, a turn appends at most one edge, while a call is under
\* way and its page has room.
LEMMA EveryTurn ==
  ASSUME RelationsTypeOK, LoadedOK, Emits
  PROVE  Turned /\ calling /\ Len(batch) < size /\ UNCHANGED <<fixedVars, callVars>>
<1>1. CASE SkipPhase
 BY <1>1 DEF SkipPhase, Turn, Turned, pairVars
<1>2. CASE EmitParent
 <2>1. Turned
  BY <1>2, SubelementTurn DEF EmitParent, Origins
 <2> QED
  BY <1>2, <2>1 DEF EmitParent, Turn
<1>3. CASE EmitStored
 <2>1. Current.id \in Nat
  <3>1. phase = "stored_relations" /\ row < Len(loaded.relations) /\ row \in Nat
   BY <1>3 DEF EmitStored, Turn, RelationsTypeOK
  <3>2. loaded.relations[row + 1] \in RelationRows
   <4>1. row + 1 \in 1 .. Len(loaded.relations)
    BY <3>1, LenProperties DEF LoadedOK
   <4> QED
    BY <4>1, ElementOfSeq DEF LoadedOK
  <3> QED
   BY <3>1, <3>2 DEF Current, TableOf, RelationRows
 <2>2. CASE /\ Current.visible /\ Current.type \in ChildTypes
            /\ AppendSubelement(Current.source, Current.target, "stored_relation", Current.id)
            /\ UNCHANGED hosted
  BY <1>3, <2>1, <2>2, SubelementTurn DEF EmitStored, Origins, Turn
 <2>3. CASE /\ Current.visible /\ Current.type = RebarType
            /\ AppendHosted(Current.target, Current.source, Reinforcement, "rebar_host",
                            Current.id)
            /\ UNCHANGED <<subelements, childOrdinals>>
  BY <1>3, <2>1, <2>3, HostedTurn DEF EmitStored, Origins, Turn
 <2>4. CASE UNCHANGED <<batch, subelements, hosted, childOrdinals>>
  BY <1>3, <2>4 DEF EmitStored, Turned, pairVars, Turn
 <2> QED
  BY <1>3, <2>2, <2>3, <2>4 DEF EmitStored
<1>4. CASE EmitMain
 <2>1. Joins(Edge("in_assembly", Current.main, Current.id, 0, "assembly_membership", 0))
  BY <1>4 DEF Joins, Edge
 <2>2. Turned
  BY <1>4, <2>1, MemberTurn DEF EmitMain, Origins
 <2> QED
  BY <1>4, <2>2 DEF EmitMain, Turn
<1>5. CASE EmitMember
 <2> DEFINE next == loaded.members[Current.id][member + 1]
 <2>1. CASE next # Current.main /\ next # Current.id
  <3>1. AppendMember(next, Current.id, ordinal, "assembly_membership") /\ UNCHANGED pairVars
   BY <1>5, <2>1 DEF EmitMember
  <3>2. Joins(Edge("in_assembly", next, Current.id, ordinal, "assembly_membership", 0))
   BY <1>5, <2>1 DEF Joins, Edge
  <3>3. Turned
   BY <3>1, <3>2, MemberTurn DEF RelationsTypeOK, Origins
  <3> QED
   BY <1>5, <3>3 DEF EmitMember, Turn
 <2>2. CASE ~(next # Current.main /\ next # Current.id)
  BY <1>5, <2>2 DEF EmitMember, Turned, Turn
 <2> QED
  BY <2>1, <2>2
<1>6. CASE NoMembers
 BY <1>6 DEF NoMembers, Turned, Turn
<1>7. CASE EmitPour
 <2>1. Joins(Edge("in_assembly", Current[2], Current[1], 0, "pour_membership", 0))
  BY <1>7 DEF Joins, Edge
 <2>2. Turned
  BY <1>7, <2>1, MemberTurn DEF EmitPour, Origins
 <2> QED
  BY <1>7, <2>2 DEF EmitPour, Turn
<1>8. CASE EmitSpliceFirst
 <2>1. Turned
  BY <1>8, ConnectsTurn DEF EmitSpliceFirst, Origins
 <2> QED
  BY <1>8, <2>1 DEF EmitSpliceFirst, Turn
<1>9. CASE EmitSpliceSecond
 <2>1. Turned
  BY <1>9, ConnectsTurn DEF EmitSpliceSecond, Origins
 <2> QED
  BY <1>9, <2>1 DEF EmitSpliceSecond, Turn
<1>10. CASE EmitSurface
 <2>1. Turned
  BY <1>10, HostedTurn DEF EmitSurface, Origins
 <2> QED
  BY <1>10, <2>1 DEF EmitSurface, Turn
<1>11. CASE EmitJoint
 <2>1. Current.id \in Nat
  <3>1. phase = "component_connections" /\ row < Len(loaded.joints) /\ row \in Nat
   BY <1>11 DEF EmitJoint, Turn, RelationsTypeOK
  <3>2. loaded.joints[row + 1] \in JointRows
   <4>1. row + 1 \in 1 .. Len(loaded.joints)
    BY <3>1, LenProperties DEF LoadedOK
   <4> QED
    BY <4>1, ElementOfSeq DEF LoadedOK
  <3> QED
   BY <3>1, <3>2 DEF Current, TableOf, JointRows
 <2>2. CASE Current.visible
  BY <1>11, <2>1, <2>2, ConnectsTurn DEF EmitJoint, Origins, Turn
 <2>3. CASE ~Current.visible
  BY <1>11, <2>3 DEF EmitJoint, Turned, pairVars, Turn
 <2> QED
  BY <2>2, <2>3
<1> QED
 BY <1>1, <1>2, <1>3, <1>4, <1>5, <1>6, <1>7, <1>8, <1>9, <1>10, <1>11 DEF Emits

\* The cursors stay in range: only the assembly and the splice phase use
\* theirs, and they leave them as they found them.
Cursors ==
  /\ phase \in Phases /\ row \in Nat
  /\ initialized \in BOOLEAN /\ member \in Nat /\ ordinal \in Nat \ {0}
  /\ initialized => phase = "assemblies" /\ row < Len(loaded.assemblies)
  /\ endpoint \in {0, 1}
  /\ endpoint = 1 => phase = "rebar_splices" /\ row < Len(loaded.splices)

LEMMA PhaseGoesOn == \A p \in Phases : p # "done" => PhaseAfter[p] \in Phases
 BY DEF Phases, PhaseAfter

\* A row that is through leaves both cursors at rest.
LEMMA RowThroughCursors ==
  ASSUME RelationsTypeOK, phase # "done", RowThrough, initialized' = FALSE,
         member' \in Nat, ordinal' \in Nat \ {0}, endpoint' = 0
  PROVE  Cursors'
<1>1. phase \in Phases /\ row \in Nat
 BY DEF RelationsTypeOK
<1>2. phase' \in Phases /\ row' \in Nat
 BY <1>1, PhaseGoesOn DEF RowThrough
<1>3. endpoint' \in {0, 1} /\ endpoint' # 1
 OBVIOUS
<1>4. ~initialized' /\ initialized' \in BOOLEAN
 BY Zenon
<1> QED
 BY <1>2, <1>3, <1>4, Zenon DEF Cursors

LEMMA EveryCursor ==
  ASSUME RelationsTypeOK, Emits
  PROVE  Cursors'
<1> USE PhaseGoesOn
<1>1. CASE SkipPhase
 <2>1. ~initialized /\ endpoint = 0
  BY <1>1 DEF SkipPhase, TableOf, RelationsTypeOK
 <2> QED
  BY <1>1, <2>1 DEF SkipPhase, RelationsTypeOK, Cursors, assemblyVars
<1>2. CASE EmitParent
 BY <1>2, RowThroughCursors DEF EmitParent, Turn, RelationsTypeOK, assemblyVars
<1>3. CASE EmitStored
 BY <1>3, RowThroughCursors DEF EmitStored, Turn, RelationsTypeOK, assemblyVars
<1>4. CASE EmitMain
 BY <1>4 DEF EmitMain, Turn, RelationsTypeOK, Cursors, Current, TableOf, fixedVars
<1>5. CASE EmitMember
 <2>1. phase = "assemblies" /\ endpoint' = 0 /\ UNCHANGED fixedVars
  BY <1>5 DEF EmitMember, Turn, RelationsTypeOK
 <2>2. CASE AssemblyThrough
  <3>1. RowThrough /\ initialized' = FALSE /\ member' \in Nat /\ ordinal' \in Nat \ {0}
   BY <2>2 DEF AssemblyThrough
  <3> QED
   BY <2>1, <3>1, RowThroughCursors
 <2>3. CASE ~AssemblyThrough
  <3>1. /\ member' = member + 1 /\ ordinal' \in {ordinal, ordinal + 1}
        /\ UNCHANGED <<phase, row, initialized>>
   BY <1>5, <2>3 DEF EmitMember
  <3> QED
   BY <2>1, <3>1 DEF RelationsTypeOK, Cursors, fixedVars
 <2> QED
  BY <2>2, <2>3
<1>6. CASE NoMembers
 <2>1. phase = "assemblies" /\ endpoint' = 0 /\ AssemblyThrough
  BY <1>6 DEF NoMembers, Turn, RelationsTypeOK
 <2>2. RowThrough /\ initialized' = FALSE /\ member' \in Nat /\ ordinal' \in Nat \ {0}
  BY <2>1 DEF AssemblyThrough
 <2> QED
  BY <2>1, <2>2, RowThroughCursors
<1>7. CASE EmitPour
 BY <1>7, RowThroughCursors DEF EmitPour, Turn, RelationsTypeOK, assemblyVars
<1>8. CASE EmitSpliceFirst
 BY <1>8 DEF EmitSpliceFirst, Turn, RelationsTypeOK, Cursors, assemblyVars, fixedVars
<1>9. CASE EmitSpliceSecond
 BY <1>9, RowThroughCursors DEF EmitSpliceSecond, Turn, RelationsTypeOK, assemblyVars
<1>10. CASE EmitSurface
 BY <1>10, RowThroughCursors DEF EmitSurface, Turn, RelationsTypeOK, assemblyVars
<1>11. CASE EmitJoint
 BY <1>11, RowThroughCursors DEF EmitJoint, Turn, RelationsTypeOK, assemblyVars
<1> QED
 BY <1>1, <1>2, <1>3, <1>4, <1>5, <1>6, <1>7, <1>8, <1>9, <1>10, <1>11 DEF Emits

---------------------------------------------------------------------------
(* Type correctness.                                                      *)

\* The relation a turn leaves between the pages and what was emitted before.
EmittedGrows ==
  \/ Emitted' = Emitted /\ UNCHANGED pairVars
  \/ \E e \in Edges : /\ ValidEdge(e.source, e.target) /\ Remembers(e)
                       /\ Emitted' = Append(Emitted, e)

LEMMA EdgesAreLists == RelationsTypeOK => Emitted \in Seq(Edges)
 BY ConcatProperties DEF RelationsTypeOK, Emitted

LEMMA TurnGrows ==
  ASSUME RelationsTypeOK, Turned, calling, UNCHANGED <<fixedVars, callVars>>
  PROVE  EmittedGrows
<1>1. Emitted = sent \o batch /\ Emitted' = sent \o batch'
 BY DEF Emitted, callVars
<1>2. CASE UNCHANGED <<batch, pairVars>>
 BY <1>1, <1>2 DEF EmittedGrows
<1>3. ASSUME NEW e \in Edges, Appends(e), Remembers(e)
      PROVE  EmittedGrows
 <2>1. sent \in Seq(Edges) /\ batch \in Seq(Edges) /\ <<e>> \in Seq(Edges)
  BY DEF RelationsTypeOK
 <2>2. sent \o Append(batch, e) = Append(sent \o batch, e)
  <3>1. Append(batch, e) = batch \o <<e>>
   BY <2>1, AppendIsConcat
  <3>2. sent \o batch \in Seq(Edges)
   BY <2>1, ConcatProperties
  <3>3. Append(sent \o batch, e) = (sent \o batch) \o <<e>>
   BY <3>2, AppendIsConcat
  <3> QED
   BY <2>1, <3>1, <3>3, ConcatAssociative
 <2> QED
  BY <1>1, <1>3, <2>2 DEF EmittedGrows, Appends
<1> QED
 BY <1>2, <1>3 DEF Turned

LEMMA TypeInit == Init => RelationsTypeOK
<1> SUFFICES ASSUME Init PROVE RelationsTypeOK
 OBVIOUS
<1>1. size \in Sizes /\ size \in Nat /\ batch \in Seq(Edges) /\ Len(batch) <= size
 BY SizesAssumption DEF Init
<1>2. phase \in Phases
 BY DEF Init, Phases, PhaseAfter
<1>3. childOrdinals \in [Ids -> Nat] /\ sent \in Seq(Edges)
 BY DEF Init
<1>4. ~initialized /\ initialized \in BOOLEAN /\ calling \in BOOLEAN
 BY Zenon DEF Init
<1> QED
 BY <1>1, <1>2, <1>3, <1>4 DEF Init, RelationsTypeOK

LEMMA TypeStep ==
  ASSUME RelationsTypeOK, LoadedOK, [Next]_relationVars
  PROVE  RelationsTypeOK'
<1>1. CASE Emits
 <2>1. Turned /\ calling /\ Len(batch) < size /\ UNCHANGED <<fixedVars, callVars>>
  BY <1>1, EveryTurn
 <2>2. Cursors'
  BY <1>1, EveryCursor
 <2>3. UNCHANGED <<loaded, size, sent, calling>>
  BY <2>1 DEF fixedVars, callVars
 <2>4. size \in Nat /\ Len(batch) \in Nat /\ batch \in Seq(Edges)
  BY SizesAssumption, LenProperties DEF RelationsTypeOK
 <2> DEFINE Kept == /\ batch' \in Seq(Edges) /\ Len(batch') <= size
                    /\ subelements' \subseteq Ids \X Ids /\ hosted' \subseteq Ids \X Ids
                    /\ connections' \subseteq Ids \X Ids /\ childOrdinals' \in [Ids -> Nat]
 <2>5. Kept
  <3>1. CASE UNCHANGED <<batch, pairVars>>
   BY <2>1, <2>4, <3>1 DEF pairVars, RelationsTypeOK
  <3>2. ASSUME NEW e \in Edges, Appends(e), Remembers(e)
        PROVE  Kept
   <4>1. batch' \in Seq(Edges) /\ Len(batch') = Len(batch) + 1
    BY <2>4, <3>2, AppendProperties DEF Appends
   <4>2. e.source \in Ids /\ e.target \in Ids
    BY DEF Edges
   <4>3. Len(batch') <= size
    BY <2>1, <2>4, <4>1, SizesAssumption DEF RelationsTypeOK
   <4>4. /\ subelements' \subseteq Ids \X Ids /\ hosted' \subseteq Ids \X Ids
         /\ connections' \subseteq Ids \X Ids
    BY <3>2, <4>2 DEF Remembers, RelationsTypeOK, pairVars
   <4>5. childOrdinals' \in [Ids -> Nat]
    <5>1. childOrdinals' = childOrdinals
            \/ childOrdinals' = [childOrdinals EXCEPT ![e.source] = @ + 1]
     BY <3>2 DEF Remembers, pairVars
    <5> QED
     BY <4>2, <5>1, SMTT(30) DEF RelationsTypeOK
   <4> QED
    BY <4>1, <4>3, <4>4, <4>5
  <3> QED
   BY <2>1, <3>1, <3>2 DEF Turned
 <2> QED
  BY <2>2, <2>3, <2>5 DEF Cursors, RelationsTypeOK
<1>2. CASE Call
 <2>1. batch' = <<>> /\ calling' = TRUE
       /\ UNCHANGED <<fixedVars, phase, row, assemblyVars, endpoint, pairVars, answer, sent>>
  BY <1>2 DEF Call
 <2>2. batch' \in Seq(Edges) /\ Len(batch') <= size
  BY <2>1, SizesAssumption DEF RelationsTypeOK
 <2> QED
  BY <2>1, <2>2 DEF RelationsTypeOK, fixedVars, assemblyVars, pairVars
<1>3. CASE Return
 <2>1. sent' = sent \o batch /\ calling' = FALSE
       /\ UNCHANGED <<fixedVars, phase, row, assemblyVars, endpoint, pairVars, batch>>
  BY <1>3 DEF Return
 <2>2. sent' \in Seq(Edges)
  BY <2>1, ConcatProperties DEF RelationsTypeOK
 <2> QED
  BY <2>1, <2>2 DEF RelationsTypeOK, fixedVars, assemblyVars, pairVars
<1>4. CASE UNCHANGED relationVars
 BY <1>4 DEF relationVars, fixedVars, assemblyVars, pairVars, callVars, RelationsTypeOK
<1> QED
 BY <1>1, <1>2, <1>3, <1>4 DEF Next, Emits

LEMMA LoadedStep ==
  ASSUME RelationsTypeOK, LoadedOK, [Next]_relationVars
  PROVE  LoadedOK' /\ UNCHANGED loaded
<1>1. CASE Emits
 BY <1>1, EveryTurn DEF fixedVars, LoadedOK
<1>2. CASE Call \/ Return \/ UNCHANGED relationVars
 BY <1>2 DEF Call, Return, relationVars, fixedVars, LoadedOK
<1> QED
 BY <1>1, <1>2 DEF Next, Emits

\* The tables and ids a stream was made from never change, and every part of
\* its state has its type (SemanticRelationReader's members).
THEOREM RelationsType == Spec => [](RelationsTypeOK /\ LoadedOK)
<1>1. Init => RelationsTypeOK /\ LoadedOK
 BY TypeInit, InitLoaded
<1>2. RelationsTypeOK /\ LoadedOK /\ [Next]_relationVars => (RelationsTypeOK /\ LoadedOK)'
 BY TypeStep, LoadedStep
<1> QED
 BY <1>1, <1>2, PTL DEF Spec

---------------------------------------------------------------------------
(* What is emitted.                                                       *)

LEMMA StepGrows ==
  ASSUME RelationsTypeOK, LoadedOK, [Next]_relationVars
  PROVE  EmittedGrows
<1>1. CASE Emits
 BY <1>1, EveryTurn, TurnGrows
<1>2. CASE Call
 <2>1. Emitted' = sent \o <<>> /\ Emitted = sent /\ UNCHANGED pairVars
  BY <1>2 DEF Call, Emitted
 <2> QED
  BY <2>1, ConcatEmptySeq DEF RelationsTypeOK, EmittedGrows
<1>3. CASE Return
 BY <1>3 DEF Return, Emitted, EmittedGrows
<1>4. CASE UNCHANGED relationVars
 BY <1>4 DEF relationVars, callVars, Emitted, EmittedGrows
<1> QED
 BY <1>1, <1>2, <1>3, <1>4 DEF Next, Emits

\* Children that went out before position n, of one parent.
ChildrenBefore(list, n, p) ==
  {j \in 1 .. n - 1 : list[j].kind = "subelement" /\ list[j].source = p}

\* The pairs of what went out are in the sets, so none of them can go out
\* again; the counters stand at the number of children that went out.
PairsKnown ==
  \A i \in DOMAIN Emitted :
      LET e == Emitted[i] IN
      /\ e.kind = "subelement" => <<e.source, e.target>> \in subelements
      /\ e.kind = "hosted_on" => <<e.source, e.target>> \in hosted
      /\ e.kind = "connects_to" => <<e.source, e.target>> \in connections

\* No edge of the three kinds that keep a set of pairs goes out twice.
LinksOnce ==
  \A i, j \in DOMAIN Emitted :
      i # j /\ Emitted[i].kind # "in_assembly" => ~SameEdge(Emitted[i], Emitted[j])

CountersRight ==
  \A p \in Ids : childOrdinals[p] = Cardinality(ChildrenBefore(Emitted, Len(Emitted) + 1, p))

EmittedInv == PairsKnown /\ LinksOnce /\ EndpointsAreElements

LEMMA EmittedInit == Init => EmittedInv
<1> SUFFICES ASSUME Init PROVE EmittedInv
 OBVIOUS
<1>1. Emitted = <<>>
 BY DEF Init, Emitted
<1>2. DOMAIN Emitted = {}
 BY <1>1
<1> QED
 BY <1>2 DEF EmittedInv, PairsKnown, LinksOnce, EndpointsAreElements

\* A list of edges with one more edge at its end.
LEMMA OneMore ==
  ASSUME NEW seq \in Seq(Edges), NEW e \in Edges
  PROVE  LET longer == Append(seq, e) IN
         /\ DOMAIN longer = DOMAIN seq \cup {Len(seq) + 1}
         /\ Len(seq) + 1 \notin DOMAIN seq
         /\ \A i \in DOMAIN seq : longer[i] = seq[i]
         /\ longer[Len(seq) + 1] = e
<1>1. DOMAIN seq = 1 .. Len(seq) /\ Len(seq) \in Nat
 BY LenProperties
<1>2. Append(seq, e) \in Seq(Edges) /\ Len(Append(seq, e)) = Len(seq) + 1
 BY AppendProperties
<1>3. DOMAIN Append(seq, e) = 1 .. Len(seq) + 1
 BY <1>2, LenProperties
<1> QED
 BY <1>1, <1>3, AppendProperties

LEMMA EmittedStep ==
  ASSUME RelationsTypeOK, LoadedOK, EmittedInv, EmittedGrows, UNCHANGED loaded
  PROVE  EmittedInv'
<1>1. CASE Emitted' = Emitted /\ UNCHANGED pairVars
 BY <1>1 DEF EmittedInv, PairsKnown, LinksOnce, EndpointsAreElements, pairVars
<1>2. ASSUME NEW e \in Edges, ValidEdge(e.source, e.target), Remembers(e),
             Emitted' = Append(Emitted, e)
      PROVE  EmittedInv'
 <2> DEFINE last == Len(Emitted) + 1
 <2>1. /\ DOMAIN Emitted' = DOMAIN Emitted \cup {last}
       /\ last \notin DOMAIN Emitted
       /\ \A i \in DOMAIN Emitted : Emitted'[i] = Emitted[i]
       /\ Emitted'[last] = e
  BY <1>2, EdgesAreLists, OneMore
 <2>2. /\ subelements \subseteq subelements' /\ hosted \subseteq hosted'
       /\ connections \subseteq connections'
       /\ e.kind = "subelement" => /\ <<e.source, e.target>> \notin subelements
                                   /\ <<e.source, e.target>> \in subelements'
       /\ e.kind = "hosted_on" => /\ <<e.source, e.target>> \notin hosted
                                  /\ <<e.source, e.target>> \in hosted'
       /\ e.kind = "connects_to" => /\ <<e.source, e.target>> \notin connections
                                    /\ <<e.source, e.target>> \in connections'
  BY <1>2 DEF Remembers, pairVars
 <2>3. e.kind \in {"subelement", "hosted_on", "connects_to", "in_assembly"}
  BY DEF Edges, EdgeKinds
 <2>4. PairsKnown'
  BY <2>1, <2>2 DEF EmittedInv, PairsKnown
 <2>5. \A i \in DOMAIN Emitted :
           e.kind # "in_assembly" => ~SameEdge(Emitted[i], e) /\ ~SameEdge(e, Emitted[i])
  BY <2>2, <2>3 DEF EmittedInv, PairsKnown, SameEdge
 <2>6. LinksOnce'
  <3> SUFFICES ASSUME NEW i \in DOMAIN Emitted', NEW j \in DOMAIN Emitted',
                      i # j, Emitted'[i].kind # "in_assembly"
               PROVE  ~SameEdge(Emitted'[i], Emitted'[j])
   BY DEF LinksOnce
  <3>1. CASE i = last
   BY <2>1, <2>5, <3>1
  <3>2. CASE j = last
   BY <2>1, <2>5, <3>2 DEF SameEdge
  <3>3. CASE i # last /\ j # last
   BY <2>1, <3>3 DEF EmittedInv, LinksOnce
  <3> QED
   BY <3>1, <3>2, <3>3
 <2>7. EndpointsAreElements'
  BY <1>2, <2>1 DEF EmittedInv, EndpointsAreElements, ValidEdge
 <2> QED
  BY <2>4, <2>6, <2>7 DEF EmittedInv
<1> QED
 BY <1>1, <1>2 DEF EmittedGrows

\* For every table and page size: an edge has two live model elements for its
\* ends, and no SUBELEMENT, HOSTED_ON or CONNECTS_TO edge goes out twice, in
\* one page or in two.
THEOREM EmittedInvariant == Spec => []EmittedInv
<1>1. Init => EmittedInv
 BY EmittedInit
<1>2. RelationsTypeOK /\ LoadedOK /\ EmittedInv /\ [Next]_relationVars => EmittedInv'
 BY StepGrows, LoadedStep, EmittedStep
<1> QED
 BY <1>1, <1>2, RelationsType, PTL DEF Spec

\* Both ends of an edge are live model elements, and no evaluation features.
THEOREM EdgesJoinElements == Spec => []EndpointsAreElements
<1>1. EmittedInv => EndpointsAreElements
 BY DEF EmittedInv
<1> QED
 BY <1>1, EmittedInvariant, PTL

\* No SUBELEMENT, HOSTED_ON or CONNECTS_TO edge goes out twice.
THEOREM LinksGoOutOnce == Spec => []LinksOnce
<1>1. EmittedInv => LinksOnce
 BY DEF EmittedInv
<1> QED
 BY <1>1, EmittedInvariant, PTL

---------------------------------------------------------------------------
(* The numbers of children.                                               *)

NumberingInv == ChildrenAreNumbered /\ CountersRight

LEMMA NumberingInit == Init => NumberingInv
<1> SUFFICES ASSUME Init PROVE NumberingInv
 OBVIOUS
<1>1. Emitted = <<>> /\ DOMAIN Emitted = {} /\ Len(Emitted) = 0
 BY DEF Init, Emitted
<1>2. ChildrenAreNumbered
 BY <1>1 DEF ChildrenAreNumbered
<1>3. \A p \in Ids : ChildrenBefore(Emitted, Len(Emitted) + 1, p) = {}
 BY <1>1 DEF ChildrenBefore
<1>4. CountersRight
 BY <1>3, FS_EmptySet DEF CountersRight, Init
<1> QED
 BY <1>2, <1>4 DEF NumberingInv

LEMMA NumberingStep ==
  ASSUME RelationsTypeOK, NumberingInv, EmittedGrows
  PROVE  NumberingInv'
<1>1. CASE Emitted' = Emitted /\ UNCHANGED pairVars
 BY <1>1 DEF NumberingInv, ChildrenAreNumbered, CountersRight, ChildrenBefore, pairVars
<1>2. ASSUME NEW e \in Edges, Remembers(e), Emitted' = Append(Emitted, e)
      PROVE  NumberingInv'
 <2> DEFINE n == Len(Emitted)
 <2>1. Emitted \in Seq(Edges) /\ n \in Nat /\ DOMAIN Emitted = 1 .. n
  BY EdgesAreLists, LenProperties
 <2>2. /\ DOMAIN Emitted' = 1 .. n + 1 /\ Len(Emitted') = n + 1
       /\ \A j \in 1 .. n : Emitted'[j] = Emitted[j]
       /\ Emitted'[n + 1] = e
  BY <1>2, <2>1, AppendProperties, LenProperties
 <2> DEFINE more == Emitted'
 <2>3. \A i \in 1 .. n + 1 : \A p :
           ChildrenBefore(more, i, p) = ChildrenBefore(Emitted, i, p)
  BY <2>1, <2>2 DEF ChildrenBefore
 <2>4. e.source \in Ids
  BY DEF Edges
 <2>5. e.kind = "subelement" => e.ordinal = Cardinality(ChildrenBefore(Emitted, n + 1, e.source))
  BY <1>2, <2>4 DEF NumberingInv, CountersRight, Remembers
 <2>6. ChildrenAreNumbered'
  <3>1. \A i \in 1 .. n + 1 :
            more[i].kind = "subelement" =>
                more[i].ordinal = Cardinality(ChildrenBefore(more, i, more[i].source))
   <4> SUFFICES ASSUME NEW i \in 1 .. n + 1, more[i].kind = "subelement"
                PROVE  more[i].ordinal = Cardinality(ChildrenBefore(more, i, more[i].source))
    OBVIOUS
   <4>1. CASE i = n + 1
    <5>1. more[i] = e /\ ChildrenBefore(more, i, e.source) = ChildrenBefore(Emitted, i, e.source)
     BY <2>2, <2>3, <4>1
    <5> QED
     BY <2>5, <4>1, <5>1
   <4>2. CASE i # n + 1
    <5>1. i \in 1 .. n /\ more[i] = Emitted[i]
     BY <2>1, <2>2, <4>2
    <5>2. Emitted[i].ordinal = Cardinality(ChildrenBefore(Emitted, i, Emitted[i].source))
     BY <2>1, <5>1 DEF NumberingInv, ChildrenAreNumbered, ChildrenBefore
    <5>3. ChildrenBefore(more, i, Emitted[i].source) = ChildrenBefore(Emitted, i, Emitted[i].source)
     BY <2>3
    <5> QED
     BY <5>1, <5>2, <5>3
   <4> QED
    BY <4>1, <4>2
  <3> QED
   BY <2>2, <3>1 DEF ChildrenAreNumbered, ChildrenBefore
 <2>7. CountersRight'
  <3> SUFFICES ASSUME NEW p \in Ids
               PROVE  childOrdinals'[p] = Cardinality(ChildrenBefore(more, n + 2, p))
   <4>1. Len(more) + 1 = n + 2
    BY <2>1, <2>2
   <4> QED
    BY <4>1 DEF CountersRight
  <3> DEFINE old == ChildrenBefore(Emitted, n + 1, p)
             new == ChildrenBefore(more, n + 2, p)
  <3>1. childOrdinals[p] = Cardinality(old) /\ childOrdinals \in [Ids -> Nat]
   BY DEF NumberingInv, CountersRight, RelationsTypeOK
  <3>2. IsFiniteSet(old) /\ n + 1 \notin old
   <4>1. IsFiniteSet(1 .. n) /\ old \subseteq 1 .. n
    BY <2>1, FS_Interval DEF ChildrenBefore
   <4> QED
    BY <2>1, <4>1, FS_Subset
  <3>3. CASE e.kind = "subelement" /\ e.source = p
   <4>1. new = old \cup {n + 1}
    <5>1. \A j \in 1 .. n : more[j] = Emitted[j]
     BY <2>2
    <5>2. more[n + 1] = e
     BY <2>2
    <5>3. 1 .. (n + 2) - 1 = (1 .. n) \cup {n + 1} /\ (n + 1) - 1 = n
     BY <2>1
    <5> QED
     BY <3>3, <5>1, <5>2, <5>3 DEF ChildrenBefore
   <4>2. childOrdinals'[p] = childOrdinals[p] + 1
    BY <1>2, <3>1, <3>3 DEF Remembers
   <4> QED
    BY <3>1, <3>2, <4>1, <4>2, FS_AddElement
  <3>4. CASE ~(e.kind = "subelement" /\ e.source = p)
   <4>1. new = old
    <5>1. \A j \in 1 .. n : more[j] = Emitted[j]
     BY <2>2
    <5>2. more[n + 1] = e
     BY <2>2
    <5>3. 1 .. (n + 2) - 1 = (1 .. n) \cup {n + 1} /\ (n + 1) - 1 = n
     BY <2>1
    <5> QED
     BY <3>4, <5>1, <5>2, <5>3 DEF ChildrenBefore
   <4>2. childOrdinals'[p] = childOrdinals[p]
    BY <1>2, <2>4, <3>1, <3>4 DEF Remembers, pairVars
   <4> QED
    BY <3>1, <4>1, <4>2
  <3> QED
   BY <3>3, <3>4
 <2> QED
  BY <2>6, <2>7 DEF NumberingInv
<1> QED
 BY <1>1, <1>2 DEF EmittedGrows

\* For every table and page size: the children of an object are numbered from
\* 0 without a gap, in the order they go out.
THEOREM ChildrenInOrder == Spec => []ChildrenAreNumbered
<1>1. Init => NumberingInv
 BY NumberingInit
<1>2. RelationsTypeOK /\ LoadedOK /\ NumberingInv /\ [Next]_relationVars => NumberingInv'
 BY StepGrows, NumberingStep
<1>3. NumberingInv => ChildrenAreNumbered
 BY DEF NumberingInv
<1> QED
 BY <1>1, <1>2, <1>3, RelationsType, PTL DEF Spec
---------------------------------------------------------------------------
(* Members of assemblies and pour units.                                  *)

\* No pour unit is an assembly: what the tables hold when every object is of
\* one kind, as in a model.  The reader keeps no set of these pairs, so it is
\* all that keeps an object from joining the same id twice.
UnitsAreNoAssemblies ==
  \A t \in Tables : \A i \in DOMAIN t.pours : \A j \in DOMAIN t.assemblies :
      t.pours[i].unit # t.assemblies[j].id

\* Each assembly, each member of an assembly and each pair of a pour unit and
\* its object is listed once.
ListedIn(l) ==
  /\ l.assemblies = [r \in 1 .. Len(l.assemblies) |-> l.assemblies[r]]
  /\ l.pours = [r \in 1 .. Len(l.pours) |-> l.pours[r]]
  /\ Len(l.assemblies) \in Nat /\ Len(l.pours) \in Nat
  /\ \A r, q \in 1 .. Len(l.assemblies) :
         l.assemblies[r].id = l.assemblies[q].id => r = q
  /\ \A r \in 1 .. Len(l.assemblies) :
         LET members == l.members[l.assemblies[r].id] IN
         /\ Len(members) \in Nat
         /\ \A k, n \in 1 .. Len(members) : members[k] = members[n] => k = n
  /\ \A r, q \in 1 .. Len(l.pours) :
         /\ l.pours[r][1] = l.pours[q][1]
         /\ l.pours[r][2] = l.pours[q][2]
         => r = q
  /\ \A r \in 1 .. Len(l.assemblies) : \A q \in 1 .. Len(l.pours) :
         l.assemblies[r].id # l.pours[q][1]
ListedOnce == ListedIn(loaded)

\* As many rows are picked as are to be, and all are sorted.
LEMMA PickedLength ==
  ASSUME NEW seq, NEW I \in SUBSET Nat, IsFiniteSet(I)
  PROVE  /\ Len(Pick(seq, I)) = Cardinality(I) /\ Cardinality(I) \in Nat
         /\ DOMAIN Pick(seq, I) = 1 .. Cardinality(I)
         /\ Pick(seq, I) = [n \in 1 .. Cardinality(I) |-> Pick(seq, I)[n]]
<1>1. Cardinality(I) \in Nat
 BY FS_CardinalityType
<1> QED
 BY <1>1 DEF Pick

LEMMA SortedLength ==
  ASSUME NEW S, IsFiniteSet(S)
  PROVE  /\ Len(Sorted(S)) = Cardinality(S) /\ Cardinality(S) \in Nat
         /\ Sorted(S) = [n \in 1 .. Cardinality(S) |-> Sorted(S)[n]]
<1>1. Cardinality(S) \in Nat
 BY FS_CardinalityType
<1>2. Sorted(S) = [n \in 1 .. Cardinality(S) |-> Sorted(S)[n]]
 BY SMTT(30) DEF Sorted
<1>3. DOMAIN Sorted(S) = 1 .. Cardinality(S)
 BY <1>2
<1>4. Len(Sorted(S)) = Cardinality(S)
 BY ONLY <1>1, <1>2, <1>3
<1> QED
 BY <1>1, <1>2, <1>4

\* The values of a function on a finite set are finitely many.
LEMMA FiniteImages ==
  ASSUME NEW S, IsFiniteSet(S), NEW f
  PROVE  IsFiniteSet({f[x] : x \in S})
<1> DEFINE g == [x \in S |-> f[x]]
<1>1. g \in Surjection(S, {f[x] : x \in S})
 BY DEF Surjection
<1> QED
 BY <1>1, FS_Surjection

\* A set of numbers up to n is finite.
LEMMA FirstNumbers ==
  \A n \in Nat : \A I : I \subseteq 1 .. n => I \in SUBSET Nat /\ IsFiniteSet(I)
<1> SUFFICES ASSUME NEW n \in Nat, NEW I, I \subseteq 1 .. n
             PROVE  I \in SUBSET Nat /\ IsFiniteSet(I)
 OBVIOUS
<1>1. IsFiniteSet(1 .. n) /\ I \in SUBSET (1 .. n)
 BY FS_Interval
<1>2. IsFiniteSet(I)
 BY ONLY <1>1, FS_Subset
<1> QED
 BY <1>1, <1>2

\* Only the first rows of a finite list can be picked.
LEMMA VisibleRows ==
  ASSUME NEW R, NEW seq \in Seq(R)
  PROVE  IsFiniteSet(Elements(Visible(seq)))
<1> DEFINE V == {i \in DOMAIN seq : seq[i].visible}
<1>1. DOMAIN seq = 1 .. Len(seq) /\ Len(seq) \in Nat
 BY LenProperties
<1>2. V \in SUBSET (1 .. Len(seq)) /\ IsFiniteSet(1 .. Len(seq))
 BY <1>1, FS_Interval
<1>3. V \in SUBSET Nat /\ IsFiniteSet(V)
 BY ONLY <1>1, <1>2, FS_Subset
<1>4. DOMAIN Visible(seq) = 1 .. Cardinality(V) /\ Cardinality(V) \in Nat
 BY <1>3, PickedLength DEF Visible
<1>5. IsFiniteSet(DOMAIN Visible(seq))
 BY <1>4, FS_Interval
<1>6. IsFiniteSet({Visible(seq)[i] : i \in DOMAIN Visible(seq)})
 BY <1>5, FiniteImages
<1> QED
 BY <1>6 DEF Elements

\* The factory lists no membership twice, and no turn changes the lists.
LEMMA ListsAtFirst == UnitsAreNoAssemblies /\ Init => ListedOnce
<1> SUFFICES ASSUME UnitsAreNoAssemblies, Init PROVE ListedOnce
 OBVIOUS
<1>1. PICK t \in Tables : loaded = Load(t)
 BY DEF Init
<1>2. /\ t.objects \in Seq([id : AnyId, parent : AnyId, assembly : AnyId, kind : Kinds,
                            visible : BOOLEAN])
      /\ t.assemblies \in Seq([id : AnyId, main : AnyId, visible : BOOLEAN])
      /\ t.pours \in Seq([object : AnyId, unit : AnyId, visible : BOOLEAN])
 BY <1>1, TablesAssumption DEF RawTables, AnyId
<1>3. AnyId \subseteq Nat
 BY IdsAssumption DEF AnyId
<1>4. /\ DOMAIN t.objects = 1 .. Len(t.objects) /\ Len(t.objects) \in Nat
      /\ DOMAIN t.assemblies = 1 .. Len(t.assemblies) /\ Len(t.assemblies) \in Nat
      /\ DOMAIN t.pours = 1 .. Len(t.pours) /\ Len(t.pours) \in Nat
 BY <1>2, LenProperties
<1>5. \A I : I \subseteq 1 .. Len(t.objects) \/ I \subseteq 1 .. Len(t.assemblies)
                 \/ I \subseteq 1 .. Len(t.pours)
             => I \in SUBSET Nat /\ IsFiniteSet(I)
 BY <1>4, FirstNumbers
<1> DEFINE A == AssemblyRows(t)
           list == Pick(t.assemblies, A)
<1>6. A \in SUBSET Nat /\ IsFiniteSet(A) /\ A \subseteq DOMAIN t.assemblies
 BY <1>4, <1>5 DEF AssemblyRows
<1>7. PICK at : Picks(at, t.assemblies, A)
 BY ONLY <1>6, PickedRows
<1>8. /\ Len(list) = Cardinality(A) /\ Len(list) \in Nat
      /\ list = [r \in 1 .. Len(list) |-> list[r]]
 BY <1>6, PickedLength
<1>9. \A r, q \in 1 .. Len(list) : list[r].id = list[q].id => r = q
 <2>1. \A i, j \in A : i < j => t.assemblies[i].id # t.assemblies[j].id
  <3> SUFFICES ASSUME NEW i \in A, NEW j \in A, i < j
               PROVE  t.assemblies[i].id # t.assemblies[j].id
   OBVIOUS
  <3>1. i \in 1 .. j - 1 /\ t.assemblies[i].visible
   BY <1>4, <1>6 DEF AssemblyRows
  <3> QED
   BY <3>1 DEF AssemblyRows
 <2>2. \A i, j \in A : t.assemblies[i].id = t.assemblies[j].id => i = j
  BY <1>6, <2>1
 <2> SUFFICES ASSUME NEW r \in 1 .. Cardinality(A), NEW q \in 1 .. Cardinality(A),
                     list[r].id = list[q].id
              PROVE  r = q
  BY <1>8
 <2>3. at[r] \in A /\ at[q] \in A /\ t.assemblies[at[r]].id = t.assemblies[at[q]].id
  BY <1>7 DEF Picks
 <2> QED
  BY <1>7, <2>2, <2>3 DEF Picks
<1>10. \A r \in 1 .. Len(list) : /\ list[r].id \in Endpoints(t)
                                 /\ \E j \in DOMAIN t.assemblies : list[r].id = t.assemblies[j].id
 <2> SUFFICES ASSUME NEW r \in 1 .. Cardinality(A)
              PROVE  /\ list[r].id \in Endpoints(t)
                     /\ \E j \in DOMAIN t.assemblies : list[r].id = t.assemblies[j].id
  BY <1>8
 <2>1. at[r] \in A /\ list[r].id = t.assemblies[at[r]].id
  BY <1>7 DEF Picks
 <2> QED
  BY <1>6, <2>1 DEF AssemblyRows
<1>11. \A a : LET members == MembersOf(t, a) IN
              /\ Len(members) \in Nat
              /\ \A k, n \in 1 .. Len(members) : members[k] = members[n] => k = n
 <2> SUFFICES ASSUME NEW a
              PROVE  LET members == MembersOf(t, a) IN
                     /\ Len(members) \in Nat
                     /\ \A k, n \in 1 .. Len(members) : members[k] = members[n] => k = n
  OBVIOUS
 <2> DEFINE M == {i \in ObjectRows(t) : /\ t.objects[i].assembly = a
                                        /\ t.objects[i].assembly # t.objects[i].id}
            ids == [i \in DOMAIN t.objects |-> t.objects[i].id]
 <2>1. MembersOf(t, a) = Pick(ids, M)
  BY DEF MembersOf
 <2>2. M \in SUBSET Nat /\ IsFiniteSet(M) /\ M \subseteq DOMAIN t.objects
         /\ M \subseteq ObjectRows(t)
  BY <1>4, <1>5 DEF ObjectRows
 <2>3. \A i, j \in ObjectRows(t) : i < j => t.objects[i].id # t.objects[j].id
  <3> SUFFICES ASSUME NEW i \in ObjectRows(t), NEW j \in ObjectRows(t), i < j
               PROVE  t.objects[i].id # t.objects[j].id
   OBVIOUS
  <3>1. i \in 1 .. j - 1 /\ t.objects[i].visible
   BY <1>4 DEF ObjectRows
  <3> QED
   BY <3>1 DEF ObjectRows
 <2>4. \A i, j \in M : ids[i] = ids[j] => i = j
  BY <2>2, <2>3
 <2> HIDE DEF M, ids
 <2>5. PICK of : Picks(of, ids, M)
  BY ONLY <2>2, PickedRows
 <2>6. Len(Pick(ids, M)) = Cardinality(M) /\ Cardinality(M) \in Nat
  BY <2>2, PickedLength
 <2>7. \A k, n \in 1 .. Cardinality(M) : Pick(ids, M)[k] = Pick(ids, M)[n] => k = n
  BY <2>4, <2>5 DEF Picks
 <2> QED
  BY <2>1, <2>6, <2>7
<1> DEFINE V == {i \in DOMAIN t.pours : t.pours[i].visible}
           seen == Visible(t.pours)
           raw == {<<r.unit, r.object>> : r \in Elements(seen)}
           P == {p \in raw : p[1] # 0 /\ p[2] # 0 /\ p[1] # p[2]}
<1>12. /\ IsFiniteSet(P) /\ P \in SUBSET (Nat \X Nat)
       /\ \A p \in P : \E i \in DOMAIN t.pours : p[1] = t.pours[i].unit
 <2>1. V \in SUBSET Nat /\ IsFiniteSet(V) /\ V \subseteq DOMAIN t.pours
  BY <1>4, <1>5
 <2>2. PICK of : Picks(of, t.pours, V)
  BY ONLY <2>1, PickedRows
 <2>3. /\ seen = Pick(t.pours, V) /\ Cardinality(V) \in Nat
       /\ DOMAIN seen = 1 .. Cardinality(V)
  BY <2>1, PickedLength DEF Visible
 <2>4. \A n \in 1 .. Cardinality(V) : of[n] \in DOMAIN t.pours /\ seen[n] = t.pours[of[n]]
  BY <2>1, <2>2, <2>3 DEF Picks
 <2>5. \A n \in 1 .. Cardinality(V) : seen[n].unit \in Nat /\ seen[n].object \in Nat
  <3> SUFFICES ASSUME NEW n \in 1 .. Cardinality(V)
               PROVE  seen[n].unit \in Nat /\ seen[n].object \in Nat
   OBVIOUS
  <3>1. t.pours[of[n]] \in [object : AnyId, unit : AnyId, visible : BOOLEAN]
   BY <1>2, <1>4, <2>4, ElementOfSeq
  <3> QED
   BY <1>3, <2>4, <3>1
 <2>6. raw = {<<seen[n].unit, seen[n].object>> : n \in 1 .. Cardinality(V)}
  BY <2>3 DEF Elements
 <2>7. IsFiniteSet(raw)
  <3> DEFINE pair == [r \in Elements(seen) |-> <<r.unit, r.object>>]
  <3>1. raw = {pair[r] : r \in Elements(seen)}
   OBVIOUS
  <3> HIDE DEF pair
  <3> QED
   BY <1>2, <3>1, VisibleRows, FiniteImages
 <2>8. P \in SUBSET raw
  OBVIOUS
 <2>9. IsFiniteSet(P)
  BY <2>7, <2>8, FS_Subset
 <2>10. P \in SUBSET (Nat \X Nat)
  <3>1. \A n \in 1 .. Cardinality(V) : <<seen[n].unit, seen[n].object>> \in Nat \X Nat
   BY <2>5
  <3> QED
   BY <2>6, <3>1
 <2>11. \A p \in P : \E i \in DOMAIN t.pours : p[1] = t.pours[i].unit
  <3> SUFFICES ASSUME NEW p \in P
               PROVE  \E i \in DOMAIN t.pours : p[1] = t.pours[i].unit
   OBVIOUS
  <3>1. PICK n \in 1 .. Cardinality(V) : p = <<seen[n].unit, seen[n].object>>
   BY <2>6
  <3>2. p[1] = seen[n].unit
   BY <3>1
  <3> QED
   BY <2>4, <3>2
 <2> QED
  BY <2>9, <2>10, <2>11
<1>13. Pours(t) = Sorted(P)
 BY DEF Pours
<1> HIDE DEF V, seen, raw, P
<1>14. /\ Len(Pours(t)) = Cardinality(P) /\ Len(Pours(t)) \in Nat
       /\ Pours(t) = [r \in 1 .. Len(Pours(t)) |-> Pours(t)[r]]
 <2>1. /\ Len(Sorted(P)) = Cardinality(P) /\ Cardinality(P) \in Nat
       /\ Sorted(P) = [n \in 1 .. Cardinality(P) |-> Sorted(P)[n]]
  BY <1>12, SortedLength
 <2> QED
  BY ONLY <1>13, <2>1, Zenon
<1>15. \A r \in 1 .. Len(Pours(t)) : Pours(t)[r] \in P
 BY <1>12, <1>13, <1>14, SortedPairs
<1>16. \A r, q \in 1 .. Len(Pours(t)) : /\ Pours(t)[r][1] = Pours(t)[q][1]
                                        /\ Pours(t)[r][2] = Pours(t)[q][2]
                                        => r = q
 <2>1. \A r, q \in 1 .. Len(Pours(t)) : Pours(t)[r] = Pours(t)[q] => r = q
  BY <1>12, <1>13, <1>14, SortedPairs
 <2>2. \A r \in 1 .. Len(Pours(t)) : Pours(t)[r] \in Nat \X Nat
  BY <1>12, <1>15
 <2>3. \A r \in 1 .. Len(Pours(t)) : Pours(t)[r] = <<Pours(t)[r][1], Pours(t)[r][2]>>
  BY ONLY <2>2
 <2> QED
  BY ONLY <2>1, <2>3
<1>17. \A r \in 1 .. Len(list) : \A q \in 1 .. Len(Pours(t)) : list[r].id # Pours(t)[q][1]
 BY <1>1, <1>10, <1>12, <1>15 DEF UnitsAreNoAssemblies
<1>18. \A r \in 1 .. Len(list) :
           LET members == [a \in Endpoints(t) |-> MembersOf(t, a)][list[r].id] IN
           /\ Len(members) \in Nat
           /\ \A k, n \in 1 .. Len(members) : members[k] = members[n] => k = n
 BY <1>10, <1>11
<1>19. /\ loaded.assemblies = list /\ loaded.pours = Pours(t)
       /\ loaded.members = [a \in Endpoints(t) |-> MembersOf(t, a)]
 BY <1>1 DEF Load
<1> HIDE DEF list
<1>20. /\ Len(loaded.assemblies) \in Nat /\ Len(loaded.pours) \in Nat
       /\ loaded.assemblies = [r \in 1 .. Len(loaded.assemblies) |-> loaded.assemblies[r]]
       /\ loaded.pours = [r \in 1 .. Len(loaded.pours) |-> loaded.pours[r]]
 BY ONLY <1>8, <1>14, <1>19, Zenon
<1>21. \A r, q \in 1 .. Len(loaded.assemblies) :
           loaded.assemblies[r].id = loaded.assemblies[q].id => r = q
 BY ONLY <1>9, <1>19, Zenon
<1>23. \A r, q \in 1 .. Len(loaded.pours) :
           /\ loaded.pours[r][1] = loaded.pours[q][1]
           /\ loaded.pours[r][2] = loaded.pours[q][2]
           => r = q
 BY ONLY <1>16, <1>19, Zenon
<1>24. \A r \in 1 .. Len(loaded.assemblies) : \A q \in 1 .. Len(loaded.pours) :
           loaded.assemblies[r].id # loaded.pours[q][1]
 BY ONLY <1>17, <1>19, Zenon
<1>22. \A r \in 1 .. Len(loaded.assemblies) :
           LET members == loaded.members[loaded.assemblies[r].id] IN
           /\ Len(members) \in Nat
           /\ \A k, n \in 1 .. Len(members) : members[k] = members[n] => k = n
 BY ONLY <1>18, <1>19, SMTT(40)
<1> QED
 BY ONLY <1>20, <1>21, <1>22, <1>23, <1>24, Zenon DEF ListedOnce, ListedIn

LEMMA ListedStep ==
  ASSUME RelationsTypeOK, LoadedOK, ListedOnce, [Next]_relationVars
  PROVE  ListedOnce'
<1>1. loaded' = loaded
 BY LoadedStep
<1> QED
 BY ONLY ListedOnce, <1>1, Zenon DEF ListedOnce

\* The phases in the order of their tables.
LEMMA PhaseOrder ==
  /\ PhaseAfter["parents"] = "stored_relations"
  /\ PhaseAfter["stored_relations"] = "assemblies"
  /\ PhaseAfter["assemblies"] = "pours" /\ PhaseAfter["pours"] = "rebar_splices"
  /\ PhaseAfter["rebar_splices"] = "surface_objects"
  /\ PhaseAfter["surface_objects"] = "component_connections"
  /\ PhaseAfter["component_connections"] = "done"
  /\ Phases = {"parents", "stored_relations", "assemblies", "pours", "rebar_splices",
               "surface_objects", "component_connections", "done"}
 BY DEF PhaseAfter, Phases

---------------------------------------------------------------------------
(* The promised list.  A candidate's place is its table, its row and its   *)
(* number in the row, and the reader goes through the places in            *)
(* lexicographic order: Here is the one it is at, and all it remembers is  *)
(* a matter of the places before it.                                       *)

Triples == Nat \X Nat \X Nat
StageOf ==
  [parents |-> 1, stored_relations |-> 2, assemblies |-> 3, pours |-> 4, rebar_splices |-> 5,
   surface_objects |-> 6, component_connections |-> 7, done |-> 8]
Within == IF initialized THEN member + 2 ELSE endpoint + 1
Here == <<StageOf[phase], row + 1, Within>>
Behind == {q \in Places(loaded) : Before(q, Here)}
Due == KeptPlaces(loaded)

\* Triples are in one strict order, word by word.
LEMMA TripleOrder ==
  ASSUME NEW a \in Triples, NEW b \in Triples
  PROVE  Before(a, b) <=> \/ a[1] < b[1]
                          \/ a[1] = b[1] /\ (a[2] < b[2] \/ (a[2] = b[2] /\ a[3] < b[3]))
<1>1. /\ DOMAIN a = {1, 2, 3} /\ 1 .. 1 - 1 = {} /\ 1 .. 2 - 1 = {1} /\ 1 .. 3 - 1 = {1, 2}
      /\ \A i \in 1 .. 3 : a[i] \in Nat /\ b[i] \in Nat
 BY DEF Triples
<1> QED
 BY <1>1 DEF Before

\* What a place is.
LEMMA PlacesAre ==
  ASSUME NEW l, NEW q
  PROVE  q \in Places(l) <=>
             \E k \in 1 .. 7 : \E i \in DOMAIN Tabled(l)[k] : \E j \in DOMAIN Candidates(l, k, i) :
                 q = <<k, i, j>>
<1> DEFINE Row(k, i) == {<<k, i, j>> : j \in DOMAIN Candidates(l, k, i)}
           Rows(k) == {Row(k, i) : i \in DOMAIN Tabled(l)[k]}
<1>1. \A k, i : q \in Row(k, i) <=> \E j \in DOMAIN Candidates(l, k, i) : q = <<k, i, j>>
 OBVIOUS
<1>2. Places(l) = UNION {UNION Rows(k) : k \in 1 .. 7}
 BY DEF Places
<1> HIDE DEF Row
<1>3. \A k : q \in UNION Rows(k) <=> \E i \in DOMAIN Tabled(l)[k] : q \in Row(k, i)
 BY Zenon
<1> HIDE DEF Rows
<1>4. q \in Places(l) <=> \E k \in 1 .. 7 : q \in UNION Rows(k)
 BY <1>2, Zenon
<1> QED
 BY ONLY <1>1, <1>3, <1>4

\* The candidates of a row, table by table.
LEMMA CandidatesAre ==
  ASSUME NEW l, NEW i
  PROVE
  /\ Tabled(l) = <<l.objects, l.relations, l.assemblies, l.pours, l.splices, l.surfaces, l.joints>>
  /\ LET r == l.objects[i] IN
     Candidates(l, 1, i) = <<Candidate("subelement", r.parent, r.id, "child", "object_parent", 0)>>
  /\ LET r == l.relations[i] IN
     /\ r.visible /\ r.type \in ChildTypes => Candidates(l, 2, i) =
            <<Candidate("subelement", r.source, r.target, "child", "stored_relation", r.id)>>
     /\ r.visible /\ r.type = RebarType => Candidates(l, 2, i) =
            <<Candidate("hosted_on", r.target, r.source, "first", "rebar_host", r.id)>>
     /\ ~r.visible \/ r.type \notin ChildTypes \cup {RebarType} => Candidates(l, 2, i) = <<>>
  /\ LET r == l.pours[i] IN
     Candidates(l, 4, i) =
            <<Candidate("in_assembly", r[2], r[1], "first", "pour_membership", 0)>>
  /\ LET r == l.splices[i] IN
     Candidates(l, 5, i) = <<Candidate("connects_to", r[1], r[2], "first", "rebar_splice", 0),
                             Candidate("connects_to", r[1], r[3], "second", "rebar_splice", 0)>>
  /\ LET r == l.surfaces[i] IN
     Candidates(l, 6, i) =
            <<Candidate("hosted_on", r[1], r[2], "first", "surface_object", 0)>>
  /\ LET r == l.joints[i] IN
     /\ r.visible => Candidates(l, 7, i) =
            <<Candidate("connects_to", r.prim, r.sek, "first", "component_connection", r.id)>>
     /\ ~r.visible => Candidates(l, 7, i) = <<>>
<1> DEFINE T == <<l.objects, l.relations, l.assemblies, l.pours, l.splices, l.surfaces, l.joints>>
<1>1. Tabled(l) = T
 BY DEF Tabled
<1>2. /\ Tabled(l)[1] = l.objects /\ Tabled(l)[2] = l.relations /\ Tabled(l)[3] = l.assemblies
      /\ Tabled(l)[4] = l.pours /\ Tabled(l)[5] = l.splices /\ Tabled(l)[6] = l.surfaces
      /\ Tabled(l)[7] = l.joints
 BY <1>1
<1>3. RebarType \notin ChildTypes
 BY DEF RebarType, ChildTypes
<1> QED
 BY <1>1, <1>2, <1>3 DEF Candidates

\* What an assembly asks for: its main member, then its members in order.
LEMMA MembersAre ==
  ASSUME NEW l, NEW i
  PROVE  LET r == l.assemblies[i] IN
         /\ DOMAIN Candidates(l, 3, i) = 1 .. Len(l.members[r.id]) + 1
         /\ \A j \in 1 .. Len(l.members[r.id]) + 1 :
                Candidates(l, 3, i)[j] =
                    IF j = 1
                    THEN Candidate("in_assembly", r.main, r.id, "first", "assembly_membership", 0)
                    ELSE Candidate("in_assembly", l.members[r.id][j - 1], r.id, "member",
                                   "assembly_membership", 0)
<1>1. Tabled(l)[3] = l.assemblies
 BY DEF Tabled
<1> QED
 BY <1>1 DEF Candidates

\* So do triples.
LEMMA TripleInOrder ==
  ASSUME NEW S \in SUBSET Triples, IsFiniteSet(S)
  PROVE  /\ \A n \in 1 .. Cardinality(S) :
                /\ Sorted(S)[n] \in S
                /\ Cardinality({y \in S : Before(y, Sorted(S)[n])}) = n - 1
         /\ \A x \in S : LET n == Cardinality({y \in S : Before(y, x)}) + 1 IN
                         n \in 1 .. Cardinality(S) /\ Sorted(S)[n] = x
<1> DEFINE Less(a, b) == \/ a[1] < b[1]
                         \/ a[1] = b[1] /\ (a[2] < b[2] \/ (a[2] = b[2] /\ a[3] < b[3]))
<1>1. \A a, b \in S : Before(a, b) <=> Less(a, b)
 BY TripleOrder
<1>2. \A a \in S : a[1] \in Nat /\ a[2] \in Nat /\ a[3] \in Nat /\ a = <<a[1], a[2], a[3]>>
 BY DEF Triples
<1>3. /\ \A a \in S : ~Less(a, a)
      /\ \A a, b \in S : a # b => Less(a, b) \/ Less(b, a)
      /\ \A a, b, c \in S : Less(a, b) /\ Less(b, c) => Less(a, c)
 BY ONLY <1>2
<1> HIDE DEF Less
<1>4. /\ \A a \in S : ~Before(a, a)
      /\ \A a, b \in S : a # b => Before(a, b) \/ Before(b, a)
      /\ \A a, b, c \in S : Before(a, b) /\ Before(b, c) => Before(a, c)
 BY ONLY <1>1, <1>3
<1> QED
 BY ONLY <1>4, IsFiniteSet(S), SortedRanks

\* Every table is a finite list.
TablesAreLists ==
  \A k \in 1 .. 7 :
      /\ Len(Tabled(loaded)[k]) \in Nat
      /\ DOMAIN Tabled(loaded)[k] = 1 .. Len(Tabled(loaded)[k])

LEMMA TablesAtFirst == Init => TablesAreLists
<1> SUFFICES ASSUME Init PROVE TablesAreLists
 OBVIOUS
<1>1. PICK t \in Tables : loaded = Load(t)
 BY DEF Init
<1>2. /\ t.objects \in Seq([id : AnyId, parent : AnyId, assembly : AnyId, kind : Kinds,
                            visible : BOOLEAN])
      /\ t.relations \in Seq(RelationRows)
      /\ t.assemblies \in Seq([id : AnyId, main : AnyId, visible : BOOLEAN])
      /\ t.pours \in Seq([object : AnyId, unit : AnyId, visible : BOOLEAN])
      /\ t.splices \in Seq([id : AnyId, first : AnyId, second : AnyId, visible : BOOLEAN])
      /\ t.surfaces \in Seq([id : AnyId, host : AnyId, visible : BOOLEAN])
      /\ t.joints \in Seq(JointRows)
 BY <1>1, TablesAssumption DEF RawTables, AnyId, RelationRows, JointRows
<1> DEFINE List(s) == Len(s) \in Nat /\ DOMAIN s = 1 .. Len(s)
<1>3. List(t.relations) /\ List(t.joints) /\ List(t.objects) /\ List(t.assemblies)
 BY <1>2, LenProperties
<1>4. \A s, I : List(s) /\ I \subseteq DOMAIN s => List(Pick(s, I))
 <2> SUFFICES ASSUME NEW s, NEW I, List(s), I \in SUBSET DOMAIN s PROVE List(Pick(s, I))
  OBVIOUS
 <2>1. I \subseteq 1 .. Len(s) /\ Len(s) \in Nat
  OBVIOUS
 <2> HIDE DEF List
 <2>2. I \in SUBSET Nat /\ IsFiniteSet(I)
  BY <2>1, FirstNumbers
 <2>3. Len(Pick(s, I)) = Cardinality(I) /\ DOMAIN Pick(s, I) = 1 .. Cardinality(I)
         /\ Cardinality(I) \in Nat
  BY ONLY <2>2, PickedLength
 <2> QED
  BY <2>3 DEF List
<1>5. \A S : IsFiniteSet(S) => List(Sorted(S))
 <2> SUFFICES ASSUME NEW S, IsFiniteSet(S) PROVE List(Sorted(S))
  OBVIOUS
 <2>1. Len(Sorted(S)) = Cardinality(S) /\ Cardinality(S) \in Nat
  BY SortedLength
 <2> QED
  BY <2>1 DEF Sorted
<1> HIDE DEF List
<1>6. List(Pick(t.objects, ObjectRows(t))) /\ List(Pick(t.assemblies, AssemblyRows(t)))
 <2>1. ObjectRows(t) \subseteq DOMAIN t.objects /\ AssemblyRows(t) \subseteq DOMAIN t.assemblies
  BY DEF ObjectRows, AssemblyRows
 <2> QED
  BY <1>3, <1>4, <2>1
<1>7. List(Pours(t)) /\ List(Splices(t)) /\ List(Surfaces(t))
 <2> DEFINE P == Elements(Visible(t.pours))
            S == Elements(Visible(t.splices))
            F == Elements(Visible(t.surfaces))
            p == [r \in P |-> <<r.unit, r.object>>]
            s == [r \in S |-> <<r.id, r.first, r.second>>]
            f == [r \in F |-> <<r.id, r.host>>]
 <2>1. IsFiniteSet(P) /\ IsFiniteSet(S) /\ IsFiniteSet(F)
  BY <1>2, VisibleRows
 <2> HIDE DEF P, S, F
 <2>2. /\ IsFiniteSet({p[r] : r \in P}) /\ IsFiniteSet({s[r] : r \in S})
       /\ IsFiniteSet({f[r] : r \in F})
  <3> HIDE DEF p, s, f
  <3> QED
   BY <2>1, FiniteImages
 <2>3. \A all : IsFiniteSet(all) => \A T : T \subseteq all => List(Sorted(T))
  BY <1>5, FS_Subset
 <2>4. /\ {p[r] : r \in P} = {<<r.unit, r.object>> : r \in P}
       /\ {s[r] : r \in S} = {<<r.id, r.first, r.second>> : r \in S}
       /\ {f[r] : r \in F} = {<<r.id, r.host>> : r \in F}
  OBVIOUS
 <2> HIDE DEF p, s, f
 <2>5. List(Pours(t))
  BY <2>2, <2>3, <2>4 DEF Pours, P
 <2>6. List(Splices(t))
  BY <2>2, <2>3, <2>4 DEF Splices, S
 <2>7. List(Surfaces(t))
  BY <2>2, <2>3, <2>4 DEF Surfaces, F
 <2> QED
  BY <2>5, <2>6, <2>7
<1>8. Tabled(loaded) = <<Pick(t.objects, ObjectRows(t)), t.relations,
                         Pick(t.assemblies, AssemblyRows(t)), Pours(t), Splices(t), Surfaces(t),
                         t.joints>>
 BY <1>1 DEF Tabled, Load
<1>9. \A k \in 1 .. 7 : List(Tabled(loaded)[k])
 BY <1>3, <1>6, <1>7, <1>8
<1> QED
 BY <1>9 DEF TablesAreLists, List

\* The places are finitely many triples; their numbers start at 1.
LEMMA PlacesAreTriples ==
  ASSUME TablesAreLists, ListedOnce
  PROVE  /\ Places(loaded) \subseteq Triples /\ IsFiniteSet(Places(loaded))
         /\ \A q \in Places(loaded) :
               /\ q[1] \in 1 .. 7 /\ q[2] \in 1 .. Len(Tabled(loaded)[q[1]]) /\ q[3] >= 1
               /\ q[3] \in DOMAIN Candidates(loaded, q[1], q[2])
<1>1. \A k \in 1 .. 7 : \A i \in DOMAIN Tabled(loaded)[k] :
         \E n \in Nat : DOMAIN Candidates(loaded, k, i) = 1 .. n
 <2> SUFFICES ASSUME NEW k \in 1 .. 7, NEW i \in DOMAIN Tabled(loaded)[k]
              PROVE  \E n \in Nat : DOMAIN Candidates(loaded, k, i) = 1 .. n
  OBVIOUS
 <2> DEFINE c == Candidates(loaded, k, i)
 <2>1. CASE k = 3
  <3> DEFINE width == Len(loaded.members[loaded.assemblies[i].id]) + 1
  <3>0. Tabled(loaded)[3] = loaded.assemblies
   BY DEF Tabled
  <3>1. i \in 1 .. Len(loaded.assemblies)
   BY <2>1, <3>0 DEF TablesAreLists
  <3>2. width \in Nat
   BY <3>1, SMTT(30) DEF ListedOnce, ListedIn
  <3>3. DOMAIN c = 1 .. width
   BY <2>1, MembersAre
  <3> QED
   BY <3>2, <3>3
 <2>2. CASE k # 3
  <3> DEFINE Short == DOMAIN c = {} \/ DOMAIN c = {1} \/ DOMAIN c = {1, 2}
  <3>0. k \in {1, 2, 4, 5, 6, 7}
   BY <2>2
  <3>3. k \in {1, 4, 6} => Short
   BY CandidatesAre
  <3>4. k = 2 => Short
   BY CandidatesAre
  <3>5. k = 5 => Short
   BY CandidatesAre
  <3>6. k = 7 => Short
   BY CandidatesAre
  <3>1. Short
   BY <3>0, <3>3, <3>4, <3>5, <3>6
  <3>2. 1 .. 0 = {} /\ 1 .. 1 = {1} /\ 1 .. 2 = {1, 2}
   OBVIOUS
  <3> QED
   BY <3>1, <3>2
 <2> QED
  BY <2>1, <2>2
<1> DEFINE Row(k, i) == {<<k, i, j>> : j \in DOMAIN Candidates(loaded, k, i)}
           Rows(k) == {Row(k, i) : i \in DOMAIN Tabled(loaded)[k]}
<1>2. \A k \in 1 .. 7 : IsFiniteSet(UNION Rows(k))
 <2> SUFFICES ASSUME NEW k \in 1 .. 7 PROVE IsFiniteSet(UNION Rows(k))
  OBVIOUS
 <2>1. \A i \in DOMAIN Tabled(loaded)[k] : IsFiniteSet(Row(k, i))
  <3> SUFFICES ASSUME NEW i \in DOMAIN Tabled(loaded)[k] PROVE IsFiniteSet(Row(k, i))
   OBVIOUS
  <3> DEFINE D == DOMAIN Candidates(loaded, k, i)
             f == [j \in D |-> <<k, i, j>>]
  <3>1. IsFiniteSet(D)
   BY <1>1, FS_Interval
  <3> HIDE DEF D
  <3>2. IsFiniteSet({f[j] : j \in D})
   BY <3>1, FiniteImages
  <3>3. {f[j] : j \in D} = {<<k, i, j>> : j \in D}
   OBVIOUS
  <3> QED
   BY <3>2, <3>3 DEF D
 <2> HIDE DEF Row
 <2> DEFINE g == [i \in DOMAIN Tabled(loaded)[k] |-> Row(k, i)]
 <2>2. IsFiniteSet(DOMAIN Tabled(loaded)[k])
  <3>1. DOMAIN Tabled(loaded)[k] = 1 .. Len(Tabled(loaded)[k]) /\ Len(Tabled(loaded)[k]) \in Nat
   BY DEF TablesAreLists
  <3> QED
   BY <3>1, FirstNumbers
 <2>3. IsFiniteSet({g[i] : i \in DOMAIN Tabled(loaded)[k]})
  <3> HIDE DEF g
  <3> QED
   BY <2>2, FiniteImages
 <2>4. {g[i] : i \in DOMAIN Tabled(loaded)[k]} = Rows(k)
  OBVIOUS
 <2>5. IsFiniteSet(Rows(k)) /\ \A S \in Rows(k) : IsFiniteSet(S)
  BY <2>1, <2>3, <2>4
 <2> HIDE DEF Rows
 <2> QED
  BY <2>5, FS_UNION
<1>3. Places(loaded) = UNION {UNION Rows(k) : k \in 1 .. 7}
 BY DEF Places
<1>4. IsFiniteSet(Places(loaded))
 <2> HIDE DEF Rows
 <2> DEFINE h == [k \in 1 .. 7 |-> UNION Rows(k)]
 <2>1. IsFiniteSet({h[k] : k \in 1 .. 7})
  <3> HIDE DEF h
  <3>1. IsFiniteSet(1 .. 7)
   BY FirstNumbers
  <3> QED
   BY <3>1, FiniteImages
 <2>2. {h[k] : k \in 1 .. 7} = {UNION Rows(k) : k \in 1 .. 7}
  OBVIOUS
 <2> HIDE DEF h
 <2>3. \A S \in {UNION Rows(k) : k \in 1 .. 7} : IsFiniteSet(S)
  BY <1>2
 <2> QED
  BY <1>3, <2>1, <2>2, <2>3, FS_UNION
<1>5. ASSUME NEW q \in Places(loaded)
      PROVE  /\ q \in Triples /\ q[1] \in 1 .. 7 /\ q[2] \in 1 .. Len(Tabled(loaded)[q[1]])
             /\ q[3] >= 1 /\ q[3] \in DOMAIN Candidates(loaded, q[1], q[2])
 <2>0. PICK k \in 1 .. 7 : \E i \in DOMAIN Tabled(loaded)[k] :
           \E j \in DOMAIN Candidates(loaded, k, i) : q = <<k, i, j>>
  BY PlacesAre
 <2>1. PICK i \in DOMAIN Tabled(loaded)[k] :
           \E j \in DOMAIN Candidates(loaded, k, i) : q = <<k, i, j>>
  BY <2>0
 <2>2. PICK n \in Nat : DOMAIN Candidates(loaded, k, i) = 1 .. n
  BY <1>1
 <2>3. i \in 1 .. Len(Tabled(loaded)[k]) /\ Len(Tabled(loaded)[k]) \in Nat
  BY DEF TablesAreLists
 <2> QED
  BY <2>1, <2>2, <2>3 DEF Triples
<1> QED
 BY <1>4, <1>5

\* A row or a member is being gone through only in its own phase.
CursorsAtRest ==
  /\ row = 0 \/ (phase # "done" /\ row < Len(TableOf(phase)))
  /\ ~initialized => member = 0

ReaderOK == RelationsTypeOK /\ LoadedOK /\ ListedOnce /\ TablesAreLists /\ CursorsAtRest

\* The number of the table of each phase.
LEMMA Stages ==
  /\ StageOf["done"] = 8
  /\ \A p \in Phases \ {"done"} : /\ StageOf[p] \in 1 .. 7
                                  /\ StageOf[PhaseAfter[p]] = StageOf[p] + 1
                                  /\ Tabled(loaded)[StageOf[p]] = TableOf(p)
<1> SUFFICES ASSUME NEW p \in Phases \ {"done"}
             PROVE  /\ StageOf[p] \in 1 .. 7 /\ StageOf[PhaseAfter[p]] = StageOf[p] + 1
                    /\ Tabled(loaded)[StageOf[p]] = TableOf(p)
 BY DEF StageOf
<1>1. p \in {"parents", "stored_relations", "assemblies", "pours", "rebar_splices",
             "surface_objects", "component_connections"}
 BY PhaseOrder
<1>2. StageOf[p] \in 1 .. 7 /\ StageOf[PhaseAfter[p]] = StageOf[p] + 1
 BY <1>1, PhaseOrder DEF StageOf
<1>3. Tabled(loaded)[StageOf[p]] = TableOf(p)
 BY <1>1 DEF StageOf, Tabled, TableOf
<1> QED
 BY <1>2, <1>3

\* One triple is before another when its table, row or number is.
LEMMA BeforePlace ==
  ASSUME NEW q \in Triples, NEW k \in Nat, NEW i \in Nat, NEW j \in Nat
  PROVE  Before(q, <<k, i, j>>) <=> \/ q[1] < k
                                    \/ q[1] = k /\ (q[2] < i \/ (q[2] = i /\ q[3] < j))
BY TripleOrder DEF Triples

\* Where the reader is when it is at a row.
LEMMA AtRow ==
  ASSUME ReaderOK, phase # "done", row < Len(TableOf(phase))
  PROVE  LET k == StageOf[phase] IN
         /\ k \in 1 .. 7 /\ Here = <<k, row + 1, Within>> /\ Within \in Nat \ {0}
         /\ Len(Tabled(loaded)[k]) \in Nat /\ Tabled(loaded)[k] = TableOf(phase)
         /\ row + 1 \in DOMAIN Tabled(loaded)[k] /\ Current = Tabled(loaded)[k][row + 1]
         /\ Here \in Places(loaded) <=> Within \in DOMAIN Candidates(loaded, k, row + 1)
<1> DEFINE k == StageOf[phase]
<1>1. k \in 1 .. 7 /\ Tabled(loaded)[k] = TableOf(phase) /\ row \in Nat
 BY Stages DEF ReaderOK, RelationsTypeOK
<1>2. Within \in Nat \ {0}
 BY DEF ReaderOK, RelationsTypeOK, Within
<1>3. /\ Len(Tabled(loaded)[k]) \in Nat
      /\ DOMAIN Tabled(loaded)[k] = 1 .. Len(Tabled(loaded)[k])
 BY <1>1 DEF ReaderOK, TablesAreLists
<1>4. row + 1 \in DOMAIN Tabled(loaded)[k]
 BY <1>1, <1>3
<1>5. Here \in Places(loaded) <=> Within \in DOMAIN Candidates(loaded, k, row + 1)
 <2>1. Here \in Places(loaded) <=>
             \E a \in 1 .. 7 : \E i \in DOMAIN Tabled(loaded)[a] :
                 \E j \in DOMAIN Candidates(loaded, a, i) : Here = <<a, i, j>>
  BY PlacesAre
 <2>2. \A a, i, j : Here = <<a, i, j>> <=> a = k /\ i = row + 1 /\ j = Within
  BY DEF Here
 <2> HIDE DEF k
 <2> QED
  BY ONLY <1>1, <1>4, <2>1, <2>2
<1> QED
 BY <1>1, <1>2, <1>3, <1>4, <1>5 DEF Here, Current

\* How an emitting step moves the reader.
Advances ==
  LET k == StageOf[phase] IN
  \/ UNCHANGED <<phase, row>> /\ Within' = Within + 1 /\ phase # "done"
       /\ row < Len(TableOf(phase))
  \/ /\ RowThrough /\ Within' = 1 /\ phase # "done" /\ row < Len(TableOf(phase))
     /\ \A j \in DOMAIN Candidates(loaded, k, row + 1) : j <= Within
  \/ /\ phase # "done" /\ phase' = PhaseAfter[phase] /\ row' = row /\ Within' = 1 /\ Within = 1
     /\ TableOf(phase) = <<>>

\* The place the reader is at is the only one that a turn puts behind it.
LEMMA Passes ==
  ASSUME ReaderOK, Advances, UNCHANGED loaded
  PROVE  Behind' = Behind \cup ({Here} \cap Places(loaded))
<1> DEFINE k == StageOf[phase]
<1>1. /\ k \in 1 .. 7 /\ StageOf[PhaseAfter[phase]] = k + 1 /\ row \in Nat /\ phase # "done"
      /\ Within \in Nat \ {0} /\ Tabled(loaded)[k] = TableOf(phase)
 BY Stages DEF ReaderOK, RelationsTypeOK, Within, Advances
<1>2. /\ Behind' = {q \in Places(loaded) : Before(q, Here')}
      /\ Here = <<k, row + 1, Within>> /\ Here' = <<StageOf[phase'], row' + 1, Within'>>
 BY DEF Behind, Here
<1>3. \A q \in Places(loaded) :
          /\ q \in Triples /\ q[1] \in Nat /\ q[2] \in Nat \ {0} /\ q[3] \in Nat \ {0}
          /\ q[2] <= Len(Tabled(loaded)[q[1]]) /\ q[3] \in DOMAIN Candidates(loaded, q[1], q[2])
          /\ q = <<q[1], q[2], q[3]>>
 BY PlacesAreTriples, SMTT(30) DEF ReaderOK, Triples, TablesAreLists
<1>4. ASSUME NEW q \in Places(loaded)
      PROVE  Before(q, Here') <=> Before(q, Here) \/ q = Here
 <2>0. PICK a, b, c : /\ a = q[1] /\ b = q[2] /\ c = q[3] /\ q \in Triples
                      /\ a \in Nat /\ b \in Nat \ {0} /\ c \in Nat \ {0}
                      /\ b <= Len(Tabled(loaded)[a]) /\ c \in DOMAIN Candidates(loaded, a, b)
                      /\ q = <<a, b, c>>
  BY <1>3
 <2> DEFINE Less(x, y, z) == a < x \/ (a = x /\ (b < y \/ (b = y /\ c < z)))
 <2>7. \A x, y, z \in Nat : Before(q, <<x, y, z>>) <=> Less(x, y, z)
  <3> SUFFICES ASSUME NEW x \in Nat, NEW y \in Nat, NEW z \in Nat
               PROVE  Before(q, <<x, y, z>>) <=> Less(x, y, z)
   OBVIOUS
  <3> QED
   BY <2>0, BeforePlace
 <2>8. \A x, y, z \in Nat : q = <<x, y, z>> <=> a = x /\ b = y /\ c = z
  BY <2>0
 <2>1. \A x, y, z \in Nat : \A h : h = <<x, y, z>> =>
           /\ Before(q, h) <=> Less(x, y, z)
           /\ q = h <=> a = x /\ b = y /\ c = z
  BY <2>7, <2>8, ZenonT(40)
 <2>2. PICK w \in Nat \ {0}, r \in Nat : w = Within /\ r = row
  BY <1>1
 <2>3. k \in Nat
  BY <1>1
 <2> HIDE DEF k
 <2>9. Before(q, Here) \/ q = Here <=> Less(k, r + 1, w) \/ (a = k /\ b = r + 1 /\ c = w)
  <3>1. Here = <<k, r + 1, w>>
   BY <1>2, <2>2 DEF k
  <3> QED
   BY ONLY <2>1, <2>2, <2>3, <3>1
 <2>10. \A x, y, z \in Nat : Here' = <<x, y, z>> => (Before(q, Here') <=> Less(x, y, z))
  BY <2>1
 <2>4. CASE UNCHANGED <<phase, row>> /\ Within' = Within + 1
  <3>1. Before(q, Here') <=> Less(k, r + 1, w + 1)
   BY <1>2, <2>2, <2>3, <2>4, <2>10 DEF k
  <3> QED
   BY ONLY <2>0, <2>2, <2>3, <2>9, <3>1
 <2>5. CASE /\ RowThrough /\ Within' = 1 /\ row < Len(TableOf(phase))
            /\ \A j \in DOMAIN Candidates(loaded, k, row + 1) : j <= Within
  <3>1. a = k /\ b = r + 1 => c <= w
   BY <2>0, <2>2, <2>5
  <3>2. CASE row' = row + 1 /\ UNCHANGED phase
   <4>1. Before(q, Here') <=> Less(k, (r + 1) + 1, 1)
    BY <1>2, <2>2, <2>3, <2>5, <2>10, <3>2 DEF k
   <4> QED
    BY ONLY <2>0, <2>2, <2>3, <2>9, <3>1, <4>1
  <3>3. CASE row + 1 = Len(TableOf(phase)) /\ phase' = PhaseAfter[phase] /\ row' = 0
   <4>1. Before(q, Here') <=> Less(k + 1, 1, 1)
    BY <1>1, <1>2, <2>3, <2>5, <2>10, <3>3
   <4>2. a = k => b <= r + 1
    BY <1>1, <2>0, <2>2, <3>3
   <4> QED
    BY ONLY <2>0, <2>2, <2>3, <2>9, <3>1, <4>1, <4>2
  <3> QED
   BY <2>5, <3>2, <3>3 DEF RowThrough
 <2>6. CASE phase' = PhaseAfter[phase] /\ row' = row /\ Within' = 1 /\ TableOf(phase) = <<>>
  <3>1. row' = 0
   BY <1>1, <2>6 DEF ReaderOK, CursorsAtRest
  <3>2. Before(q, Here') <=> Less(k + 1, 1, 1)
   BY <1>1, <1>2, <2>3, <2>6, <2>10, <3>1
  <3>3. a # k
   BY <1>1, <2>0, <2>6
  <3> QED
   BY ONLY <2>0, <2>2, <2>3, <2>9, <3>2, <3>3
 <2> QED
  BY <2>4, <2>5, <2>6 DEF Advances, k
<1> QED
 BY <1>2, <1>4 DEF Behind

\* An edge of this kind and with these ends is behind the reader.
Taken(kind, source, target) ==
  \E p \in Behind :
      LET d == CandidateAt(loaded, p) IN
      Promised(loaded, d) /\ d.kind = kind /\ d.source = source /\ d.target = target

\* Of what is kept and behind the reader, the children of s, the members of a.
ChildrenOut(s) ==
  {p \in Due : /\ Before(p, Here) /\ CandidateAt(loaded, p).rule = "child"
               /\ CandidateAt(loaded, p).source = s}
MembersOut(a) ==
  {p \in Due : /\ Before(p, Here) /\ CandidateAt(loaded, p).rule = "member"
               /\ CandidateAt(loaded, p).target = a}

\* The sets hold the pairs behind the reader, the counters their numbers.
PairsExact ==
  \A s, t : /\ <<s, t>> \in subelements <=> Taken("subelement", s, t)
            /\ <<s, t>> \in hosted <=> Taken("hosted_on", s, t)
            /\ <<s, t>> \in connections <=> Taken("connects_to", s, t)
CountersExact == \A s \in Ids : childOrdinals[s] = Cardinality(ChildrenOut(s))
OrdinalExact == initialized => ordinal = 1 + Cardinality(MembersOut(Current.id))
MemoryOK == PairsExact /\ CountersExact /\ OrdinalExact

\* What a step does for the place the reader is at.
Noted(c) ==
  LET pair == <<c.source, c.target>> IN
  /\ subelements' = IF c.kind = "subelement" THEN subelements \cup {pair} ELSE subelements
  /\ hosted' = IF c.kind = "hosted_on" THEN hosted \cup {pair} ELSE hosted
  /\ connections' = IF c.kind = "connects_to" THEN connections \cup {pair} ELSE connections
  /\ childOrdinals' = IF c.kind = "subelement"
                      THEN [childOrdinals EXCEPT ![c.source] = @ + 1] ELSE childOrdinals
Treated ==
  \/ /\ Here \in Due /\ batch' = Append(batch, EdgeAt(loaded, Due, Here))
     /\ Noted(CandidateAt(loaded, Here))
  \/ Here \notin Due /\ UNCHANGED <<batch, pairVars>>

\* A place is due when its edge is promised and not yet behind the reader.
LEMMA HereIsDue ==
  LET c == CandidateAt(loaded, Here) IN
  Here \in Due <=> /\ Here \in Places(loaded) /\ Promised(loaded, c)
                   /\ ~Taken(c.kind, c.source, c.target)
BY DEF Due, KeptPlaces, Taken, Behind, SameEdge

\* What the reader finds valid is what is promised.
LEMMA ValidIsPromised ==
  ASSUME LoadedOK, NEW c
  PROVE  /\ ValidEdge(c.source, c.target) <=>
                /\ c.source # c.target /\ {c.source, c.target} \subseteq loaded.endpoints
                /\ loaded.kinds[c.source] \notin Features
                /\ loaded.kinds[c.target] \notin Features
         /\ ValidEdge(c.source, c.target) => c.source \in Ids /\ c.target \in Ids
BY IdsAssumption DEF LoadedOK, ValidEdge

\* Each way to emit does for a candidate at hand what is due, link by link.
LEMMA SubelementTreated ==
  ASSUME ReaderOK, MemoryOK, NEW p, NEW t, NEW origin \in {"object_parent", "stored_relation"},
         NEW via, Here \in Places(loaded),
         CandidateAt(loaded, Here) = Candidate("subelement", p, t, "child", origin, via),
         AppendSubelement(p, t, origin, via), UNCHANGED <<hosted, connections>>
  PROVE  Treated
<1> DEFINE c == CandidateAt(loaded, Here)
<1>1. /\ c.kind = "subelement" /\ c.source = p /\ c.target = t /\ c.rule = "child"
      /\ c.origin = origin /\ c.via = via
 BY DEF Candidate
<1>2. Promised(loaded, c) <=> ValidEdge(p, t)
 BY <1>1, ValidIsPromised DEF ReaderOK, Promised
<1>3. <<p, t>> \in subelements <=> Taken("subelement", p, t)
 BY DEF MemoryOK, PairsExact
<1>4. Here \in Due <=> ValidEdge(p, t) /\ <<p, t>> \notin subelements
 BY <1>1, <1>2, <1>3, HereIsDue
<1>5. ValidEdge(p, t) => NumberAt(loaded, Due, Here) = childOrdinals[p]
 <2> SUFFICES ASSUME ValidEdge(p, t) PROVE NumberAt(loaded, Due, Here) = childOrdinals[p]
  OBVIOUS
 <2>1. p \in Ids
  BY <1>1, ValidIsPromised DEF ReaderOK
 <2>2. {q \in {q \in Due : Before(q, Here) /\ CandidateAt(loaded, q).rule = c.rule} :
           CandidateAt(loaded, q).source = c.source} = ChildrenOut(p)
  BY <1>1 DEF ChildrenOut
 <2>3. childOrdinals[p] = Cardinality(ChildrenOut(p))
  BY <2>1 DEF MemoryOK, CountersExact
 <2> QED
  BY <1>1, <2>2, <2>3 DEF NumberAt
<1>6. ValidEdge(p, t) =>
          EdgeAt(loaded, Due, Here) = Edge("subelement", p, t, childOrdinals[p], origin, via)
 BY <1>1, <1>5 DEF EdgeAt, Edge
<1> QED
 BY <1>1, <1>4, <1>6 DEF AppendSubelement, Treated, Noted, pairVars

LEMMA HostedTreated ==
  ASSUME ReaderOK, MemoryOK, NEW g, NEW h, NEW kinds, NEW origin, NEW via,
         \/ origin = "rebar_host" /\ kinds = Reinforcement
         \/ origin = "surface_object" /\ kinds = {"surface_object"},
         Here \in Places(loaded),
         CandidateAt(loaded, Here) = Candidate("hosted_on", g, h, "first", origin, via),
         AppendHosted(g, h, kinds, origin, via),
         UNCHANGED <<subelements, connections, childOrdinals>>
  PROVE  Treated
<1> DEFINE c == CandidateAt(loaded, Here)
           Fits == /\ ValidEdge(g, h) /\ <<g, h>> \notin hosted
                   /\ loaded.kinds[g] \in kinds /\ loaded.kinds[h] \in HostKinds
<1>1. /\ c.kind = "hosted_on" /\ c.source = g /\ c.target = h /\ c.rule = "first"
      /\ c.origin = origin /\ c.via = via
 BY DEF Candidate
<1>2. Promised(loaded, c) <=>
          ValidEdge(g, h) /\ loaded.kinds[g] \in kinds /\ loaded.kinds[h] \in HostKinds
 BY <1>1, ValidIsPromised DEF ReaderOK, Promised
<1>3. <<g, h>> \in hosted <=> Taken("hosted_on", g, h)
 BY DEF MemoryOK, PairsExact
<1>4. Here \in Due <=> Fits
 BY <1>1, <1>2, <1>3, HereIsDue
<1>5. EdgeAt(loaded, Due, Here) = Edge("hosted_on", g, h, 0, origin, via)
 BY <1>1 DEF EdgeAt, NumberAt, Edge
<1> QED
 BY <1>1, <1>4, <1>5 DEF AppendHosted, Treated, Noted, pairVars

LEMMA ConnectsTreated ==
  ASSUME ReaderOK, MemoryOK, NEW p, NEW t, NEW rule \in {"first", "second"},
         NEW origin \in {"rebar_splice", "component_connection"}, NEW via,
         Here \in Places(loaded),
         CandidateAt(loaded, Here) = Candidate("connects_to", p, t, rule, origin, via),
         AppendConnects(p, t, IF rule = "first" THEN 0 ELSE 1, origin, via),
         UNCHANGED <<subelements, hosted, childOrdinals>>
  PROVE  Treated
<1> DEFINE c == CandidateAt(loaded, Here)
           number == IF rule = "first" THEN 0 ELSE 1
<1>1. /\ c.kind = "connects_to" /\ c.source = p /\ c.target = t /\ c.rule = rule
      /\ c.origin = origin /\ c.via = via
 BY DEF Candidate
<1>2. Promised(loaded, c) <=> ValidEdge(p, t)
 BY <1>1, ValidIsPromised DEF ReaderOK, Promised
<1>3. <<p, t>> \in connections <=> Taken("connects_to", p, t)
 BY DEF MemoryOK, PairsExact
<1>4. Here \in Due <=> ValidEdge(p, t) /\ <<p, t>> \notin connections
 BY <1>1, <1>2, <1>3, HereIsDue
<1>5. EdgeAt(loaded, Due, Here) = Edge("connects_to", p, t, number, origin, via)
 BY <1>1 DEF EdgeAt, NumberAt, Edge
<1> QED
 BY <1>1, <1>4, <1>5 DEF AppendConnects, Treated, Noted, pairVars

LEMMA MemberTreated ==
  ASSUME ReaderOK, NEW m, NEW a, NEW rule, NEW origin \in {"assembly_membership",
         "pour_membership"}, Here \in Places(loaded),
         CandidateAt(loaded, Here) = Candidate("in_assembly", m, a, rule, origin, 0),
         ~Taken("in_assembly", m, a), AppendMember(m, a, NumberAt(loaded, Due, Here), origin),
         UNCHANGED pairVars
  PROVE  Treated
<1> DEFINE c == CandidateAt(loaded, Here)
<1>1. /\ c.kind = "in_assembly" /\ c.source = m /\ c.target = a /\ c.origin = origin
      /\ c.via = 0
 BY DEF Candidate
<1>2. Here \in Due <=> ValidEdge(m, a)
 BY <1>1, ValidIsPromised, HereIsDue DEF ReaderOK, Promised
<1>3. EdgeAt(loaded, Due, Here)
        = Edge("in_assembly", m, a, NumberAt(loaded, Due, Here), origin, 0)
 BY <1>1 DEF EdgeAt, Edge
<1> QED
 BY <1>1, <1>2, <1>3 DEF AppendMember, Treated, Noted, pairVars

\* Which candidates go to an assembly or a pour unit, and which are numbered.
LEMMA Shapes ==
  ASSUME ReaderOK, NEW q \in Places(loaded)
  PROVE  LET c == CandidateAt(loaded, q)
             a == loaded.assemblies[q[2]]
             u == loaded.pours[q[2]]
         IN
         /\ c.kind = "subelement" <=> c.rule = "child"
         /\ c.rule = "member" => c.kind = "in_assembly" /\ q[1] = 3 /\ q[3] # 1
         /\ q[1] \in {3, 4} => c.kind = "in_assembly"
         /\ c.kind = "in_assembly" =>
               \/ /\ q[1] = 3 /\ q[2] \in 1 .. Len(loaded.assemblies) /\ c.target = a.id
                  /\ \/ q[3] = 1 /\ c.source = a.main
                     \/ /\ q[3] - 1 \in 1 .. Len(loaded.members[a.id])
                        /\ c.source = loaded.members[a.id][q[3] - 1]
               \/ /\ q[1] = 4 /\ q[2] \in 1 .. Len(loaded.pours) /\ q[3] = 1
                  /\ c.source = u[2] /\ c.target = u[1]
<1> DEFINE c == CandidateAt(loaded, q)
           k == q[1]
           i == q[2]
<1>1. /\ k \in {1, 2, 3, 4, 5, 6, 7} /\ i \in 1 .. Len(Tabled(loaded)[k]) /\ q[3] >= 1
      /\ q[3] \in DOMAIN Candidates(loaded, k, i) /\ q[3] \in Nat
      /\ c = Candidates(loaded, k, i)[q[3]]
 BY PlacesAreTriples DEF ReaderOK, Triples, CandidateAt
<1>2. Tabled(loaded)[3] = loaded.assemblies /\ Tabled(loaded)[4] = loaded.pours
 BY DEF Tabled
<1> DEFINE linked == c.kind \in {"subelement", "hosted_on", "connects_to"}
                     /\ c.rule \in {"child", "first", "second"}
                     /\ (c.kind = "subelement" <=> c.rule = "child")
<1>3. k = 1 => linked
 BY <1>1, CandidatesAre DEF Candidate
<1>4. k = 2 => linked
 <2> DEFINE r == loaded.relations[i]
            child == Candidate("subelement", r.source, r.target, "child", "stored_relation", r.id)
            host == Candidate("hosted_on", r.target, r.source, "first", "rebar_host", r.id)
 <2>1. Candidates(loaded, 2, i) \in {<<child>>, <<host>>, <<>>}
  BY CandidatesAre
 <2> QED
  BY <1>1, <2>1 DEF Candidate
<1>5. k = 5 => linked
 BY <1>1, CandidatesAre DEF Candidate
<1>6. k = 6 => linked
 BY <1>1, CandidatesAre DEF Candidate
<1>7. k = 7 => linked
 <2> DEFINE r == loaded.joints[i]
            joint == Candidate("connects_to", r.prim, r.sek, "first", "component_connection", r.id)
 <2>1. Candidates(loaded, 7, i) \in {<<joint>>, <<>>}
  BY CandidatesAre
 <2> QED
  BY <1>1, <2>1 DEF Candidate
<1>8. CASE k = 4
 <2>1. Candidates(loaded, 4, i) = <<Candidate("in_assembly", loaded.pours[i][2],
                                              loaded.pours[i][1], "first", "pour_membership", 0)>>
  BY CandidatesAre
 <2>2. q[3] = 1
  BY <1>1, <1>8, <2>1
 <2> QED
  BY <1>1, <1>2, <1>8, <2>1, <2>2 DEF Candidate
<1>9. CASE k = 3
 <2> DEFINE a == loaded.assemblies[i]
            n == Len(loaded.members[a.id])
 <2>1. i \in 1 .. Len(loaded.assemblies) /\ n \in Nat
  BY <1>1, <1>2, <1>9 DEF ReaderOK, ListedOnce, ListedIn
 <2>2. PICK j \in Nat : j = q[3] /\ j \in 1 .. n + 1 /\ c =
            IF j = 1
            THEN Candidate("in_assembly", a.main, a.id, "first", "assembly_membership", 0)
            ELSE Candidate("in_assembly", loaded.members[a.id][j - 1], a.id, "member",
                           "assembly_membership", 0)
  <3>1. q[3] \in 1 .. n + 1
   BY <1>1, <1>9, MembersAre, SMTT(30)
  <3>2. c = Candidates(loaded, 3, i)[q[3]]
   BY <1>1, <1>9
  <3>3. \A j \in 1 .. n + 1 : Candidates(loaded, 3, i)[j] =
            IF j = 1
            THEN Candidate("in_assembly", a.main, a.id, "first", "assembly_membership", 0)
            ELSE Candidate("in_assembly", loaded.members[a.id][j - 1], a.id, "member",
                           "assembly_membership", 0)
   BY MembersAre
  <3> HIDE DEF c, n, a, i
  <3> QED
   BY ONLY <1>1, <3>1, <3>2, <3>3
 <2>4. CASE j = 1
  <3>1. c = Candidate("in_assembly", a.main, a.id, "first", "assembly_membership", 0)
   BY <2>2, <2>4
  <3> QED
   BY <1>9, <2>1, <2>2, <2>4, <3>1 DEF Candidate
 <2>5. CASE j # 1
  <3>1. c = Candidate("in_assembly", loaded.members[a.id][j - 1], a.id, "member",
                      "assembly_membership", 0)
   BY <2>2, <2>5
  <3> HIDE DEF n
  <3>2. j - 1 \in 1 .. n
   BY ONLY <2>1, <2>2, <2>5
  <3> USE DEF n
  <3> QED
   BY <1>9, <2>1, <2>2, <2>5, <3>1, <3>2, SMTT(30) DEF Candidate
 <2> QED
  BY <2>4, <2>5
<1> QED
 BY <1>1, <1>3, <1>4, <1>5, <1>6, <1>7, <1>8, <1>9

\* What is before a place of table k and row i is in an earlier table, in an
\* earlier row, or has a smaller number.
LEMMA BehindIs ==
  ASSUME ReaderOK, phase # "done", row < Len(TableOf(phase)), NEW p \in Places(loaded),
         Before(p, Here)
  PROVE  LET k == StageOf[phase] IN
         \/ p[1] < k
         \/ p[1] = k /\ (p[2] < row + 1 \/ (p[2] = row + 1 /\ p[3] < Within))
<1>1. /\ StageOf[phase] \in 1 .. 7 /\ Here = <<StageOf[phase], row + 1, Within>>
      /\ Within \in Nat /\ row \in Nat /\ p \in Triples
 BY AtRow, PlacesAreTriples DEF ReaderOK, RelationsTypeOK
<1>2. StageOf[phase] \in Nat /\ row + 1 \in Nat
 BY <1>1
<1> QED
 BY ONLY <1>1, <1>2, Before(p, Here), BeforePlace

\* A pair of an assembly or a pour unit is met once, but for a main member
\* that is also a member.
LEMMA JoinUntaken ==
  ASSUME ReaderOK, phase \in {"assemblies", "pours"}, row < Len(TableOf(phase)),
         Here \in Places(loaded)
  PROVE  LET c == CandidateAt(loaded, Here) IN
         Taken("in_assembly", c.source, c.target) =>
             phase = "assemblies" /\ Within # 1 /\ c.source = loaded.assemblies[row + 1].main
<1> DEFINE c == CandidateAt(loaded, Here)
           k == StageOf[phase]
<1>1. /\ Here = <<k, row + 1, Within>> /\ Within \in Nat \ {0} /\ row \in Nat
      /\ Here[1] = k /\ Here[2] = row + 1 /\ Here[3] = Within
 <2>1. Here = <<k, row + 1, Within>> /\ Within \in Nat \ {0}
  BY AtRow
 <2>2. row \in Nat
  BY DEF ReaderOK, RelationsTypeOK
 <2> HIDE DEF k
 <2> QED
  BY ONLY <2>1, <2>2
<1>2. (phase = "assemblies" /\ k = 3) \/ (phase = "pours" /\ k = 4)
 BY DEF StageOf
<1>3. c.kind = "in_assembly"
 BY <1>1, <1>2, Shapes
<1> SUFFICES ASSUME NEW p \in Behind, CandidateAt(loaded, p).kind = "in_assembly",
                    CandidateAt(loaded, p).source = c.source,
                    CandidateAt(loaded, p).target = c.target
             PROVE  phase = "assemblies" /\ Within # 1
                      /\ c.source = loaded.assemblies[row + 1].main
 BY DEF Taken
<1> DEFINE d == CandidateAt(loaded, p)
<1>4. /\ p \in Places(loaded) /\ p[1] \in Nat /\ p[2] \in Nat /\ p[3] \in Nat \ {0}
      /\ \/ p[1] < k
         \/ p[1] = k /\ (p[2] < row + 1 \/ (p[2] = row + 1 /\ p[3] < Within))
 BY BehindIs, PlacesAreTriples DEF Behind, ReaderOK, Triples
<1>5. /\ \A r, q \in 1 .. Len(loaded.assemblies) :
             loaded.assemblies[r].id = loaded.assemblies[q].id => r = q
      /\ \A r \in 1 .. Len(loaded.assemblies) :
             LET members == loaded.members[loaded.assemblies[r].id] IN
             \A x, y \in 1 .. Len(members) : members[x] = members[y] => x = y
      /\ \A r, q \in 1 .. Len(loaded.pours) :
             /\ loaded.pours[r][1] = loaded.pours[q][1]
             /\ loaded.pours[r][2] = loaded.pours[q][2]
             => r = q
      /\ \A r \in 1 .. Len(loaded.assemblies) : \A q \in 1 .. Len(loaded.pours) :
             loaded.assemblies[r].id # loaded.pours[q][1]
 BY DEF ReaderOK, ListedOnce, ListedIn
<1>6. \A q \in {p, Here} :
         LET e == CandidateAt(loaded, q)
             a == loaded.assemblies[q[2]]
             u == loaded.pours[q[2]]
         IN
         \/ /\ q[1] = 3 /\ q[2] \in 1 .. Len(loaded.assemblies) /\ e.target = a.id
            /\ \/ q[3] = 1 /\ e.source = a.main
               \/ /\ q[3] - 1 \in 1 .. Len(loaded.members[a.id])
                  /\ e.source = loaded.members[a.id][q[3] - 1]
         \/ /\ q[1] = 4 /\ q[2] \in 1 .. Len(loaded.pours) /\ q[3] = 1
            /\ e.source = u[2] /\ e.target = u[1]
 BY <1>3, <1>4, Shapes
<1> HIDE DEF c, k, d
<1>7. CASE phase = "pours"
 <2>0. /\ row + 1 \in 1 .. Len(loaded.pours) /\ Within = 1
       /\ c.source = loaded.pours[row + 1][2] /\ c.target = loaded.pours[row + 1][1]
  BY <1>1, <1>2, <1>6, <1>7 DEF c
 <2>3. p[1] # 3
  <3>1. p[1] = 3 => p[2] \in 1 .. Len(loaded.assemblies)
                    /\ loaded.assemblies[p[2]].id = c.target
   BY <1>6 DEF c
  <3> QED
   BY ONLY <1>5, <2>0, <3>1
 <2>1. p[1] = 4 /\ p[2] = row + 1 /\ p[3] = 1
  <3>1. /\ p[1] = 4 /\ p[3] = 1 /\ p[2] \in 1 .. Len(loaded.pours)
        /\ loaded.pours[p[2]][2] = c.source /\ loaded.pours[p[2]][1] = c.target
   BY <1>6, <2>3 DEF c
  <3>2. p[2] = row + 1
   BY ONLY <1>5, <2>0, <3>1
  <3> QED
   BY ONLY <3>1, <3>2
 <2> QED
  BY <1>1, <1>2, <1>4, <1>6, <1>7, <2>1
<1>8. CASE phase = "assemblies"
 <2>1. p[1] = 3 /\ p[2] = row + 1 /\ p[3] < Within
  <3>1. k = 3
   BY <1>2, <1>8
  <3>2. /\ row + 1 \in 1 .. Len(loaded.assemblies)
        /\ loaded.assemblies[row + 1].id = c.target
   BY <1>1, <1>6, <3>1 DEF c
  <3>3. p[1] = 3
   BY ONLY <1>4, <1>6, <3>1
  <3>4. p[2] \in 1 .. Len(loaded.assemblies) /\ loaded.assemblies[p[2]].id = c.target
   BY <1>6, <3>3 DEF c
  <3>5. p[2] = row + 1
   BY ONLY <1>5, <3>2, <3>4
  <3> QED
   BY ONLY <1>1, <1>4, <3>1, <3>3, <3>5
 <2>2. CASE p[3] = 1
  BY <1>1, <1>4, <1>6, <1>8, <2>1, <2>2 DEF c
 <2>3. CASE p[3] # 1
  <3>1. Within # 1
   BY <1>1, <1>4, <2>1
  <3> DEFINE members == loaded.members[loaded.assemblies[row + 1].id]
  <3>2. /\ row + 1 \in 1 .. Len(loaded.assemblies)
        /\ p[3] - 1 \in 1 .. Len(members) /\ Within - 1 \in 1 .. Len(members)
        /\ members[p[3] - 1] = members[Within - 1]
   BY <1>1, <1>2, <1>6, <1>8, <2>1, <2>3, <3>1 DEF c
  <3>3. p[3] - 1 = Within - 1
   BY <1>5, <3>2
  <3> QED
   BY <1>1, <1>4, <2>1, <3>3
 <2> QED
  BY <2>2, <2>3
<1> QED
 BY <1>7, <1>8

\* A row that asks for no edge is passed in one step.
LEMMA NoCandidate ==
  ASSUME ReaderOK, phase # "done", row < Len(TableOf(phase)), Within \in Nat,
         \A j \in DOMAIN Candidates(loaded, StageOf[phase], row + 1) : j < Within,
         UNCHANGED <<batch, pairVars>>
  PROVE  Treated
<1>1. Here \in Places(loaded) <=> Within \in DOMAIN Candidates(loaded, StageOf[phase], row + 1)
 BY AtRow
<1>2. Here \notin Places(loaded)
 BY <1>1
<1> QED
 BY <1>2 DEF Due, KeptPlaces, Treated

LEMMA ThroughAdvances ==
  ASSUME ReaderOK, phase # "done", row < Len(TableOf(phase)), RowThrough, UNCHANGED loaded,
         ~initialized', member' = 0, endpoint' = 0,
         \A j \in DOMAIN Candidates(loaded, StageOf[phase], row + 1) : j <= Within
  PROVE  Advances /\ CursorsAtRest'
<1>1. Within' = 1
 BY DEF Within
<1>2. Len(TableOf(phase)) \in Nat /\ row \in Nat
 BY AtRow DEF ReaderOK, RelationsTypeOK
<1>3. row' = 0 \/ (phase' = phase /\ row' < Len(TableOf(phase)))
 BY <1>2 DEF RowThrough
<1>4. phase' = phase => TableOf(phase)' = TableOf(phase)
 BY DEF TableOf
<1>5. CursorsAtRest'
 BY <1>3, <1>4 DEF CursorsAtRest
<1> QED
 BY <1>1, <1>5 DEF Advances

\* Where the cursors are in a phase that does not use them.
LEMMA AtStart ==
  ASSUME ReaderOK
  PROVE  /\ phase # "assemblies" => initialized = FALSE /\ member = 0 /\ Within = endpoint + 1
         /\ phase # "rebar_splices" => endpoint = 0
         /\ phase \notin {"assemblies", "rebar_splices"} => Within = 1
BY DEF ReaderOK, RelationsTypeOK, CursorsAtRest, Within

\* A row that asks for one edge, and one that asks for none, in a table that
\* is read row by row.
Rowwise == phase \notin {"assemblies", "rebar_splices", "done"} /\ row < Len(TableOf(phase))

LEMMA OneCandidate ==
  ASSUME ReaderOK, Rowwise, NEW c, Candidates(loaded, StageOf[phase], row + 1) = <<c>>
  PROVE  Here \in Places(loaded) /\ CandidateAt(loaded, Here) = c
<1>1. /\ Here = <<StageOf[phase], row + 1, 1>>
      /\ Here \in Places(loaded) <=> 1 \in DOMAIN Candidates(loaded, StageOf[phase], row + 1)
 BY AtRow, AtStart DEF Rowwise
<1> QED
 BY <1>1 DEF CandidateAt


Done == Treated /\ Advances /\ CursorsAtRest'

\* Every phase takes its row as promised: the candidate is treated and passed.
LEMMA RowDone ==
  ASSUME ReaderOK, Rowwise, RowThrough, UNCHANGED <<loaded, assemblyVars, endpoint>>, Treated,
         \A j \in DOMAIN Candidates(loaded, StageOf[phase], row + 1) : j <= 1
  PROVE  Done
<1>1. /\ Within = 1 /\ ~initialized' /\ member' = 0 /\ endpoint' = 0
 BY AtStart DEF Rowwise, assemblyVars
<1> QED
 BY <1>1, ThroughAdvances DEF Rowwise, Done

LEMMA RowSkipped ==
  ASSUME ReaderOK, Rowwise, Candidates(loaded, StageOf[phase], row + 1) = <<>>,
         UNCHANGED <<batch, pairVars>>
  PROVE  Treated
BY AtStart, NoCandidate DEF Rowwise

LEMMA ParentDone == ASSUME ReaderOK, MemoryOK, EmitParent, UNCHANGED loaded PROVE Done
<1>1. Rowwise /\ StageOf[phase] = 1 /\ Current = loaded.objects[row + 1]
 BY DEF EmitParent, Turn, StageOf, TableOf, Current, Rowwise
<1> DEFINE c == Candidate("subelement", Current.parent, Current.id, "child", "object_parent", 0)
<1>2. Candidates(loaded, StageOf[phase], row + 1) = <<c>>
 BY <1>1, CandidatesAre
<1>3. Treated
 BY <1>1, <1>2, OneCandidate, SubelementTreated DEF EmitParent
<1> QED
 BY <1>1, <1>2, <1>3, RowDone DEF EmitParent

LEMMA StoredDone == ASSUME ReaderOK, MemoryOK, EmitStored, UNCHANGED loaded PROVE Done
<1>1. Rowwise /\ StageOf[phase] = 2 /\ Current = loaded.relations[row + 1]
 BY DEF EmitStored, Turn, StageOf, TableOf, Current, Rowwise
<1> DEFINE list == Candidates(loaded, StageOf[phase], row + 1)
<1>2. Treated /\ \A j \in DOMAIN list : j <= 1
 <2>1. CASE /\ Current.visible /\ Current.type \in ChildTypes
            /\ AppendSubelement(Current.source, Current.target, "stored_relation", Current.id)
            /\ UNCHANGED hosted
  <3> DEFINE c == Candidate("subelement", Current.source, Current.target, "child",
                            "stored_relation", Current.id)
  <3>1. list = <<c>>
   BY <1>1, <2>1, CandidatesAre
  <3>2. Here \in Places(loaded) /\ CandidateAt(loaded, Here) = c
   BY <1>1, <3>1, OneCandidate
  <3> QED
   BY <2>1, <3>1, <3>2, SubelementTreated DEF EmitStored
 <2>2. CASE /\ Current.visible /\ Current.type = RebarType
            /\ AppendHosted(Current.target, Current.source, Reinforcement, "rebar_host",
                            Current.id)
            /\ UNCHANGED <<subelements, childOrdinals>>
  <3> DEFINE c == Candidate("hosted_on", Current.target, Current.source, "first", "rebar_host",
                            Current.id)
  <3>1. list = <<c>>
   BY <1>1, <2>2, CandidatesAre
  <3>2. Here \in Places(loaded) /\ CandidateAt(loaded, Here) = c
   BY <1>1, <3>1, OneCandidate
  <3> QED
   BY <2>2, <3>1, <3>2, HostedTreated DEF EmitStored
 <2>3. CASE /\ ~Current.visible \/ Current.type \notin ChildTypes \cup {RebarType}
            /\ UNCHANGED <<batch, subelements, hosted, childOrdinals>>
  <3>1. list = <<>>
   BY <1>1, <2>3, CandidatesAre
  <3>2. UNCHANGED <<batch, pairVars>>
   BY <2>3 DEF EmitStored, pairVars
  <3> QED
   BY <1>1, <3>1, <3>2, RowSkipped
 <2> QED
  BY <2>1, <2>2, <2>3 DEF EmitStored
<1> QED
 BY <1>1, <1>2, RowDone DEF EmitStored

LEMMA PourDone == ASSUME ReaderOK, MemoryOK, EmitPour, UNCHANGED loaded PROVE Done
<1>1. Rowwise /\ phase = "pours" /\ StageOf[phase] = 4 /\ Current = loaded.pours[row + 1]
 BY DEF EmitPour, Turn, StageOf, TableOf, Current, Rowwise
<1> DEFINE c == Candidate("in_assembly", Current[2], Current[1], "first", "pour_membership", 0)
<1>2. Candidates(loaded, StageOf[phase], row + 1) = <<c>>
 BY <1>1, CandidatesAre
<1>3. Here \in Places(loaded) /\ CandidateAt(loaded, Here) = c
 BY <1>1, <1>2, OneCandidate
<1>4. c.source = Current[2] /\ c.target = Current[1] /\ c.rule = "first"
 BY DEF Candidate
<1>5. ~Taken("in_assembly", Current[2], Current[1])
 BY <1>1, <1>3, <1>4, JoinUntaken DEF Rowwise
<1>6. NumberAt(loaded, Due, Here) = 0
 BY <1>3, <1>4 DEF NumberAt
<1>7. Treated
 BY <1>3, <1>5, <1>6, MemberTreated DEF EmitPour
<1> QED
 BY <1>1, <1>2, <1>7, RowDone DEF EmitPour

LEMMA SurfaceDone == ASSUME ReaderOK, MemoryOK, EmitSurface, UNCHANGED loaded PROVE Done
<1>1. Rowwise /\ StageOf[phase] = 6 /\ Current = loaded.surfaces[row + 1]
 BY DEF EmitSurface, Turn, StageOf, TableOf, Current, Rowwise
<1> DEFINE c == Candidate("hosted_on", Current[1], Current[2], "first", "surface_object", 0)
<1>2. Candidates(loaded, StageOf[phase], row + 1) = <<c>>
 BY <1>1, CandidatesAre
<1>3. Treated
 BY <1>1, <1>2, OneCandidate, HostedTreated DEF EmitSurface
<1> QED
 BY <1>1, <1>2, <1>3, RowDone DEF EmitSurface

LEMMA JointDone == ASSUME ReaderOK, MemoryOK, EmitJoint, UNCHANGED loaded PROVE Done
<1>1. Rowwise /\ StageOf[phase] = 7 /\ Current = loaded.joints[row + 1]
 BY DEF EmitJoint, Turn, StageOf, TableOf, Current, Rowwise
<1> DEFINE list == Candidates(loaded, StageOf[phase], row + 1)
<1>2. Treated /\ \A j \in DOMAIN list : j <= 1
 <2>1. CASE Current.visible
  <3> DEFINE c == Candidate("connects_to", Current.prim, Current.sek, "first",
                            "component_connection", Current.id)
  <3>1. list = <<c>>
   BY <1>1, <2>1, CandidatesAre
  <3>2. Here \in Places(loaded) /\ CandidateAt(loaded, Here) = c
   BY <1>1, <3>1, OneCandidate
  <3>3. AppendConnects(Current.prim, Current.sek, IF "first" = "first" THEN 0 ELSE 1,
                       "component_connection", Current.id)
          /\ UNCHANGED <<subelements, hosted, childOrdinals>>
   BY <2>1 DEF EmitJoint
  <3> QED
   BY <3>1, <3>2, <3>3, ConnectsTreated
 <2>2. CASE ~Current.visible
  <3>1. list = <<>>
   BY <1>1, <2>2, CandidatesAre
  <3>2. UNCHANGED <<batch, pairVars>>
   BY <2>2 DEF EmitJoint, pairVars
  <3> QED
   BY <1>1, <3>1, <3>2, RowSkipped
 <2> QED
  BY <2>1, <2>2
<1> QED
 BY <1>1, <1>2, RowDone DEF EmitJoint

LEMMA SkipDone == ASSUME ReaderOK, SkipPhase, UNCHANGED loaded PROVE Done
<1>1. /\ phase # "done" /\ TableOf(phase) = <<>> /\ phase' = PhaseAfter[phase] /\ row' = row
      /\ UNCHANGED <<initialized, member, endpoint, batch, pairVars>>
 BY DEF SkipPhase, assemblyVars
<1>2. row = 0 /\ phase \in Phases
 BY <1>1 DEF ReaderOK, CursorsAtRest, RelationsTypeOK
<1>3. ~initialized /\ endpoint = 0 /\ member = 0
 <2>1. initialized => phase = "assemblies" /\ 0 < Len(loaded.assemblies)
  BY <1>2 DEF ReaderOK, RelationsTypeOK
 <2>2. endpoint = 1 => phase = "rebar_splices" /\ 0 < Len(loaded.splices)
  BY <1>2 DEF ReaderOK, RelationsTypeOK
 <2> QED
  BY <1>1, <2>1, <2>2 DEF ReaderOK, CursorsAtRest, RelationsTypeOK, TableOf
<1>4. Within = 1 /\ Within' = 1
 BY <1>1, <1>3 DEF Within
<1>5. Here \notin Places(loaded)
 <2>1. Here[1] = StageOf[phase] /\ Tabled(loaded)[StageOf[phase]] = <<>>
  BY <1>1, <1>2, Stages DEF Here
 <2> QED
  BY <2>1, PlacesAreTriples DEF ReaderOK
<1>6. Treated
 BY <1>1, <1>5 DEF Treated, Due, KeptPlaces, pairVars
<1>7. CursorsAtRest' /\ Advances
 BY <1>1, <1>2, <1>3, <1>4 DEF CursorsAtRest, Advances
<1> QED
 BY <1>6, <1>7 DEF Done

LEMMA SpliceFirstDone == ASSUME ReaderOK, MemoryOK, EmitSpliceFirst, UNCHANGED loaded PROVE Done
<1>1. /\ phase = "rebar_splices" /\ StageOf[phase] = 5 /\ TableOf(phase) = loaded.splices
      /\ row < Len(TableOf(phase)) /\ Current = loaded.splices[row + 1]
 BY DEF EmitSpliceFirst, Turn, StageOf, TableOf, Current
<1>2. /\ Within = 1 /\ UNCHANGED <<phase, row, initialized, member>> /\ ~initialized
      /\ member = 0 /\ endpoint' = 1 /\ Within' = 2
 BY <1>1, AtStart DEF EmitSpliceFirst, assemblyVars, Within
<1> DEFINE c == Candidate("connects_to", Current[1], Current[2], "first", "rebar_splice", 0)
           list == Candidates(loaded, StageOf[phase], row + 1)
<1>3. DOMAIN list = {1, 2} /\ list[1] = c
 BY <1>1, CandidatesAre
<1>4. Here \in Places(loaded) /\ CandidateAt(loaded, Here) = c
 <2>1. Here = <<StageOf[phase], row + 1, 1>> /\ (Here \in Places(loaded) <=> 1 \in DOMAIN list)
  BY <1>1, <1>2, AtRow
 <2> QED
  BY <1>3, <2>1 DEF CandidateAt
<1>5. Treated
 BY <1>4, ConnectsTreated DEF EmitSpliceFirst
<1>6. Advances
 BY <1>1, <1>2 DEF Advances
<1>7. CursorsAtRest'
 BY <1>1, <1>2 DEF CursorsAtRest, TableOf
<1> QED
 BY <1>5, <1>6, <1>7 DEF Done

LEMMA SpliceSecondDone ==
  ASSUME ReaderOK, MemoryOK, EmitSpliceSecond, UNCHANGED loaded PROVE Done
<1>1. /\ phase = "rebar_splices" /\ StageOf[phase] = 5 /\ TableOf(phase) = loaded.splices
      /\ row < Len(TableOf(phase)) /\ Current = loaded.splices[row + 1]
 BY DEF EmitSpliceSecond, Turn, StageOf, TableOf, Current
<1>2. /\ endpoint = 1 /\ Within = 2 /\ UNCHANGED <<initialized, member>> /\ ~initialized
      /\ member = 0 /\ endpoint' = 0
 <2>1. endpoint = 1 /\ endpoint' = 0 /\ UNCHANGED <<initialized, member>>
  BY DEF EmitSpliceSecond, assemblyVars, ReaderOK, RelationsTypeOK
 <2> QED
  BY <1>1, <2>1, AtStart
<1> DEFINE c == Candidate("connects_to", Current[1], Current[3], "second", "rebar_splice", 0)
           list == Candidates(loaded, StageOf[phase], row + 1)
<1>3. DOMAIN list = {1, 2} /\ list[2] = c
 BY <1>1, CandidatesAre
<1>4. Here \in Places(loaded) /\ CandidateAt(loaded, Here) = c
 <2>1. Here = <<StageOf[phase], row + 1, 2>> /\ (Here \in Places(loaded) <=> 2 \in DOMAIN list)
  BY <1>1, <1>2, AtRow
 <2> QED
  BY <1>3, <2>1 DEF CandidateAt
<1>5. AppendConnects(Current[1], Current[3], IF "second" = "first" THEN 0 ELSE 1, "rebar_splice", 0)
        /\ UNCHANGED <<subelements, hosted, childOrdinals>>
 BY DEF EmitSpliceSecond
<1>6. Treated
 BY <1>4, <1>5, ConnectsTreated
<1>7. RowThrough /\ \A j \in DOMAIN list : j <= Within
 BY <1>2, <1>3 DEF EmitSpliceSecond
<1> QED
 BY <1>1, <1>2, <1>6, <1>7, ThroughAdvances DEF Done

\* Where the reader is when it is at an assembly.
LEMMA AtMember ==
  ASSUME ReaderOK, phase = "assemblies", row < Len(loaded.assemblies)
  PROVE  LET members == loaded.members[Current.id]
             list == Candidates(loaded, 3, row + 1)
         IN
         /\ StageOf[phase] = 3 /\ TableOf(phase) = loaded.assemblies
         /\ Current = loaded.assemblies[row + 1] /\ row + 1 \in 1 .. Len(loaded.assemblies)
         /\ Len(members) \in Nat /\ DOMAIN list = 1 .. Len(members) + 1
         /\ Here = <<3, row + 1, Within>> /\ Within \in Nat \ {0} /\ endpoint = 0
         /\ Within = IF initialized THEN member + 2 ELSE 1
         /\ (Here \in Places(loaded) <=> Within <= Len(members) + 1)
         /\ Within <= Len(members) + 1 =>
                CandidateAt(loaded, Here) =
                    IF Within = 1
                    THEN Candidate("in_assembly", Current.main, Current.id, "first",
                                   "assembly_membership", 0)
                    ELSE Candidate("in_assembly", members[Within - 1], Current.id, "member",
                                   "assembly_membership", 0)
<1>1. /\ StageOf[phase] = 3 /\ TableOf(phase) = loaded.assemblies
      /\ Current = loaded.assemblies[row + 1]
 BY DEF StageOf, TableOf, Current
<1> DEFINE members == loaded.members[Current.id]
           list == Candidates(loaded, 3, row + 1)
<1>2. /\ Here = <<3, row + 1, Within>> /\ Within \in Nat \ {0}
      /\ Here \in Places(loaded) <=> Within \in DOMAIN list
      /\ row \in Nat /\ Len(loaded.assemblies) \in Nat
 BY <1>1, AtRow DEF ReaderOK, RelationsTypeOK, ListedOnce, ListedIn
<1>3. row + 1 \in 1 .. Len(loaded.assemblies)
 BY <1>2
<1>4. Len(members) \in Nat
 BY <1>1, <1>3 DEF ReaderOK, ListedOnce, ListedIn
<1>5. DOMAIN list = 1 .. Len(members) + 1
 BY <1>1, MembersAre
<1>6. \A j \in 1 .. Len(members) + 1 : list[j] =
          IF j = 1
          THEN Candidate("in_assembly", Current.main, Current.id, "first",
                         "assembly_membership", 0)
          ELSE Candidate("in_assembly", members[j - 1], Current.id, "member",
                         "assembly_membership", 0)
 BY <1>1, MembersAre, ZenonT(40)
<1>7. CandidateAt(loaded, Here) = list[Within]
 BY <1>2 DEF CandidateAt
<1>8. endpoint = 0 /\ (Within = IF initialized THEN member + 2 ELSE 1)
 BY AtStart DEF Within
<1> HIDE DEF members, list
<1>9. Within <= Len(members) + 1 <=> Within \in 1 .. Len(members) + 1
 BY <1>2, <1>4
<1>10. Here \in Places(loaded) <=> Within <= Len(members) + 1
 BY <1>2, <1>5, <1>9
<1>11. Within <= Len(members) + 1 =>
          CandidateAt(loaded, Here) =
              IF Within = 1
              THEN Candidate("in_assembly", Current.main, Current.id, "first",
                             "assembly_membership", 0)
              ELSE Candidate("in_assembly", members[Within - 1], Current.id, "member",
                             "assembly_membership", 0)
 BY ONLY <1>6, <1>7, <1>9
<1> QED
 BY ONLY <1>1, <1>2, <1>3, <1>4, <1>5, <1>8, <1>10, <1>11, Zenon DEF members, list

LEMMA MainDone == ASSUME ReaderOK, MemoryOK, EmitMain, UNCHANGED loaded PROVE Done
<1>1. /\ phase = "assemblies" /\ row < Len(loaded.assemblies) /\ ~initialized
      /\ AppendMember(Current.main, Current.id, 0, "assembly_membership") /\ initialized' = TRUE
      /\ UNCHANGED <<phase, row, member, endpoint, pairVars>>
 BY DEF EmitMain, Turn
<1> DEFINE c == CandidateAt(loaded, Here)
<1>2. /\ Within = 1 /\ Here \in Places(loaded) /\ TableOf(phase) = loaded.assemblies
      /\ c = Candidate("in_assembly", Current.main, Current.id, "first",
                       "assembly_membership", 0)
 BY <1>1, AtMember
<1>3. ~Taken("in_assembly", Current.main, Current.id) /\ NumberAt(loaded, Due, Here) = 0
 BY <1>1, <1>2, JoinUntaken DEF NumberAt, Candidate
<1>4. Treated
 BY <1>1, <1>2, <1>3, MemberTreated
<1>5. member = 0 /\ Within' = 2
 BY <1>1 DEF ReaderOK, CursorsAtRest, Within
<1>6. Advances
 BY <1>1, <1>2, <1>5 DEF Advances
<1>7. CursorsAtRest'
 BY <1>1 DEF CursorsAtRest, TableOf
<1> QED
 BY <1>4, <1>6, <1>7 DEF Done

LEMMA NoMembersDone == ASSUME ReaderOK, NoMembers, UNCHANGED loaded PROVE Done
<1>1. /\ phase = "assemblies" /\ row < Len(loaded.assemblies) /\ initialized
      /\ loaded.members[Current.id] = <<>> /\ RowThrough /\ ~initialized' /\ member' = 0
      /\ UNCHANGED <<endpoint, batch, pairVars>>
 BY DEF NoMembers, Turn, AssemblyThrough
<1> DEFINE list == Candidates(loaded, StageOf[phase], row + 1)
<1>2. /\ Within = member + 2 /\ TableOf(phase) = loaded.assemblies /\ endpoint = 0
      /\ DOMAIN list = 1 .. 1
 BY <1>1, AtMember
<1>3. member \in Nat
 BY DEF ReaderOK, RelationsTypeOK
<1>4. (\A j \in DOMAIN list : j < Within) /\ \A j \in DOMAIN list : j <= Within
 BY <1>2, <1>3
<1>5. Treated
 BY <1>1, <1>2, <1>3, <1>4, NoCandidate
<1> QED
 BY <1>1, <1>2, <1>4, <1>5, ThroughAdvances DEF Done

\* A member is due that is neither the main member nor the assembly itself.
LEMMA MemberIsDue ==
  ASSUME ReaderOK, phase = "assemblies", row < Len(loaded.assemblies), initialized,
         member < Len(loaded.members[Current.id])
  PROVE  LET next == loaded.members[Current.id][member + 1]
             c == CandidateAt(loaded, Here)
         IN
         /\ Here \in Places(loaded) /\ Within = member + 2
         /\ c = Candidate("in_assembly", next, Current.id, "member", "assembly_membership", 0)
         /\ next # Current.main => ~Taken("in_assembly", next, Current.id)
         /\ Here \in Due <=> next # Current.main /\ ValidEdge(next, Current.id)
<1> DEFINE members == loaded.members[Current.id]
           next == members[member + 1]
           c == CandidateAt(loaded, Here)
           main == <<3, row + 1, 1>>
           d == CandidateAt(loaded, main)
<1>1. /\ Len(members) \in Nat /\ Within = member + 2 /\ member \in Nat
      /\ TableOf(phase) = loaded.assemblies /\ StageOf[phase] = 3
      /\ Here = <<3, row + 1, Within>> /\ row \in Nat
      /\ Current = loaded.assemblies[row + 1] /\ row + 1 \in 1 .. Len(loaded.assemblies)
      /\ DOMAIN Candidates(loaded, 3, row + 1) = 1 .. Len(members) + 1
 BY AtMember DEF ReaderOK, RelationsTypeOK
<1>2. Within <= Len(members) + 1 /\ Within # 1 /\ Within - 1 = member + 1
 BY <1>1
<1>3. /\ Here \in Places(loaded)
      /\ c = Candidate("in_assembly", next, Current.id, "member", "assembly_membership", 0)
 BY <1>2, AtMember
<1>4. /\ c.kind = "in_assembly" /\ c.source = next /\ c.target = Current.id
      /\ c.origin = "assembly_membership"
 BY <1>3 DEF Candidate
<1>5. next # Current.main => ~Taken("in_assembly", next, Current.id)
 BY <1>1, <1>3, <1>4, JoinUntaken
<1>6. Promised(loaded, c) <=> ValidEdge(next, Current.id)
 BY <1>4, ValidIsPromised DEF Promised, ReaderOK
<1>7. main \in Places(loaded)
 <2>1. Tabled(loaded)[3] = loaded.assemblies /\ 1 \in DOMAIN Candidates(loaded, 3, row + 1)
  BY <1>1, SMTT(30) DEF Tabled
 <2>2. row + 1 \in DOMAIN Tabled(loaded)[3] /\ 3 \in 1 .. 7
  BY <1>1, <2>1 DEF ReaderOK, TablesAreLists
 <2> HIDE DEF main
 <2>3. main = <<3, row + 1, 1>>
  BY DEF main
 <2> QED
  BY ONLY <2>1, <2>2, <2>3, PlacesAre
<1>8. main \in Behind
 <2>1. main \in Triples /\ main[1] = 3 /\ main[2] = row + 1 /\ main[3] = 1
  BY <1>1 DEF Triples
 <2>2. Before(main, <<3, row + 1, Within>>)
  <3>1. PICK i \in Nat, w \in Nat : i = row + 1 /\ w = Within
   BY <1>1
  <3>2. w > 1
   BY <1>1, <3>1
  <3> HIDE DEF main
  <3> QED
   BY <2>1, <3>1, <3>2, BeforePlace
 <2> QED
  BY <1>1, <1>7, <2>2 DEF Behind
<1>9. d.kind = "in_assembly" /\ d.source = Current.main /\ d.target = Current.id
        /\ d.origin = "assembly_membership"
 <2>1. d = Candidates(loaded, 3, row + 1)[1]
  BY DEF CandidateAt
 <2>2. d = Candidate("in_assembly", Current.main, Current.id, "first", "assembly_membership", 0)
  <3>0. \A n \in Nat : 1 \in 1 .. n + 1
   OBVIOUS
  <3>1. 1 \in 1 .. Len(members) + 1
   BY ONLY <1>1, <3>0
  <3> HIDE DEF d
  <3> QED
   BY <1>1, <2>1, <3>1, MembersAre
 <2> QED
  BY <2>2 DEF Candidate
<1> HIDE DEF main, next, c, d
<1>10. next = Current.main /\ Promised(loaded, c) => Taken("in_assembly", next, Current.id)
 <2>1. next = Current.main /\ Promised(loaded, c) => Promised(loaded, d)
  BY <1>4, <1>9 DEF Promised
 <2> QED
  BY <1>8, <1>9, <2>1 DEF Taken, d
<1>11. Here \in Due <=> next # Current.main /\ ValidEdge(next, Current.id)
 BY <1>3, <1>4, <1>5, <1>6, <1>10, HereIsDue DEF c
<1> QED
 BY <1>1, <1>3, <1>5, <1>11 DEF next, c, members

LEMMA MemberDone == ASSUME ReaderOK, MemoryOK, EmitMember, UNCHANGED loaded PROVE Done
<1> DEFINE members == loaded.members[Current.id]
           next == members[member + 1]
           c == CandidateAt(loaded, Here)
<1>1. /\ phase = "assemblies" /\ row < Len(loaded.assemblies) /\ initialized
      /\ member < Len(members) /\ UNCHANGED <<endpoint, pairVars>>
 BY DEF EmitMember, Turn
<1>2. /\ Here \in Places(loaded) /\ Within = member + 2
      /\ c = Candidate("in_assembly", next, Current.id, "member", "assembly_membership", 0)
      /\ next # Current.main => ~Taken("in_assembly", next, Current.id)
      /\ Here \in Due <=> next # Current.main /\ ValidEdge(next, Current.id)
 BY <1>1, MemberIsDue
<1>3. /\ Len(members) \in Nat /\ member \in Nat /\ endpoint = 0
      /\ TableOf(phase) = loaded.assemblies /\ StageOf[phase] = 3
      /\ DOMAIN Candidates(loaded, 3, row + 1) = 1 .. Len(members) + 1
 BY <1>1, AtMember DEF ReaderOK, RelationsTypeOK
<1>4. Treated
 <2>1. CASE next # Current.main /\ next # Current.id
  <3>1. NumberAt(loaded, Due, Here) = ordinal
   <4>1. c.rule = "member" /\ c.target = Current.id
    BY <1>2 DEF Candidate
   <4>2. {q \in {q \in Due : Before(q, Here) /\ CandidateAt(loaded, q).rule = c.rule} :
              CandidateAt(loaded, q).target = c.target} = MembersOut(Current.id)
    BY <4>1 DEF MembersOut
   <4>3. ordinal = 1 + Cardinality(MembersOut(Current.id))
    BY <1>1 DEF MemoryOK, OrdinalExact
   <4> QED
    BY <4>1, <4>2, <4>3 DEF NumberAt
  <3>2. AppendMember(next, Current.id, ordinal, "assembly_membership")
   BY <2>1 DEF EmitMember
  <3> QED
   BY <1>1, <1>2, <2>1, <3>1, <3>2, MemberTreated
 <2>2. CASE ~(next # Current.main /\ next # Current.id)
  <3>1. UNCHANGED batch
   BY <2>2 DEF EmitMember
  <3>2. Here \notin Due
   BY <1>2, <2>2 DEF ValidEdge
  <3> QED
   BY <1>1, <3>1, <3>2 DEF Treated
 <2> QED
  BY <2>1, <2>2
<1>5. CASE member + 1 = Len(members)
 <2>1. RowThrough /\ ~initialized' /\ member' = 0
  BY <1>5 DEF EmitMember, AssemblyThrough
 <2>2. \A j \in DOMAIN Candidates(loaded, StageOf[phase], row + 1) : j <= Within
  BY <1>2, <1>3, <1>5
 <2> QED
  BY <1>1, <1>3, <1>4, <2>1, <2>2, ThroughAdvances DEF Done
<1>6. CASE member + 1 # Len(members)
 <2>1. UNCHANGED <<phase, row, initialized>> /\ member' = member + 1
  BY <1>6 DEF EmitMember
 <2>2. Within' = Within + 1
  BY <1>1, <1>2, <1>3, <2>1 DEF Within
 <2>3. Advances
  BY <1>1, <1>3, <2>1, <2>2 DEF Advances
 <2>4. CursorsAtRest'
  BY <1>1, <2>1 DEF CursorsAtRest, TableOf
 <2> QED
  BY <1>4, <2>3, <2>4 DEF Done
<1> QED
 BY <1>5, <1>6

LEMMA EveryDone == ASSUME ReaderOK, MemoryOK, Emits, UNCHANGED loaded PROVE Done
BY ParentDone, StoredDone, PourDone, SurfaceDone, JointDone, SkipDone, SpliceFirstDone,
   SpliceSecondDone, MainDone, NoMembersDone, MemberDone DEF Emits

\* What a step puts behind the reader, of any set of places, is where it was.
LEMMA OutGrows ==
  ASSUME ReaderOK, Advances, UNCHANGED loaded, NEW F \in SUBSET Places(loaded)
  PROVE  LET before == {p \in F : Before(p, Here)}
             after == {p \in F : Before(p, Here')}
         IN
         /\ Cardinality(before) \in Nat
         /\ Cardinality(after) = IF Here \in F THEN Cardinality(before) + 1
                                 ELSE Cardinality(before)
<1> DEFINE before == {p \in F : Before(p, Here)}
           after == {p \in F : Before(p, Here')}
<1>1. IsFiniteSet(before) /\ Cardinality(before) \in Nat
 <2>1. before \in SUBSET Places(loaded) /\ IsFiniteSet(Places(loaded))
  BY PlacesAreTriples DEF ReaderOK
 <2> QED
  BY ONLY <2>1, FS_Subset, FS_CardinalityType
<1>2. after = before \cup ({Here} \cap F)
 <2>1. Behind' = {q \in Places(loaded) : Before(q, Here')}
  BY DEF Behind
 <2> QED
  BY <2>1, Passes DEF Behind
<1>3. Here \in F => Here \notin before
 <2>1. Here \in F => Here \in Triples
  BY PlacesAreTriples DEF ReaderOK
 <2>2. Here \in Triples => ~Before(Here, Here)
  <3>1. \A a \in Triples : ~Before(a, a)
   BY TripleOrder DEF Triples
  <3> QED
   BY ONLY <3>1
 <2> QED
  BY <2>1, <2>2
<1> HIDE DEF before, after
<1>4. Here \in F => Cardinality(before \cup {Here}) = Cardinality(before) + 1
 BY <1>1, <1>3, FS_AddElement
<1>5. /\ Here \in F => after = before \cup {Here}
      /\ Here \notin F => after = before
 BY <1>2
<1> QED
 BY ONLY <1>1, <1>4, <1>5 DEF before, after

\* The sets of pairs and the counters stay those of what is behind the reader.
LEMMA TakenGrows ==
  ASSUME ReaderOK, Advances, UNCHANGED loaded
  PROVE  LET c == CandidateAt(loaded, Here) IN
         \A kind, s, t : Taken(kind, s, t)' <=>
             \/ Taken(kind, s, t)
             \/ Here \in Due /\ c.kind = kind /\ c.source = s /\ c.target = t
<1> DEFINE c == CandidateAt(loaded, Here)
<1> SUFFICES ASSUME NEW kind, NEW s, NEW t
             PROVE  Taken(kind, s, t)' <=>
                       \/ Taken(kind, s, t)
                       \/ Here \in Due /\ c.kind = kind /\ c.source = s /\ c.target = t
 OBVIOUS
<1> DEFINE Fits(p) == LET d == CandidateAt(loaded, p) IN
               Promised(loaded, d) /\ d.kind = kind /\ d.source = s /\ d.target = t
<1>1. Taken(kind, s, t)' <=> \E p \in Behind' : Fits(p)
 BY DEF Taken
<1>2. Taken(kind, s, t) <=> \E p \in Behind : Fits(p)
 BY DEF Taken
<1>3. Behind' = Behind \cup ({Here} \cap Places(loaded))
 BY Passes
<1>4. Here \in Due <=> /\ Here \in Places(loaded) /\ Promised(loaded, c)
                       /\ ~Taken(c.kind, c.source, c.target)
 BY HereIsDue
<1>5. Fits(Here) <=> Promised(loaded, c) /\ c.kind = kind /\ c.source = s /\ c.target = t
 OBVIOUS
<1> HIDE DEF Fits, c
<1> QED
 BY <1>1, <1>2, <1>3, <1>4, <1>5

LEMMA PairsStep ==
  ASSUME ReaderOK, PairsExact, Treated, Advances, UNCHANGED loaded
  PROVE  PairsExact'
<1> DEFINE c == CandidateAt(loaded, Here)
<1> SUFFICES ASSUME NEW s, NEW t
             PROVE  /\ <<s, t>> \in subelements' <=> Taken("subelement", s, t)'
                    /\ <<s, t>> \in hosted' <=> Taken("hosted_on", s, t)'
                    /\ <<s, t>> \in connections' <=> Taken("connects_to", s, t)'
 BY DEF PairsExact
<1>1. \A kind : Taken(kind, s, t)' <=>
          \/ Taken(kind, s, t)
          \/ Here \in Due /\ c.kind = kind /\ c.source = s /\ c.target = t
 BY TakenGrows
<1>2. /\ <<s, t>> \in subelements <=> Taken("subelement", s, t)
      /\ <<s, t>> \in hosted <=> Taken("hosted_on", s, t)
      /\ <<s, t>> \in connections <=> Taken("connects_to", s, t)
 BY DEF PairsExact
<1>3. <<s, t>> = <<c.source, c.target>> <=> c.source = s /\ c.target = t
 OBVIOUS
<1> HIDE DEF c
<1>4. CASE Here \in Due /\ Noted(c)
 BY <1>1, <1>2, <1>3, <1>4 DEF Noted
<1>5. CASE Here \notin Due /\ UNCHANGED pairVars
 BY <1>1, <1>2, <1>5 DEF pairVars
<1> QED
 BY <1>4, <1>5 DEF Treated, c

LEMMA DueIsPlaced ==
  ASSUME ReaderOK
  PROVE  Due \subseteq Places(loaded) /\ Due \subseteq Triples /\ IsFiniteSet(Due)
<1>1. Due \in SUBSET Places(loaded)
 BY DEF Due, KeptPlaces
<1>2. Places(loaded) \subseteq Triples /\ IsFiniteSet(Places(loaded))
 BY PlacesAreTriples DEF ReaderOK
<1>3. IsFiniteSet(Due)
 BY ONLY <1>1, <1>2, FS_Subset
<1> QED
 BY <1>1, <1>2, <1>3

LEMMA CountersStep ==
  ASSUME ReaderOK, CountersExact, Treated, Advances, UNCHANGED loaded
  PROVE  CountersExact'
<1> DEFINE c == CandidateAt(loaded, Here)
<1> SUFFICES ASSUME NEW s \in Ids
             PROVE  childOrdinals'[s] = Cardinality(ChildrenOut(s)')
 BY DEF CountersExact
<1> DEFINE F == {p \in Due : CandidateAt(loaded, p).rule = "child"
                               /\ CandidateAt(loaded, p).source = s}
<1>1. /\ ChildrenOut(s) = {p \in F : Before(p, Here)}
      /\ ChildrenOut(s)' = {p \in F : Before(p, Here')}
      /\ F \in SUBSET Places(loaded)
      /\ Here \in F <=> Here \in Due /\ c.rule = "child" /\ c.source = s
 BY DueIsPlaced DEF ChildrenOut, Due
<1> HIDE DEF F
<1>2. /\ Cardinality(ChildrenOut(s)) \in Nat
      /\ Cardinality(ChildrenOut(s)') =
            IF Here \in F THEN Cardinality(ChildrenOut(s)) + 1 ELSE Cardinality(ChildrenOut(s))
 BY <1>1, OutGrows
<1>3. childOrdinals[s] = Cardinality(ChildrenOut(s)) /\ childOrdinals \in [Ids -> Nat]
 BY DEF CountersExact, ReaderOK, RelationsTypeOK
<1>4. CASE Here \in Due /\ Noted(c)
 <2>1. c.kind = "subelement" <=> c.rule = "child"
  BY <1>4, DueIsPlaced, Shapes
 <2>2. childOrdinals' = IF c.kind = "subelement"
                        THEN [childOrdinals EXCEPT ![c.source] = @ + 1] ELSE childOrdinals
  BY <1>4 DEF Noted
 <2> HIDE DEF c
 <2>3. childOrdinals'[s] = IF c.rule = "child" /\ c.source = s THEN childOrdinals[s] + 1
                           ELSE childOrdinals[s]
  BY <1>3, <2>1, <2>2
 <2> QED
  BY <1>1, <1>2, <1>3, <1>4, <2>3 DEF c
<1>5. CASE Here \notin Due /\ UNCHANGED pairVars
 BY <1>1, <1>2, <1>3, <1>5 DEF pairVars
<1> QED
 BY <1>4, <1>5 DEF Treated

LEMMA OrdinalStep ==
  ASSUME ReaderOK, OrdinalExact, Emits, Advances, UNCHANGED loaded
  PROVE  OrdinalExact'
<1> SUFFICES ASSUME initialized' PROVE ordinal' = 1 + Cardinality(MembersOut(Current.id)')
 BY DEF OrdinalExact
<1>1. EmitMain \/ (EmitMember /\ ~AssemblyThrough)
 <2>1. phase # "assemblies" => ~initialized
  BY AtStart
 <2>2. EmitParent \/ EmitStored \/ EmitPour \/ EmitSpliceFirst \/ EmitSpliceSecond
         \/ EmitSurface \/ EmitJoint => phase # "assemblies" /\ UNCHANGED initialized
  BY DEF EmitParent, EmitStored, EmitPour, EmitSpliceFirst, EmitSpliceSecond, EmitSurface,
         EmitJoint, Turn, assemblyVars
 <2>3. ~SkipPhase
  <3>1. SkipPhase => initialized /\ TableOf(phase) = <<>>
   BY DEF SkipPhase, assemblyVars
  <3>2. initialized => TableOf(phase) = loaded.assemblies /\ 0 <= row /\ row < Len(loaded.assemblies)
   BY DEF ReaderOK, RelationsTypeOK, TableOf
  <3> QED
   BY <3>1, <3>2 DEF ReaderOK, RelationsTypeOK
 <2>4. ~NoMembers
  BY DEF NoMembers, AssemblyThrough
 <2>5. EmitMember => ~AssemblyThrough
  BY DEF AssemblyThrough
 <2> QED
  BY <2>1, <2>2, <2>3, <2>4, <2>5 DEF Emits
<1>2. /\ phase = "assemblies" /\ row < Len(loaded.assemblies) /\ UNCHANGED <<phase, row>>
      /\ UNCHANGED Current
 BY <1>1 DEF EmitMain, EmitMember, Turn, Current, TableOf
<1> DEFINE id == Current.id
           F == {p \in Due : CandidateAt(loaded, p).rule = "member"
                               /\ CandidateAt(loaded, p).target = id}
           c == CandidateAt(loaded, Here)
<1>3. /\ MembersOut(id) = {p \in F : Before(p, Here)}
      /\ MembersOut(Current.id)' = {p \in F : Before(p, Here')}
      /\ F \in SUBSET Places(loaded)
      /\ Here \in F <=> Here \in Due /\ c.rule = "member" /\ c.target = id
 BY <1>2, DueIsPlaced DEF MembersOut, Due
<1> HIDE DEF F
<1>4. /\ Cardinality(MembersOut(id)) \in Nat
      /\ Cardinality(MembersOut(Current.id)') =
            IF Here \in F THEN Cardinality(MembersOut(id)) + 1 ELSE Cardinality(MembersOut(id))
 BY <1>3, OutGrows
<1>5. CASE EmitMain
 <2>1. /\ Within = 1 /\ c.rule = "first" /\ StageOf[phase] = 3
       /\ Current = loaded.assemblies[row + 1] /\ row + 1 \in 1 .. Len(loaded.assemblies)
       /\ TableOf(phase) = loaded.assemblies
  BY <1>2, <1>5, AtMember DEF EmitMain, Candidate
 <2>2. MembersOut(id) = {}
  <3> SUFFICES ASSUME NEW p \in Due, Before(p, Here), CandidateAt(loaded, p).rule = "member",
                      CandidateAt(loaded, p).target = id
               PROVE  FALSE
   BY DEF MembersOut
  <3>1. p \in Places(loaded) /\ p[3] >= 1 /\ p[3] \in Nat
   BY DueIsPlaced, PlacesAreTriples DEF ReaderOK, Triples
  <3>2. /\ p[1] = 3 /\ p[3] # 1 /\ p[2] \in 1 .. Len(loaded.assemblies)
        /\ id = loaded.assemblies[p[2]].id
   BY <3>1, Shapes
  <3>3. p[2] = row + 1
   BY <2>1, <3>2 DEF ReaderOK, ListedOnce, ListedIn
  <3>4. p[1] < 3 \/ (p[1] = 3 /\ (p[2] < row + 1 \/ (p[2] = row + 1 /\ p[3] < 1)))
   BY <1>2, <2>1, <3>1, BehindIs
  <3> QED
   BY <2>1, <3>1, <3>2, <3>3, <3>4
 <2>3. ordinal' = 1
  BY <1>5 DEF EmitMain
 <2>4. Cardinality(MembersOut(id)) = 0
  BY <2>2, FS_EmptySet
 <2> QED
  BY <1>3, <1>4, <2>1, <2>3, <2>4
<1>6. CASE EmitMember /\ ~AssemblyThrough
 <2> DEFINE next == loaded.members[id][member + 1]
            counts == next # Current.main /\ ValidEdge(next, id)
 <2>1. initialized /\ member < Len(loaded.members[id])
  BY <1>6 DEF EmitMember
 <2>2. ordinal' = IF counts THEN ordinal + 1 ELSE ordinal
  BY <1>6 DEF EmitMember
 <2>3. /\ Here \in Due <=> counts
       /\ c = Candidate("in_assembly", next, id, "member", "assembly_membership", 0)
  BY <1>2, <2>1, MemberIsDue
 <2>4. Here \in F <=> counts
  BY <1>3, <2>3 DEF Candidate
 <2>5. ordinal = 1 + Cardinality(MembersOut(id))
  BY <2>1 DEF OrdinalExact
 <2> HIDE DEF counts, id, next
 <2> QED
  BY <1>4, <2>2, <2>4, <2>5
<1> QED
 BY <1>1, <1>5, <1>6

\* A turn of the loop moves the memory of the reader with the reader.
LEMMA MemoryStep ==
  ASSUME ReaderOK, MemoryOK, Emits, UNCHANGED loaded
  PROVE  MemoryOK' /\ Done
BY EveryDone, PairsStep, CountersStep, OrdinalStep DEF MemoryOK, Done

\* What went out, and what is in the page, is what the list begins with: as
\* many edges of it as there are promised places behind the reader.
ListInv ==
  /\ edges = [n \in 1 .. Cardinality(Due) |-> EdgeAt(loaded, Due, Sorted(Due)[n])]
  /\ Len(Emitted) = Cardinality({q \in Due : Before(q, Here)})
  /\ \A n \in 1 .. Len(Emitted) : Emitted[n] = edges[n]

ReaderInv == ReaderOK /\ MemoryOK /\ ListInv

\* ReaderInv holds at first and after every turn.
LEMMA ReaderInit == UnitsAreNoAssemblies /\ Init => ReaderInv
<1> SUFFICES ASSUME UnitsAreNoAssemblies, Init PROVE ReaderInv
 OBVIOUS
<1>1. /\ phase = "parents" /\ row = 0 /\ initialized = FALSE /\ member = 0 /\ endpoint = 0
      /\ subelements = {} /\ hosted = {} /\ connections = {} /\ Emitted = <<>>
      /\ childOrdinals = [id \in Ids |-> 0]
 BY DEF Init, Emitted
<1>2. CursorsAtRest
 BY <1>1 DEF CursorsAtRest
<1>3. ReaderOK
 BY <1>2, TypeInit, InitLoaded, ListsAtFirst, TablesAtFirst DEF ReaderOK
<1>4. Here = <<1, 1, 1>>
 BY <1>1 DEF Here, StageOf, Within
<1>5. \A q \in Places(loaded) : ~Before(q, Here)
 <2> SUFFICES ASSUME NEW q \in Places(loaded) PROVE ~Before(q, Here)
  OBVIOUS
 <2>1. q \in Triples /\ q[1] >= 1 /\ q[2] >= 1 /\ q[3] >= 1 /\ q[1] \in Nat /\ q[2] \in Nat
         /\ q[3] \in Nat
  BY <1>3, PlacesAreTriples DEF ReaderOK, Triples
 <2> QED
  BY ONLY <1>4, <2>1, BeforePlace
<1>6. Due \subseteq Places(loaded)
 BY DEF Due, KeptPlaces
<1>7. PairsExact
 BY <1>1, <1>5 DEF PairsExact, Taken, Behind
<1>8. CountersExact
 <2>1. \A s : ChildrenOut(s) = {}
  BY <1>5, <1>6 DEF ChildrenOut
 <2> QED
  BY <1>1, <2>1, FS_EmptySet DEF CountersExact
<1>9. ListInv
 <2>1. PICK t \in Tables : loaded = Load(t) /\ edges = EdgesOf(t)
  BY DEF Init
 <2>2. edges = [n \in 1 .. Cardinality(Due) |-> EdgeAt(loaded, Due, Sorted(Due)[n])]
  BY <2>1 DEF EdgesOf, Due
 <2>3. {q \in Due : Before(q, Here)} = {} /\ Cardinality({}) = 0
  BY <1>5, <1>6, FS_EmptySet
 <2>4. Len(Emitted) = 0 /\ 1 .. 0 = {}
  BY <1>1
 <2> QED
  BY ONLY <2>2, <2>3, <2>4 DEF ListInv
<1> QED
 BY <1>1, <1>3, <1>7, <1>8, <1>9 DEF ReaderInv, MemoryOK, OrdinalExact

\* The page grows at its end, and what was emitted with it.
LEMMA PageGrows ==
  ASSUME RelationsTypeOK, calling, UNCHANGED <<sent, calling>>, NEW e \in Edges,
         batch' = Append(batch, e)
  PROVE  Emitted' = Append(Emitted, e)
<1>1. Emitted = sent \o batch /\ Emitted' = sent \o batch'
 BY DEF Emitted
<1>2. sent \in Seq(Edges) /\ batch \in Seq(Edges) /\ <<e>> \in Seq(Edges)
 BY DEF RelationsTypeOK
<1>3. Append(batch, e) = batch \o <<e>>
 BY <1>2, AppendIsConcat
<1>4. sent \o batch \in Seq(Edges)
 BY <1>2, ConcatProperties
<1>5. Append(sent \o batch, e) = (sent \o batch) \o <<e>>
 BY <1>4, AppendIsConcat
<1> QED
 BY <1>1, <1>2, <1>3, <1>5, ConcatAssociative

LEMMA ListStep ==
  ASSUME ReaderOK, ListInv, Treated, Advances, UNCHANGED <<loaded, edges, sent, calling>>,
         calling, RelationsTypeOK'
  PROVE  ListInv'
<1> DEFINE count == Cardinality({q \in Due : Before(q, Here)})
           after == Cardinality({q \in Due : Before(q, Here')})
<1>1. count \in Nat /\ after = IF Here \in Due THEN count + 1 ELSE count
 BY DueIsPlaced, OutGrows
<1>2. Due' = Due
 BY DEF Due
<1>3. /\ edges = [n \in 1 .. Cardinality(Due) |-> EdgeAt(loaded, Due, Sorted(Due)[n])]
      /\ Len(Emitted) = count /\ \A n \in 1 .. count : Emitted[n] = edges[n]
 BY DEF ListInv
<1>4. edges' = [n \in 1 .. Cardinality(Due') |-> EdgeAt(loaded', Due', Sorted(Due')[n])]
 BY <1>2, <1>3
<1>5. Emitted \in Seq(Edges)
 BY EdgesAreLists DEF ReaderOK
<1> SUFFICES Len(Emitted') = after /\ \A n \in 1 .. after : Emitted'[n] = edges[n]
 BY <1>2, <1>4 DEF ListInv
<1>6. CASE Here \in Due /\ batch' = Append(batch, EdgeAt(loaded, Due, Here))
 <2> DEFINE e == EdgeAt(loaded, Due, Here)
 <2>1. e \in Edges
  <3>1. batch \in Seq(Edges) /\ batch' \in Seq(Edges)
   BY DEF ReaderOK, RelationsTypeOK
  <3>2. Len(batch) \in Nat /\ Len(batch') = Len(batch) + 1 /\ batch'[Len(batch) + 1] = e
   <4> HIDE DEF e
   <4> QED
    BY <1>6, <3>1, AppendProperties, LenProperties DEF e
  <3> QED
   BY <3>1, <3>2, ElementOfSeq
 <2>2. Emitted' = Append(Emitted, e)
  BY <1>6, <2>1, PageGrows DEF ReaderOK
 <2>3. count + 1 \in 1 .. Cardinality(Due) /\ Sorted(Due)[count + 1] = Here
  BY <1>6, DueIsPlaced, TripleInOrder
 <2>4. edges[count + 1] = e
  BY <1>3, <2>3
 <2> HIDE DEF e, count
 <2>5. /\ Len(Emitted') = count + 1 /\ Emitted'[count + 1] = e
       /\ \A n \in 1 .. count : Emitted'[n] = Emitted[n]
  BY <1>1, <1>3, <1>5, <2>1, <2>2, AppendProperties
 <2>6. \A n \in 1 .. count + 1 : n \in 1 .. count \/ n = count + 1
  BY <1>1
 <2>7. after = count + 1
  BY <1>1, <1>6
 <2> HIDE DEF after
 <2> QED
  BY ONLY <1>3, <2>4, <2>5, <2>6, <2>7
<1>7. CASE Here \notin Due /\ UNCHANGED batch
 <2>1. Emitted' = Emitted
  BY <1>7 DEF Emitted
 <2> QED
  BY <1>1, <1>3, <1>7, <2>1
<1> QED
 BY <1>6, <1>7 DEF Treated, pairVars

LEMMA ReaderStep ==
  ASSUME ReaderInv, [Next]_relationVars
  PROVE  ReaderInv'
<1>1. RelationsTypeOK' /\ LoadedOK' /\ ListedOnce' /\ UNCHANGED loaded
 BY TypeStep, LoadedStep, ListedStep DEF ReaderInv, ReaderOK
<1>2. TablesAreLists'
 BY <1>1 DEF ReaderInv, ReaderOK, TablesAreLists
<1>3. CASE Emits
 <2>1. MemoryOK' /\ Treated /\ Advances /\ CursorsAtRest'
  BY <1>1, <1>3, MemoryStep DEF ReaderInv, Done
 <2>2. calling /\ UNCHANGED <<edges, sent, calling>>
  BY <1>3, EveryTurn DEF ReaderInv, ReaderOK, fixedVars, callVars
 <2>3. ListInv'
  BY <1>1, <2>1, <2>2, ListStep DEF ReaderInv
 <2> QED
  BY <1>1, <1>2, <2>1, <2>3 DEF ReaderInv, ReaderOK
<1>4. CASE Call \/ Return \/ UNCHANGED relationVars
 <2>1. /\ UNCHANGED <<edges, phase, row, assemblyVars, endpoint, pairVars>>
       /\ Emitted' = Emitted
  <3>1. CASE Call
   <4>1. Emitted = sent /\ Emitted' = sent \o <<>>
    BY <3>1 DEF Call, Emitted
   <4> QED
    BY <3>1, <4>1, ConcatEmptySeq DEF Call, fixedVars, ReaderInv, ReaderOK, RelationsTypeOK
  <3>2. CASE Return
   BY <3>2 DEF Return, Emitted, fixedVars
  <3>3. CASE UNCHANGED relationVars
   BY <3>3 DEF relationVars, fixedVars, callVars, Emitted
  <3> QED
   BY <1>4, <3>1, <3>2, <3>3
 <2>2. UNCHANGED <<initialized, member, ordinal, subelements, hosted, connections, childOrdinals>>
  BY <2>1 DEF assemblyVars, pairVars
 <2>3. UNCHANGED Here
  BY <2>1, <2>2 DEF Here, Within
 <2>4. CursorsAtRest'
  BY <1>1, <2>1, <2>2 DEF CursorsAtRest, TableOf, ReaderInv, ReaderOK
 <2>5. UNCHANGED Due /\ UNCHANGED Behind /\ (initialized => UNCHANGED Current)
  BY <1>1, <2>1, <2>3 DEF Due, Behind, Current, TableOf
 <2>6. PairsExact'
  <3>1. \A kind, s, t : Taken(kind, s, t)' <=> Taken(kind, s, t)
   BY <1>1, <2>5 DEF Taken
  <3> QED
   BY <2>2, <3>1 DEF PairsExact, ReaderInv, MemoryOK
 <2>7. CountersExact'
  <3>1. \A s : ChildrenOut(s)' = ChildrenOut(s)
   BY <1>1, <2>3, <2>5 DEF ChildrenOut
  <3> QED
   BY <2>2, <3>1 DEF CountersExact, ReaderInv, MemoryOK
 <2>8. OrdinalExact'
  <3>1. initialized => MembersOut(Current.id)' = MembersOut(Current.id)
   BY <1>1, <2>3, <2>5 DEF MembersOut
  <3> QED
   BY <2>2, <3>1 DEF OrdinalExact, ReaderInv, MemoryOK
 <2>9. ListInv'
  BY <1>1, <2>1, <2>3, <2>5 DEF ListInv, ReaderInv
 <2> QED
  BY <1>1, <1>2, <2>4, <2>6, <2>7, <2>8, <2>9 DEF ReaderInv, ReaderOK, MemoryOK
<1> QED
 BY <1>3, <1>4 DEF Next, Emits

\* The list ends where the last phase does.
LEMMA ListEnds ==
  ASSUME ReaderInv
  PROVE  /\ Len(edges) \in Nat /\ Len(Emitted) \in Nat /\ Len(Emitted) <= Len(edges)
         /\ Len(edges) = Cardinality(Due)
         /\ phase = "done" => Len(Emitted) = Len(edges)
<1> DEFINE out == {q \in Due : Before(q, Here)}
<1>1. IsFiniteSet(Due) /\ Cardinality(Due) \in Nat /\ out \in SUBSET Due
 BY DueIsPlaced, FS_CardinalityType DEF ReaderInv
<1>2. Cardinality(out) <= Cardinality(Due) /\ Cardinality(out) \in Nat
 BY ONLY <1>1, FS_Subset, FS_CardinalityType
<1>3. Len(edges) = Cardinality(Due) /\ Len(Emitted) = Cardinality(out)
 <2>1. edges = [n \in 1 .. Cardinality(Due) |-> EdgeAt(loaded, Due, Sorted(Due)[n])]
  BY DEF ReaderInv, ListInv
 <2>2. \A N \in Nat : \A f : f = [n \in 1 .. N |-> EdgeAt(loaded, Due, Sorted(Due)[n])]
                               => Len(f) = N
  OBVIOUS
 <2> QED
  BY <1>1, <2>1, <2>2 DEF ReaderInv, ListInv
<1>4. phase = "done" => out = Due
 <2> SUFFICES ASSUME phase = "done", NEW q \in Due PROVE Before(q, Here)
  OBVIOUS
 <2>1. q \in Triples /\ q[1] < 8
  BY DueIsPlaced, PlacesAreTriples DEF ReaderInv, ReaderOK
 <2>2. Here = <<8, row + 1, Within>> /\ row + 1 \in Nat /\ Within \in Nat
  BY DEF Here, StageOf, Within, ReaderInv, ReaderOK, RelationsTypeOK
 <2> QED
  BY ONLY <2>1, <2>2, BeforePlace
<1> QED
 BY <1>1, <1>2, <1>3, <1>4

\* The reader starts as the abstract stream and its pages are that stream's.
LEMMA PageInit == Init => Pages!Init
BY SizesAssumption DEF Init, Pages!Init, NoAnswer, Pages!NoAnswer

LEMMA ReturnPages == ASSUME ReaderInv, Return PROVE Pages!Next
<1>1. /\ calling /\ sent' = sent \o batch
      /\ Len(batch) >= size \/ phase = "done"
      /\ answer' = IF batch = <<>> /\ phase = "done" THEN Ended ELSE Page(batch)
      /\ UNCHANGED <<edges, size>> /\ Emitted = sent \o batch
 BY DEF Return, fixedVars, Emitted
<1>2. /\ sent \in Seq(Edges) /\ batch \in Seq(Edges) /\ Len(batch) <= size
      /\ size \in Nat \ {0}
 BY SizesAssumption DEF ReaderInv, ReaderOK, RelationsTypeOK
<1>3. /\ Len(sent) \in Nat /\ Len(batch) \in Nat /\ Len(sent') = Len(sent) + Len(batch)
      /\ sent' \in Seq(Edges) /\ Emitted = sent'
      /\ \A i \in 1 .. Len(batch) : sent'[Len(sent) + i] = batch[i]
 <2>1. Len(sent) \in Nat /\ Len(batch) \in Nat
  BY <1>2, LenProperties
 <2>2. /\ Len(sent') = Len(sent) + Len(batch) /\ sent' \in Seq(Edges)
       /\ \A i \in 1 .. Len(sent) + Len(batch) :
              sent'[i] = IF i <= Len(sent) THEN sent[i] ELSE batch[i - Len(sent)]
  <3>1. LET both == sent \o batch IN
        /\ both \in Seq(Edges) /\ Len(both) = Len(sent) + Len(batch)
        /\ \A i \in 1 .. Len(sent) + Len(batch) :
               both[i] = IF i <= Len(sent) THEN sent[i] ELSE batch[i - Len(sent)]
   BY ONLY <1>2, ConcatProperties
  <3>2. sent' = sent \o batch
   BY DEF Return
  <3> QED
   BY ONLY <3>1, <3>2, Zenon
 <2>3. \A m, n \in Nat : \A i \in 1 .. n : /\ m + i \in 1 .. m + n /\ ~(m + i <= m)
                                            /\ (m + i) - m = i
  OBVIOUS
 <2>4. \A i \in 1 .. Len(batch) : sent'[Len(sent) + i] = batch[i]
  BY ONLY <2>1, <2>2, <2>3
 <2> QED
  BY ONLY <1>1, <2>1, <2>2, <2>4
<1>4. /\ Len(edges) \in Nat /\ Len(sent') <= Len(edges)
      /\ phase = "done" => Len(sent') = Len(edges)
      /\ \A n \in 1 .. Len(sent') : sent'[n] = edges[n]
 BY <1>3, ListEnds DEF ReaderInv, ListInv
<1>5. CASE batch = <<>>
 <2>1. phase = "done" /\ answer' = Ended /\ Len(sent') = Len(sent)
  BY <1>1, <1>2, <1>3, <1>5
 <2>2. Pages!End
  BY <1>1, <1>4, <2>1 DEF Pages!End, Ended, Pages!Ended
 <2> QED
  BY <2>2 DEF Pages!Next
<1>6. CASE batch # <<>>
 <2>1. Len(batch) > 0 /\ answer' = Page(batch)
  BY <1>1, <1>2, <1>3, <1>6, EmptySeq
 <2>2. Pages!Smaller(Len(sent) + size, Len(edges)) = Len(sent')
  <3>1. CASE phase = "done"
   <4>1. Len(sent') = Len(edges)
    BY <1>4, <3>1
   <4>2. \A a, m, b \in Nat : b <= m => (a + m < a + b => a + m = a + b)
    OBVIOUS
   <4>3. Len(sent) + size < Len(sent') => Len(sent) + size = Len(sent')
    BY ONLY <1>2, <1>3, <4>2
   <4> QED
    BY ONLY <4>1, <4>3 DEF Pages!Smaller
  <3>2. CASE Len(batch) >= size
   <4>1. Len(batch) = size
    BY <1>2, <1>3, <3>2
   <4> QED
    BY <1>2, <1>3, <1>4, <4>1 DEF Pages!Smaller
  <3> QED
   BY ONLY <1>1, <3>1, <3>2
 <2>3. SubSeq(edges, Len(sent) + 1, Len(sent')) = batch
  <3> DEFINE part == SubSeq(edges, Len(sent) + 1, Len(sent'))
             from == Len(sent) + 1
             to == Len(sent')
  <3>1. \A i \in from .. to : edges[i] \in Edges
   BY <1>3, <1>4, ElementOfSeq
  <3>2. /\ part \in Seq(Edges)
        /\ Len(part) = IF from <= to THEN to - from + 1 ELSE 0
        /\ \A i \in 1 .. to - from + 1 : part[i] = edges[from + i - 1]
   <4>1. PICK m \in Int, n \in Int : m = from /\ n = to
    BY <1>3
   <4>2. \A i \in m .. n : edges[i] \in Edges
    BY ONLY <3>1, <4>1
   <4>3. LET p == SubSeq(edges, m, n) IN
         /\ p \in Seq(Edges) /\ Len(p) = IF m <= n THEN n - m + 1 ELSE 0
         /\ \A i \in 1 .. n - m + 1 : p[i] = edges[m + i - 1]
    BY ONLY <4>2, SubSeqProperties
   <4> QED
    BY ONLY <4>1, <4>3
  <3>3. Len(part) = Len(batch) /\ to - from + 1 = Len(batch)
   BY <1>3, <2>1, <3>2
  <3>4. \A i \in 1 .. Len(batch) : part[i] = batch[i]
   <4> SUFFICES ASSUME NEW i \in 1 .. Len(batch) PROVE part[i] = batch[i]
    OBVIOUS
   <4>1. from + i - 1 = Len(sent) + i /\ Len(sent) + i \in 1 .. Len(sent')
    BY <1>3
   <4>2. part[i] = edges[Len(sent) + i]
    BY ONLY <3>2, <3>3, <4>1, i \in 1 .. Len(batch)
   <4> QED
    BY <1>3, <1>4, <4>1, <4>2
  <3> HIDE DEF part
  <3>5. part = batch
   BY <1>2, <3>2, <3>3, <3>4, SeqEqual
  <3> QED
   BY <3>5 DEF part
 <2>4. Pages!Deliver
  <3>1. Len(sent) < Len(edges)
   BY <1>3, <1>4, <2>1
  <3> QED
   BY <1>1, <2>1, <2>2, <2>3, <3>1 DEF Pages!Deliver, Page, Pages!Page
 <2> QED
  BY <2>4 DEF Pages!Next
<1> QED
 BY <1>5, <1>6

LEMMA PageStep ==
  ASSUME ReaderInv, [Next]_relationVars PROVE [Pages!Next]_(Pages!pageVars)
<1>1. CASE Emits \/ Call \/ UNCHANGED relationVars
 <2>1. UNCHANGED <<edges, size, sent, answer>>
  BY <1>1, EveryTurn DEF ReaderInv, ReaderOK, Call, relationVars, fixedVars, callVars
 <2> QED
  BY <2>1 DEF Pages!pageVars
<1> QED
 BY <1>1, ReturnPages DEF Next, Emits

\* For every table whose pour units are no assemblies, and for every page
\* size: the reader's pages are, one after the other, the pages of the list
\* promised for the tables, no page but the last is short, and the end is
\* answered where the list ends.
THEOREM PagesArePromised == UnitsAreNoAssemblies => (Spec => Pages!Spec)
<1> SUFFICES ASSUME UnitsAreNoAssemblies PROVE Spec => Pages!Spec
 OBVIOUS
<1>1. Init => ReaderInv
 BY ReaderInit
<1>2. ReaderInv /\ [Next]_relationVars => ReaderInv'
 BY ReaderStep
<1>3. Init => Pages!Init
 BY PageInit
<1>4. ReaderInv /\ [Next]_relationVars => [Pages!Next]_(Pages!pageVars)
 BY PageStep
<1> QED
 BY <1>1, <1>2, <1>3, <1>4, PTL DEF Spec, Pages!Spec

\* What the list begins with has no edge twice, for it has every place once.
LEMMA ListedEdgesDiffer ==
  ASSUME ReaderInv PROVE EdgesOnce
<1> SUFFICES ASSUME NEW i \in DOMAIN Emitted, NEW j \in DOMAIN Emitted, i # j
             PROVE  ~SameEdge(Emitted[i], Emitted[j])
 BY DEF EdgesOnce
<1>1. \A n \in {i, j} : /\ n \in 1 .. Cardinality(Due)
                        /\ Emitted[n] = EdgeAt(loaded, Due, Sorted(Due)[n])
 <2>1. i \in 1 .. Len(Emitted) /\ j \in 1 .. Len(Emitted)
  BY EdgesAreLists, LenProperties DEF ReaderInv, ReaderOK
 <2>2. Len(edges) = Cardinality(Due) /\ Len(Emitted) <= Len(edges) /\ Len(edges) \in Nat
       /\ Len(Emitted) \in Nat
  BY ListEnds
 <2>3. /\ edges = [n \in 1 .. Cardinality(Due) |-> EdgeAt(loaded, Due, Sorted(Due)[n])]
       /\ \A n \in 1 .. Len(Emitted) : Emitted[n] = edges[n]
  BY DEF ReaderInv, ListInv
 <2>4. i \in 1 .. Cardinality(Due) /\ j \in 1 .. Cardinality(Due)
  BY ONLY <2>1, <2>2
 <2> QED
  BY ONLY <2>1, <2>3, <2>4
<1>2. PICK p \in Due, q \in Due : /\ p = Sorted(Due)[i] /\ q = Sorted(Due)[j]
                                  /\ Cardinality({y \in Due : Before(y, p)}) = i - 1
                                  /\ Cardinality({y \in Due : Before(y, q)}) = j - 1
 <2>1. \A n \in 1 .. Cardinality(Due) :
           /\ Sorted(Due)[n] \in Due
           /\ Cardinality({y \in Due : Before(y, Sorted(Due)[n])}) = n - 1
  <3>1. Due \in SUBSET Triples /\ IsFiniteSet(Due)
   BY DueIsPlaced DEF ReaderInv
  <3> QED
   BY ONLY <3>1, TripleInOrder
 <2> QED
  BY ONLY <1>1, <2>1
<1>3. p # q
 <2>1. i \in Int /\ j \in Int
  BY <1>1
 <2> QED
  BY ONLY <1>2, <2>1, i # j
<1>4. Before(p, q) \/ Before(q, p)
 <2>1. p \in Triples /\ q \in Triples
  BY DueIsPlaced DEF ReaderInv
 <2>2. \A a, b \in Triples : a # b => Before(a, b) \/ Before(b, a)
  BY TripleOrder DEF Triples
 <2> QED
  BY ONLY <1>3, <2>1, <2>2
<1>5. ~SameEdge(CandidateAt(loaded, p), CandidateAt(loaded, q))
 BY <1>4 DEF Due, KeptPlaces, SameEdge
<1> QED
 BY <1>1, <1>2, <1>5 DEF EdgeAt, SameEdge

\* For every table whose pour units are no assemblies, and for every page
\* size: no edge of any kind goes out twice, in one page or in two, from one
\* table or from two.
THEOREM EdgesGoOutOnce == UnitsAreNoAssemblies => (Spec => []EdgesOnce)
<1> SUFFICES ASSUME UnitsAreNoAssemblies PROVE Spec => []EdgesOnce
 OBVIOUS
<1>1. Init => ReaderInv
 BY ReaderInit
<1>2. ReaderInv /\ [Next]_relationVars => ReaderInv'
 BY ReaderStep
<1>3. ReaderInv => EdgesOnce
 BY ListedEdgesDiffer
<1> QED
 BY <1>1, <1>2, <1>3, PTL DEF Spec
=============================================================================
