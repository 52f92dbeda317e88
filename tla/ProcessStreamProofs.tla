----------------------------- MODULE ProcessStreamProofs -----------------------------
(***************************************************************************)
(* What holds of the stream for every model and every request: of the      *)
(* attributes of an object with one name, values of one definition only    *)
(* go out; what is heard of geometry and materials comes after what it     *)
(* needs; no selected part is lost between two windows or two calls; and   *)
(* the readers are together the stream that BatchStream promises.          *)
(*                                                                         *)
(* The first argument runs over both passes of the attributes.  While      *)
(* winners are chosen, two rows met on one path have its count above one,  *)
(* so the path survives Contested; from then on each such path has a       *)
(* winner, and a row on it that goes out is that winner.  Two rows of one  *)
(* object and name that differ in their definition are such rows, because  *)
(* their name then has two carriers and is ambiguous: which rests on       *)
(* counting a finite set.                                                  *)
(*                                                                         *)
(* The second follows the window of the geometry reader, and the materials *)
(* of the part and surface readers, from the call that fills them to the   *)
(* call that sends the last of them.  What waits is known by pending_ and  *)
(* emit_materials_ alone, while the lists keep what has gone out already:  *)
(* GeometryInv says of every row before the cursor where it is, and of     *)
(* every list that waits what has gone out before it.                      *)
(*                                                                         *)
(* The third is the refinement.  TrackInv says of every channel of the     *)
(* reader at work that what was heard of it, with what waits, is its list  *)
(* as far as the rows before the cursor make it: their number is the       *)
(* cardinality of a set, and the list holds the members of the set in      *)
(* order.  The channels of the stages before are drained and those of the  *)
(* stages after it untouched, which readers in one order, each once, keep  *)
(* apart.  Every answer is then the next items of one channel.             *)
(***************************************************************************)
EXTENDS ProcessStream, FiniteSetTheorems, SequenceTheorems, TLAPS

\* The rows of the link tables of attributes `a`.
AllRows(a) == {l \in (1 .. 3) \X (Nat \ {0}) : l[2] <= Len(LinkTable(a, l[1]))}

\* The rows that go out when the winners are `w`.
OutRows(a, w) == {l \in AllRows(a) : GoesOut(a, w, l)}

\* Two rows of which one must lose.
Rivals(a, l, m) ==
  /\ l # m
  /\ Meets(a, l) /\ Meets(a, m)
  /\ Path(a, l) = Path(a, m)

---------------------------------------------------------------------------
(* Names.                                                                 *)

LEMMA KindsOfLinks ==
  ASSUME NEW l \in (1 .. 3) \X (Nat \ {0})
  PROVE  Kind(l) \in DOMAIN Precedence
 BY DEF Kind, LinkKinds, Precedence

\* A table of definitions defines finitely many ids.
LEMMA FinitelyManyIds ==
  ASSUME NEW S, NEW rows \in Seq(S)
  PROVE  IsFiniteSet(DOMAIN LoadDefinitions(rows))
<1> DEFINE ids == {rows[i].id : i \in DOMAIN rows}
           f == [i \in 1 .. Len(rows) |-> rows[i].id]
<1>1. DOMAIN LoadDefinitions(rows) = ids
 BY DEF LoadDefinitions
<1>2. DOMAIN rows = 1 .. Len(rows) /\ Len(rows) \in Nat
 OBVIOUS
<1>3. f \in Surjection(1 .. Len(rows), ids)
 BY <1>2 DEF Surjection
<1>4. IsFiniteSet(1 .. Len(rows))
 BY <1>2, FS_Interval
<1>5. IsFiniteSet(ids)
 <2> HIDE DEF f, ids
 <2> QED BY <1>3, <1>4, FS_Surjection
<1> QED BY <1>1, <1>5

\* A name that two definitions carry is ambiguous.
LEMMA TwoCarriers ==
  ASSUME NEW raw \in [links : [DOMAIN Precedence -> Seq([father : Ids, def : Ids])],
                      definitions : [DOMAIN Precedence -> Seq([id : Ids, name : Names])]],
         NEW a, a = LoadAttributes(raw),
         NEW l \in (1 .. 3) \X (Nat \ {0}), NEW m \in (1 .. 3) \X (Nat \ {0}),
         Known(a, l), Known(a, m), Name(a, l) = Name(a, m),
         Kind(l) # Kind(m) \/ Link(a, l).def # Link(a, m).def
  PROVE  Name(a, l) \in a.ambiguous
<1> DEFINE names == a.names
           n == Name(a, l)
           dl == <<Kind(l), Link(a, l).def>>
           dm == <<Kind(m), Link(a, m).def>>
           D(k) == DOMAIN names[k]
<1>1. /\ names = [k \in DOMAIN Precedence |-> LoadDefinitions(raw.definitions[k])]
      /\ a.ambiguous = AmbiguousNames(names)
 BY DEF LoadAttributes
<1>2. DOMAIN Precedence = {"reference", "numeric", "text"}
 BY DEF Precedence
<1>3. \A k \in DOMAIN Precedence : IsFiniteSet(D(k))
 BY <1>1, FinitelyManyIds
<1>4. Kind(l) \in DOMAIN Precedence /\ Kind(m) \in DOMAIN Precedence
 BY KindsOfLinks
<1>5. {dl, dm} \subseteq Carriers(names, n)
 BY <1>1, <1>4 DEF Carriers, Known, Name
<1>6. IsFiniteSet(Carriers(names, n))
 <2> DEFINE all == D("reference") \cup D("numeric") \cup D("text")
 <2>1. IsFiniteSet(all)
  BY <1>2, <1>3, FS_Union
 <2>2. IsFiniteSet(DOMAIN Precedence)
  <3>1. DOMAIN Precedence = ({"reference"} \cup {"numeric"}) \cup {"text"}
   BY <1>2
  <3>2. IsFiniteSet({"reference"} \cup {"numeric"})
   BY FS_Singleton, FS_Union
  <3>3. IsFiniteSet({"text"})
   BY FS_Singleton
  <3>4. IsFiniteSet(({"reference"} \cup {"numeric"}) \cup {"text"})
   BY <3>2, <3>3, FS_Union
  <3> QED BY <3>1, <3>4
 <2>3. IsFiniteSet((DOMAIN Precedence) \X all)
  BY <2>1, <2>2, FS_Product
 <2>4. Carriers(names, n) \subseteq (DOMAIN Precedence) \X all
  BY <1>1, <1>2 DEF Carriers
 <2> QED BY <2>3, <2>4, FS_Subset
<1>7. dl # dm
 OBVIOUS
<1>8. IsFiniteSet({dl, dm}) /\ Cardinality({dl, dm}) = 2
 <2>1. IsFiniteSet({dl}) /\ Cardinality({dl}) = 1
  BY FS_Singleton
 <2>2. {dl, dm} = {dl} \cup {dm} /\ dm \notin {dl}
  BY <1>7
 <2> HIDE DEF dl, dm
 <2>3. /\ IsFiniteSet({dl} \cup {dm})
       /\ Cardinality({dl} \cup {dm}) = IF dm \in {dl} THEN Cardinality({dl})
                                        ELSE Cardinality({dl}) + 1
  BY <2>1, FS_AddElement
 <2>4. Cardinality({dl} \cup {dm}) = 1 + 1
  BY <2>1, <2>2, <2>3, Zenon
 <2>5. IsFiniteSet({dl, dm}) /\ Cardinality({dl, dm}) = 1 + 1
  BY <2>2, <2>3, <2>4, Zenon
 <2> QED BY <2>5
<1>9. Cardinality(Carriers(names, n)) > 1
 <2>1. Cardinality({dl, dm}) <= Cardinality(Carriers(names, n))
  BY <1>5, <1>6, FS_Subset
 <2>2. Cardinality(Carriers(names, n)) \in Nat
  BY <1>6, FS_CardinalityType
 <2> QED BY <2>1, <2>2, <1>8
<1>10. n \in AllNames(names)
 <2>1. n = names[Kind(l)][Link(a, l).def] /\ Link(a, l).def \in DOMAIN names[Kind(l)]
  BY DEF Known, Name
 <2>2. Kind(l) \in DOMAIN names
  BY <1>1, <1>4
 <2> QED BY <2>1, <2>2 DEF AllNames
<1> QED BY <1>1, <1>9, <1>10 DEF AmbiguousNames

---------------------------------------------------------------------------
(* The first pass.                                                        *)

Counted(w) == \A p \in DOMAIN w : w[p].occurrences \in Nat \ {0}

\* One turn of the first pass: a row met is counted, and no count goes back.
LEMMA MeetCounts ==
  ASSUME NEW a, NEW w, NEW l, Counted(w)
  PROVE  LET v == Meet(a, w, l) IN
         /\ Counted(v)
         /\ DOMAIN w \subseteq DOMAIN v
         /\ \A p \in DOMAIN w : v[p].occurrences >= w[p].occurrences
         /\ Meets(a, l) =>
               /\ Path(a, l) \in DOMAIN v
               /\ Path(a, l) \in DOMAIN w => v[Path(a, l)].occurrences > 1
<1> DEFINE v == Meet(a, w, l)
           path == Path(a, l)
<1>1. CASE ~Meets(a, l)
 <2>1. v = w
  BY <1>1 DEF Meet
 <2> QED BY <2>1, <1>1 DEF Counted
<1>2. CASE Meets(a, l) /\ path \notin DOMAIN w
 <2> DEFINE new == [row |-> l, precedence |-> Precedence[Kind(l)], occurrences |-> 1]
 <2>1. v = [p \in DOMAIN w \cup {path} |-> IF p = path THEN new ELSE w[p]]
  BY <1>2 DEF Meet
 <2>2. /\ DOMAIN v = DOMAIN w \cup {path}
       /\ \A p \in DOMAIN w : v[p] = w[p]
       /\ v[path] = new
  BY <2>1, <1>2
 <2> QED BY <2>2, <1>2 DEF Counted
<1>3. CASE Meets(a, l) /\ path \in DOMAIN w
 <2>1. PICK new : v = [w EXCEPT ![path] = new] /\ new.occurrences = w[path].occurrences + 1
  BY <1>3, SMTT(40) DEF Meet
 <2>2. /\ DOMAIN v = DOMAIN w
       /\ \A p \in DOMAIN w : p # path => v[p] = w[p]
       /\ v[path].occurrences = w[path].occurrences + 1
  BY <2>1, <1>3
 <2> QED BY <2>2, <1>3 DEF Counted
<1> QED BY <1>1, <1>2, <1>3

---------------------------------------------------------------------------
(* The invariant.                                                         *)

Channel == <<"attributes", "properties">>

\* What is chosen at the start stays.
FixedOK ==
  /\ model \in Models /\ request \in Requests
  /\ attributes = LoadAttributes(model.attributes)

\* Nothing is read before the stream is open, and the cursor is on the link
\* tables while they are read.
CursorOK ==
  /\ calling => stream = "open"
  /\ stream \in {"none", "choosing"} => page = <<>>
  /\ stream = "none" => source = 1 /\ row = 0 /\ winners = <<>>
  /\ \/ stream = "choosing"
     \/ stream = "open" /\ readers # <<>> /\ Head(readers) = "attributes"
     => row \in Nat /\ source \in 1 .. 4

Through(s, r, l) == l[1] < s \/ (l[1] = s /\ l[2] <= r)

\* The rows that are through are counted, and rivals twice.
MetOK ==
  stream = "choosing" =>
      /\ Counted(winners)
      /\ \A l \in AllRows(attributes) :
            Through(source, row, l) /\ Meets(attributes, l)
               => Path(attributes, l) \in DOMAIN winners
      /\ \A l, m \in AllRows(attributes) :
            Through(source, row, l) /\ Through(source, row, m) /\ Rivals(attributes, l, m)
               => winners[Path(attributes, l)].occurrences > 1

\* Once the stream is open, rivals have a winner.
ContestedOK ==
  stream = "open" /\ "properties" \in request.stages =>
      \A l, m \in AllRows(attributes) :
          Rivals(attributes, l, m) => Path(attributes, l) \in DOMAIN winners

\* What is about to go out and what went out may go out.
PageOK ==
  stream = "open" /\ readers # <<>> /\ Head(readers) = "attributes" =>
      page \in Seq(OutRows(attributes, winners))

SentOK ==
  "properties" \in request.stages =>
      /\ Channel \in DOMAIN sent
      /\ stream # "open" => sent[Channel] = <<>>
      /\ stream = "open" => sent[Channel] \in Seq(OutRows(attributes, winners))

WinnersInv == FixedOK /\ CursorOK /\ MetOK /\ ContestedOK /\ PageOK /\ SentOK

\* The link tables are sequences.
LEMMA LinkTables ==
  ASSUME FixedOK, NEW s \in 1 .. 3
  PROVE  Len(LinkTable(attributes, s)) \in Nat
BY DEF FixedOK, Models, LoadAttributes, LinkKinds, Precedence, LinkTable

\* What has a winner or none: rows of one object and name have one definition.
LEMMA WinnersSuffice == WinnersInv => OneValuePerPath
<1> DEFINE a == attributes
           out == sent[Channel]
<1> SUFFICES ASSUME WinnersInv, "properties" \in request.stages,
                    NEW i \in DOMAIN out, NEW j \in DOMAIN out,
                    i # j, Path(a, out[i]) = Path(a, out[j])
             PROVE  Kind(out[i]) = Kind(out[j]) /\ Link(a, out[i]).def = Link(a, out[j]).def
 BY DEF OneValuePerPath, Channel
<1>1. stream = "open" /\ out \in Seq(OutRows(a, winners))
 BY DEF WinnersInv, SentOK
<1>2. out[i] \in OutRows(a, winners) /\ out[j] \in OutRows(a, winners)
 BY <1>1
<1>3. SUFFICES ASSUME \/ Kind(out[i]) # Kind(out[j])
                      \/ Link(a, out[i]).def # Link(a, out[j]).def
               PROVE  FALSE
 OBVIOUS
<1>4. Known(a, out[i]) /\ Known(a, out[j])
 BY <1>2 DEF OutRows, GoesOut
<1>5. Name(a, out[i]) = Name(a, out[j])
 BY DEF Path
<1>6. Name(a, out[i]) \in a.ambiguous
 <2>1. model.attributes \in
          [links : [DOMAIN Precedence -> Seq([father : Ids, def : Ids])],
           definitions : [DOMAIN Precedence -> Seq([id : Ids, name : Names])]]
  BY DEF WinnersInv, FixedOK, Models
 <2>2. a = LoadAttributes(model.attributes)
  BY DEF WinnersInv, FixedOK
 <2>3. out[i] \in (1 .. 3) \X (Nat \ {0}) /\ out[j] \in (1 .. 3) \X (Nat \ {0})
  BY <1>2 DEF OutRows, AllRows
 <2> HIDE DEF a, out
 <2> QED BY <1>3, <1>4, <1>5, <2>1, <2>2, <2>3, TwoCarriers
<1>7. Rivals(a, out[i], out[j])
 BY <1>3, <1>4, <1>5, <1>6 DEF Rivals, Meets
<1>8. Path(a, out[i]) \in DOMAIN winners
 BY <1>1, <1>2, <1>7 DEF WinnersInv, ContestedOK, OutRows
<1>9. winners[Path(a, out[i])].row = out[i] /\ winners[Path(a, out[i])].row = out[j]
 BY <1>2, <1>8 DEF OutRows, GoesOut
<1> QED BY <1>3, <1>9

LEMMA AttributesApart == "attributes" \notin ToSet(Chain)
BY DEF Chain, ToSet

LEMMA InitWinners == Init => WinnersInv
<1> SUFFICES ASSUME Init PROVE WinnersInv
 OBVIOUS
<1>1. FixedOK
 BY FamiliesAssumption DEF Init, FixedOK
<1>2. CursorOK /\ MetOK /\ ContestedOK /\ PageOK
 BY DEF Init, CursorOK, MetOK, ContestedOK, PageOK
<1>3. SentOK
 <2>1. SUFFICES ASSUME "properties" \in request.stages PROVE Channel \in Channels
  BY DEF Init, SentOK
 <2>2. "attributes" \in ToSet(AllReaders)
  BY DEF AllReaders, Chain, ToSet
 <2>3. Wanted("attributes")
  BY <2>1, AttributesApart DEF Wanted
 <2>4. "properties" \in KindsOf("attributes")
  BY DEF KindsOf
 <2> QED BY <2>2, <2>3, <2>4 DEF Channels, Channel
<1> QED BY <1>1, <1>2, <1>3 DEF WinnersInv

---------------------------------------------------------------------------
(* The steps.                                                             *)

\* Nothing that was chosen at the start is written.
LEMMA FixedStays ==
  ASSUME FixedOK, UNCHANGED <<model, request, attributes>>
  PROVE  FixedOK'
 BY DEF FixedOK

\* A step that leaves the stream, its readers and the attributes' channel
\* alone, while another reader is at work.
LEMMA OtherReader ==
  ASSUME WinnersInv, UNCHANGED fixedVars, UNCHANGED readers,
         stream = "open", readers # <<>> /\ Head(readers) # "attributes",
         Channel \in DOMAIN sent =>
            Channel \in DOMAIN sent' /\ sent'[Channel] = sent[Channel]
  PROVE  WinnersInv'
<1> USE DEF WinnersInv, fixedVars
<1>1. FixedOK' /\ CursorOK' /\ MetOK' /\ PageOK'
 BY FixedStays DEF CursorOK, MetOK, PageOK
<1>2. ContestedOK' /\ SentOK'
 BY DEF ContestedOK, SentOK
<1> QED BY <1>1, <1>2

\* A step after which the page is empty and the cursor at the start.
LEMMA Restart ==
  ASSUME WinnersInv, UNCHANGED fixedVars, UNCHANGED sent, stream = "open",
         page' = <<>>, row' \in Nat, source' \in 1 .. 4
  PROVE  WinnersInv'
<1> USE DEF WinnersInv, fixedVars
<1>1. FixedOK' /\ CursorOK' /\ MetOK' /\ PageOK'
 BY FixedStays DEF CursorOK, MetOK, PageOK
<1>2. ContestedOK' /\ SentOK'
 BY DEF ContestedOK, SentOK
<1> QED BY <1>1, <1>2

LEMMA ProcessKeeps == WinnersInv /\ Process => WinnersInv'
<1> SUFFICES ASSUME WinnersInv, Process PROVE WinnersInv'
 OBVIOUS
<1> USE DEF WinnersInv, Process, materialVars, geometryVars, answerVars
<1>1. FixedOK'
 BY FixedStays
<1>2. CursorOK' /\ PageOK'
 BY DEF CursorOK, PageOK
<1>3. MetOK'
 BY DEF AllRows, Through, CursorOK, MetOK, Counted
<1>4. ContestedOK'
 BY DEF ContestedOK
<1>5. SentOK'
 BY DEF SentOK
<1> QED BY <1>1, <1>2, <1>3, <1>4, <1>5

LEMMA ChooseWinnerKeeps == WinnersInv /\ ChooseWinner => WinnersInv'
<1> SUFFICES ASSUME WinnersInv, ChooseWinner PROVE WinnersInv'
 OBVIOUS
<1> USE DEF WinnersInv
<1> DEFINE new == <<source, row + 1>>
           a == attributes
<1>1. /\ stream = "choosing" /\ source \in 1 .. 4 /\ row \in Nat /\ source <= 3
      /\ row < Len(LinkTable(a, source))
      /\ winners' = Meet(a, winners, new) /\ row' = row + 1
      /\ UNCHANGED <<model, request, stream, attributes, readers, source, page, sent, calling>>
 BY DEF ChooseWinner, CursorOK, answerVars
<1>2. FixedOK' /\ CursorOK' /\ PageOK' /\ ContestedOK' /\ SentOK'
 BY <1>1, FixedStays DEF CursorOK, PageOK, ContestedOK, SentOK
<1>3. MetOK'
 <2>1. /\ Counted(winners)
       /\ \A l \in AllRows(a) :
             Through(source, row, l) /\ Meets(a, l) => Path(a, l) \in DOMAIN winners
       /\ \A l, m \in AllRows(a) :
             Through(source, row, l) /\ Through(source, row, m) /\ Rivals(a, l, m)
                => winners[Path(a, l)].occurrences > 1
  BY <1>1 DEF MetOK
 <2>2. /\ Counted(winners')
       /\ DOMAIN winners \subseteq DOMAIN winners'
       /\ \A p \in DOMAIN winners : winners'[p].occurrences >= winners[p].occurrences
       /\ Meets(a, new) =>
             /\ Path(a, new) \in DOMAIN winners'
             /\ Path(a, new) \in DOMAIN winners => winners'[Path(a, new)].occurrences > 1
  BY <1>1, <2>1, MeetCounts
 <2>3. ASSUME NEW l \in AllRows(a), Through(source, row + 1, l)
       PROVE  Through(source, row, l) \/ l = new
  BY <1>1, <2>3 DEF AllRows, Through
 <2>4. ASSUME NEW l \in AllRows(a), Through(source, row + 1, l), Meets(a, l)
       PROVE  Path(a, l) \in DOMAIN winners'
  BY <2>1, <2>2, <2>3, <2>4
 <2>5. ASSUME NEW l \in AllRows(a), NEW m \in AllRows(a), Through(source, row + 1, l),
              Through(source, row + 1, m), Rivals(a, l, m)
       PROVE  winners'[Path(a, l)].occurrences > 1
  <3>1. Meets(a, l) /\ Meets(a, m) /\ Path(a, l) = Path(a, m) /\ l # m
   BY <2>5 DEF Rivals
  <3>2. CASE Through(source, row, l) /\ Through(source, row, m)
   BY <2>1, <2>2, <2>5, <3>1, <3>2 DEF Counted
  <3>3. CASE l = new
   BY <2>1, <2>2, <2>3, <2>5, <3>1, <3>3
  <3>4. CASE m = new
   BY <2>1, <2>2, <2>3, <2>5, <3>1, <3>4
  <3> QED BY <2>3, <2>5, <3>2, <3>3, <3>4
 <2> HIDE DEF new, a
 <2>6. a' = a /\ source' = source
  BY <1>1 DEF a
 <2> QED BY <1>1, <2>2, <2>4, <2>5, <2>6 DEF MetOK, a
<1> QED BY <1>2, <1>3

LEMMA LinkTableDoneKeeps == WinnersInv /\ LinkTableDone => WinnersInv'
<1> SUFFICES ASSUME WinnersInv, LinkTableDone PROVE WinnersInv'
 OBVIOUS
<1> USE DEF WinnersInv
<1> DEFINE a == attributes
<1>1. /\ stream = "choosing" \/ At("attributes")
      /\ source <= 3 /\ row = Len(LinkTable(a, source))
      /\ source' = source + 1 /\ row' = 0
      /\ UNCHANGED <<model, request, stream, attributes, winners, readers, page, sent, calling>>
 BY DEF LinkTableDone, answerVars, fixedVars
<1>2. row \in Nat /\ source \in 1 .. 4
 BY <1>1 DEF CursorOK, At
<1>3. FixedOK' /\ CursorOK'
 BY <1>1, <1>2, FixedStays DEF CursorOK, At
<1>4. PageOK' /\ ContestedOK' /\ SentOK'
 BY <1>1 DEF PageOK, ContestedOK, SentOK
<1>5. MetOK'
 <2>1. \A l \in AllRows(a) : Through(source + 1, 0, l) => Through(source, row, l)
  BY <1>1, <1>2 DEF AllRows, Through
 <2> QED BY <1>1, <2>1 DEF MetOK
<1> QED BY <1>3, <1>4, <1>5

LEMMA WinnersChosenKeeps == WinnersInv /\ WinnersChosen => WinnersInv'
<1> SUFFICES ASSUME WinnersInv, WinnersChosen PROVE WinnersInv'
 OBVIOUS
<1> USE DEF WinnersInv
<1> DEFINE a == attributes
<1>1. /\ stream = "choosing" /\ source > 3 /\ stream' = "open" /\ source' = 1
      /\ winners' = Contested(winners)
      /\ UNCHANGED <<model, request, attributes, readers, row, page, sent, calling>>
 BY DEF WinnersChosen, answerVars
<1>2. row \in Nat /\ source \in 1 .. 4 /\ page = <<>>
 BY <1>1 DEF CursorOK
<1>3. FixedOK' /\ CursorOK' /\ MetOK'
 BY <1>1, <1>2, FixedStays DEF CursorOK, MetOK
<1>5. PageOK'
 BY <1>1, <1>2 DEF PageOK
<1>6. SentOK'
 <2>1. "properties" \in request.stages => Channel \in DOMAIN sent /\ sent[Channel] = <<>>
  BY <1>1 DEF SentOK
 <2>2. <<>> \in Seq(OutRows(attributes', winners'))
  OBVIOUS
 <2> HIDE DEF WinnersInv
 <2>3. request' = request /\ sent' = sent /\ stream' = "open"
  BY <1>1
 <2> QED BY <2>1, <2>2, <2>3 DEF SentOK
<1>4. ContestedOK'
 BY <1>1, <1>2 DEF Contested, Restrict, AllRows, Through, MetOK, Rivals, ContestedOK
<1> QED BY <1>3, <1>4, <1>5, <1>6

LEMMA ReadLinkKeeps == WinnersInv /\ ReadLink => WinnersInv'
<1> SUFFICES ASSUME WinnersInv, ReadLink PROVE WinnersInv'
 OBVIOUS
<1> USE DEF WinnersInv
<1> DEFINE new == <<source, row + 1>>
           a == attributes
           out == OutRows(a, winners)
<1>1. /\ calling /\ readers # <<>> /\ Head(readers) = "attributes"
      /\ source <= 3 /\ row < Len(LinkTable(a, source))
      /\ page' = IF GoesOut(a, winners, new) THEN Append(page, new) ELSE page
      /\ row' = row + 1
      /\ UNCHANGED <<model, request, stream, attributes, winners, readers, source, sent, calling>>
 BY DEF ReadLink, At, answerVars, fixedVars
<1>2. stream = "open" /\ row \in Nat /\ source \in 1 .. 4 /\ page \in Seq(out)
 BY <1>1 DEF CursorOK, PageOK
<1>3. new \in AllRows(a)
 BY <1>1, <1>2 DEF AllRows
<1>4. page' \in Seq(out)
 BY <1>1, <1>2, <1>3 DEF OutRows
<1>5. FixedOK' /\ CursorOK' /\ MetOK' /\ ContestedOK' /\ SentOK'
 BY <1>1, <1>2, FixedStays DEF CursorOK, MetOK, ContestedOK, SentOK
<1>6. PageOK'
 BY <1>1, <1>4 DEF PageOK
<1> QED BY <1>5, <1>6

LEMMA AnswerAttributesKeeps == WinnersInv /\ AnswerAttributes => WinnersInv'
<1> SUFFICES ASSUME WinnersInv, AnswerAttributes PROVE WinnersInv'
 OBVIOUS
<1> USE DEF WinnersInv
<1> DEFINE out == OutRows(attributes, winners)
<1>1. /\ calling /\ readers # <<>> /\ Head(readers) = "attributes"
      /\ ~calling'
      /\ sent' = [sent EXCEPT ![Channel] = @ \o page]
      /\ UNCHANGED <<model, request, stream, attributes, winners, readers, source, row, page>>
 BY DEF AnswerAttributes, Answers, Channel, At, cursorVars, fixedVars
<1>2. stream = "open" /\ page \in Seq(out)
 BY <1>1 DEF CursorOK, PageOK
<1>3. FixedOK' /\ CursorOK' /\ MetOK' /\ ContestedOK' /\ PageOK'
 BY <1>1, <1>2, FixedStays DEF CursorOK, MetOK, ContestedOK, PageOK
<1>4. SentOK'
 BY <1>1, <1>2 DEF SentOK
<1> QED BY <1>3, <1>4

\* A batch of another channel leaves the attributes' alone.
LEMMA OtherChannel ==
  ASSUME NEW c, NEW items, c[1] # "attributes", Answers(c, items), Channel \in DOMAIN sent
  PROVE  Channel \in DOMAIN sent' /\ sent'[Channel] = sent[Channel]
<1>1. c # Channel
 BY DEF Channel
<1> QED BY <1>1 DEF Answers

AtOther == stream = "open" /\ readers # <<>> /\ Head(readers) # "attributes"

LEMMA ReadersApart ==
  ASSUME WinnersInv, calling, readers # <<>>, Head(readers) # "attributes"
  PROVE  AtOther
 BY DEF WinnersInv, CursorOK, AtOther

\* The turns of the other readers.
LEMMA OtherTurns ==
  ASSUME WinnersInv,
         \/ ReadObject \/ FailObject \/ ReadSemanticRow \/ SkipWindow
         \/ NothingPending \/ StartWindow \/ ReadPart \/ EmptyWindow
         \/ OpenNonPart \/ FailNonPart \/ NonPartListDone
  PROVE  WinnersInv'
<1>1. UNCHANGED fixedVars /\ UNCHANGED readers /\ UNCHANGED sent
 BY DEF ReadObject, FailObject, ReadSemanticRow, SkipWindow, NothingPending, StartWindow,
        ReadPart, EmptyWindow, OpenNonPart, FailNonPart, NonPartListDone, cursorVars, answerVars
<1>2. calling /\ readers # <<>> /\ Head(readers) # "attributes"
 BY AttributesApart DEF ReadObject, FailObject, ReadSemanticRow, SkipWindow, NothingPending,
        StartWindow, ReadPart, EmptyWindow, OpenNonPart, FailNonPart, NonPartListDone, At,
        AtGeometry, WindowDone, InChain, Current
<1>3. AtOther
 BY <1>2, ReadersApart
<1> QED BY <1>1, <1>3, OtherReader DEF AtOther

\* The answers of the other readers.
LEMMA OtherAnswers ==
  ASSUME WinnersInv,
         \/ AnswerObjects \/ AnswerProperties \/ AnswerMaterials \/ AnswerPage
         \/ PendingMeshes \/ PendingDiagnostics
         \/ AnswerDefinitions \/ AnswerMeshes \/ AnswerDiagnostics \/ AnswerNonPart
  PROVE  WinnersInv'
<1>1. UNCHANGED fixedVars /\ UNCHANGED readers
 BY DEF AnswerObjects, AnswerProperties, AnswerMaterials, AnswerPage, PendingMeshes,
        PendingDiagnostics, AnswerDefinitions, AnswerMeshes, AnswerDiagnostics, AnswerNonPart,
        cursorVars
<1>2. calling /\ readers # <<>> /\ Head(readers) # "attributes"
 BY AttributesApart DEF AnswerObjects, AnswerProperties, AnswerMaterials, AnswerPage,
        PendingMeshes, PendingDiagnostics, AnswerDefinitions, AnswerMeshes, AnswerDiagnostics,
        AnswerNonPart, At, AtGeometry, WindowDone, InChain, Current
<1>3. AtOther
 BY <1>2, ReadersApart
<1>4. PICK c, items : c[1] # "attributes" /\ Answers(c, items)
 <2>1. CASE AnswerObjects
  BY <2>1 DEF AnswerObjects
 <2>2. CASE AnswerProperties
  BY <2>2, <1>2 DEF AnswerProperties, Current
 <2>3. CASE AnswerMaterials
  BY <2>3, <1>2 DEF AnswerMaterials, Current
 <2>4. CASE AnswerPage
  BY <2>4, <1>2 DEF AnswerPage, Current
 <2>5. CASE PendingMeshes
  BY <2>5 DEF PendingMeshes
 <2>6. CASE PendingDiagnostics
  BY <2>6 DEF PendingDiagnostics
 <2>7. CASE AnswerDefinitions
  BY <2>7 DEF AnswerDefinitions
 <2>8. CASE AnswerMeshes
  BY <2>8 DEF AnswerMeshes
 <2>9. CASE AnswerDiagnostics
  BY <2>9 DEF AnswerDiagnostics
 <2>10. CASE AnswerNonPart
  BY <2>10 DEF AnswerNonPart
 <2> QED BY <2>1, <2>2, <2>3, <2>4, <2>5, <2>6, <2>7, <2>8, <2>9, <2>10
<1>5. Channel \in DOMAIN sent => Channel \in DOMAIN sent' /\ sent'[Channel] = sent[Channel]
 BY <1>4, OtherChannel
<1> QED BY <1>1, <1>3, <1>5, OtherReader DEF AtOther

\* A call, the way to the next reader, and the end.
LEMMA BetweenReaders ==
  ASSUME WinnersInv, Call \/ ChainAdvances \/ StageAdvances \/ AnswerEnd
  PROVE  WinnersInv'
<1>1. CASE ChainAdvances \/ StageAdvances
 BY <1>1, Restart DEF ChainAdvances, StageAdvances, EnterNext, answerVars, WinnersInv, CursorOK
<1>2. CASE Call
 BY <1>2, FixedStays DEF Call, cursorVars, WinnersInv, fixedVars, CursorOK, MetOK, PageOK,
    ContestedOK, SentOK
<1>3. CASE AnswerEnd
 BY <1>3, FixedStays DEF AnswerEnd, cursorVars, WinnersInv, CursorOK, fixedVars, MetOK, PageOK,
    ContestedOK, SentOK
<1> QED BY <1>1, <1>2, <1>3

LEMMA NoStep == WinnersInv /\ UNCHANGED processVars => WinnersInv'
<1> SUFFICES ASSUME WinnersInv, UNCHANGED processVars PROVE WinnersInv'
 OBVIOUS
<1>1. UNCHANGED <<model, request, stream, attributes, winners, readers, row, source, page,
                  calling, sent>>
 BY DEF processVars, fixedVars, cursorVars, answerVars
<1>2. FixedOK' /\ CursorOK' /\ MetOK' /\ PageOK'
 BY <1>1, FixedStays DEF WinnersInv, CursorOK, MetOK, PageOK
<1>3. ContestedOK' /\ SentOK'
 BY <1>1 DEF WinnersInv, ContestedOK, SentOK
<1> QED BY <1>2, <1>3 DEF WinnersInv

LEMMA StepKeeps == WinnersInv /\ [Next]_processVars => WinnersInv'
<1> SUFFICES ASSUME WinnersInv, [Next]_processVars PROVE WinnersInv'
 OBVIOUS
<1>1. CASE Process \/ ChooseWinner \/ LinkTableDone \/ WinnersChosen
 BY <1>1, ProcessKeeps, ChooseWinnerKeeps, LinkTableDoneKeeps, WinnersChosenKeeps
<1>2. CASE ReadLink \/ AnswerAttributes
 BY <1>2, ReadLinkKeeps, AnswerAttributesKeeps
<1>3. CASE \/ ReadObject \/ FailObject \/ ReadSemanticRow \/ SkipWindow
           \/ NothingPending \/ StartWindow \/ ReadPart \/ EmptyWindow
           \/ OpenNonPart \/ FailNonPart \/ NonPartListDone
 BY <1>3, OtherTurns
<1>4. CASE \/ AnswerObjects \/ AnswerProperties \/ AnswerMaterials \/ AnswerPage
           \/ PendingMeshes \/ PendingDiagnostics
           \/ AnswerDefinitions \/ AnswerMeshes \/ AnswerDiagnostics \/ AnswerNonPart
 BY <1>4, OtherAnswers
<1>5. CASE Call \/ ChainAdvances \/ StageAdvances \/ AnswerEnd
 BY <1>5, BetweenReaders
<1>6. CASE ProcessAgain \/ UNCHANGED processVars
 BY <1>6, NoStep DEF ProcessAgain
<1> QED BY <1>1, <1>2, <1>3, <1>4, <1>5, <1>6 DEF Next

\* Of the attributes of one object and name, values of one definition only go
\* out, whatever the tables, the sizes of the batches and the stages.
THEOREM OneDefinitionPerPath == Spec => []OneValuePerPath
<1>1. Spec => []WinnersInv
 BY InitWinners, StepKeeps, PTL DEF Spec
<1> QED BY <1>1, WinnersSuffice, PTL

---------------------------------------------------------------------------
(* What goes out of the geometry of the parts and of their materials.     *)

Readers ==
  {"identities", "attributes", "parts", "bolts", "rebars", "welds", "surfaces",
   "surface_objects", "rebar_sets", "end_details", "splitters", "pour_objects", "pour_units",
   "splices", "relations", "semantic_relations", "instances", "geometry", "nonpart"}

AtWork(reader) == stream = "open" /\ readers # <<>> /\ Head(readers) = reader
Out(c) == IF c \in DOMAIN sent THEN ToSet(sent[c]) ELSE {}
GeometryOut(kind) == Out(<<"geometry", kind>>)

\* The items of all streams but the attributes' are numbers of rows; a window of
\* the geometry is decoded, and waits, while its reader is at work only.
ItemsOK ==
  /\ DOMAIN sent = Channels
  /\ \A c \in Channels : c[1] # "attributes" => sent[c] \in Seq(Nat)
  /\ ~AtWork("attributes") => page \in Seq(Nat)
  /\ materials \in Seq(Nat) /\ meshes \in Seq(Nat) /\ diagnostics \in Seq(Nat)
  /\ emitMaterials \in BOOLEAN

CallsOK ==
  /\ stream \in {"none", "choosing", "failed", "open"} /\ readers \in Seq(Readers)
  /\ row \in Nat /\ source \in 1 .. 4
  /\ calling \/ emitMaterials => stream = "open"
  /\ stream # "open" => page = <<>>
  /\ stream = "none" \/ (stream = "choosing" /\ source > 3) => row = 0
  /\ pending \in 1 .. 3 /\ decoding \in BOOLEAN
  /\ decoding => calling /\ pending = 1
  /\ decoding \/ pending # 3 => AtWork("geometry")
  /\ AtWork("geometry") => row \in 0 .. Len(Table("geometry"))

\* What of the window is still to go.
WaitingMeshes == IF pending = 1 THEN ToSet(meshes) ELSE {}
WaitingDiagnostics == IF pending <= 2 THEN ToSet(diagnostics) ELSE {}

Omits(i) ==
  /\ i \in Rows("geometry") /\ EmitsMeshes
  /\ Table("geometry")[i].geometry = "omitting" /\ Table("geometry")[i].attribute

\* Meshes go out after their definitions, and omissions after their meshes.
WindowOK ==
  /\ EmitsDefinitions =>
        /\ WaitingMeshes \subseteq IF decoding THEN ToSet(page)
                                   ELSE GeometryOut("definition_geometry")
        /\ GeometryOut("meshes") \subseteq GeometryOut("definition_geometry")
  /\ \A i \in WaitingDiagnostics : Omits(i) => i \in WaitingMeshes \cup GeometryOut("meshes")
  /\ \A i \in GeometryOut("diagnostics") : Omits(i) => i \in GeometryOut("meshes")

Needed(i) == Selected(i) /\ Table("geometry")[i].geometry \notin Passed
Accounted(i) ==
  i \in GeometryOut("meshes") \cup GeometryOut("diagnostics")
           \cup WaitingMeshes \cup WaitingDiagnostics

\* The parts before the cursor have been drawn or reported, or are about to be;
\* and the cursor comes to all of them.
PartsOK ==
  EmitsMeshes =>
      /\ AtWork("geometry") => \A i \in 1 .. row : Needed(i) => Accounted(i)
      /\ stream \in {"choosing", "open"} /\ "geometry" \notin ToSet(readers) =>
            \A i \in Rows("geometry") : Needed(i) => Accounted(i)

\* The materials of the window at work come with the properties of the page; those
\* that wait for the next call come after them.
MaterialsOK ==
  \A r \in {"parts", "surfaces"} :
      LET described == {i \in Nat : i \in Rows(r) => Describes(r, Table(r)[i])}
          properties == Out(<<r, "properties">>)
      IN
      /\ Out(<<r, "materials">>) \cap described \subseteq properties
      /\ AtWork(r) /\ <<r, "properties">> \in DOMAIN sent =>
            /\ emitMaterials => ToSet(materials) \cap described \subseteq properties
            /\ calling /\ ~emitMaterials => ToSet(materials) \cap described \subseteq ToSet(page)

GeometryInv == ItemsOK /\ CallsOK /\ WindowOK /\ PartsOK /\ MaterialsOK

LEMMA NoItems == ToSet(<<>>) = {}
 BY DEF ToSet

LEMMA NoneIsSequence ==
  ASSUME NEW S
  PROVE  <<>> \in Seq(S)
 OBVIOUS

LEMMA OneIsSequence ==
  ASSUME NEW S, NEW x \in S
  PROVE  <<x>> \in Seq(S)
 OBVIOUS

LEMMA ItemsOfSequence ==
  ASSUME NEW S, NEW s \in Seq(S)
  PROVE  Len(s) \in Nat /\ \A i \in 1 .. Len(s) : s[i] \in S
 OBVIOUS

LEMMA Joined ==
  ASSUME NEW S, NEW s \in Seq(S), NEW t \in Seq(S)
  PROVE  s \o t \in Seq(S)
 OBVIOUS

LEMMA OneMore ==
  ASSUME NEW S, NEW s \in Seq(S), NEW x \in S
  PROVE  ToSet(Append(s, x)) = ToSet(s) \cup {x}
<1>1. Len(Append(s, x)) = Len(s) + 1 /\ Append(s, x) \in Seq(S) /\ Len(s) \in Nat
 OBVIOUS
<1>2. \A i \in 1 .. Len(s) : Append(s, x)[i] = s[i]
 OBVIOUS
<1>3. Append(s, x)[Len(s) + 1] = x
 OBVIOUS
<1>4. DOMAIN Append(s, x) = 1 .. Len(s) + 1 /\ DOMAIN s = 1 .. Len(s)
 BY <1>1
<1> QED BY <1>1, <1>2, <1>3, <1>4 DEF ToSet

LEMMA AllOfBoth ==
  ASSUME NEW S, NEW s \in Seq(S), NEW t \in Seq(S)
  PROVE  ToSet(s \o t) = ToSet(s) \cup ToSet(t)
<1>1. /\ s \o t \in Seq(S) /\ Len(s \o t) = Len(s) + Len(t)
      /\ Len(s) \in Nat /\ Len(t) \in Nat
 OBVIOUS
<1>2. \A i \in 1 .. Len(s) : (s \o t)[i] = s[i]
 OBVIOUS
<1>3. \A i \in 1 .. Len(t) : (s \o t)[Len(s) + i] = t[i]
 OBVIOUS
<1>4. /\ DOMAIN (s \o t) = 1 .. Len(s) + Len(t)
      /\ DOMAIN s = 1 .. Len(s) /\ DOMAIN t = 1 .. Len(t)
 BY <1>1
<1>5. ASSUME NEW i \in 1 .. Len(s) + Len(t)
      PROVE  (s \o t)[i] \in ToSet(s) \cup ToSet(t)
 <2>1. CASE i <= Len(s)
  BY <1>1, <1>2, <1>4, <2>1 DEF ToSet
 <2>2. CASE i > Len(s)
  <3>1. i - Len(s) \in 1 .. Len(t) /\ i = Len(s) + (i - Len(s))
   BY <1>1, <2>2
  <3>2. (s \o t)[i] = t[i - Len(s)]
   BY <1>3, <3>1
  <3> QED BY <1>4, <3>1, <3>2 DEF ToSet
 <2> QED BY <1>1, <2>1, <2>2
<1>6. ASSUME NEW i \in 1 .. Len(s)
      PROVE  s[i] \in ToSet(s \o t)
 BY <1>1, <1>2, <1>4 DEF ToSet
<1>7. ASSUME NEW i \in 1 .. Len(t)
      PROVE  t[i] \in ToSet(s \o t)
 BY <1>1, <1>3, <1>4 DEF ToSet
<1> QED BY <1>4, <1>5, <1>6, <1>7 DEF ToSet

LEMMA HeadAndTail ==
  ASSUME NEW S, NEW s \in Seq(S), s # <<>>
  PROVE  ToSet(s) = {Head(s)} \cup ToSet(Tail(s)) /\ Tail(s) \in Seq(S) /\ Head(s) \in S
<1>1. /\ Tail(s) \in Seq(S) /\ Len(Tail(s)) = Len(s) - 1 /\ Len(s) \in Nat \ {0}
      /\ Head(s) = s[1] /\ Head(s) \in S
 OBVIOUS
<1>2. \A i \in 1 .. Len(s) - 1 : Tail(s)[i] = s[i + 1]
 OBVIOUS
<1>3. DOMAIN s = 1 .. Len(s) /\ DOMAIN Tail(s) = 1 .. Len(s) - 1
 BY <1>1
<1>4. ASSUME NEW i \in 1 .. Len(s)
      PROVE  s[i] \in {Head(s)} \cup ToSet(Tail(s))
 <2>1. CASE i = 1
  BY <1>1, <2>1
 <2>2. CASE i # 1
  <3>1. i - 1 \in 1 .. Len(s) - 1 /\ i = (i - 1) + 1
   BY <1>1, <2>2
  <3> QED BY <1>2, <1>3, <3>1 DEF ToSet
 <2> QED BY <2>1, <2>2
<1>5. ASSUME NEW i \in 1 .. Len(s) - 1
      PROVE  Tail(s)[i] \in ToSet(s)
 BY <1>1, <1>2, <1>3 DEF ToSet
<1>6. Head(s) \in ToSet(s)
 BY <1>1, <1>3 DEF ToSet
<1> QED BY <1>1, <1>3, <1>4, <1>5, <1>6 DEF ToSet

LEMMA ChannelsStay == UNCHANGED <<model, request>> => Channels' = Channels
 BY DEF Channels, Wanted, EmitsDefinitions, EmitsMeshes

\* An answer adds its items to what went out on its channel.
LEMMA AnswersAdd ==
  ASSUME ItemsOK, NEW c, NEW items, c[1] # "attributes" => items \in Seq(Nat),
         Answers(c, items)
  PROVE  /\ DOMAIN sent' = Channels
         /\ \A d \in Channels : d[1] # "attributes" => sent'[d] \in Seq(Nat)
         /\ \A d : d # c => Out(d)' = Out(d)
         /\ c \in Channels /\ c[1] # "attributes" => Out(c)' = Out(c) \cup ToSet(items)
         /\ c \notin Channels => Out(c)' = Out(c)
<1>1. /\ sent' = [sent EXCEPT ![c] = @ \o items] /\ DOMAIN sent = Channels
      /\ \A d \in Channels : d[1] # "attributes" => sent[d] \in Seq(Nat)
 BY DEF ItemsOK, Answers
<1>2. DOMAIN sent' = Channels /\ \A d \in Channels : d # c => sent'[d] = sent[d]
 BY <1>1
<1>3. \A d : d # c => Out(d)' = Out(d)
 BY <1>1, <1>2 DEF Out
<1>4. CASE c \notin Channels
 BY <1>1, <1>2, <1>3, <1>4 DEF Out
<1>5. CASE c \in Channels /\ c[1] = "attributes"
 BY <1>1, <1>2, <1>3, <1>5
<1>6. CASE c \in Channels /\ c[1] # "attributes"
 BY <1>1, <1>2, <1>3, <1>6, AllOfBoth DEF Out
<1> QED BY <1>4, <1>5, <1>6

\* The table of the parts.
LEMMA PartsTable ==
  ASSUME FixedOK
  PROVE  /\ Len(Table("geometry")) \in Nat /\ Rows("geometry") = 1 .. Len(Table("geometry"))
         /\ \A i \in Rows("geometry") : /\ Table("geometry")[i].attribute \in BOOLEAN
                                        /\ Table("geometry")[i].geometry \in Shapes
<1> DEFINE rows == [visible : BOOLEAN, attribute : BOOLEAN, text : BOOLEAN, geometry : Shapes]
<1>1. "parts" \in TableNames
 BY DEF Chain, TableNames, ToSet
<1>2. model.tables \in [TableNames -> Seq(rows)]
 BY DEF FixedOK, Models
<1>3. Table("geometry") \in Seq(rows)
 BY <1>1, <1>2 DEF Table
<1>4. Len(Table("geometry")) \in Nat /\ \A i \in 1 .. Len(Table("geometry")) : Table("geometry")[i] \in rows
 BY <1>3, ItemsOfSequence
<1> QED BY <1>4 DEF Rows

\* The part reader is one of the streams when meshes are asked for.
LEMMA GeometryIsPushed ==
  /\ StageReaders \in Seq(Readers)
  /\ EmitsMeshes => "geometry" \in ToSet(StageReaders)
<1>1. ASSUME NEW r \in Readers
      PROVE  Pushed(r) \in Seq(Readers)
 BY NoneIsSequence, OneIsSequence DEF Pushed
<1> DEFINE first == Pushed("identities") \o Pushed("attributes") \o Pushed("parts") \o Pushed("bolts")
           second == first \o Pushed("rebars") \o Pushed("welds") \o Pushed("surfaces")
                       \o Pushed("surface_objects") \o Pushed("rebar_sets")
           third == second \o Pushed("end_details") \o Pushed("splitters")
                      \o Pushed("pour_objects") \o Pushed("pour_units") \o Pushed("splices")
           front == third \o Pushed("relations") \o Pushed("semantic_relations")
                      \o Pushed("instances")
<1>2. front \in Seq(Readers)
 <2> DEFINE OfReaders(s) == s \in Seq(Readers)
 <2>1. \A s, t : OfReaders(s) /\ OfReaders(t) => OfReaders(s \o t)
  BY Joined
 <2>2. \A r \in Readers : OfReaders(Pushed(r))
  BY <1>1
 <2> USE DEF Readers
 <2> HIDE DEF OfReaders
 <2>3. OfReaders(first)
  BY <2>1, <2>2
 <2> HIDE DEF first
 <2>4. OfReaders(second)
  BY <2>1, <2>2, <2>3
 <2> HIDE DEF second
 <2>5. OfReaders(third)
  BY <2>1, <2>2, <2>4
 <2> HIDE DEF third
 <2>6. OfReaders(front)
  BY <2>1, <2>2, <2>5
 <2> QED BY <2>6 DEF OfReaders
<1>3. StageReaders = front \o Pushed("geometry") \o Pushed("nonpart")
 BY DEF StageReaders
<1> HIDE DEF front
<1>4. /\ Pushed("geometry") \in Seq(Readers) /\ Pushed("nonpart") \in Seq(Readers)
      /\ front \o Pushed("geometry") \in Seq(Readers)
 BY <1>1, <1>2, Joined DEF Readers
<1>5. StageReaders \in Seq(Readers)
 BY <1>3, <1>4
<1>6. ToSet(Pushed("geometry")) \subseteq ToSet(StageReaders)
 <2>1. ToSet(front \o Pushed("geometry")) = ToSet(front) \cup ToSet(Pushed("geometry"))
  BY <1>2, <1>4, AllOfBoth
 <2>2. ToSet(StageReaders)
         = ToSet(front \o Pushed("geometry")) \cup ToSet(Pushed("nonpart"))
  BY <1>3, <1>4, AllOfBoth, ZenonT(60)
 <2> QED BY <2>1, <2>2
<1>7. EmitsMeshes => Pushed("geometry") = <<"geometry">>
 <2>1. "geometry" \notin ToSet(Chain)
  BY DEF Chain, ToSet
 <2> QED BY <2>1 DEF Pushed, Wanted
<1>8. EmitsMeshes => "geometry" \in ToSet(Pushed("geometry"))
 BY <1>7 DEF ToSet
<1> QED BY <1>5, <1>6, <1>8

\* The channels of the geometry, when it is asked for.
GeometryKinds == {"definition_geometry", "meshes", "diagnostics"}

LEMMA GeometryChannels ==
  EmitsMeshes \/ EmitsDefinitions => \A k \in GeometryKinds : <<"geometry", k>> \in Channels
<1>1. "geometry" \in ToSet(AllReaders)
 BY DEF AllReaders, Chain, ToSet
<1>2. "geometry" \notin ToSet(Chain)
 BY DEF Chain, ToSet
<1>3. EmitsMeshes \/ EmitsDefinitions => Wanted("geometry")
 BY <1>2 DEF Wanted
<1>4. KindsOf("geometry") = GeometryKinds
 BY DEF KindsOf, GeometryKinds
<1> QED BY <1>1, <1>3, <1>4 DEF Channels


---------------------------------------------------------------------------
(* What a step may leave alone.                                           *)

\* The window is as it was.
LEMMA WindowStays ==
  ASSUME WindowOK, UNCHANGED <<model, request>>, UNCHANGED geometryVars,
         decoding => UNCHANGED page,
         \A k \in GeometryKinds : GeometryOut(k)' = GeometryOut(k)
  PROVE  WindowOK'
<1>1. /\ GeometryOut("definition_geometry")' = GeometryOut("definition_geometry")
      /\ GeometryOut("meshes")' = GeometryOut("meshes")
      /\ GeometryOut("diagnostics")' = GeometryOut("diagnostics")
 BY DEF GeometryKinds
<1>2. WaitingMeshes' = WaitingMeshes /\ WaitingDiagnostics' = WaitingDiagnostics
 BY DEF WaitingMeshes, WaitingDiagnostics, geometryVars
<1>3. \A i : Omits(i)' <=> Omits(i)
 BY DEF Omits, Rows, Table, EmitsMeshes
<1>4. EmitsDefinitions' <=> EmitsDefinitions
 BY DEF EmitsDefinitions
<1> QED BY <1>1, <1>2, <1>3, <1>4 DEF WindowOK, geometryVars

LEMMA NeedsStay ==
  ASSUME UNCHANGED <<model, request>>
  PROVE  /\ \A i : Needed(i)' <=> Needed(i)
         /\ Rows("geometry")' = Rows("geometry")
         /\ EmitsMeshes' <=> EmitsMeshes
 BY DEF Needed, Selected, Table, Rows, EmitsMeshes

\* What is accounted for stays so while the window does.
LEMMA AccountsStay ==
  ASSUME UNCHANGED geometryVars,
         \A k \in GeometryKinds : GeometryOut(k)' = GeometryOut(k)
  PROVE  \A i : Accounted(i)' <=> Accounted(i)
BY DEF GeometryKinds, WaitingMeshes, WaitingDiagnostics, geometryVars, Accounted

\* The way through the parts is as far as it was.
LEMMA PartsStay ==
  ASSUME PartsOK, UNCHANGED <<model, request, stream, readers>>,
         \A i : Accounted(i) => Accounted(i)',
         AtWork("geometry") => UNCHANGED row
  PROVE  PartsOK'
BY NeedsStay DEF AtWork, PartsOK

Described(r) == {i \in Nat : i \in Rows(r) => Describes(r, Table(r)[i])}

LEMMA MaterialsStay ==
  ASSUME MaterialsOK, UNCHANGED <<model, request, stream, readers, materials, emitMaterials>>,
         DOMAIN sent' = DOMAIN sent,
         \A r \in {"parts", "surfaces"} : \A k \in {"properties", "materials"} :
             Out(<<r, k>>)' = Out(<<r, k>>),
         \A r \in {"parts", "surfaces"} :
             AtWork(r) /\ calling' /\ ~emitMaterials => calling /\ UNCHANGED page
  PROVE  MaterialsOK'
<1> SUFFICES ASSUME NEW r \in {"parts", "surfaces"}
             PROVE  /\ Out(<<r, "materials">>)' \cap Described(r)' \subseteq Out(<<r, "properties">>)'
                    /\ AtWork(r)' /\ <<r, "properties">> \in DOMAIN sent' =>
                          /\ emitMaterials' => ToSet(materials') \cap Described(r)'
                                                  \subseteq Out(<<r, "properties">>)'
                          /\ calling' /\ ~emitMaterials'
                                => ToSet(materials') \cap Described(r)' \subseteq ToSet(page')
 BY DEF MaterialsOK, Described
<1>1. Described(r)' = Described(r)
 BY DEF Described, Rows, Table, Describes
<1>2. AtWork(r)' <=> AtWork(r)
 BY DEF AtWork
<1>3. /\ Out(<<r, "materials">>)' = Out(<<r, "materials">>)
      /\ Out(<<r, "properties">>)' = Out(<<r, "properties">>)
 OBVIOUS
<1>4. /\ Out(<<r, "materials">>) \cap Described(r) \subseteq Out(<<r, "properties">>)
      /\ AtWork(r) /\ <<r, "properties">> \in DOMAIN sent =>
            /\ emitMaterials => ToSet(materials) \cap Described(r)
                                   \subseteq Out(<<r, "properties">>)
            /\ calling /\ ~emitMaterials
                  => ToSet(materials) \cap Described(r) \subseteq ToSet(page)
 BY DEF MaterialsOK, Described
<1> QED BY <1>1, <1>2, <1>3, <1>4

\* A turn of a reader that is not about the geometry or materials.
Elsewhere ==
  /\ readers # <<>> /\ Head(readers) \notin {"geometry", "parts", "surfaces"}
  /\ stream = "open"

LEMMA ElsewhereKeeps ==
  ASSUME GeometryInv, Elsewhere,
         UNCHANGED <<model, request, stream, readers, materials, emitMaterials>>,
         UNCHANGED geometryVars, calling' => calling, row' \in Nat,
         source' \in 1 .. 4,
         DOMAIN sent' = DOMAIN sent,
         \A c : c[1] \in {"geometry", "parts", "surfaces"} => Out(c)' = Out(c)
  PROVE  CallsOK' /\ WindowOK' /\ PartsOK' /\ MaterialsOK'
<1>1. ~AtWork("geometry") /\ ~AtWork("parts") /\ ~AtWork("surfaces")
 BY DEF AtWork, Elsewhere
<1>2. \A k \in GeometryKinds : GeometryOut(k)' = GeometryOut(k)
 <2> TAKE k \in GeometryKinds
 <2>1. <<"geometry", k>>[1] = "geometry"
  OBVIOUS
 <2> QED BY <2>1 DEF GeometryOut
<1>3. \A r \in {"parts", "surfaces"} : \A k \in {"properties", "materials"} :
          Out(<<r, k>>)' = Out(<<r, k>>)
 <2> TAKE r \in {"parts", "surfaces"}
 <2> TAKE k \in {"properties", "materials"}
 <2>1. <<r, k>>[1] \in {"geometry", "parts", "surfaces"}
  OBVIOUS
 <2> QED BY <2>1
<1>4. CallsOK /\ ~decoding
 BY <1>1 DEF GeometryInv, CallsOK
<1>5. CallsOK'
 BY <1>1, <1>4 DEF AtWork, CallsOK, geometryVars, Elsewhere
<1>6. WindowOK'
 BY <1>2, <1>4, WindowStays DEF GeometryInv
<1>7. PartsOK'
 BY <1>1, <1>2, AccountsStay, PartsStay DEF GeometryInv
<1>8. MaterialsOK'
 BY <1>1, <1>3, MaterialsStay DEF GeometryInv
<1> QED BY <1>5, <1>6, <1>7, <1>8

LEMMA InitGeometry == Init => GeometryInv
<1> SUFFICES ASSUME Init PROVE GeometryInv
 OBVIOUS
<1> USE DEF Init
<1>1. \A c \in Channels : sent[c] = <<>>
 OBVIOUS
<1>2. \A c : Out(c) = {}
 BY <1>1, NoItems DEF Out
<1>3. ~AtWork("geometry") /\ ~AtWork("parts") /\ ~AtWork("surfaces")
 BY DEF AtWork
<1>4. ItemsOK
 BY <1>1, NoneIsSequence DEF ItemsOK
<1>5. CallsOK
 <2>1. readers \in Seq(Readers)
  BY NoneIsSequence
 <2>2. /\ stream = "none" /\ row = 0 /\ source = 1 /\ page = <<>> /\ pending = 3
       /\ ~decoding /\ decoding \in BOOLEAN /\ ~calling /\ ~emitMaterials
  OBVIOUS
 <2> QED BY <1>3, <2>1, <2>2 DEF CallsOK
<1>6. WindowOK
 BY <1>2 DEF WindowOK, GeometryOut, WaitingMeshes, WaitingDiagnostics
<1>7. PartsOK
 BY <1>3 DEF PartsOK
<1>8. MaterialsOK
 BY <1>2, <1>3 DEF MaterialsOK
<1> QED BY <1>4, <1>5, <1>6, <1>7, <1>8 DEF GeometryInv

---------------------------------------------------------------------------
(* The steps of the geometry, the materials and the others.               *)

\* A stream that does not open has no readers at work.
LEMMA NotYetOpen ==
  ASSUME GeometryInv, stream # "open"
  PROVE  ~decoding /\ pending = 3 /\ ~calling /\ ~emitMaterials /\ page = <<>>
 BY DEF GeometryInv, CallsOK, AtWork

\* A reader begins: whatever went out, nothing waits.
LEMMA ReaderBegins ==
  ASSUME GeometryInv, UNCHANGED <<model, request, sent>>, UNCHANGED geometryVars,
         ~decoding, pending = 3, page' = <<>>, row' = 0, source' \in 1 .. 4,
         materials' = <<>> \/ (~calling' /\ ~emitMaterials'),
         calling' \/ emitMaterials' => stream' = "open", emitMaterials' \in BOOLEAN,
         materials' \in Seq(Nat),
         stream' \in {"none", "choosing", "failed", "open"}, readers' \in Seq(Readers),
         EmitsMeshes =>
            (stream' \in {"choosing", "open"} /\ "geometry" \notin ToSet(readers') =>
                \A i \in Rows("geometry") : Needed(i) => Accounted(i)),
         FixedOK
  PROVE  GeometryInv'
<1>1. \A c : Out(c)' = Out(c)
 BY DEF Out
<1>2. \A k \in GeometryKinds : GeometryOut(k)' = GeometryOut(k)
 BY <1>1 DEF GeometryOut
<1>3. ItemsOK'
 BY ChannelsStay, NoneIsSequence DEF GeometryInv, ItemsOK, geometryVars
<1>4. CallsOK'
 BY PartsTable DEF Table, GeometryInv, CallsOK, geometryVars
<1>5. WindowOK'
 BY <1>2, WindowStays DEF GeometryInv
<1>6. PartsOK'
 BY <1>2, AccountsStay, NeedsStay DEF PartsOK
<1>7. MaterialsOK'
 BY <1>1, NoItems DEF MaterialsOK, Described, Rows, Table, Describes, GeometryInv
<1> QED BY <1>3, <1>4, <1>5, <1>6, <1>7 DEF GeometryInv

LEMMA ProcessBegins == FixedOK /\ GeometryInv /\ Process => GeometryInv'
<1> SUFFICES ASSUME FixedOK, GeometryInv, Process PROVE GeometryInv'
 OBVIOUS
<1>1. /\ stream = "none"
      /\ UNCHANGED <<model, request, sent, page, row, source, calling, materials>>
      /\ UNCHANGED emitMaterials /\ UNCHANGED geometryVars
      /\ \/ stream' = "failed" /\ UNCHANGED readers
         \/ stream' \in {"choosing", "open"} /\ readers' = StageReaders
 BY DEF Process, materialVars, answerVars
<1>2. ~decoding /\ pending = 3 /\ ~calling /\ ~emitMaterials /\ page = <<>> /\ row = 0
 BY <1>1, NotYetOpen DEF GeometryInv, CallsOK
<1>3. materials \in Seq(Nat) /\ emitMaterials \in BOOLEAN /\ readers \in Seq(Readers)
      /\ source \in 1 .. 4
 BY DEF GeometryInv, ItemsOK, CallsOK
<1> QED BY <1>1, <1>2, <1>3, ReaderBegins, GeometryIsPushed

LEMMA ChoosingKeeps ==
  ASSUME WinnersInv, GeometryInv, stream = "choosing",
         ChooseWinner \/ LinkTableDone \/ WinnersChosen
  PROVE  GeometryInv'
<1>1. /\ UNCHANGED <<model, request, readers, sent, page, calling, materials, emitMaterials>>
      /\ UNCHANGED geometryVars
      /\ stream' \in {"choosing", "open"}
 BY DEF ChooseWinner, LinkTableDone, WinnersChosen, fixedVars, materialVars, answerVars
<1>2. ~decoding /\ pending = 3 /\ ~calling /\ ~emitMaterials /\ page = <<>>
 BY NotYetOpen
<1>3. stream' = "open" \/ source' > 3 => row' = 0
 BY DEF ChooseWinner, LinkTableDone, WinnersChosen, fixedVars, GeometryInv, CallsOK,
        WinnersInv, CursorOK
<1>4. \A c : Out(c)' = Out(c)
 BY <1>1 DEF Out
<1>5. \A k \in GeometryKinds : GeometryOut(k)' = GeometryOut(k)
 BY <1>4 DEF GeometryOut
<1>6. ItemsOK'
 BY <1>1, <1>2, ChannelsStay, NoneIsSequence DEF GeometryInv, ItemsOK, geometryVars
<1>7. CallsOK'
 <2>1. 0 \in 0 .. Len(Table("geometry")')
  BY <1>1, PartsTable DEF Table, WinnersInv
 <2>2. CallsOK
  BY DEF GeometryInv
 <2>3. AtWork("geometry")' => row' = 0
  BY <1>3 DEF AtWork
 <2>4. row' \in Nat /\ source' \in 1 .. 4
  BY <2>2 DEF ChooseWinner, LinkTableDone, WinnersChosen, CallsOK
 <2> QED BY <1>1, <1>2, <1>3, <2>1, <2>2, <2>3, <2>4 DEF CallsOK, geometryVars
<1>8. WindowOK'
 BY <1>1, <1>2, <1>5, WindowStays DEF GeometryInv
<1>9. PartsOK'
 BY <1>1, <1>3, <1>5, AccountsStay, NeedsStay DEF AtWork, GeometryInv, PartsOK
<1>10. MaterialsOK'
 BY <1>1, <1>2, <1>4 DEF MaterialsOK, Described, Rows, Table, Describes, GeometryInv
<1> QED BY <1>6, <1>7, <1>8, <1>9, <1>10 DEF GeometryInv

LEMMA NextReaderBegins ==
  ASSUME FixedOK, GeometryInv, ChainAdvances \/ StageAdvances
  PROVE  GeometryInv'
<1>1. /\ calling /\ readers # <<>> /\ AtEnd(Head(readers)) /\ readers' = Tail(readers)
      /\ row' = 0 /\ source' = 1 /\ page' = <<>> /\ materials' = <<>>
      /\ UNCHANGED fixedVars /\ UNCHANGED geometryVars
      /\ UNCHANGED <<emitMaterials, calling, sent>>
 BY DEF ChainAdvances, StageAdvances, EnterNext, answerVars
<1>2. stream = "open" /\ CallsOK /\ PartsOK /\ readers \in Seq(Readers)
 BY <1>1 DEF GeometryInv, CallsOK
<1>3. ~decoding /\ pending = 3
 BY <1>1, <1>2 DEF AtEnd, CallsOK, AtWork
<1>4. ToSet(readers) = {Head(readers)} \cup ToSet(readers') /\ readers' \in Seq(Readers)
 BY <1>1, <1>2, HeadAndTail
<1>5. EmitsMeshes /\ "geometry" \notin ToSet(readers') =>
         \A i \in Rows("geometry") : Needed(i) => Accounted(i)
 <2>1. CASE Head(readers) = "geometry"
  BY <1>1, <1>2, <2>1, PartsTable DEF AtEnd, AtWork, PartsOK
 <2>2. CASE Head(readers) # "geometry"
  BY <1>2, <1>4, <2>2 DEF PartsOK
 <2> QED BY <2>1, <2>2
<1>6. emitMaterials \in BOOLEAN /\ <<>> \in Seq(Nat)
 BY NoneIsSequence DEF GeometryInv, ItemsOK
<1> QED BY <1>1, <1>2, <1>3, <1>4, <1>5, <1>6, ReaderBegins DEF fixedVars

\* A call begins a page; what waits from the call before is not touched.
LEMMA CallKeeps == GeometryInv /\ Call => GeometryInv'
<1> SUFFICES ASSUME GeometryInv, Call PROVE GeometryInv'
 OBVIOUS
<1>1. /\ stream = "open" /\ ~calling /\ calling' = TRUE /\ page' = <<>>
      /\ materials' = IF emitMaterials THEN materials ELSE <<>>
      /\ UNCHANGED <<model, request, stream, readers, row, source, emitMaterials, sent>>
      /\ UNCHANGED geometryVars
 BY DEF Call, fixedVars, cursorVars
<1>2. \A c : Out(c)' = Out(c)
 BY <1>1 DEF Out
<1>3. \A k \in GeometryKinds : GeometryOut(k)' = GeometryOut(k)
 BY <1>2 DEF GeometryOut
<1>4. ItemsOK'
 BY <1>1, ChannelsStay, NoneIsSequence DEF GeometryInv, ItemsOK, geometryVars
<1>5. CallsOK' /\ ~decoding
 <2>1. AtWork("geometry")' <=> AtWork("geometry")
  BY <1>1 DEF AtWork
 <2>2. Table("geometry")' = Table("geometry")
  BY <1>1 DEF Table
 <2>3. CallsOK
  BY DEF GeometryInv
 <2>4. calling' \in BOOLEAN /\ ~decoding
  BY <1>1, <2>3 DEF CallsOK
 <2> QED BY <1>1, <2>1, <2>2, <2>3, <2>4 DEF CallsOK, geometryVars
<1>6. WindowOK'
 BY <1>1, <1>3, <1>5, WindowStays DEF GeometryInv
<1>7. PartsOK'
 BY <1>1, <1>3, AccountsStay, PartsStay DEF GeometryInv
<1>8. MaterialsOK'
 <2> SUFFICES ASSUME NEW r \in {"parts", "surfaces"}
              PROVE  /\ Out(<<r, "materials">>)' \cap Described(r)'
                          \subseteq Out(<<r, "properties">>)'
                     /\ AtWork(r)' /\ <<r, "properties">> \in DOMAIN sent' =>
                           /\ emitMaterials' => ToSet(materials') \cap Described(r)'
                                                   \subseteq Out(<<r, "properties">>)'
                           /\ ~emitMaterials' => ToSet(materials') = {}
  BY DEF MaterialsOK, Described
 <2>1. Described(r)' = Described(r)
  BY <1>1 DEF Described, Rows, Table, Describes
 <2>2. AtWork(r)' <=> AtWork(r)
  BY <1>1 DEF AtWork
 <2>3. /\ Out(<<r, "materials">>) \cap Described(r) \subseteq Out(<<r, "properties">>)
       /\ AtWork(r) /\ <<r, "properties">> \in DOMAIN sent =>
             (emitMaterials => ToSet(materials) \cap Described(r)
                                  \subseteq Out(<<r, "properties">>))
  BY DEF GeometryInv, MaterialsOK, Described
 <2>4. CASE emitMaterials
  BY <1>1, <1>2, <2>1, <2>2, <2>3, <2>4
 <2>5. CASE ~emitMaterials
  BY <1>1, <1>2, <2>1, <2>2, <2>3, <2>5, NoItems
 <2> QED BY <2>4, <2>5
<1> QED BY <1>4, <1>5, <1>6, <1>7, <1>8 DEF GeometryInv

\* The end, and nothing at all.
LEMMA EndKeeps ==
  ASSUME GeometryInv, AnswerEnd \/ ProcessAgain \/ UNCHANGED processVars
  PROVE  GeometryInv'
<1>1. /\ UNCHANGED <<model, request, stream, readers, row, source, page, emitMaterials,
                     materials, sent>>
      /\ UNCHANGED geometryVars
      /\ calling' => calling
 BY DEF AnswerEnd, ProcessAgain, processVars, fixedVars, cursorVars, materialVars, answerVars
<1>2. \A c : Out(c)' = Out(c)
 BY <1>1 DEF Out
<1>3. \A k \in GeometryKinds : GeometryOut(k)' = GeometryOut(k)
 BY <1>2 DEF GeometryOut
<1>4. decoding => calling'
 BY DEF AnswerEnd, ProcessAgain, processVars, fixedVars, answerVars, GeometryInv, CallsOK, AtWork
<1>5. ItemsOK'
 BY <1>1, ChannelsStay DEF GeometryInv, ItemsOK, AtWork, geometryVars
<1>6. CallsOK'
 BY <1>1, <1>4 DEF AtWork, Table, GeometryInv, CallsOK, geometryVars
<1>7. WindowOK'
 BY <1>1, <1>3, WindowStays DEF GeometryInv
<1>8. PartsOK'
 BY <1>1, <1>3, AccountsStay, PartsStay DEF GeometryInv
<1>9. MaterialsOK'
 BY <1>1, <1>2, MaterialsStay DEF GeometryInv
<1> QED BY <1>5, <1>6, <1>7, <1>8, <1>9 DEF GeometryInv

\* Turns of the readers that have neither geometry nor materials.
LEMMA PlainTurns ==
  ASSUME WinnersInv, GeometryInv,
         \/ ReadObject \/ FailObject \/ ReadLink
         \/ (At("attributes") /\ LinkTableDone)
         \/ OpenNonPart \/ FailNonPart \/ NonPartListDone
  PROVE  GeometryInv'
<1>1. /\ calling /\ readers # <<>>
      /\ Head(readers) \in {"identities", "attributes", "nonpart"}
      /\ UNCHANGED <<model, request, stream, readers, sent, materials, emitMaterials>>
      /\ UNCHANGED geometryVars
      /\ calling' => calling
 BY DEF ReadObject, FailObject, ReadLink, LinkTableDone, OpenNonPart, FailNonPart,
        NonPartListDone, At, fixedVars, cursorVars, materialVars, answerVars
<1>2. Elsewhere
 BY <1>1 DEF Elsewhere, GeometryInv, CallsOK
<1>3. \A c : Out(c)' = Out(c)
 BY <1>1 DEF Out
<1>4. ItemsOK'
 <2>1. ~AtWork("attributes")' => page' \in Seq(Nat)
  <3> SUFFICES ASSUME ~AtWork("attributes")' PROVE page' \in Seq(Nat)
   OBVIOUS
  <3>1. ~AtWork("attributes") /\ Head(readers) # "attributes"
   BY <1>1, <1>2 DEF AtWork, Elsewhere
  <3>2. page \in Seq(Nat)
   BY <3>1 DEF GeometryInv, ItemsOK
  <3>3. page' = page \/ (page' = Append(page, row + 1) /\ row + 1 \in Nat)
   <4>1. CASE page' = page
    BY <4>1
   <4>2. CASE ReadObject
    BY <4>2 DEF ReadObject, GeometryInv, CallsOK
   <4>3. CASE ReadLink \/ (At("attributes") /\ LinkTableDone)
    BY <4>3, <3>1 DEF ReadLink, At
   <4>4. CASE FailObject \/ OpenNonPart \/ FailNonPart \/ NonPartListDone
    BY <4>4 DEF FailObject, OpenNonPart, FailNonPart, NonPartListDone
   <4> QED BY <4>1, <4>2, <4>3, <4>4
  <3> QED BY <3>2, <3>3
 <2> QED BY <1>1, <2>1, ChannelsStay DEF GeometryInv, ItemsOK, geometryVars
<1>5. row' \in Nat /\ source' \in 1 .. 4
 BY DEF ReadObject, FailObject, ReadLink, LinkTableDone, OpenNonPart, FailNonPart,
        NonPartListDone, cursorVars, GeometryInv, CallsOK
<1> QED BY <1>1, <1>2, <1>3, <1>4, <1>5, ElsewhereKeeps DEF GeometryInv

LEMMA NumbersFrom ==
  ASSUME NEW first \in Nat, NEW n \in Nat
  PROVE  [i \in 1 .. n |-> first + i] \in Seq(Nat)
 OBVIOUS

\* Answers of the readers that have neither geometry nor materials.
LEMMA PlainAnswers ==
  ASSUME WinnersInv, GeometryInv,
         AnswerObjects \/ AnswerAttributes \/ AnswerPage \/ AnswerNonPart
  PROVE  GeometryInv'
<1>1. /\ calling /\ readers # <<>>
      /\ Head(readers) \notin {"geometry", "parts", "surfaces"}
      /\ UNCHANGED <<model, request, stream, readers, page, materials, emitMaterials, source>>
      /\ UNCHANGED geometryVars
      /\ ~calling'
 BY DEF AnswerObjects, AnswerAttributes, AnswerPage, AnswerNonPart, At, Answers, Current,
        fixedVars, cursorVars, materialVars
<1>2. Elsewhere
 BY <1>1 DEF Elsewhere, GeometryInv, CallsOK
<1>3. row \in Nat /\ source \in 1 .. 4 /\ request.size \in Nat \ {0}
 BY DEF GeometryInv, CallsOK, WinnersInv, FixedOK, Requests
<1>4. /\ row' \in Nat
      /\ \E c, items : /\ c[1] \notin {"geometry", "parts", "surfaces"} /\ Answers(c, items)
                       /\ c[1] # "attributes" => items \in Seq(Nat)
 <2>1. CASE AnswerObjects
  BY <1>3, <2>1 DEF AnswerObjects, At, AtWork, GeometryInv, ItemsOK, cursorVars
 <2>2. CASE AnswerAttributes
  BY <1>3, <2>2 DEF AnswerAttributes, cursorVars
 <2>3. CASE AnswerPage
  <3> DEFINE next == IF row + request.size < Len(Table(Current)) THEN row + request.size
                     ELSE Len(Table(Current))
             items == [i \in 1 .. next - row |-> row + i]
  <3>1. /\ Current \in {"relations", "semantic_relations", "instances"}
        /\ row < Len(Table(Current)) /\ Answers(<<Current, Current>>, items) /\ row' = next
   BY <2>3 DEF AnswerPage
  <3>2. Len(Table(Current)) \in Nat
   BY <3>1, ItemsOfSequence DEF TableNames, WinnersInv, FixedOK, Models, Table
  <3>3. next \in Nat /\ next - row \in Nat
   BY <1>3, <3>1, <3>2
  <3>4. items \in Seq(Nat)
   BY <1>3, <3>3, NumbersFrom
  <3>5. <<Current, Current>>[1] \notin {"geometry", "parts", "surfaces"}
   BY <3>1
  <3> QED BY <3>1, <3>3, <3>4, <3>5
 <2>4. CASE AnswerNonPart
  <3> DEFINE kind == NonPartKinds[source]
             left == model.nonpart[kind] - row
             n == IF left < request.size THEN left ELSE request.size
             items == [i \in 1 .. n |-> row + i]
  <3>1. /\ source <= 3 /\ left > 0 /\ Answers(<<"nonpart", kind>>, items) /\ row' = row + n
   BY <2>4 DEF AnswerNonPart
  <3>2. model.nonpart[kind] \in Nat
   BY <1>3, <3>1 DEF WinnersInv, FixedOK, Models, NonPartKinds, ToSet
  <3>3. n \in Nat
   BY <1>3, <3>1, <3>2
  <3>4. items \in Seq(Nat)
   BY <1>3, <3>3, NumbersFrom
  <3>5. <<"nonpart", kind>>[1] \notin {"geometry", "parts", "surfaces"}
   OBVIOUS
  <3>6. row' \in Nat
   BY <1>3, <3>1, <3>3
  <3> HIDE DEF items, n, left, kind
  <3> QED BY <3>1, <3>4, <3>5, <3>6
 <2> QED BY <2>1, <2>2, <2>3, <2>4
<1>5. PICK c, items : /\ c[1] \notin {"geometry", "parts", "surfaces"} /\ Answers(c, items)
                      /\ c[1] # "attributes" => items \in Seq(Nat)
 BY <1>4
<1>6. /\ DOMAIN sent' = Channels
      /\ \A d \in Channels : d[1] # "attributes" => sent'[d] \in Seq(Nat)
      /\ \A d : d # c => Out(d)' = Out(d)
 BY <1>5, AnswersAdd DEF GeometryInv
<1>7. \A d : d[1] \in {"geometry", "parts", "surfaces"} => Out(d)' = Out(d)
 BY <1>5, <1>6
<1>8. ItemsOK'
 BY <1>1, <1>6, ChannelsStay DEF GeometryInv, ItemsOK, AtWork, geometryVars
<1>9. DOMAIN sent' = DOMAIN sent
 BY <1>6 DEF GeometryInv, ItemsOK
<1> QED BY <1>1, <1>2, <1>3, <1>4, <1>7, <1>8, <1>9, ElsewhereKeeps DEF GeometryInv

\* The chain of the property stage has neither the attributes nor the geometry.
LEMMA ChainApart == "attributes" \notin ToSet(Chain) /\ "geometry" \notin ToSet(Chain)
BY DEF Chain, ToSet

\* A turn of a reader of the property stage does not touch the geometry.
LEMMA ChainKeepsGeometry ==
  ASSUME GeometryInv, calling, readers # <<>>, Current \in ToSet(Chain),
         UNCHANGED <<model, request, stream, readers, source>>, UNCHANGED geometryVars,
         row' \in Nat,
         \A k \in GeometryKinds : GeometryOut(k)' = GeometryOut(k)
  PROVE  CallsOK' /\ WindowOK' /\ PartsOK' /\ stream = "open" /\ AtWork(Current)
<1>1. CallsOK
 BY DEF GeometryInv
<1>2. stream = "open" /\ ~AtWork("geometry") /\ AtWork(Current)
 BY <1>1, ChainApart DEF CallsOK, AtWork, Current
<1>3. ~decoding /\ pending = 3
 BY <1>1, <1>2 DEF CallsOK
<1>4. CallsOK'
 BY <1>1, <1>2, <1>3 DEF AtWork, CallsOK, geometryVars
<1>5. WindowOK'
 BY <1>3, WindowStays DEF GeometryInv
<1>6. PartsOK'
 BY <1>2, AccountsStay, PartsStay DEF GeometryInv
<1> QED BY <1>2, <1>4, <1>5, <1>6

\* A row that is taken has its materials wait with its properties.
LEMMA SemanticRowKeeps == WinnersInv /\ GeometryInv /\ ReadSemanticRow => GeometryInv'
<1> SUFFICES ASSUME WinnersInv, GeometryInv, ReadSemanticRow PROVE GeometryInv'
 OBVIOUS
<1> DEFINE new == row + 1
           takes == Takes(Current, Table(Current)[new])
           describes == Describes(Current, Table(Current)[new])
           owns == Current \in {"parts", "surfaces"}
<1>1. /\ calling /\ readers # <<>> /\ Current \in ToSet(Chain) /\ ~emitMaterials
      /\ row < Len(Table(Current)) /\ row' = row + 1
      /\ page' = IF takes /\ describes THEN Append(page, new) ELSE page
      /\ materials' = IF takes /\ owns THEN Append(materials, new) ELSE materials
      /\ UNCHANGED <<model, request, stream, readers, source, emitMaterials, calling, sent>>
      /\ UNCHANGED geometryVars
 BY DEF ReadSemanticRow, InChain, fixedVars, answerVars
<1>2. row \in Nat /\ new \in Nat
 BY DEF GeometryInv, CallsOK
<1>3. \A c : Out(c)' = Out(c)
 BY <1>1 DEF Out
<1>4. \A k \in GeometryKinds : GeometryOut(k)' = GeometryOut(k)
 BY <1>3 DEF GeometryOut
<1>5. CallsOK' /\ WindowOK' /\ PartsOK' /\ stream = "open" /\ AtWork(Current)
 BY <1>1, <1>2, <1>4, ChainKeepsGeometry
<1>6. page \in Seq(Nat) /\ materials \in Seq(Nat)
 BY <1>1, ChainApart DEF GeometryInv, ItemsOK, AtWork, Current
<1>7. /\ page' \in Seq(Nat) /\ materials' \in Seq(Nat)
      /\ ToSet(page') = ToSet(page) \cup (IF takes /\ describes THEN {new} ELSE {})
      /\ ToSet(materials') = ToSet(materials) \cup (IF takes /\ owns THEN {new} ELSE {})
 <2>1. \A s \in Seq(Nat) : ToSet(Append(s, new)) = ToSet(s) \cup {new} /\ Append(s, new) \in Seq(Nat)
  BY <1>2, OneMore
 <2> HIDE DEF new, takes, describes, owns
 <2> QED BY <1>1, <1>6, <2>1
<1>8. ItemsOK'
 BY <1>1, <1>7, ChannelsStay DEF GeometryInv, ItemsOK, geometryVars
<1>9. MaterialsOK'
 <2> SUFFICES ASSUME NEW r \in {"parts", "surfaces"}
              PROVE  /\ Out(<<r, "materials">>)' \cap Described(r)'
                          \subseteq Out(<<r, "properties">>)'
                     /\ AtWork(r)' /\ <<r, "properties">> \in DOMAIN sent' =>
                           ToSet(materials') \cap Described(r)' \subseteq ToSet(page')
  BY <1>1 DEF MaterialsOK, Described
 <2>1. Described(r)' = Described(r)
  BY <1>1 DEF Described, Rows, Table, Describes
 <2>2. AtWork(r)' <=> AtWork(r)
  BY <1>1 DEF AtWork
 <2>3. /\ Out(<<r, "materials">>) \cap Described(r) \subseteq Out(<<r, "properties">>)
       /\ AtWork(r) /\ <<r, "properties">> \in DOMAIN sent =>
             ToSet(materials) \cap Described(r) \subseteq ToSet(page)
  BY <1>1 DEF GeometryInv, MaterialsOK, Described
 <2>4. AtWork(r) /\ new \in Described(r) => describes
  <3> SUFFICES ASSUME AtWork(r), new \in Described(r) PROVE describes
   OBVIOUS
  <3>1. Current = r
   BY DEF AtWork, Current
  <3>2. Len(Table(r)) \in Nat
   <4>1. r \in TableNames /\ r # "geometry"
    BY DEF Chain, TableNames, ToSet
   <4>2. model.tables \in [TableNames -> Seq([visible : BOOLEAN, attribute : BOOLEAN,
                                             text : BOOLEAN, geometry : Shapes])]
    BY DEF WinnersInv, FixedOK, Models
   <4>3. Table(r) \in Seq([visible : BOOLEAN, attribute : BOOLEAN,
                           text : BOOLEAN, geometry : Shapes])
    BY <4>1, <4>2 DEF Table
   <4> QED BY <4>3, ItemsOfSequence
  <3>3. new \in Rows(r)
   BY <1>1, <1>2, <3>1, <3>2 DEF Rows
  <3> QED BY <3>1, <3>3 DEF Described
 <2> HIDE DEF new, takes, describes, owns
 <2> QED BY <1>1, <1>3, <1>7, <2>1, <2>2, <2>3, <2>4
<1> QED BY <1>5, <1>8, <1>9 DEF GeometryInv

\* The properties of a window go out before the materials that wait with them.
LEMMA PropertiesKeep == GeometryInv /\ AnswerProperties => GeometryInv'
<1> SUFFICES ASSUME GeometryInv, AnswerProperties PROVE GeometryInv'
 OBVIOUS
<1>0. PICK c : c = <<Current, "properties">>
 OBVIOUS
<1>1. /\ calling /\ readers # <<>> /\ Current \in ToSet(Chain) /\ ~emitMaterials
      /\ Answers(c, page) /\ ~calling' /\ emitMaterials' \in BOOLEAN
      /\ UNCHANGED <<model, request, stream, readers, source, row, page, materials>>
      /\ UNCHANGED geometryVars
 BY <1>0 DEF AnswerProperties, InChain, Answers, fixedVars, cursorVars
<1>2. row \in Nat /\ page \in Seq(Nat) /\ c[1] # "attributes" /\ c[1] # "geometry"
 BY <1>0, <1>1, ChainApart DEF GeometryInv, CallsOK, ItemsOK, AtWork, Current
<1>3. /\ DOMAIN sent' = Channels
      /\ \A d \in Channels : d[1] # "attributes" => sent'[d] \in Seq(Nat)
      /\ \A d : d # c => Out(d)' = Out(d)
      /\ c \in Channels => Out(c)' = Out(c) \cup ToSet(page)
      /\ c \notin Channels => Out(c)' = Out(c)
 <2> QED BY <1>1, <1>2, AnswersAdd DEF GeometryInv
<1>4. \A k \in GeometryKinds : GeometryOut(k)' = GeometryOut(k)
 <2> TAKE k \in GeometryKinds
 <2>1. <<"geometry", k>> # c
  BY <1>2
 <2> QED BY <1>3, <2>1 DEF GeometryOut
<1>5. CallsOK' /\ WindowOK' /\ PartsOK' /\ stream = "open" /\ AtWork(Current)
 <2> QED BY <1>1, <1>2, <1>4, ChainKeepsGeometry
<1>6. ItemsOK'
 BY <1>1, <1>2, <1>3, ChannelsStay DEF GeometryInv, ItemsOK, AtWork, geometryVars
<1>7. MaterialsOK'
 <2> SUFFICES ASSUME NEW r \in {"parts", "surfaces"}
              PROVE  /\ Out(<<r, "materials">>)' \cap Described(r)'
                          \subseteq Out(<<r, "properties">>)'
                     /\ AtWork(r)' /\ <<r, "properties">> \in DOMAIN sent' =>
                           ToSet(materials') \cap Described(r)' \subseteq Out(<<r, "properties">>)'
  BY <1>1 DEF MaterialsOK, Described
 <2>1. Described(r)' = Described(r)
  BY <1>1 DEF Described, Rows, Table, Describes
 <2>2. AtWork(r)' <=> AtWork(r)
  BY <1>1 DEF AtWork
 <2>3. /\ Out(<<r, "materials">>) \cap Described(r) \subseteq Out(<<r, "properties">>)
       /\ AtWork(r) /\ <<r, "properties">> \in DOMAIN sent =>
             ToSet(materials) \cap Described(r) \subseteq ToSet(page)
  BY <1>1 DEF GeometryInv, MaterialsOK, Described
 <2>4. Out(<<r, "materials">>)' = Out(<<r, "materials">>)
  BY <1>0, <1>3
 <2>5. Out(<<r, "properties">>) \subseteq Out(<<r, "properties">>)'
  <3>1. CASE <<r, "properties">> = c
   <4> QED BY <1>3, <3>1
  <3>2. CASE <<r, "properties">> # c
   BY <1>3, <3>2
  <3> QED BY <3>1, <3>2
 <2>6. AtWork(r) /\ <<r, "properties">> \in DOMAIN sent =>
           ToSet(page) \subseteq Out(<<r, "properties">>)'
  BY <1>0, <1>3 DEF AtWork, Current, GeometryInv, ItemsOK
 <2>7. DOMAIN sent' = DOMAIN sent
  BY <1>3 DEF GeometryInv, ItemsOK
 <2> QED BY <1>1, <2>1, <2>2, <2>3, <2>4, <2>5, <2>6, <2>7
<1> QED BY <1>5, <1>6, <1>7 DEF GeometryInv

\* The two channels of a reader of materials come together.
LEMMA MaterialChannels ==
  ASSUME NEW r \in {"parts", "surfaces"}, <<r, "materials">> \in Channels
  PROVE  <<r, "properties">> \in Channels
<1>1. PICK s \in {s \in ToSet(AllReaders) : Wanted(s)} : <<r, "materials">> \in {s} \X KindsOf(s)
 BY DEF Channels
<1>2. s = r
 BY <1>1
<1>3. "properties" \in KindsOf(r)
 BY DEF KindsOf
<1> QED BY <1>1, <1>2, <1>3 DEF Channels

LEMMA MaterialsKeep == GeometryInv /\ AnswerMaterials => GeometryInv'
<1> SUFFICES ASSUME GeometryInv, AnswerMaterials PROVE GeometryInv'
 OBVIOUS
<1>0. PICK c : c = <<Current, "materials">>
 OBVIOUS
<1>1. /\ calling /\ readers # <<>> /\ Current \in {"parts", "surfaces"}
      /\ emitMaterials \/ page = <<>>
      /\ Answers(c, materials) /\ ~calling' /\ emitMaterials' = FALSE
      /\ UNCHANGED <<model, request, stream, readers, source, row, page, materials>>
      /\ UNCHANGED geometryVars
 BY <1>0 DEF AnswerMaterials, Answers, fixedVars, cursorVars
<1>2. Current \in ToSet(Chain)
 BY <1>1 DEF Chain, ToSet
<1>3. row \in Nat /\ materials \in Seq(Nat) /\ c[1] # "attributes" /\ c[1] # "geometry"
 BY <1>0, <1>1 DEF GeometryInv, CallsOK, ItemsOK
<1>4. /\ DOMAIN sent' = Channels
      /\ \A d \in Channels : d[1] # "attributes" => sent'[d] \in Seq(Nat)
      /\ \A d : d # c => Out(d)' = Out(d)
      /\ c \in Channels => Out(c)' = Out(c) \cup ToSet(materials)
      /\ c \notin Channels => Out(c)' = Out(c)
 <2> QED BY <1>1, <1>3, AnswersAdd DEF GeometryInv
<1>5. \A k \in GeometryKinds : GeometryOut(k)' = GeometryOut(k)
 <2> TAKE k \in GeometryKinds
 <2>1. <<"geometry", k>> # c
  BY <1>3
 <2> QED BY <1>4, <2>1 DEF GeometryOut
<1>6. CallsOK' /\ WindowOK' /\ PartsOK' /\ stream = "open" /\ AtWork(Current)
 <2> QED BY <1>1, <1>2, <1>3, <1>5, ChainKeepsGeometry
<1>7. ItemsOK'
 BY <1>1, <1>4, ChannelsStay DEF GeometryInv, ItemsOK, AtWork, geometryVars
<1>8. MaterialsOK'
 <2> SUFFICES ASSUME NEW r \in {"parts", "surfaces"}
              PROVE  Out(<<r, "materials">>)' \cap Described(r)' \subseteq Out(<<r, "properties">>)'
  BY <1>1 DEF MaterialsOK, Described
 <2>1. Described(r)' = Described(r)
  BY <1>1 DEF Described, Rows, Table, Describes
 <2>2. Out(<<r, "properties">>)' = Out(<<r, "properties">>)
  BY <1>0, <1>4
 <2>3. Out(<<r, "materials">>) \cap Described(r) \subseteq Out(<<r, "properties">>)
  BY DEF GeometryInv, MaterialsOK, Described
 <2>4. CASE Current = r /\ c \in Channels
  <3>1. c = <<r, "materials">> /\ AtWork(r)
   BY <1>0, <1>6, <2>4
  <3>2. <<r, "properties">> \in DOMAIN sent
   BY <2>4, <3>1, MaterialChannels DEF GeometryInv, ItemsOK
  <3>3. /\ emitMaterials => ToSet(materials) \cap Described(r) \subseteq Out(<<r, "properties">>)
        /\ ~emitMaterials => ToSet(materials) \cap Described(r) \subseteq ToSet(page)
   BY <1>1, <3>1, <3>2 DEF GeometryInv, MaterialsOK, Described
  <3>4. ToSet(materials) \cap Described(r) \subseteq Out(<<r, "properties">>)
   BY <1>1, <3>3, NoItems
  <3> QED BY <1>4, <2>1, <2>2, <2>3, <2>4, <3>1, <3>4
 <2>5. CASE Current # r \/ c \notin Channels
  <3>1. Out(<<r, "materials">>)' = Out(<<r, "materials">>)
   <4>1. CASE Current # r
    BY <1>0, <1>4, <4>1
   <4>2. CASE c \notin Channels
    <5> QED BY <1>4, <4>2
   <4> QED BY <2>5, <4>1, <4>2
  <3> QED BY <2>1, <2>2, <2>3, <3>1
 <2> QED BY <2>4, <2>5
<1> QED BY <1>6, <1>7, <1>8 DEF GeometryInv

LEMMA SkipKeeps == GeometryInv /\ SkipWindow => GeometryInv'
<1> SUFFICES ASSUME GeometryInv, SkipWindow PROVE GeometryInv'
 OBVIOUS
<1>1. /\ calling /\ readers # <<>> /\ Current \in ToSet(Chain)
      /\ UNCHANGED <<model, request, stream, readers, source, row, page, materials,
                     emitMaterials, calling, sent>>
      /\ UNCHANGED geometryVars
 BY DEF SkipWindow, InChain, fixedVars, cursorVars, materialVars, answerVars
<1>2. \A c : Out(c)' = Out(c)
 BY <1>1 DEF Out
<1>3. \A k \in GeometryKinds : GeometryOut(k)' = GeometryOut(k)
 BY <1>2 DEF GeometryOut
<1>4. row' \in Nat
 BY <1>1 DEF GeometryInv, CallsOK
<1>5. CallsOK' /\ WindowOK' /\ PartsOK'
 BY <1>1, <1>3, <1>4, ChainKeepsGeometry
<1>6. ItemsOK'
 BY <1>1, ChannelsStay DEF GeometryInv, ItemsOK, AtWork, geometryVars
<1>7. MaterialsOK'
 BY <1>1, <1>2, MaterialsStay DEF GeometryInv
<1> QED BY <1>5, <1>6, <1>7 DEF GeometryInv

---------------------------------------------------------------------------
(* The steps of the geometry reader.                                      *)

LEMMA GeometryAtWork ==
  ASSUME GeometryInv, AtGeometry
  PROVE  /\ stream = "open" /\ AtWork("geometry") /\ ~AtWork("parts") /\ ~AtWork("surfaces")
         /\ row \in 0 .. Len(Table("geometry")) /\ row \in Nat /\ pending \in 1 .. 3
         /\ page \in Seq(Nat) /\ meshes \in Seq(Nat) /\ diagnostics \in Seq(Nat)
         /\ decoding => pending = 1
         /\ decoding \in BOOLEAN
 BY DEF AtGeometry, At, AtWork, GeometryInv, CallsOK, ItemsOK

\* A turn may not lose a part, and must account for those the cursor passes.
LEMMA GeometryTurn ==
  ASSUME FixedOK, GeometryInv, AtGeometry,
         UNCHANGED <<model, request, stream, readers, source, materials, emitMaterials>>,
         row' \in 0 .. Len(Table("geometry")), calling' => calling,
         DOMAIN sent' = Channels,
         \A d \in Channels : d[1] # "attributes" => sent'[d] \in Seq(Nat),
         \A d : d[1] # "geometry" => Out(d)' = Out(d),
         page' \in Seq(Nat), meshes' \in Seq(Nat), diagnostics' \in Seq(Nat),
         decoding' \in BOOLEAN, pending' \in 1 .. 3, decoding' => calling' /\ pending' = 1,
         EmitsMeshes =>
            /\ \A i : Accounted(i) => Accounted(i)'
            /\ \A i \in 1 .. row' : Needed(i) => i \in 1 .. row \/ Accounted(i)'
  PROVE  ItemsOK' /\ CallsOK' /\ PartsOK' /\ MaterialsOK'
<1>1. /\ stream = "open" /\ AtWork("geometry") /\ ~AtWork("parts") /\ ~AtWork("surfaces")
      /\ row \in Nat
 BY GeometryAtWork
<1>2. \A r : AtWork(r)' <=> AtWork(r)
 BY DEF AtWork
<1>3. ItemsOK'
 BY <1>2, ChannelsStay DEF GeometryInv, ItemsOK
<1>4. CallsOK'
 BY <1>1, <1>2, PartsTable DEF Table, GeometryInv, CallsOK
<1>5. PartsOK'
 BY <1>1, <1>2, NeedsStay DEF PartsOK, GeometryInv
<1>6. MaterialsOK'
 <2>1. \A r \in {"parts", "surfaces"} : \A k \in {"properties", "materials"} :
           Out(<<r, k>>)' = Out(<<r, k>>)
  <3> TAKE r \in {"parts", "surfaces"}
  <3> TAKE k \in {"properties", "materials"}
  <3>1. <<r, k>>[1] # "geometry"
   OBVIOUS
  <3> QED BY <3>1
 <2>2. DOMAIN sent' = DOMAIN sent
  BY DEF GeometryInv, ItemsOK
 <2> QED BY <1>1, <2>1, <2>2, MaterialsStay DEF GeometryInv
<1> QED BY <1>3, <1>4, <1>5, <1>6

\* An answer of the geometry reader adds its items to its own channel.
LEMMA GeometryAnswer ==
  ASSUME GeometryInv, NEW kind \in GeometryKinds, NEW items \in Seq(Nat),
         Answers(<<"geometry", kind>>, items)
  PROVE  /\ ~calling' /\ DOMAIN sent' = Channels
         /\ \A d \in Channels : d[1] # "attributes" => sent'[d] \in Seq(Nat)
         /\ \A d : d[1] # "geometry" => Out(d)' = Out(d)
         /\ \A k \in GeometryKinds \ {kind} : GeometryOut(k)' = GeometryOut(k)
         /\ EmitsMeshes \/ EmitsDefinitions =>
               GeometryOut(kind)' = GeometryOut(kind) \cup ToSet(items)
<1>1. PICK c : c = <<"geometry", kind>>
 OBVIOUS
<1>2. c[1] = "geometry" /\ Answers(c, items)
 BY <1>1
<1>3. /\ DOMAIN sent' = Channels
      /\ \A d \in Channels : d[1] # "attributes" => sent'[d] \in Seq(Nat)
      /\ \A d : d # c => Out(d)' = Out(d)
      /\ c \in Channels => Out(c)' = Out(c) \cup ToSet(items)
 BY <1>2, AnswersAdd DEF GeometryInv
<1>4. \A d : d[1] # "geometry" => Out(d)' = Out(d)
 BY <1>2, <1>3
<1>5. \A k \in GeometryKinds \ {kind} : GeometryOut(k)' = GeometryOut(k)
 <2> TAKE k \in GeometryKinds \ {kind}
 <2>1. <<"geometry", k>> # c
  BY <1>1
 <2> QED BY <1>3, <2>1 DEF GeometryOut
<1>6. EmitsMeshes \/ EmitsDefinitions =>
         GeometryOut(kind)' = GeometryOut(kind) \cup ToSet(items)
 BY <1>1, <1>3, GeometryChannels DEF GeometryOut
<1>7. ~calling'
 BY DEF Answers
<1> QED BY <1>3, <1>4, <1>5, <1>6, <1>7

\* Without an answer every channel is as it was.
LEMMA GeometrySilence ==
  ASSUME GeometryInv, UNCHANGED sent
  PROVE  /\ DOMAIN sent' = Channels
         /\ \A d \in Channels : d[1] # "attributes" => sent'[d] \in Seq(Nat)
         /\ \A d : Out(d)' = Out(d)
         /\ \A k : GeometryOut(k)' = GeometryOut(k)
 BY DEF GeometryInv, ItemsOK, Out, GeometryOut

\* What the window needs to know of the model does not change.
LEMMA OmissionsStay ==
  ASSUME UNCHANGED <<model, request>>
  PROVE  /\ \A i : Omits(i)' <=> Omits(i)
         /\ EmitsDefinitions' <=> EmitsDefinitions
 BY DEF Omits, Rows, Table, EmitsMeshes, EmitsDefinitions

LEMMA PendingMeshesKeeps == FixedOK /\ GeometryInv /\ PendingMeshes => GeometryInv'
<1> SUFFICES ASSUME FixedOK, GeometryInv, PendingMeshes PROVE GeometryInv'
 OBVIOUS
<1>1. /\ AtGeometry /\ ~decoding /\ pending = 1 /\ pending' = 2
      /\ Answers(<<"geometry", "meshes">>, meshes)
      /\ UNCHANGED <<model, request, stream, readers, row, source, page, materials,
                     emitMaterials, decoding, meshes, diagnostics>>
 BY DEF PendingMeshes, fixedVars, cursorVars, materialVars
<1>2. /\ row \in 0 .. Len(Table("geometry")) /\ page \in Seq(Nat) /\ meshes \in Seq(Nat)
      /\ diagnostics \in Seq(Nat) /\ decoding' \in BOOLEAN /\ pending' \in 1 .. 3 /\ ~decoding'
 BY <1>1, GeometryAtWork DEF PendingDiagnostics, AnswerDiagnostics, AnswerMeshes,
        AnswerDefinitions
<1>3. /\ ~calling' /\ DOMAIN sent' = Channels
      /\ \A d \in Channels : d[1] # "attributes" => sent'[d] \in Seq(Nat)
      /\ \A d : d[1] # "geometry" => Out(d)' = Out(d)
      /\ GeometryOut("definition_geometry")' = GeometryOut("definition_geometry")
      /\ GeometryOut("diagnostics")' = GeometryOut("diagnostics")
      /\ EmitsMeshes \/ EmitsDefinitions =>
            GeometryOut("meshes")' = GeometryOut("meshes") \cup ToSet(meshes)
 BY <1>1, <1>2, GeometryAnswer DEF GeometryKinds
<1>4. /\ WaitingMeshes = ToSet(meshes) /\ WaitingDiagnostics = ToSet(diagnostics)
      /\ WaitingMeshes' = {} /\ WaitingDiagnostics' = ToSet(diagnostics)
 BY <1>1 DEF WaitingMeshes, WaitingDiagnostics
<1>5. WindowOK'
 BY <1>1, <1>3, <1>4, OmissionsStay DEF GeometryInv, Omits, WindowOK
<1>6. EmitsMeshes => \A i : Accounted(i) => Accounted(i)'
 BY <1>3, <1>4 DEF Accounted
<1> QED BY <1>1, <1>2, <1>3, <1>5, <1>6, GeometryTurn DEF GeometryInv

\* Both ways the diagnostics go out: the window had nothing else, or they waited.
LEMMA DiagnosticsKeep ==
  FixedOK /\ GeometryInv /\ (PendingDiagnostics \/ AnswerDiagnostics) => GeometryInv'
<1> SUFFICES ASSUME FixedOK, GeometryInv, PendingDiagnostics \/ AnswerDiagnostics
             PROVE  GeometryInv'
 OBVIOUS
<1>1. /\ AtGeometry /\ pending' = 3 /\ ~decoding'
      /\ Answers(<<"geometry", "diagnostics">>, diagnostics)
      /\ UNCHANGED <<model, request, stream, readers, row, source, page, materials,
                     emitMaterials, meshes, diagnostics>>
 BY DEF PendingDiagnostics, AnswerDiagnostics, WindowDone, fixedVars, cursorVars, materialVars
<1>2. /\ row \in 0 .. Len(Table("geometry")) /\ page \in Seq(Nat) /\ meshes \in Seq(Nat)
      /\ diagnostics \in Seq(Nat) /\ pending' \in 1 .. 3
 BY <1>1, GeometryAtWork
<1>3. /\ ~calling' /\ DOMAIN sent' = Channels
      /\ \A d \in Channels : d[1] # "attributes" => sent'[d] \in Seq(Nat)
      /\ \A d : d[1] # "geometry" => Out(d)' = Out(d)
      /\ GeometryOut("definition_geometry")' = GeometryOut("definition_geometry")
      /\ GeometryOut("meshes")' = GeometryOut("meshes")
      /\ EmitsMeshes \/ EmitsDefinitions =>
            GeometryOut("diagnostics")' = GeometryOut("diagnostics") \cup ToSet(diagnostics)
 BY <1>1, <1>2, GeometryAnswer DEF GeometryKinds
<1>8. decoding' \in BOOLEAN
 <2>1. decoding \in BOOLEAN
  BY <1>1, GeometryAtWork
 <2>2. CASE PendingDiagnostics
  BY <2>1, <2>2 DEF PendingDiagnostics
 <2>3. CASE AnswerDiagnostics
  BY <2>3 DEF AnswerDiagnostics
 <2> QED BY <2>2, <2>3
<1>4. pending <= 2 /\ (pending = 1 => meshes = <<>>)
 BY <1>1, GeometryAtWork DEF PendingDiagnostics, AnswerDiagnostics, WindowDone
<1>5. /\ WaitingMeshes = {} /\ WaitingDiagnostics = ToSet(diagnostics)
      /\ WaitingMeshes' = {} /\ WaitingDiagnostics' = {}
 BY <1>1, <1>4, NoItems DEF WaitingMeshes, WaitingDiagnostics
<1>6. WindowOK'
 BY <1>1, <1>3, <1>5, OmissionsStay DEF GeometryInv, Omits, WindowOK
<1>7. EmitsMeshes => \A i : Accounted(i) => Accounted(i)'
 BY <1>3, <1>5 DEF Accounted
<1> QED BY <1>1, <1>2, <1>3, <1>6, <1>7, <1>8, GeometryTurn DEF GeometryInv

\* A window of which nothing waits is over, or the next one begins.
LEMMA EmptyHandedKeeps ==
  FixedOK /\ GeometryInv /\ (NothingPending \/ StartWindow \/ EmptyWindow) => GeometryInv'
<1> SUFFICES ASSUME FixedOK, GeometryInv, NothingPending \/ StartWindow \/ EmptyWindow
             PROVE  GeometryInv'
 OBVIOUS
<1>1. /\ AtGeometry /\ calling
      /\ UNCHANGED <<model, request, stream, readers, row, source, materials, emitMaterials,
                     calling, sent>>
      /\ \/ ~decoding' /\ pending' = 3 /\ UNCHANGED <<page, meshes, diagnostics>>
         \/ decoding' /\ pending' = 1 /\ page' = <<>> /\ meshes' = <<>> /\ diagnostics' = <<>>
      /\ decoding' \in BOOLEAN /\ pending' \in 1 .. 3
 <2>1. CASE NothingPending
  BY <2>1, GeometryAtWork DEF NothingPending, AtGeometry, At, fixedVars, cursorVars, materialVars,
     answerVars
 <2>2. CASE StartWindow
  BY <2>2 DEF StartWindow, AtGeometry, At, fixedVars, cursorVars, materialVars, answerVars
 <2>3. CASE EmptyWindow
  <3>1. decoding' = FALSE /\ pending' = 3
   BY <2>3 DEF EmptyWindow
  <3>3. ~decoding' /\ decoding' \in BOOLEAN
   BY <3>1, Zenon
  <3>4. pending' = 3 /\ pending' \in 1 .. 3
   BY <3>1
  <3>2. /\ AtGeometry /\ calling
        /\ UNCHANGED <<model, request, stream, readers, row, source, materials,
                       emitMaterials, calling, sent>>
        /\ UNCHANGED <<page, meshes, diagnostics>>
   BY <2>3 DEF EmptyWindow, WindowDone, AtGeometry, At, fixedVars, cursorVars, materialVars,
          answerVars
  <3> QED BY <3>2, <3>3, <3>4
 <2> QED BY <2>1, <2>2, <2>3
<1>2. /\ row \in 0 .. Len(Table("geometry")) /\ page \in Seq(Nat) /\ meshes \in Seq(Nat)
      /\ diagnostics \in Seq(Nat) /\ <<>> \in Seq(Nat) /\ pending \in 1 .. 3
 BY <1>1, GeometryAtWork, NoneIsSequence
<1>3. /\ DOMAIN sent' = Channels
      /\ \A d \in Channels : d[1] # "attributes" => sent'[d] \in Seq(Nat)
      /\ \A d : Out(d)' = Out(d)
      /\ \A k : GeometryOut(k)' = GeometryOut(k)
 BY <1>1, GeometrySilence
<1>4. pending = 3 \/ (diagnostics = <<>> /\ (pending = 1 => meshes = <<>>))
 BY DEF NothingPending, StartWindow, EmptyWindow
<1>5. /\ WaitingMeshes = {} /\ WaitingDiagnostics = {}
      /\ WaitingMeshes' = {} /\ WaitingDiagnostics' = {}
 BY <1>1, <1>2, <1>4, NoItems DEF WaitingMeshes, WaitingDiagnostics
<1>6. WindowOK'
 <2>1. WindowOK
  BY DEF GeometryInv
 <2> QED BY <1>1, <1>3, <1>5, <2>1, OmissionsStay DEF WindowOK
<1>7. \A i : Accounted(i) => Accounted(i)'
 BY <1>3, <1>5 DEF Accounted
<1> QED BY <1>1, <1>2, <1>3, <1>6, <1>7, GeometryTurn DEF GeometryInv

LEMMA DefinitionsKeep == FixedOK /\ GeometryInv /\ AnswerDefinitions => GeometryInv'
<1> SUFFICES ASSUME FixedOK, GeometryInv, AnswerDefinitions PROVE GeometryInv'
 OBVIOUS
<1>1. /\ AtGeometry /\ decoding /\ ~decoding' /\ EmitsDefinitions
      /\ Answers(<<"geometry", "definition_geometry">>, page)
      /\ UNCHANGED <<model, request, stream, readers, row, source, page, materials,
                     emitMaterials, meshes, diagnostics, pending>>
 BY DEF AnswerDefinitions, WindowDone, fixedVars, cursorVars, materialVars
<1>2. /\ row \in 0 .. Len(Table("geometry")) /\ page \in Seq(Nat) /\ meshes \in Seq(Nat)
      /\ diagnostics \in Seq(Nat) /\ decoding' \in BOOLEAN /\ pending' \in 1 .. 3
 BY <1>1, GeometryAtWork DEF PendingDiagnostics, AnswerDiagnostics, AnswerMeshes,
        AnswerDefinitions
<1>3. /\ ~calling' /\ DOMAIN sent' = Channels
      /\ \A d \in Channels : d[1] # "attributes" => sent'[d] \in Seq(Nat)
      /\ \A d : d[1] # "geometry" => Out(d)' = Out(d)
      /\ GeometryOut("diagnostics")' = GeometryOut("diagnostics")
      /\ GeometryOut("meshes")' = GeometryOut("meshes")
      /\ GeometryOut("definition_geometry")'
            = GeometryOut("definition_geometry") \cup ToSet(page)
 BY <1>1, <1>2, GeometryAnswer DEF GeometryKinds
<1>4. WaitingMeshes' = WaitingMeshes /\ WaitingDiagnostics' = WaitingDiagnostics
 BY <1>1 DEF WaitingMeshes, WaitingDiagnostics
<1>5. WindowOK'
 <2>1. WindowOK
  BY DEF GeometryInv
 <2> QED BY <1>1, <1>3, <1>4, <2>1, OmissionsStay DEF WindowOK
<1>6. \A i : Accounted(i) => Accounted(i)'
 BY <1>3, <1>4 DEF Accounted
<1> QED BY <1>1, <1>2, <1>3, <1>5, <1>6, GeometryTurn DEF GeometryInv

\* Meshes are the first answer of a window only when it has no definitions to send.
LEMMA MeshesKeep == FixedOK /\ GeometryInv /\ AnswerMeshes => GeometryInv'
<1> SUFFICES ASSUME FixedOK, GeometryInv, AnswerMeshes PROVE GeometryInv'
 OBVIOUS
<1>1. /\ AtGeometry /\ decoding /\ ~decoding' /\ pending' = 2
      /\ EmitsDefinitions => page = <<>>
      /\ Answers(<<"geometry", "meshes">>, meshes)
      /\ UNCHANGED <<model, request, stream, readers, row, source, page, materials,
                     emitMaterials, meshes, diagnostics>>
 BY DEF AnswerMeshes, WindowDone, fixedVars, cursorVars, materialVars
<1>2. /\ row \in 0 .. Len(Table("geometry")) /\ page \in Seq(Nat) /\ meshes \in Seq(Nat)
      /\ diagnostics \in Seq(Nat) /\ pending = 1 /\ decoding' \in BOOLEAN
 BY <1>1, GeometryAtWork DEF PendingDiagnostics, AnswerDiagnostics, AnswerMeshes,
        AnswerDefinitions
<1>3. /\ ~calling' /\ DOMAIN sent' = Channels
      /\ \A d \in Channels : d[1] # "attributes" => sent'[d] \in Seq(Nat)
      /\ \A d : d[1] # "geometry" => Out(d)' = Out(d)
      /\ GeometryOut("definition_geometry")' = GeometryOut("definition_geometry")
      /\ GeometryOut("diagnostics")' = GeometryOut("diagnostics")
      /\ EmitsMeshes \/ EmitsDefinitions =>
            GeometryOut("meshes")' = GeometryOut("meshes") \cup ToSet(meshes)
 BY <1>1, <1>2, GeometryAnswer DEF GeometryKinds
<1>4. /\ WaitingMeshes = ToSet(meshes) /\ WaitingDiagnostics = ToSet(diagnostics)
      /\ WaitingMeshes' = {} /\ WaitingDiagnostics' = ToSet(diagnostics)
 BY <1>1, <1>2 DEF WaitingMeshes, WaitingDiagnostics
<1>5. WindowOK'
 BY <1>1, <1>3, <1>4, NoItems, OmissionsStay DEF GeometryInv, Omits, WindowOK
<1>6. EmitsMeshes => \A i : Accounted(i) => Accounted(i)'
 BY <1>3, <1>4 DEF Accounted
<1> QED BY <1>1, <1>2, <1>3, <1>5, <1>6, GeometryTurn DEF GeometryInv

\* A part that is read goes to the definitions, the meshes and the diagnostics of
\* the window by what its geometry comes to.
LEMMA ReadPartKeeps == FixedOK /\ GeometryInv /\ ReadPart => GeometryInv'
<1> SUFFICES ASSUME FixedOK, GeometryInv, ReadPart PROVE GeometryInv'
 OBVIOUS
<1> DEFINE new == row + 1
           r == Table("geometry")[new]
           shape == IF ~r.attribute /\ r.geometry # "operative" THEN "frameless" ELSE r.geometry
           taken == Selected(new) /\ shape \notin Passed
           defines == taken /\ shape \in Framed
           draws == taken /\ EmitsMeshes /\ shape \in {"drawn", "omitting"}
           reports == taken /\ \/ shape = "frameless"
                               \/ EmitsMeshes /\ shape \in {"undrawn", "omitting"}
<1>1. /\ AtGeometry /\ calling /\ decoding /\ row < Len(Table("geometry")) /\ row' = new
      /\ page' = IF defines THEN Append(page, new) ELSE page
      /\ meshes' = IF draws THEN Append(meshes, new) ELSE meshes
      /\ diagnostics' = IF reports THEN Append(diagnostics, new) ELSE diagnostics
      /\ UNCHANGED <<model, request, stream, readers, source, materials, emitMaterials,
                     decoding, pending, calling, sent>>
 BY DEF ReadPart, AtGeometry, At, fixedVars, materialVars, answerVars
<1>2. /\ row \in Nat /\ page \in Seq(Nat) /\ meshes \in Seq(Nat)
      /\ diagnostics \in Seq(Nat) /\ pending = 1
 BY <1>1, GeometryAtWork
<1>3. new \in Nat /\ new \in Rows("geometry") /\ new \in 0 .. Len(Table("geometry"))
 BY <1>1, <1>2, PartsTable
<1>4. /\ DOMAIN sent' = Channels
      /\ \A d \in Channels : d[1] # "attributes" => sent'[d] \in Seq(Nat)
      /\ \A d : Out(d)' = Out(d)
      /\ \A k : GeometryOut(k)' = GeometryOut(k)
 BY <1>1, GeometrySilence
<1>5. /\ page' \in Seq(Nat) /\ meshes' \in Seq(Nat) /\ diagnostics' \in Seq(Nat)
      /\ ToSet(page') = ToSet(page) \cup (IF defines THEN {new} ELSE {})
      /\ ToSet(meshes') = ToSet(meshes) \cup (IF draws THEN {new} ELSE {})
      /\ ToSet(diagnostics') = ToSet(diagnostics) \cup (IF reports THEN {new} ELSE {})
 <2>1. \A s \in Seq(Nat) : ToSet(Append(s, new)) = ToSet(s) \cup {new} /\ Append(s, new) \in Seq(Nat)
  BY <1>3, OneMore
 <2> HIDE DEF new, defines, draws, reports
 <2> QED BY <1>1, <1>2, <2>1
<1>6. /\ WaitingMeshes = ToSet(meshes) /\ WaitingDiagnostics = ToSet(diagnostics)
      /\ WaitingMeshes' = ToSet(meshes') /\ WaitingDiagnostics' = ToSet(diagnostics')
 BY <1>1, <1>2 DEF WaitingMeshes, WaitingDiagnostics
<1>7. draws => defines
 BY DEF Framed
<1>8. reports /\ Omits(new) => draws
 BY DEF Omits
<1>9. EmitsMeshes /\ Needed(new) => draws \/ reports
 BY <1>3, PartsTable DEF Needed, Shapes, Passed
<1>10. WindowOK'
 <2>1. WindowOK
  BY DEF GeometryInv
 <2>2. EmitsDefinitions => ToSet(meshes') \subseteq ToSet(page')
  <3> HIDE DEF new, defines, draws, reports
  <3> QED BY <1>1, <1>5, <1>6, <1>7, <2>1 DEF WindowOK
 <2>3. \A i \in ToSet(diagnostics') :
           Omits(i) => i \in ToSet(meshes') \cup GeometryOut("meshes")
  <3> HIDE DEF new, defines, draws, reports
  <3> QED BY <1>5, <1>6, <1>8, <2>1 DEF WindowOK
 <2> HIDE DEF new, defines, draws, reports
 <2> QED BY <1>1, <1>4, <1>6, <2>1, <2>2, <2>3, OmissionsStay DEF WindowOK
<1>11. EmitsMeshes => /\ \A i : Accounted(i) => Accounted(i)'
                      /\ \A i \in 1 .. row' : Needed(i) => i \in 1 .. row \/ Accounted(i)'
 <2> SUFFICES ASSUME EmitsMeshes
              PROVE  /\ \A i : Accounted(i) => Accounted(i)'
                     /\ \A i \in 1 .. row' : Needed(i) => i \in 1 .. row \/ Accounted(i)'
  OBVIOUS
 <2>1. \A i : Accounted(i) => Accounted(i)'
  <3> HIDE DEF new, defines, draws, reports
  <3> QED BY <1>4, <1>5, <1>6 DEF Accounted
 <2>2. Needed(new) => new \in ToSet(meshes') \cup ToSet(diagnostics')
  <3> HIDE DEF new, defines, draws, reports
  <3> QED BY <1>5, <1>9
 <2>3. \A i \in 1 .. row' : i \in 1 .. row \/ i = row + 1
  BY <1>1, <1>2
 <2>4. \A i : i \in ToSet(meshes') \cup ToSet(diagnostics') => Accounted(i)'
  BY <1>6 DEF Accounted
 <2> QED BY <2>1, <2>2, <2>3, <2>4
<1>12. ItemsOK' /\ CallsOK' /\ PartsOK' /\ MaterialsOK'
 <2>1. row' \in 0 .. Len(Table("geometry")) /\ decoding' /\ pending' = 1 /\ calling'
  BY <1>1, <1>2, <1>3
 <2>2. decoding' \in BOOLEAN /\ pending' \in 1 .. 3
  BY <1>1, <2>1 DEF GeometryInv, CallsOK
 <2> HIDE DEF new, defines, draws, reports
 <2> QED BY <1>1, <1>4, <1>5, <1>11, <2>1, <2>2, GeometryTurn
<1> QED BY <1>10, <1>12 DEF GeometryInv

---------------------------------------------------------------------------
(* The theorems.                                                          *)

StreamInv == WinnersInv /\ GeometryInv

LEMMA StreamKeeps == StreamInv /\ [Next]_processVars => StreamInv'
<1> SUFFICES ASSUME WinnersInv, GeometryInv, [Next]_processVars PROVE GeometryInv'
 BY StepKeeps DEF StreamInv
<1>1. FixedOK
 BY DEF WinnersInv
<1>2. CASE Process
 BY <1>1, <1>2, ProcessBegins
<1>3. CASE ChooseWinner \/ LinkTableDone \/ WinnersChosen
 BY <1>3, ChoosingKeeps, PlainTurns DEF ChooseWinner, LinkTableDone, WinnersChosen
<1>4. CASE ChainAdvances \/ StageAdvances
 BY <1>1, <1>4, NextReaderBegins
<1>5. CASE Call
 BY <1>5, CallKeeps
<1>6. CASE AnswerEnd \/ ProcessAgain \/ UNCHANGED processVars
 BY <1>6, EndKeeps
<1>7. CASE ReadObject \/ FailObject \/ ReadLink \/ OpenNonPart \/ FailNonPart \/ NonPartListDone
 BY <1>7, PlainTurns
<1>8. CASE AnswerObjects \/ AnswerAttributes \/ AnswerPage \/ AnswerNonPart
 BY <1>8, PlainAnswers
<1>9. CASE ReadSemanticRow \/ AnswerProperties \/ AnswerMaterials \/ SkipWindow
 BY <1>9, SemanticRowKeeps, PropertiesKeep, MaterialsKeep, SkipKeeps
<1>10. CASE \/ PendingMeshes \/ PendingDiagnostics \/ NothingPending \/ StartWindow \/ ReadPart
            \/ AnswerDefinitions \/ AnswerMeshes \/ AnswerDiagnostics \/ EmptyWindow
 BY <1>1, <1>10, PendingMeshesKeeps, DiagnosticsKeep, EmptyHandedKeeps, ReadPartKeeps,
    DefinitionsKeep, MeshesKeep
<1> QED BY <1>2, <1>3, <1>4, <1>5, <1>6, <1>7, <1>8, <1>9, <1>10 DEF Next

LEMMA StreamAlways == Spec => []StreamInv
<1>1. Init => StreamInv
 BY InitWinners, InitGeometry DEF StreamInv
<1> QED BY <1>1, StreamKeeps, PTL DEF Spec

\* The numbers of the rows of a table that is read by its own name.
LEMMA RowsAreNumbers ==
  ASSUME FixedOK, NEW r \in {"parts", "surfaces"}
  PROVE  Rows(r) \subseteq Nat
<1>1. r \in TableNames /\ r # "geometry"
 BY DEF Chain, TableNames, ToSet
<1>2. Rows(r) = 1 .. Len(Table(r))
 BY DEF Rows
<1> QED BY <1>2

\* A consumer that places what it hears at once always knows what it needs: a mesh
\* comes after its definition, an omission after the mesh that misses something, the
\* materials of an object after its properties; for every model, request and size of
\* a batch or window.
THEOREM MeshesAreDescribed == Spec => []DescribedFirst
<1>1. StreamInv => DescribedFirst
 <2> SUFFICES ASSUME StreamInv PROVE DescribedFirst
  OBVIOUS
 <2>1. WindowOK /\ MaterialsOK /\ FixedOK
  BY DEF StreamInv, GeometryInv, WinnersInv
 <2>2. \A c, i : c \in DOMAIN sent /\ i \in ToSet(sent[c]) <=> i \in Out(c)
  BY DEF Out
 <2>3. ASSUME NEW i \in Rows("geometry")
       PROVE  /\ EmitsDefinitions /\ i \in Out(<<"geometry", "meshes">>)
                    => i \in Out(<<"geometry", "definition_geometry">>)
              /\ i \in Out(<<"geometry", "diagnostics">>)
                 /\ Table("geometry")[i].geometry = "omitting"
                 /\ Table("geometry")[i].attribute /\ EmitsMeshes
                    => i \in Out(<<"geometry", "meshes">>)
  BY <2>1, <2>3 DEF WindowOK, GeometryOut, Omits
 <2>4. ASSUME NEW r \in {"parts", "surfaces"}, NEW i \in Rows(r),
              i \in Out(<<r, "materials">>), Describes(r, Table(r)[i])
       PROVE  i \in Out(<<r, "properties">>)
  BY <2>1, <2>4, RowsAreNumbers DEF MaterialsOK
 <2> QED BY <2>2, <2>3, <2>4 DEF DescribedFirst
<1> QED BY <1>1, StreamAlways, PTL

\* No selected part is lost between the windows and the calls: when the geometry of
\* the parts is through, each has been drawn or reported, and one that was neither
\* while the reader was at work was still waiting in its window.
THEOREM PartsAreDrawnOrReported == Spec => []DrawnOrReported
<1>1. StreamInv => DrawnOrReported
 <2> SUFFICES ASSUME StreamInv, stream = "open", EmitsMeshes, "geometry" \notin ToSet(readers),
                     NEW i \in Rows("geometry"), Needed(i)
              PROVE  \/ i \in ToSet(sent[<<"geometry", "meshes">>])
                     \/ i \in ToSet(sent[<<"geometry", "diagnostics">>])
  BY DEF DrawnOrReported, Needed
 <2>1. PartsOK /\ CallsOK /\ ItemsOK
  BY DEF StreamInv, GeometryInv
 <2>2. Accounted(i)
  BY <2>1 DEF PartsOK
 <2>3. ~AtWork("geometry")
  BY <2>1, HeadAndTail DEF CallsOK, AtWork
 <2>4. WaitingMeshes = {} /\ WaitingDiagnostics = {}
  BY <2>1, <2>3 DEF CallsOK, WaitingMeshes, WaitingDiagnostics
 <2>5. /\ <<"geometry", "meshes">> \in DOMAIN sent
       /\ <<"geometry", "diagnostics">> \in DOMAIN sent
  BY <2>1, GeometryChannels DEF ItemsOK, GeometryKinds
 <2> QED BY <2>2, <2>4, <2>5 DEF Accounted, GeometryOut, Out
<1> QED BY <1>1, StreamAlways, PTL

---------------------------------------------------------------------------
(* Lists that hold the members of a set in order: the list of a channel   *)
(* is the rows that come to an item, by row, and the rows of the link     *)
(* tables, by table and row.                                              *)

\* Before every member of P but itself there is something, or after it.
Orders(earlier, P) ==
  /\ \A i \in P : <<i, i>> \notin earlier
  /\ \A i, j \in P : i = j \/ <<i, j>> \in earlier \/ <<j, i>> \in earlier
  /\ \A i, j, k \in P : <<i, j>> \in earlier /\ <<j, k>> \in earlier => <<i, k>> \in earlier

Behind(earlier, P, x) == {m \in P : <<m, x>> \in earlier}

LEMMA FewerBehind ==
  ASSUME NEW P, IsFiniteSet(P), NEW earlier, Orders(earlier, P),
         NEW x \in P, NEW y \in P, <<x, y>> \in earlier
  PROVE  /\ Cardinality(Behind(earlier, P, x)) \in Nat
         /\ Cardinality(Behind(earlier, P, y)) \in Nat
         /\ Cardinality(Behind(earlier, P, x)) < Cardinality(Behind(earlier, P, y))
<1> DEFINE B(l) == Behind(earlier, P, l)
<1>1. B(x) \subseteq B(y) /\ x \in B(y) /\ x \notin B(x)
 BY DEF Behind, Orders
<1>2. B(y) \in SUBSET P
 BY DEF Behind
<1> HIDE DEF B
<1>3. IsFiniteSet(B(y))
 BY <1>2, FS_Subset
<1>4. /\ IsFiniteSet(B(x)) /\ Cardinality(B(x)) <= Cardinality(B(y))
      /\ Cardinality(B(y)) # Cardinality(B(x))
 BY <1>1, <1>3, FS_Subset
<1>5. Cardinality(B(x)) \in Nat /\ Cardinality(B(y)) \in Nat
 BY <1>3, <1>4, FS_CardinalityType
<1>6. Cardinality(B(x)) < Cardinality(B(y))
 BY <1>4, <1>5
<1> QED BY <1>5, <1>6 DEF B

\* A member stands in the list after those before it.
LEMMA NthInOrder ==
  ASSUME NEW P, IsFiniteSet(P), NEW earlier, Orders(earlier, P), NEW x \in P
  PROVE  LET n == Cardinality(Behind(earlier, P, x)) IN
         n \in Nat /\ n < Cardinality(P) /\ InOrder(P, earlier)[n + 1] = x
<1> DEFINE n == Cardinality(Behind(earlier, P, x))
           B(l) == Behind(earlier, P, l)
<1>1. n \in Nat /\ n < Cardinality(P) /\ Cardinality(P) \in Nat
 <2>1. B(x) \in SUBSET P /\ B(x) # P
  BY DEF Behind, Orders
 <2>2. IsFiniteSet(B(x)) /\ Cardinality(B(x)) <= Cardinality(P) /\ Cardinality(P) # Cardinality(B(x))
  <3> HIDE DEF B
  <3> QED BY <2>1, FS_Subset
 <2>3. Cardinality(B(x)) \in Nat /\ Cardinality(P) \in Nat
  BY <2>2, FS_CardinalityType
 <2> QED BY <2>2, <2>3
<1>2. ASSUME NEW l \in P, Cardinality(B(l)) = n
      PROVE  l = x
 <2>1. CASE <<l, x>> \in earlier
  BY <1>1, <1>2, <2>1, FewerBehind
 <2>2. CASE <<x, l>> \in earlier
  BY <1>1, <1>2, <2>2, FewerBehind
 <2> QED BY <2>1, <2>2 DEF Orders
<1>3. n + 1 \in 1 .. Cardinality(P) /\ (n + 1) - 1 = n
 BY <1>1
<1>4. InOrder(P, earlier)[n + 1]
         = CHOOSE l \in P : Cardinality({m \in P : <<m, l>> \in earlier}) = (n + 1) - 1
 BY <1>3 DEF InOrder
<1>5. \A l : (l \in P /\ Cardinality({m \in P : <<m, l>> \in earlier}) = (n + 1) - 1) <=> l = x
 BY <1>2, <1>3 DEF Behind
<1>6. InOrder(P, earlier)[n + 1] = x
 BY <1>4, <1>5
<1> QED BY <1>1, <1>6

LEMMA LengthInOrder ==
  ASSUME NEW P, IsFiniteSet(P), NEW earlier
  PROVE  /\ Cardinality(P) \in Nat
         /\ \E T : InOrder(P, earlier) \in Seq(T)
         /\ Len(InOrder(P, earlier)) = Cardinality(P)
<1> DEFINE f == InOrder(P, earlier)
           T == {f[k] : k \in 1 .. Cardinality(P)}
           nth(k) == CHOOSE l \in P : Cardinality({m \in P : <<m, l>> \in earlier}) = k - 1
<1>1. Cardinality(P) \in Nat
 BY FS_CardinalityType
<1>2. DOMAIN f = 1 .. Cardinality(P) /\ f = [k \in 1 .. Cardinality(P) |-> f[k]]
 <2>1. f = [k \in 1 .. Cardinality(P) |-> nth(k)]
  BY DEF InOrder
 <2> HIDE DEF f, nth
 <2> QED BY <2>1
<1> HIDE DEF f
<1>3. f \in [1 .. Cardinality(P) -> T]
 BY <1>2
<1>4. f \in Seq(T) /\ Len(f) = Cardinality(P)
 BY <1>1, <1>2, <1>3
<1> QED BY <1>1, <1>4 DEF f

RowPairs(n) == {p \in (1 .. n) \X (1 .. n) : p[1] < p[2]}

\* Rows that are chosen among n, in order: what one row more adds.
LEMMA RowsInOrder ==
  ASSUME NEW n \in Nat, NEW P, P \subseteq 1 .. n
  PROVE  IsFiniteSet(P) /\ Orders(RowPairs(n), P)
<1>1. IsFiniteSet(1 .. n)
 BY FS_Interval
<1>2. IsFiniteSet(P)
 BY <1>1, FS_Subset
<1>3. \A i, j \in P : <<i, j>> \in RowPairs(n) <=> i < j
 BY DEF RowPairs
<1>4. P \subseteq Int
 OBVIOUS
<1>5. Orders(RowPairs(n), P)
 BY <1>3, <1>4 DEF Orders
<1> QED BY <1>2, <1>5

Upto(P, k) == {i \in P : i <= k}

LEMMA CountOfRows ==
  ASSUME NEW n \in Nat, NEW P, P \subseteq 1 .. n, NEW k \in 0 .. n
  PROVE  /\ Cardinality(Upto(P, k)) \in Nat /\ Cardinality(P) \in Nat
         /\ Cardinality(Upto(P, k)) <= Cardinality(P)
         /\ Cardinality(Upto(P, 0)) = 0 /\ Upto(P, n) = P
         /\ Len(InOrder(P, RowPairs(n))) = Cardinality(P)
         /\ \E T : InOrder(P, RowPairs(n)) \in Seq(T)
<1>1. IsFiniteSet(P)
 BY RowsInOrder
<1>2. Upto(P, k) \in SUBSET P /\ Upto(P, 0) = {} /\ Upto(P, n) = P
 <2>1. \A i \in P : i \in Nat /\ ~(i <= 0) /\ i <= n
  OBVIOUS
 <2> QED BY <2>1 DEF Upto
<1>3. IsFiniteSet(Upto(P, k)) /\ Cardinality(Upto(P, k)) <= Cardinality(P)
 BY <1>1, <1>2, FS_Subset
<1>4. Cardinality(Upto(P, k)) \in Nat /\ Cardinality(P) \in Nat
 BY <1>1, <1>3, FS_CardinalityType
<1>5. Cardinality(Upto(P, 0)) = 0
 BY <1>2, FS_EmptySet
<1> QED BY <1>1, <1>2, <1>3, <1>4, <1>5, LengthInOrder

\* The next row is the next item of the list, or none.
RowAdds(list, P, k) ==
  /\ k + 1 \in P => /\ list[Cardinality(Upto(P, k)) + 1] = k + 1
                    /\ Cardinality(Upto(P, k + 1)) = Cardinality(Upto(P, k)) + 1
  /\ k + 1 \notin P => Cardinality(Upto(P, k + 1)) = Cardinality(Upto(P, k))

LEMMA NextRow ==
  ASSUME NEW n \in Nat, NEW P, P \subseteq 1 .. n, NEW k \in Nat, k < n
  PROVE  RowAdds(InOrder(P, RowPairs(n)), P, k)
<1>1. /\ P \subseteq Int
      /\ \A i \in P : i <= k + 1 <=> i <= k \/ i = k + 1
      /\ ~(k + 1 <= k)
 OBVIOUS
<1>2. CASE k + 1 \in P
 <2>1. Behind(RowPairs(n), P, k + 1) = Upto(P, k)
  <3>1. \A m \in P : <<m, k + 1>> \in RowPairs(n) <=> m <= k
   BY <1>1, <1>2 DEF RowPairs
  <3> QED BY <3>1 DEF Behind, Upto
 <2>2. Orders(RowPairs(n), P) /\ IsFiniteSet(P)
  BY RowsInOrder
 <2>3. InOrder(P, RowPairs(n))[Cardinality(Upto(P, k)) + 1] = k + 1
  BY <1>2, <2>1, <2>2, NthInOrder
 <2>4. Upto(P, k + 1) = Upto(P, k) \cup {k + 1} /\ k + 1 \notin Upto(P, k)
  BY <1>1, <1>2 DEF Upto
 <2>5. IsFiniteSet(Upto(P, k))
  BY <2>2, FS_Subset DEF Upto
 <2>6. Cardinality(Upto(P, k) \cup {k + 1}) = Cardinality(Upto(P, k)) + 1
  <3> DEFINE U == Upto(P, k)
  <3>1. IsFiniteSet(U) /\ k + 1 \notin U
   BY <2>4, <2>5
  <3> HIDE DEF U
  <3>2. Cardinality(U \cup {k + 1}) = Cardinality(U) + 1
   BY <3>1, FS_AddElement
  <3> QED BY <3>2 DEF U
 <2> QED BY <1>2, <2>3, <2>4, <2>6 DEF RowAdds
<1>3. CASE k + 1 \notin P
 BY <1>1, <1>3 DEF Upto, RowAdds
<1> QED BY <1>2, <1>3 DEF RowAdds

---------------------------------------------------------------------------
(* The readers of a request come in one order, each once.                 *)

\* The order of the readers.
ReaderRank ==
  [identities |-> 1, attributes |-> 2, parts |-> 3, bolts |-> 4, rebars |-> 5, welds |-> 6,
   surfaces |-> 7, surface_objects |-> 8, rebar_sets |-> 9, end_details |-> 10,
   splitters |-> 11, pour_objects |-> 12, pour_units |-> 13, splices |-> 14, relations |-> 15,
   semantic_relations |-> 16, instances |-> 17, geometry |-> 18, nonpart |-> 19]

InRank(s, n) ==
  /\ s \in Seq(Readers)
  /\ \A i \in 1 .. Len(s) : Wanted(s[i]) /\ ReaderRank[s[i]] <= n
  /\ \A i, j \in 1 .. Len(s) : i < j => ReaderRank[s[i]] < ReaderRank[s[j]]

LEMMA RanksAreNumbers == \A r \in Readers : ReaderRank[r] \in Nat
 BY DEF Readers, ReaderRank

LEMMA PushedInRank ==
  ASSUME NEW s, NEW n \in Nat, InRank(s, n), NEW r \in Readers, ReaderRank[r] = n + 1
  PROVE  InRank(s \o Pushed(r), n + 1)
<1>1. /\ s \in Seq(Readers) /\ Len(s) \in Nat
      /\ \A i \in 1 .. Len(s) : s[i] \in Readers /\ ReaderRank[s[i]] \in Nat
      /\ \A i \in 1 .. Len(s) : Wanted(s[i]) /\ ReaderRank[s[i]] <= n
      /\ \A i, j \in 1 .. Len(s) : i < j => ReaderRank[s[i]] < ReaderRank[s[j]]
 BY RanksAreNumbers, ItemsOfSequence DEF InRank
<1>2. CASE Wanted(r)
 <2>1. Pushed(r) = <<r>>
  BY <1>2 DEF Pushed
 <2> DEFINE t == s \o <<r>>
 <2>2. /\ t \in Seq(Readers) /\ Len(t) = Len(s) + 1
       /\ \A i \in 1 .. Len(s) : t[i] = s[i]
       /\ t[Len(s) + 1] = r
  BY <1>1
 <2> HIDE DEF t
 <2>3. ASSUME NEW i \in 1 .. Len(t)
       PROVE  i \in 1 .. Len(s) \/ i = Len(s) + 1
  BY <1>1, <2>2
 <2>4. \A i \in 1 .. Len(t) : Wanted(t[i]) /\ ReaderRank[t[i]] <= n + 1
  BY <1>1, <1>2, <2>2, <2>3
 <2>5. ASSUME NEW i \in 1 .. Len(t), NEW j \in 1 .. Len(t), i < j
       PROVE  ReaderRank[t[i]] < ReaderRank[t[j]]
  BY <1>1, <2>2, <2>3, <2>5
 <2> QED BY <2>1, <2>2, <2>4, <2>5 DEF InRank, t
<1>3. CASE ~Wanted(r)
 BY <1>1, <1>3 DEF Pushed, InRank
<1> QED BY <1>2, <1>3

LEMMA StagesInRank == InRank(StageReaders, 19)
<1> DEFINE first == Pushed("identities") \o Pushed("attributes") \o Pushed("parts") \o Pushed("bolts")
           second == first \o Pushed("rebars") \o Pushed("welds") \o Pushed("surfaces")
                       \o Pushed("surface_objects") \o Pushed("rebar_sets")
           third == second \o Pushed("end_details") \o Pushed("splitters")
                      \o Pushed("pour_objects") \o Pushed("pour_units") \o Pushed("splices")
           all == third \o Pushed("relations") \o Pushed("semantic_relations")
                      \o Pushed("instances") \o Pushed("geometry") \o Pushed("nonpart")
           Next1(n, r) == \A s : InRank(s, n) => InRank(s \o Pushed(r), n + 1)
<1>1. \A r \in Readers : \A n \in Nat : ReaderRank[r] = n + 1 => Next1(n, r)
 BY PushedInRank
<1>2. /\ Next1(0, "identities") /\ Next1(1, "attributes") /\ Next1(2, "parts")
      /\ Next1(3, "bolts") /\ Next1(4, "rebars") /\ Next1(5, "welds") /\ Next1(6, "surfaces")
      /\ Next1(7, "surface_objects") /\ Next1(8, "rebar_sets") /\ Next1(9, "end_details")
      /\ Next1(10, "splitters") /\ Next1(11, "pour_objects") /\ Next1(12, "pour_units")
      /\ Next1(13, "splices") /\ Next1(14, "relations") /\ Next1(15, "semantic_relations")
      /\ Next1(16, "instances") /\ Next1(17, "geometry") /\ Next1(18, "nonpart")
 <2> HIDE DEF Next1
 <2> QED BY <1>1 DEF Readers, ReaderRank
<1>3. InRank(<<>>, 0)
 BY NoneIsSequence DEF InRank
<1>4. <<>> \o Pushed("identities") = Pushed("identities")
 BY DEF Pushed
<1>5. InRank(first, 4)
 <2>1. InRank(Pushed("identities"), 1)
  <3>1. InRank(<<>> \o Pushed("identities"), 0 + 1)
   BY <1>2, <1>3, Zenon
  <3>2. InRank(Pushed("identities"), 0 + 1)
   BY ONLY <1>4, <3>1, Zenon
  <3> QED BY ONLY <3>2
 <2>2. InRank(Pushed("identities") \o Pushed("attributes"), 2)
  BY <1>2, <2>1
 <2>3. InRank(Pushed("identities") \o Pushed("attributes") \o Pushed("parts"), 3)
  BY <1>2, <2>2
 <2> QED BY <1>2, <2>3
<1> HIDE DEF first
<1>6. InRank(second, 9)
 BY <1>2, <1>5
<1> HIDE DEF second
<1>7. InRank(third, 14)
 BY <1>2, <1>6
<1> HIDE DEF third
<1>8. InRank(all, 19)
 BY <1>2, <1>7
<1>9. StageReaders = all
 BY DEF StageReaders, all, third, second, first
<1> QED BY <1>8, <1>9

\* Every reader has one stage, and only those that are wanted have one.
LEMMA StagesApart ==
  /\ StageReaders \in Seq(Readers) /\ Len(StageReaders) \in Nat
  /\ \A i \in 1 .. Len(StageReaders) : StageReaders[i] \in Readers /\ Wanted(StageReaders[i])
  /\ \A i, j \in 1 .. Len(StageReaders) : i # j => StageReaders[i] # StageReaders[j]
<1>1. InRank(StageReaders, 19)
 BY StagesInRank
<1> HIDE DEF StageReaders
<1>2. /\ StageReaders \in Seq(Readers) /\ Len(StageReaders) \in Nat
      /\ \A i \in 1 .. Len(StageReaders) : StageReaders[i] \in Readers /\ Wanted(StageReaders[i])
      /\ \A i, j \in 1 .. Len(StageReaders) :
            i < j => ReaderRank[StageReaders[i]] < ReaderRank[StageReaders[j]]
 BY <1>1, ItemsOfSequence DEF InRank
<1>3. \A i \in 1 .. Len(StageReaders) : ReaderRank[StageReaders[i]] \in Nat
 BY <1>2, RanksAreNumbers
<1>4. ASSUME NEW i \in 1 .. Len(StageReaders), NEW j \in 1 .. Len(StageReaders), i # j
      PROVE  StageReaders[i] # StageReaders[j]
 BY <1>2, <1>3, <1>4
<1> QED BY <1>2, <1>4

LEMMA AllAreReaders == \A r \in Readers : r \in ToSet(AllReaders)
BY DEF AllReaders, Chain, Readers, ReaderRank, ToSet

---------------------------------------------------------------------------
(* The winner of a path is the best row met on it, so what goes out in    *)
(* the second pass is what is promised.                                   *)

\* The best of the rows met on every path so far.
Best(a, w, s, r) ==
  /\ \A p \in DOMAIN w :
        /\ w[p].row \in AllRows(a) /\ Through(s, r, w[p].row)
        /\ Meets(a, w[p].row) /\ Path(a, w[p].row) = p
        /\ w[p].precedence = Precedence[Kind(w[p].row)]
  /\ \A l \in AllRows(a) :
        Through(s, r, l) /\ Meets(a, l) =>
            /\ Path(a, l) \in DOMAIN w
            /\ l = w[Path(a, l)].row \/ Outranks(a, w[Path(a, l)].row, l)

LEMMA LinksAreRows ==
  ASSUME NEW a, \A s \in 1 .. 3 : Len(LinkTable(a, s)) \in Nat
  PROVE  AllLinks(a) = AllRows(a)
BY DEF AllLinks, AllRows

LEMMA RanksOfKinds ==
  ASSUME NEW a, NEW l \in AllRows(a)
  PROVE  Precedence[Kind(l)] \in Nat
BY KindsOfLinks DEF AllRows, Precedence

\* One turn of the first pass keeps the best.
LEMMA MeetKeepsBest ==
  ASSUME NEW a, NEW w, NEW s \in 1 .. 3, NEW r \in Nat, Best(a, w, s, r),
         NEW new, new = <<s, r + 1>>, new \in AllRows(a)
  PROVE  Best(a, Meet(a, w, new), s, r + 1)
<1> DEFINE v == Meet(a, w, new)
           path == Path(a, new)
           rank == Precedence[Kind(new)]
<1>1. \A l \in AllRows(a) : Through(s, r + 1, l) <=> Through(s, r, l) \/ l = new
 BY DEF Through, AllRows
<1>2. \A l \in AllRows(a) : Through(s, r, l) => Before(l, new)
 BY DEF Through, AllRows, Before
<1>3. ~Through(s, r, new)
 BY DEF Through
<1> HIDE DEF v
<1>4. CASE ~Meets(a, new)
 BY <1>1, <1>4 DEF Meet, v, Best
<1>5. CASE Meets(a, new) /\ path \notin DOMAIN w
 <2> DEFINE entry == [row |-> new, precedence |-> rank, occurrences |-> 1]
 <2>1. v = [p \in DOMAIN w \cup {path} |-> IF p = path THEN entry ELSE w[p]]
  BY <1>5 DEF Meet, v
 <2>2. /\ DOMAIN v = DOMAIN w \cup {path}
       /\ \A p \in DOMAIN w : v[p] = w[p]
       /\ v[path].row = new /\ v[path].precedence = rank
  BY <2>1, <1>5
 <2>3. ASSUME NEW p \in DOMAIN v
       PROVE  /\ v[p].row \in AllRows(a) /\ Through(s, r + 1, v[p].row)
              /\ Meets(a, v[p].row) /\ Path(a, v[p].row) = p
              /\ v[p].precedence = Precedence[Kind(v[p].row)]
  BY <1>1, <1>5, <2>2 DEF Best
 <2>4. ASSUME NEW l \in AllRows(a), Through(s, r + 1, l), Meets(a, l)
       PROVE  /\ Path(a, l) \in DOMAIN v
              /\ l = v[Path(a, l)].row \/ Outranks(a, v[Path(a, l)].row, l)
  <3>1. CASE l = new
   BY <2>2, <3>1
  <3>2. CASE l # new
   BY <1>1, <2>2, <2>4, <3>2 DEF Best
  <3> QED BY <3>1, <3>2
 <2> QED BY <2>3, <2>4 DEF Best, v
<1>6. CASE Meets(a, new) /\ path \in DOMAIN w
 <2> DEFINE old == w[path].row
            takes == rank > w[path].precedence
 <2> DEFINE entry == [row |-> IF takes THEN new ELSE old,
                      precedence |-> IF takes THEN rank ELSE w[path].precedence,
                      occurrences |-> w[path].occurrences + 1]
 <2>1. v = [w EXCEPT ![path] = entry]
  BY <1>6 DEF Meet, v
 <2>2. /\ DOMAIN v = DOMAIN w
       /\ \A p \in DOMAIN w : p # path => v[p] = w[p]
       /\ v[path].row = IF takes THEN new ELSE old
       /\ v[path].precedence = IF takes THEN rank ELSE w[path].precedence
  BY <2>1, <1>6
 <2>3. /\ old \in AllRows(a) /\ Through(s, r, old) /\ Meets(a, old) /\ Path(a, old) = path
       /\ w[path].precedence = Precedence[Kind(old)]
  BY <1>6 DEF Best
 <2>4. rank \in Nat /\ Precedence[Kind(old)] \in Nat
  BY <2>3, RanksOfKinds
 <2>5. ASSUME NEW p \in DOMAIN v
       PROVE  /\ v[p].row \in AllRows(a) /\ Through(s, r + 1, v[p].row)
              /\ Meets(a, v[p].row) /\ Path(a, v[p].row) = p
              /\ v[p].precedence = Precedence[Kind(v[p].row)]
  BY <1>1, <1>6, <2>2, <2>3 DEF Best
 <2>6. ASSUME NEW l \in AllRows(a), Through(s, r + 1, l), Meets(a, l)
       PROVE  /\ Path(a, l) \in DOMAIN v
              /\ l = v[Path(a, l)].row \/ Outranks(a, v[Path(a, l)].row, l)
  <3>1. CASE Path(a, l) # path
   BY <1>1, <2>2, <2>6, <3>1 DEF Best
  <3>2. CASE Path(a, l) = path /\ takes
   <4>1. CASE l = new
    BY <1>6, <2>2, <3>2, <4>1
   <4>2. CASE l # new
    <5>1. Through(s, r, l)
     BY <1>1, <2>6, <4>2
    <5>2. l = old \/ Outranks(a, old, l)
     BY <2>6, <3>2, <5>1 DEF Best
    <5>3. Precedence[Kind(l)] \in Nat
     BY RanksOfKinds
    <5>4. Precedence[Kind(old)] >= Precedence[Kind(l)]
     BY <2>4, <5>2, <5>3 DEF Outranks
    <5>5. Outranks(a, new, l)
     BY <2>3, <2>4, <3>2, <5>3, <5>4 DEF Outranks
    <5> QED BY <1>6, <2>2, <3>2, <5>5
   <4> QED BY <4>1, <4>2
  <3>3. CASE Path(a, l) = path /\ ~takes
   <4>1. CASE l = new
    BY <1>2, <1>6, <2>2, <2>3, <2>4, <3>3, <4>1 DEF Outranks
   <4>2. CASE l # new
    BY <1>1, <2>2, <2>6, <3>3, <4>2 DEF Best
   <4> QED BY <4>1, <4>2
  <3> QED BY <3>1, <3>2, <3>3
 <2> QED BY <2>5, <2>6 DEF Best, v
<1> QED BY <1>4, <1>5, <1>6 DEF v

\* After the first pass the second lets through what is promised.
LEMMA ChosenArePromised ==
  ASSUME NEW a, NEW w, NEW s, NEW r, Best(a, w, s, r), Counted(w),
         AllLinks(a) = AllRows(a),
         \A l \in AllRows(a) : Through(s, r, l),
         \A l, m \in AllRows(a) : Rivals(a, l, m) => w[Path(a, l)].occurrences > 1,
         NEW l \in AllRows(a)
  PROVE  GoesOut(a, Contested(w), l) <=> IsPromised(a, l)
<1> DEFINE v == Contested(w)
<1>1. /\ DOMAIN v = {p \in DOMAIN w : w[p].occurrences > 1}
      /\ \A p \in DOMAIN v : v[p] = w[p]
 BY DEF Contested, Restrict
<1> HIDE DEF v
<1>2. CASE ~Known(a, l)
 BY <1>2 DEF GoesOut, IsPromised
<1>3. CASE Known(a, l) /\ Name(a, l) \notin a.ambiguous
 <2>1. Path(a, l) \notin DOMAIN v
  <3> SUFFICES ASSUME Path(a, l) \in DOMAIN v PROVE FALSE
   OBVIOUS
  <3>1. PICK m : m \in AllRows(a) /\ Meets(a, m) /\ Path(a, m) = Path(a, l)
   BY <1>1 DEF Best
  <3>2. Name(a, m) = Name(a, l)
   BY <3>1 DEF Path
  <3> QED BY <1>3, <3>1, <3>2 DEF Meets
 <2> QED BY <1>3, <2>1 DEF GoesOut, IsPromised, v
<1>4. CASE Known(a, l) /\ Name(a, l) \in a.ambiguous
 <2> DEFINE best == w[Path(a, l)].row
 <2>1. Meets(a, l) /\ Path(a, l) \in DOMAIN w
  BY <1>4 DEF Meets, Best
 <2>2. /\ best \in AllRows(a) /\ Meets(a, best) /\ Path(a, best) = Path(a, l)
       /\ l = best \/ Outranks(a, best, l)
  BY <2>1 DEF Best
 <2>3. ASSUME NEW m \in AllRows(a), Known(a, m), Path(a, m) = Path(a, l)
       PROVE  Meets(a, m) /\ (m = best \/ Outranks(a, best, m))
  BY <1>4, <2>3 DEF Path, Meets, Best
 <2>4. IsPromised(a, l) <=> l = best
  <3>1. CASE l # best
   BY <2>2, <3>1, <1>4 DEF IsPromised, Meets
  <3>2. CASE l = best
   <4>1. ASSUME NEW m \in AllRows(a), Known(a, m), Path(a, m) = Path(a, l), Outranks(a, m, l)
         PROVE  FALSE
    <5>1. m = best \/ Outranks(a, best, m)
     BY <2>3, <4>1
    <5>2. /\ Precedence[Kind(m)] \in Nat /\ Precedence[Kind(l)] \in Nat
          /\ m[1] \in Nat /\ m[2] \in Nat /\ l[1] \in Nat /\ l[2] \in Nat
     <6>1. Precedence[Kind(m)] \in Nat /\ Precedence[Kind(l)] \in Nat
      BY <4>1, RanksOfKinds
     <6>2. \A x \in AllRows(a) : x[1] \in Nat /\ x[2] \in Nat
      BY DEF AllRows
     <6> QED BY <6>1, <6>2
    <5> QED BY <3>2, <4>1, <5>1, <5>2 DEF Outranks, Before
   <4> QED BY <1>4, <3>2, <4>1 DEF IsPromised
  <3> QED BY <3>1, <3>2
 <2>5. CASE w[Path(a, l)].occurrences > 1
  BY <1>1, <1>4, <2>1, <2>4, <2>5 DEF GoesOut, v
 <2>6. CASE ~(w[Path(a, l)].occurrences > 1)
  BY <1>1, <1>4, <2>1, <2>2, <2>4, <2>6 DEF Rivals, GoesOut, v
 <2> QED BY <2>5, <2>6
<1> QED BY <1>2, <1>3, <1>4

---------------------------------------------------------------------------
(* What was heard and what waits: the invariant of the refinement.        *)

Heard(c) == Len(sent[c]) + IF c = <<"identities", "objects">> THEN lost ELSE 0

\* How many stages are through.
Done == Len(StageReaders) - Len(readers)

\* What waits comes after the first `heard` items of a list, and makes `met` of them.
Fits(list, heard, waiting, met) ==
  /\ heard + Len(waiting) = met
  /\ \A i \in 1 .. Len(waiting) : list[heard + i] = waiting[i]

OnTrack(c, waiting, met) == Fits(lists[c], Heard(c), waiting, met)

CallPage == IF calling THEN page ELSE <<>>

\* Nothing is heard before the stream is open; then the readers to come are those
\* that are left, the channels of the stages before are drained and those of the
\* stages after the one at work are untouched.
PlaceOK ==
  /\ lists = [c \in Channels |-> ListOf(c)] /\ lost \in Nat
  /\ stream # "open" => \A c \in Channels : Heard(c) = 0
  /\ stream = "choosing" => readers = StageReaders
  /\ stream \in {"choosing", "open"} =>
        /\ Len(readers) <= Len(StageReaders)
        /\ \A i \in 1 .. Len(readers) : readers[i] = StageReaders[Done + i]
        /\ \A j \in 1 .. Done : \A k \in KindsOf(StageReaders[j]) :
              Heard(<<StageReaders[j], k>>) = Len(lists[<<StageReaders[j], k>>])
        /\ \A j \in Done + 2 .. Len(StageReaders) : \A k \in KindsOf(StageReaders[j]) :
              Heard(<<StageReaders[j], k>>) = 0

\* The winners are the best met so far, and at last let through what is promised.
ChoiceOK ==
  /\ stream = "choosing" => Best(attributes, winners, source, row)
  /\ stream = "open" /\ "properties" \in request.stages =>
        \A l \in AllRows(attributes) :
            GoesOut(attributes, winners, l) <=> IsPromised(attributes, l)

PromisedRows == {l \in AllLinks(attributes) : IsPromised(attributes, l)}
PromisedMet(s, r) == {l \in PromisedRows : Through(s, r, l)}

LinksOK ==
  AtWork("attributes") => OnTrack(Channel, CallPage, Cardinality(PromisedMet(source, row)))

ObjectsOK ==
  AtWork("identities") =>
      /\ row <= Len(Table("identities"))
      /\ OnTrack(<<"identities", "objects">>, CallPage, row)

\* How many items of a channel come of the rows before the cursor.
MetBy(c) == Cardinality(Upto(RowsOf(c), row))

ChainOK ==
  /\ emitMaterials => materials # <<>> /\ (AtWork("parts") \/ AtWork("surfaces"))
  /\ calling /\ ~AtWork("parts") /\ ~AtWork("surfaces") => materials = <<>>
  /\ \A r \in ToSet(Chain) : AtWork(r) =>
        /\ row <= Len(Table(r))
        /\ OnTrack(<<r, "properties">>, IF emitMaterials THEN <<>> ELSE CallPage,
                   MetBy(<<r, "properties">>))
        /\ r \in {"parts", "surfaces"} =>
              OnTrack(<<r, "materials">>, IF calling \/ emitMaterials THEN materials ELSE <<>>,
                      MetBy(<<r, "materials">>))

PagedReaders == {"relations", "semantic_relations", "instances"}
PagedOK ==
  \A r \in PagedReaders :
      AtWork(r) => row <= Len(Table(r)) /\ Heard(<<r, r>>) = row

\* What the geometry reader still has to answer of its window.
WindowWaits(kind) ==
  CASE kind = "definition_geometry" -> IF decoding /\ EmitsDefinitions THEN page ELSE <<>>
    [] kind = "meshes" -> IF pending = 1 THEN meshes ELSE <<>>
    [] OTHER -> IF pending <= 2 THEN diagnostics ELSE <<>>

WindowTrack ==
  AtWork("geometry") =>
      \A kind \in KindsOf("geometry") :
          OnTrack(<<"geometry", kind>>, WindowWaits(kind), MetBy(<<"geometry", kind>>))

NonPartOK ==
  /\ opened => "nonpart" \notin model.unopenable
  /\ AtWork("nonpart") =>
        /\ Heard(<<"nonpart", "opening">>) = 0
        /\ source <= 3 => row <= NonPartCount(NonPartKinds[source])
        /\ \A k \in 1 .. 3 :
              Heard(<<"nonpart", NonPartKinds[k]>>) =
                  IF k < source THEN NonPartCount(NonPartKinds[k])
                  ELSE IF k = source THEN row ELSE 0

ReadersOnTrack == LinksOK /\ ObjectsOK /\ ChainOK /\ PagedOK /\ WindowTrack /\ NonPartOK
TrackInv == PlaceOK /\ ChoiceOK /\ ReadersOnTrack

\* Nothing waits, one item more waits, all that waited goes out.
LEMMA FitsNone ==
  ASSUME NEW list, NEW heard \in Nat
  PROVE  Fits(list, heard, <<>>, heard)
BY DEF Fits

LEMMA FitsMore ==
  ASSUME NEW list, NEW heard \in Nat, NEW T, NEW w \in Seq(T), NEW m, Fits(list, heard, w, m),
         NEW x, x = list[m + 1]
  PROVE  Fits(list, heard, Append(w, x), m + 1)
<1>1. Len(w) \in Nat /\ heard + Len(w) = m /\ m \in Nat
 BY DEF Fits
<1>2. /\ Len(Append(w, x)) = Len(w) + 1 /\ Append(w, x)[Len(w) + 1] = x
      /\ \A i \in 1 .. Len(w) : Append(w, x)[i] = w[i]
 <2>1. w \in Seq(T \cup {x}) /\ x \in T \cup {x}
  BY <1>1
 <2> QED BY <2>1
<1>3. ASSUME NEW i \in 1 .. Len(w) + 1
      PROVE  list[heard + i] = Append(w, x)[i]
 <2>1. CASE i \in 1 .. Len(w)
  BY <1>2, <2>1 DEF Fits
 <2>2. CASE i = Len(w) + 1
  BY <1>1, <1>2, <2>2
 <2> QED BY <1>1, <2>1, <2>2
<1>4. heard + (Len(w) + 1) = m + 1
 BY <1>1
<1> QED BY <1>2, <1>3, <1>4 DEF Fits

LEMMA FitsSent ==
  ASSUME NEW list, NEW heard \in Nat, NEW T, NEW w \in Seq(T), NEW m, Fits(list, heard, w, m)
  PROVE  Fits(list, heard + Len(w), <<>>, m)
BY DEF Fits

\* What goes out is the next part of the list.
LEMMA FitsNext ==
  ASSUME NEW list, NEW U, list \in Seq(U), NEW heard \in Nat, NEW T, NEW w \in Seq(T), NEW m,
         Fits(list, heard, w, m), w # <<>>, m <= Len(list)
  PROVE  /\ Len(w) \in 1 .. Len(list) - heard
         /\ w = SubSeq(list, heard + 1, heard + Len(w))
<1> DEFINE n == Len(w)
           part == SubSeq(list, heard + 1, heard + n)
<1>1. n \in Nat /\ n # 0 /\ Len(list) \in Nat /\ m = heard + n
 BY EmptySeq DEF Fits
<1>2. n \in 1 .. Len(list) - heard
 BY <1>1
<1>3. \A i \in heard + 1 .. heard + n : list[i] \in U
 BY <1>1
<1>4. heard + 1 \in Int /\ heard + n \in Int
 BY <1>1
<1>5. /\ part \in Seq(U)
      /\ Len(part) = IF heard + 1 <= heard + n THEN (heard + n) - (heard + 1) + 1 ELSE 0
      /\ \A i \in 1 .. (heard + n) - (heard + 1) + 1 : part[i] = list[(heard + 1) + i - 1]
 BY <1>3, <1>4, SubSeqProperties
<1>6. Len(part) = n /\ \A i \in 1 .. n : part[i] = list[heard + i]
 <2>1. (heard + n) - (heard + 1) + 1 = n /\ heard + 1 <= heard + n
  BY <1>1
 <2>2. \A i \in 1 .. n : (heard + 1) + i - 1 = heard + i
  BY <1>1
 <2> HIDE DEF part
 <2> QED BY <1>5, <2>1, <2>2
<1>7. \A i \in 1 .. n : part[i] = w[i]
 BY <1>6 DEF Fits
<1>8. w = part
 <2>1. w = [i \in 1 .. n |-> w[i]]
  OBVIOUS
 <2> HIDE DEF part
 <2>2. part = [i \in 1 .. n |-> part[i]]
  BY <1>5, <1>6
 <2> QED BY <1>7, <2>1, <2>2
<1> QED BY <1>2, <1>8

---------------------------------------------------------------------------
(* The lists of the channels.                                             *)

\* The readers of the property stage are no others.
ChainNames ==
  {"parts", "bolts", "rebars", "welds", "surfaces", "surface_objects", "rebar_sets",
   "end_details", "splitters", "pour_objects", "pour_units", "splices"}

LEMMA ChainIsItsNames == ToSet(Chain) = ChainNames
<1>1. DOMAIN Chain = 1 .. 12
 BY DEF Chain
<1>2. \A i \in 1 .. 12 : Chain[i] \in ChainNames
 BY DEF Chain, ChainNames
<1>3. \A r \in ChainNames : \E i \in 1 .. 12 : Chain[i] = r
 <2>1. /\ Chain[1] = "parts" /\ Chain[2] = "bolts" /\ Chain[3] = "rebars" /\ Chain[4] = "welds"
       /\ Chain[5] = "surfaces" /\ Chain[6] = "surface_objects" /\ Chain[7] = "rebar_sets"
       /\ Chain[8] = "end_details" /\ Chain[9] = "splitters" /\ Chain[10] = "pour_objects"
       /\ Chain[11] = "pour_units" /\ Chain[12] = "splices"
  BY DEF Chain
 <2> HIDE DEF Chain
 <2> QED BY <2>1 DEF ChainNames
<1> HIDE DEF Chain
<1> QED BY <1>1, <1>2, <1>3 DEF ToSet

RowReaders == ChainNames \cup {"geometry"}

\* Every reader but two has a table, a sequence of rows.
LEMMA TablesAreSequences ==
  ASSUME FixedOK, NEW r \in RowReaders \cup PagedReaders \cup {"identities"}
  PROVE  /\ Len(Table(r)) \in Nat /\ Rows(r) = 1 .. Len(Table(r))
         /\ \A i \in 1 .. Len(Table(r)) :
               /\ Table(r)[i].visible \in BOOLEAN /\ Table(r)[i].attribute \in BOOLEAN
               /\ Table(r)[i].text \in BOOLEAN /\ Table(r)[i].geometry \in Shapes
<1> DEFINE rows == [visible : BOOLEAN, attribute : BOOLEAN, text : BOOLEAN, geometry : Shapes]
<1>1. "parts" \in TableNames /\ (r # "geometry" => r \in TableNames)
 BY ChainIsItsNames DEF TableNames, RowReaders, PagedReaders, ChainNames
<1>2. model.tables \in [TableNames -> Seq(rows)]
 BY DEF FixedOK, Models
<1>3. Table(r) \in Seq(rows)
 BY <1>1, <1>2 DEF Table
<1>4. Len(Table(r)) \in Nat /\ \A i \in 1 .. Len(Table(r)) : Table(r)[i] \in rows
 BY <1>3, ItemsOfSequence
<1> QED BY <1>4 DEF Rows

\* The list of a channel whose reader chooses among rows.
LEMMA ListOfRows ==
  ASSUME FixedOK, NEW r \in RowReaders, NEW k
  PROVE  /\ RowsOf(<<r, k>>) \subseteq 1 .. Len(Table(r)) /\ Len(Table(r)) \in Nat
         /\ ListOf(<<r, k>>) = InOrder(RowsOf(<<r, k>>), RowPairs(Len(Table(r))))
         /\ Len(ListOf(<<r, k>>)) = Cardinality(RowsOf(<<r, k>>))
         /\ \E T : ListOf(<<r, k>>) \in Seq(T)
<1>1. Len(Table(r)) \in Nat /\ Rows(r) = 1 .. Len(Table(r))
 BY TablesAreSequences
<1>2. RowsOf(<<r, k>>) \subseteq 1 .. Len(Table(r))
 BY <1>1 DEF RowsOf
<1>3. ListOf(<<r, k>>) = InOrder(RowsOf(<<r, k>>), RowPairs(Len(Table(r))))
 BY <1>1, ChainIsItsNames DEF RowReaders, ChainNames, RowPairs, ListOf
<1>4. Len(Table(r)) \in 0 .. Len(Table(r))
 BY <1>1
<1> QED BY <1>1, <1>2, <1>3, <1>4, CountOfRows

\* The list of a channel that takes every row.
LEMMA ListOfNumbers ==
  ASSUME FixedOK, NEW r \in PagedReaders \cup {"identities"}, NEW k
  PROVE  /\ Len(Table(r)) \in Nat /\ ListOf(<<r, k>>) = [i \in 1 .. Len(Table(r)) |-> i]
         /\ Len(ListOf(<<r, k>>)) = Len(Table(r)) /\ ListOf(<<r, k>>) \in Seq(Nat)
<1>1. Len(Table(r)) \in Nat /\ Rows(r) = 1 .. Len(Table(r))
 BY TablesAreSequences
<1>2. <<r, k>>[1] = r /\ r # "attributes" /\ r \notin ToSet(Chain) \cup {"geometry"}
      /\ r # "nonpart"
 BY ChainIsItsNames DEF PagedReaders, ChainNames
<1>3. ListOf(<<r, k>>) = [i \in 1 .. Len(Table(r)) |-> i]
 BY <1>1, <1>2 DEF ListOf
<1>4. [i \in 1 .. Len(Table(r)) |-> i] \in [1 .. Len(Table(r)) -> Nat]
 BY <1>1
<1>5. [i \in 1 .. Len(Table(r)) |-> i] \in Seq(Nat)
 BY <1>1, <1>4
<1>6. Len([i \in 1 .. Len(Table(r)) |-> i]) = Len(Table(r))
 BY <1>1
<1> QED BY <1>1, <1>3, <1>5, <1>6

LEMMA ListOfNonPart ==
  ASSUME FixedOK, NEW k \in KindsOf("nonpart")
  PROVE  /\ NonPartCount(k) \in Nat
         /\ ListOf(<<"nonpart", k>>) = [i \in 1 .. NonPartCount(k) |-> i]
         /\ Len(ListOf(<<"nonpart", k>>)) = NonPartCount(k)
         /\ ListOf(<<"nonpart", k>>) \in Seq(Nat)
<1>1. NonPartCount(k) \in Nat
 <2>1. k \in {"curves", "meshes", "diagnostics", "opening"}
  BY DEF KindsOf
 <2>2. CASE k = "opening"
  BY <2>2 DEF NonPartCount
 <2>3. CASE k # "opening"
  <3>1. k \in ToSet(NonPartKinds)
   <4>1. /\ NonPartKinds[1] = "curves" /\ NonPartKinds[2] = "meshes"
         /\ NonPartKinds[3] = "diagnostics" /\ DOMAIN NonPartKinds = 1 .. 3
    BY DEF NonPartKinds
   <4> HIDE DEF NonPartKinds
   <4> QED BY <2>1, <2>3, <4>1 DEF ToSet
  <3>2. model.nonpart \in [ToSet(NonPartKinds) -> Nat]
   BY DEF FixedOK, Models
  <3> QED BY <2>3, <3>1, <3>2 DEF NonPartCount
 <2> QED BY <2>2, <2>3
<1>2. "nonpart" \notin ToSet(Chain) \cup {"geometry"}
 BY ChainIsItsNames DEF ChainNames
<1>3. ListOf(<<"nonpart", k>>) = [i \in 1 .. NonPartCount(k) |-> i]
 BY <1>2 DEF ListOf
<1> HIDE DEF NonPartCount
<1>4. [i \in 1 .. NonPartCount(k) |-> i] \in [1 .. NonPartCount(k) -> Nat]
 BY <1>1
<1>5. [i \in 1 .. NonPartCount(k) |-> i] \in Seq(Nat)
 BY <1>1, <1>4
<1>6. Len([i \in 1 .. NonPartCount(k) |-> i]) = NonPartCount(k)
 BY <1>1
<1> QED BY <1>1, <1>3, <1>5, <1>6

\* The rows of all link tables, by table and number.
LinkPairs ==
  {p \in AllLinks(attributes) \X AllLinks(attributes) : Before(p[1], p[2])}

LEMMA LinksByNumber ==
  ASSUME FixedOK
  PROVE  /\ AllLinks(attributes) = AllRows(attributes)
         /\ \A l \in AllRows(attributes) :
               l = <<l[1], l[2]>> /\ l[1] \in 1 .. 3 /\ l[2] \in 1 .. Len(LinkTable(attributes, l[1]))
         /\ \A s \in 1 .. 3 : Len(LinkTable(attributes, s)) \in Nat
BY LinkTables, LinksAreRows DEF AllRows

LEMMA PromisedAreFinite ==
  ASSUME FixedOK
  PROVE  IsFiniteSet(PromisedRows) /\ Orders(LinkPairs, PromisedRows)
<1> DEFINE A(s) == {s} \X (1 .. Len(LinkTable(attributes, s)))
<1>1. ASSUME NEW s \in 1 .. 3
      PROVE  IsFiniteSet(A(s))
 <2>1. Len(LinkTable(attributes, s)) \in Nat
  BY LinkTables
 <2>2. IsFiniteSet({s})
  BY FS_Singleton, Zenon
 <2>3. ASSUME NEW n \in Nat
       PROVE  IsFiniteSet(1 .. n)
  BY FS_Interval
 <2>4. IsFiniteSet(1 .. Len(LinkTable(attributes, s)))
  BY <2>1, <2>3
 <2> QED BY <2>2, <2>4, FS_Product
<1>2. AllLinks(attributes) = (A(1) \cup A(2)) \cup A(3)
 <2>1. \A l : l \in AllLinks(attributes) <=> \E s \in 1 .. 3 : l \in A(s)
  BY DEF AllLinks
 <2>2. \A s \in 1 .. 3 : s = 1 \/ s = 2 \/ s = 3
  OBVIOUS
 <2> HIDE DEF A
 <2> QED BY <2>1, <2>2
<1> HIDE DEF A
<1>3. IsFiniteSet(A(1)) /\ IsFiniteSet(A(2)) /\ IsFiniteSet(A(3))
 BY <1>1
<1>4. IsFiniteSet(AllLinks(attributes))
 BY <1>2, <1>3, FS_Union
<1>5. IsFiniteSet(PromisedRows)
 BY <1>4, FS_Subset DEF PromisedRows
<1>6. \A i, j \in PromisedRows : <<i, j>> \in LinkPairs <=> Before(i, j)
 BY DEF PromisedRows, LinkPairs
<1>7. \A i \in PromisedRows : i = <<i[1], i[2]>> /\ i[1] \in Nat /\ i[2] \in Nat
 BY LinksByNumber DEF PromisedRows
<1>8. \A i, j \in PromisedRows : i[1] = j[1] /\ i[2] = j[2] => i = j
 BY <1>7
<1> SUFFICES /\ \A i \in PromisedRows : ~Before(i, i)
             /\ \A i, j \in PromisedRows : i = j \/ Before(i, j) \/ Before(j, i)
             /\ \A i, j, k \in PromisedRows : Before(i, j) /\ Before(j, k) => Before(i, k)
 BY <1>5, <1>6 DEF Orders
<1>9. \A i \in PromisedRows : i[1] \in Nat /\ i[2] \in Nat
 BY <1>7
<1> HIDE DEF PromisedRows
<1> QED BY <1>8, <1>9 DEF Before

LEMMA ListOfLinks ==
  ASSUME FixedOK
  PROVE  /\ ListOf(Channel) = InOrder(PromisedRows, LinkPairs)
         /\ Len(ListOf(Channel)) = Cardinality(PromisedRows)
         /\ \E T : ListOf(Channel) \in Seq(T)
<1>1. ListOf(Channel) = InOrder(PromisedRows, LinkPairs)
 BY AttributesApart DEF Channel, ListOf, Promised, PromisedRows, LinkPairs
<1> QED BY <1>1, PromisedAreFinite, LengthInOrder

\* How many of the promised rows are met, from the first row to the last.
LEMMA CountOfLinks ==
  ASSUME FixedOK, NEW s, NEW r
  PROVE  /\ Cardinality(PromisedMet(s, r)) \in Nat
         /\ Cardinality(PromisedMet(s, r)) <= Cardinality(PromisedRows)
         /\ Cardinality(PromisedRows) \in Nat
         /\ Cardinality(PromisedMet(1, 0)) = 0
<1>1. PromisedMet(s, r) \in SUBSET PromisedRows
 BY DEF PromisedMet
<1>2. /\ IsFiniteSet(PromisedMet(s, r))
      /\ Cardinality(PromisedMet(s, r)) <= Cardinality(PromisedRows)
 <2> HIDE DEF PromisedMet, PromisedRows
 <2> QED BY <1>1, PromisedAreFinite, FS_Subset
<1>3. Cardinality(PromisedMet(s, r)) \in Nat /\ Cardinality(PromisedRows) \in Nat
 BY <1>2, PromisedAreFinite, FS_CardinalityType
<1>4. PromisedMet(1, 0) = {}
 BY LinksByNumber DEF PromisedRows, Through, PromisedMet
<1> QED BY <1>2, <1>3, <1>4, FS_EmptySet

LEMMA NextLinkTable ==
  ASSUME FixedOK, NEW s \in 1 .. 3, NEW r, r = Len(LinkTable(attributes, s))
  PROVE  /\ \A l \in AllRows(attributes) : Through(s + 1, 0, l) <=> Through(s, r, l)
         /\ PromisedMet(s + 1, 0) = PromisedMet(s, r)
<1>1. r \in Nat
 BY LinkTables
<1>2. \A l \in AllRows(attributes) : /\ l[1] \in Nat /\ l[2] \in Nat \ {0}
                                     /\ l[1] = s => l[2] <= r
 BY LinksByNumber
<1>3. \A l \in AllRows(attributes) : Through(s + 1, 0, l) <=> Through(s, r, l)
 BY <1>1, <1>2 DEF Through
<1>4. PromisedRows \subseteq AllRows(attributes)
 BY LinksByNumber DEF PromisedRows
<1> QED BY <1>3, <1>4 DEF PromisedMet

LEMMA LastLinkTable ==
  ASSUME FixedOK, NEW s \in 1 .. 4, s > 3, NEW r
  PROVE  /\ \A l \in AllRows(attributes) : Through(s, r, l)
         /\ PromisedMet(s, r) = PromisedRows
BY LinksByNumber DEF Through, PromisedRows, PromisedMet

LEMMA NextLink ==
  ASSUME FixedOK, NEW s \in 1 .. 3, NEW r \in Nat, r < Len(LinkTable(attributes, s)),
         NEW l, l = <<s, r + 1>>
  PROVE  /\ l \in AllRows(attributes)
         /\ IF IsPromised(attributes, l)
            THEN /\ ListOf(Channel)[Cardinality(PromisedMet(s, r)) + 1] = l
                 /\ Cardinality(PromisedMet(s, r + 1)) = Cardinality(PromisedMet(s, r)) + 1
            ELSE Cardinality(PromisedMet(s, r + 1)) = Cardinality(PromisedMet(s, r))
<1> DEFINE M == PromisedMet(s, r)
<1>1. Len(LinkTable(attributes, s)) \in Nat
 BY LinkTables
<1>2. l \in AllRows(attributes) /\ AllLinks(attributes) = AllRows(attributes)
 BY <1>1, LinksByNumber DEF AllRows
<1>3. \A m \in PromisedRows : m = <<m[1], m[2]>> /\ m[1] \in Nat /\ m[2] \in Nat
 BY LinksByNumber DEF PromisedRows
<1>4. \A m \in PromisedRows : Through(s, r + 1, m) <=> Through(s, r, m) \/ m = l
 BY <1>3 DEF Through
<1>5. ~Through(s, r, l) /\ l[1] = s /\ l[2] = r + 1
 BY DEF Through
<1>6. CASE IsPromised(attributes, l)
 <2>1. l \in PromisedRows
  BY <1>2, <1>6 DEF PromisedRows
 <2>2. Behind(LinkPairs, PromisedRows, l) = M
  <3>1. \A m \in PromisedRows : <<m, l>> \in LinkPairs <=> Before(m, l)
   BY <2>1 DEF LinkPairs, PromisedRows
  <3>2. \A m \in PromisedRows : Before(m, l) <=> Through(s, r, m)
   BY <1>3, <1>5 DEF Before, Through
  <3> HIDE DEF PromisedRows
  <3> QED BY <3>1, <3>2 DEF Behind, PromisedMet
 <2>3. ListOf(Channel)[Cardinality(M) + 1] = l
  BY <2>1, <2>2, ListOfLinks, PromisedAreFinite, NthInOrder
 <2>4. PromisedMet(s, r + 1) = M \cup {l} /\ l \notin M
  BY <1>4, <1>5, <2>1 DEF PromisedMet
 <2>5. IsFiniteSet(M)
  BY PromisedAreFinite, FS_Subset DEF PromisedMet
 <2> HIDE DEF M
 <2>6. Cardinality(M \cup {l}) = Cardinality(M) + 1
  BY <2>4, <2>5, FS_AddElement
 <2> QED BY <1>2, <1>6, <2>3, <2>4, <2>6 DEF M
<1>7. CASE ~IsPromised(attributes, l)
 BY <1>2, <1>4, <1>7 DEF PromisedRows, PromisedMet
<1> QED BY <1>6, <1>7

---------------------------------------------------------------------------
(* What depends on the model and the request alone, and the answers of    *)
(* the abstract stream.                                                   *)

\* What depends on the model and the request alone.
LEMMA ListsStay ==
  ASSUME UNCHANGED <<model, request, attributes>>
  PROVE  /\ \A r : Table(r)' = Table(r) /\ Rows(r)' = Rows(r) /\ (Wanted(r)' <=> Wanted(r))
         /\ \A c : RowsOf(c)' = RowsOf(c) /\ ListOf(c)' = ListOf(c)
         /\ \A k : NonPartCount(k)' = NonPartCount(k)
         /\ StageReaders' = StageReaders /\ Channels' = Channels
         /\ (EmitsDefinitions' <=> EmitsDefinitions) /\ (EmitsMeshes' <=> EmitsMeshes)
         /\ \A s, r : PromisedMet(s, r)' = PromisedMet(s, r)
         /\ PromisedRows' = PromisedRows
<1>1. \A r : Table(r)' = Table(r) /\ Rows(r)' = Rows(r)
 BY DEF Table, Rows
<1>2. (EmitsDefinitions' <=> EmitsDefinitions) /\ (EmitsMeshes' <=> EmitsMeshes)
 BY DEF EmitsDefinitions, EmitsMeshes
<1>3. \A r : Wanted(r)' <=> Wanted(r)
 BY <1>2 DEF Wanted
<1>4. \A k : NonPartCount(k)' = NonPartCount(k)
 BY DEF NonPartCount
<1>5. \A k, i : GeometryComes(k, i)' <=> GeometryComes(k, i)
 <2>1. \A i : (Frameless(i)' <=> Frameless(i)) /\ (IsFramed(i)' <=> IsFramed(i))
  BY <1>1 DEF Frameless, IsFramed, Selected
 <2> QED BY <1>1, <1>2, <2>1 DEF GeometryComes
<1>6. \A c : RowsOf(c)' = RowsOf(c)
 BY <1>1, <1>5 DEF RowsOf
<1>7. \A c : ListOf(c)' = ListOf(c)
 BY <1>1, <1>4, <1>6 DEF ListOf
<1>8. StageReaders' = StageReaders
 <2>1. \A r : Pushed(r)' = Pushed(r)
  BY <1>3 DEF Pushed
 <2> QED BY <2>1 DEF StageReaders
<1>9. PromisedRows' = PromisedRows
 BY DEF PromisedRows
<1>10. \A s, r : PromisedMet(s, r)' = PromisedMet(s, r)
 BY <1>9 DEF PromisedMet
<1> QED BY <1>1, <1>2, <1>3, <1>4, <1>6, <1>7, <1>8, <1>9, <1>10, ChannelsStay

\* A channel is a reader that is wanted, and a kind of its batches.
LEMMA ChannelsOfReaders ==
  /\ \A r \in Readers : Wanted(r) => \A k \in KindsOf(r) : <<r, k>> \in Channels
  /\ \A c \in Channels :
        \E r \in Readers : Wanted(r) /\ \E k \in KindsOf(r) : c = <<r, k>>
<1>1. \A r \in ToSet(AllReaders) : r \in Readers
 <2>1. DOMAIN AllReaders = 1 .. 19
  BY DEF AllReaders, Chain
 <2>2. \A i \in 1 .. 19 : AllReaders[i] \in Readers
  <3> DEFINE R(i) == AllReaders[i] \in Readers
  <3>1. R(1) /\ R(2) /\ R(3) /\ R(4) /\ R(5) /\ R(6) /\ R(7) /\ R(8) /\ R(9) /\ R(10)
   BY DEF AllReaders, Chain, Readers
  <3>2. R(11) /\ R(12) /\ R(13) /\ R(14) /\ R(15) /\ R(16) /\ R(17) /\ R(18) /\ R(19)
   BY DEF AllReaders, Chain, Readers
  <3> HIDE DEF R
  <3>3. \A i \in 1 .. 19 : R(i)
   BY <3>1, <3>2
  <3> QED BY <3>3 DEF R
 <2> HIDE DEF AllReaders
 <2> QED BY <2>1, <2>2 DEF ToSet
<1>2. ASSUME NEW r \in Readers, Wanted(r), NEW k \in KindsOf(r)
      PROVE  <<r, k>> \in Channels
 BY <1>2, AllAreReaders DEF Channels
<1>3. ASSUME NEW c \in Channels
      PROVE  \E r \in Readers : Wanted(r) /\ \E k \in KindsOf(r) : c = <<r, k>>
 <2>1. PICK r \in ToSet(AllReaders) : Wanted(r) /\ c \in {r} \X KindsOf(r)
  BY DEF Channels
 <2> QED BY <1>1, <2>1
<1> QED BY <1>2, <1>3

\* The list of every channel is a sequence, and so is what went out on it.
LEMMA ListsAreSequences ==
  ASSUME FixedOK, lists = [c \in Channels |-> ListOf(c)], NEW c \in Channels
  PROVE  lists[c] = ListOf(c) /\ Len(lists[c]) \in Nat /\ \E T : lists[c] \in Seq(T)
<1>1. lists[c] = ListOf(c)
 OBVIOUS
<1>2. PICK r \in Readers : Wanted(r) /\ \E k \in KindsOf(r) : c = <<r, k>>
 BY ChannelsOfReaders
<1>3. PICK k \in KindsOf(r) : c = <<r, k>>
 BY <1>2
<1>4. \E T : ListOf(c) \in Seq(T)
 <2>1. CASE r = "attributes"
  BY <1>3, <2>1, ListOfLinks DEF KindsOf, Channel
 <2>2. CASE r \in RowReaders
  BY <1>3, <2>2, ListOfRows
 <2>3. CASE r \in PagedReaders \cup {"identities"}
  BY <1>3, <2>3, ListOfNumbers
 <2>4. CASE r = "nonpart"
  BY <1>3, <2>4, ListOfNonPart
 <2> QED BY <2>1, <2>2, <2>3, <2>4 DEF Readers, RowReaders, PagedReaders, ChainNames
<1>5. PICK T : ListOf(c) \in Seq(T)
 BY <1>4
<1>6. Len(ListOf(c)) \in Nat
 BY <1>5, ItemsOfSequence
<1> QED BY <1>1, <1>4, <1>6

LEMMA SentAreSequences ==
  ASSUME StreamInv, NEW c \in Channels
  PROVE  c \in DOMAIN sent /\ \E T : sent[c] \in Seq(T)
<1>1. DOMAIN sent = Channels /\ (c[1] # "attributes" => sent[c] \in Seq(Nat)) /\ SentOK
 BY DEF StreamInv, GeometryInv, ItemsOK, WinnersInv
<1>2. CASE c[1] = "attributes"
 <2>1. PICK r \in Readers : Wanted(r) /\ \E k \in KindsOf(r) : c = <<r, k>>
  BY ChannelsOfReaders
 <2>2. PICK k \in KindsOf(r) : c = <<r, k>>
  BY <2>1
 <2>3. r = "attributes" /\ k = "properties"
  BY <1>2, <2>2 DEF KindsOf
 <2>4. "properties" \in request.stages
  BY <2>1, <2>3, AttributesApart DEF Wanted
 <2>5. c = Channel
  BY <2>2, <2>3 DEF Channel
 <2>6. sent[c] = <<>> \/ sent[c] \in Seq(OutRows(attributes, winners))
  BY <1>1, <2>4, <2>5 DEF SentOK
 <2> QED BY <1>1, <2>6, NoneIsSequence
<1> QED BY <1>1, <1>2

LEMMA HeardIsNumber ==
  ASSUME StreamInv, lost \in Nat, NEW c \in Channels
  PROVE  Heard(c) \in Nat /\ Len(sent[c]) \in Nat
<1>1. PICK T : sent[c] \in Seq(T)
 BY SentAreSequences
<1>2. Len(sent[c]) \in Nat
 BY <1>1, ItemsOfSequence
<1>3. PICK more \in Nat : more = IF c = <<"identities", "objects">> THEN lost ELSE 0
 OBVIOUS
<1>4. Heard(c) = Len(sent[c]) + more
 BY <1>3 DEF Heard
<1> QED BY <1>2, <1>4

LEMMA JoinedLength ==
  ASSUME NEW S, NEW T, NEW s \in Seq(S), NEW t \in Seq(T)
  PROVE  Len(s \o t) = Len(s) + Len(t)
<1>1. ASSUME NEW U, NEW V, NEW u \in Seq(U)
      PROVE  u \in Seq(U \cup V)
 OBVIOUS
<1>2. s \in Seq(S \cup T) /\ t \in Seq(T \cup S) /\ T \cup S = S \cup T
 BY <1>1
<1> QED BY <1>2

\* The reader at work belongs to the first stage that is not through.
LEMMA StageAtWork ==
  ASSUME StreamInv, PlaceOK, stream = "open", readers # <<>>, NEW r, r = Head(readers)
  PROVE  /\ Done \in Nat /\ Done + 1 \in 1 .. Len(StageReaders) /\ StageReaders[Done + 1] = r
         /\ r \in Readers /\ Wanted(r) /\ \A k \in KindsOf(r) : <<r, k>> \in Channels
         /\ \A j \in 1 .. Len(StageReaders) : j # Done + 1 => StageReaders[j] # r
<1>1. readers \in Seq(Readers)
 BY DEF StreamInv, GeometryInv, CallsOK
<1>2. Len(readers) \in Nat \ {0} /\ r = readers[1]
 BY <1>1, EmptySeq
<1>3. Len(StageReaders) \in Nat /\ Len(readers) <= Len(StageReaders)
 BY StagesApart DEF PlaceOK
<1>4. Done \in Nat /\ Done + 1 \in 1 .. Len(StageReaders)
 BY <1>2, <1>3 DEF Done
<1>5. StageReaders[Done + 1] = r
 BY <1>2 DEF PlaceOK
<1> HIDE DEF Done, StageReaders
<1>6. r \in Readers /\ Wanted(r)
 BY <1>4, <1>5, StagesApart
<1>7. \A j \in 1 .. Len(StageReaders) : j # Done + 1 => StageReaders[j] # r
 BY <1>4, <1>5, StagesApart
<1> QED BY <1>4, <1>5, <1>6, <1>7, ChannelsOfReaders

\* The abstract stream has its stages and lists from the start.
LEMMA StagesStay ==
  ASSUME UNCHANGED fixedVars
  PROVE  UNCHANGED <<lists, Stages, Faulty, request.size>>
<1>1. UNCHANGED <<model, request, attributes, lists>>
 BY DEF fixedVars
<1>2. StageReaders' = StageReaders /\ \A r : Table(r)' = Table(r) /\ Rows(r)' = Rows(r)
 BY <1>1, ListsStay
<1>3. Stages' = Stages
 BY <1>2 DEF Stages
<1>4. Faulty' = Faulty
 BY <1>1, <1>2 DEF Faulty
<1> QED BY <1>1, <1>3, <1>4

\* The stages before the first that is not through are drained.
LEMMA StagesBefore ==
  ASSUME StreamInv, PlaceOK, stream = "open"
  PROVE  Stream!Reached(Done + 1)
<1>1. readers \in Seq(Readers)
 BY DEF StreamInv, GeometryInv, CallsOK
<1>2. Len(readers) \in Nat /\ Len(StageReaders) \in Nat /\ Done \in Int /\ Done <= Len(StageReaders)
 BY <1>1, StagesApart DEF Done
<1>3. DOMAIN Stages = 1 .. Len(StageReaders)
 BY StagesApart DEF Stages
<1>4. ASSUME NEW j \in 1 .. (Done + 1) - 1, NEW c \in Stages[j]
      PROVE  c \in DOMAIN lists /\ Heard(c) = Len(lists[c])
 <2>1. j \in 1 .. Done /\ j \in 1 .. Len(StageReaders)
  BY <1>2, <1>4
 <2>2. Stages[j] = {StageReaders[j]} \X KindsOf(StageReaders[j])
  BY <1>3, <2>1, StagesApart DEF Stages
 <2>3. PICK k \in KindsOf(StageReaders[j]) : c = <<StageReaders[j], k>>
  BY <1>4, <2>2
 <2>4. c \in Channels
  BY <2>1, <2>3, StagesApart, ChannelsOfReaders
 <2>5. DOMAIN lists = Channels
  BY DEF PlaceOK
 <2> QED BY <2>1, <2>3, <2>4, <2>5 DEF PlaceOK
<1> HIDE DEF Done, Stages
<1> QED BY <1>4 DEF Stream!Reached, Stream!Drained, Heard

LEMMA DeliverIsStep ==
  ASSUME StreamInv, PlaceOK, stream = "open", readers # <<>>, UNCHANGED fixedVars,
         NEW r, r = Head(readers), NEW kind \in KindsOf(r), NEW c, c = <<r, kind>>,
         NEW n \in 1 .. Len(lists[c]) - Heard(c),
         answer' = Batch(c[2], SubSeq(lists[c], Heard(c) + 1, Heard(c) + n)),
         Heard(c)' = Heard(c) + n, \A d \in Channels : d # c => Heard(d)' = Heard(d)
  PROVE  Stream!Next
<1> DEFINE heard == [d \in DOMAIN lists |-> Len(sent[d]) + IF d = <<"identities", "objects">> THEN lost ELSE 0]
<1>1. DOMAIN lists = Channels /\ c \in Channels /\ lists' = lists
 BY StageAtWork DEF PlaceOK, fixedVars
<1>2. Done + 1 \in DOMAIN Stages /\ c \in Stages[Done + 1]
 BY StageAtWork, StagesApart DEF Stages
<1>3. heard = [d \in Channels |-> Heard(d)] /\ heard' = [d \in Channels |-> Heard(d)']
 BY <1>1 DEF Heard
<1>4. heard' = [heard EXCEPT ![c] = @ + n] /\ heard[c] = Heard(c)
 <2>1. /\ heard = [d \in Channels |-> heard[d]] /\ \A d \in Channels : heard[d] = Heard(d)
       /\ heard' = [d \in Channels |-> heard'[d]] /\ \A d \in Channels : heard'[d] = Heard(d)'
  BY <1>3
 <2> HIDE DEF heard
 <2>2. \A d \in Channels : heard'[d] = IF d = c THEN heard[c] + n ELSE heard[d]
  BY <1>1, <2>1
 <2>3. [heard EXCEPT ![c] = @ + n]
          = [d \in Channels |-> IF d = c THEN heard[c] + n ELSE heard[d]]
  BY <2>1
 <2> HIDE DEF Heard, Channels
 <2>4. heard' = [d \in Channels |-> IF d = c THEN heard[c] + n ELSE heard[d]]
  BY <2>1, <2>2
 <2> QED BY <1>1, <2>1, <2>3, <2>4
<1>5. answer' = Stream!Batch(c[2], SubSeq(lists[c], heard[c] + 1, heard[c] + n))
 BY <1>4 DEF Stream!Batch, Batch
<1>6. Stream!Reached(Done + 1)
 BY StagesBefore
<1>7. n \in 1 .. Len(lists[c]) - heard[c]
 BY <1>4
<1> HIDE DEF heard, Stages, Done
<1>8. Stream!Deliver
 BY <1>2, <1>4, <1>5, <1>6, <1>7, StagesStay, ZenonT(60) DEF Stream!Deliver, heard
<1> QED BY <1>8 DEF Stream!Next

LEMMA FailIsStep ==
  ASSUME StreamInv, PlaceOK, stream = "open", readers # <<>>, UNCHANGED fixedVars,
         NEW r, r = Head(readers), NEW kind \in KindsOf(r), NEW c, c = <<r, kind>>, c \in Faulty,
         NEW n \in 0 .. request.size, Heard(c) + n <= Len(lists[c]), answer' = Failure,
         Heard(c)' = Heard(c) + n, \A d \in Channels : d # c => Heard(d)' = Heard(d)
  PROVE  Stream!Next
<1> DEFINE heard == [d \in DOMAIN lists |-> Len(sent[d]) + IF d = <<"identities", "objects">> THEN lost ELSE 0]
<1>1. DOMAIN lists = Channels /\ c \in Channels /\ lists' = lists
 BY StageAtWork DEF PlaceOK, fixedVars
<1>2. Done + 1 \in DOMAIN Stages /\ c \in Stages[Done + 1] \cap Faulty
 BY StageAtWork, StagesApart DEF Stages
<1>3. heard = [d \in Channels |-> Heard(d)] /\ heard' = [d \in Channels |-> Heard(d)']
 BY <1>1 DEF Heard
<1>4. heard' = [heard EXCEPT ![c] = @ + n] /\ heard[c] = Heard(c)
 <2>1. /\ heard = [d \in Channels |-> heard[d]] /\ \A d \in Channels : heard[d] = Heard(d)
       /\ heard' = [d \in Channels |-> heard'[d]] /\ \A d \in Channels : heard'[d] = Heard(d)'
  BY <1>3
 <2> HIDE DEF heard
 <2>2. \A d \in Channels : heard'[d] = IF d = c THEN heard[c] + n ELSE heard[d]
  BY <1>1, <2>1
 <2>3. [heard EXCEPT ![c] = @ + n]
          = [d \in Channels |-> IF d = c THEN heard[c] + n ELSE heard[d]]
  BY <2>1
 <2> HIDE DEF Heard, Channels
 <2>4. heard' = [d \in Channels |-> IF d = c THEN heard[c] + n ELSE heard[d]]
  BY <2>1, <2>2
 <2> QED BY <1>1, <2>1, <2>3, <2>4
<1>5. answer' = Stream!Failure
 BY DEF Stream!Failure, Failure, Stream!Batch, Batch
<1>6. Stream!Reached(Done + 1)
 BY StagesBefore
<1>7. heard[c] + n <= Len(lists[c])
 BY <1>4
<1> HIDE DEF heard, Stages, Done, Faulty
<1>8. Stream!Fail
 BY <1>2, <1>4, <1>5, <1>6, <1>7, StagesStay DEF Stream!Fail, heard
<1> QED BY <1>8 DEF Stream!Next

\* Without an answer the abstract stream stands still.
LEMMA SilenceIsStutter ==
  ASSUME PlaceOK, UNCHANGED <<lists, model, request, attributes, answer>>,
         \A d \in Channels : Heard(d)' = Heard(d)
  PROVE  UNCHANGED Stream!streamVars
<1> DEFINE heard == [d \in DOMAIN lists |-> Len(sent[d]) + IF d = <<"identities", "objects">> THEN lost ELSE 0]
<1>1. DOMAIN lists = Channels /\ lists' = lists
 BY DEF PlaceOK
<1>2. heard = [d \in Channels |-> Heard(d)] /\ heard' = [d \in Channels |-> Heard(d)']
 BY <1>1 DEF Heard
<1>3. heard' = heard
 BY <1>2
<1>4. StageReaders' = StageReaders /\ \A r : Table(r)' = Table(r) /\ Rows(r)' = Rows(r)
 BY ListsStay
<1>5. Stages' = Stages
 BY <1>4 DEF Stages
<1>6. Faulty' = Faulty
 BY <1>1, <1>4 DEF Faulty
<1>7. UNCHANGED <<lists, Stages, Faulty, request.size>>
 BY <1>5, <1>6
<1> HIDE DEF heard, Stages, Faulty
<1> QED BY <1>3, <1>7 DEF Stream!streamVars, heard

\* While one reader is at work, only its channels go on.
LEMMA PlaceGoesOn ==
  ASSUME StreamInv, PlaceOK, stream = "open", readers # <<>>, UNCHANGED fixedVars,
         UNCHANGED readers, lost' \in Nat,
         \A d \in Channels : d[1] # Head(readers) => Heard(d)' = Heard(d)
  PROVE  PlaceOK'
<1>1. /\ UNCHANGED <<model, request, attributes, lists, stream, readers>>
      /\ StageReaders' = StageReaders /\ Channels' = Channels /\ \A c : ListOf(c)' = ListOf(c)
 BY ListsStay DEF fixedVars
<1>2. Done' = Done
 BY <1>1 DEF Done
<1>3. lists' = [c \in Channels' |-> ListOf(c)']
 BY <1>1 DEF PlaceOK
<1>4. ASSUME NEW j \in 1 .. Len(StageReaders), j # Done + 1, NEW k \in KindsOf(StageReaders[j]),
             NEW d, d = <<StageReaders[j], k>>
      PROVE  Heard(d)' = Heard(d)
 BY <1>4, StagesApart, ChannelsOfReaders, StageAtWork
<1>5. Done \in Nat /\ Done + 1 \in 1 .. Len(StageReaders) /\ Len(StageReaders) \in Nat
 BY StageAtWork, StagesApart
<1>6. \A r : KindsOf(r)' = KindsOf(r)
 BY DEF KindsOf
<1>7. ASSUME NEW j \in 1 .. Done, NEW k \in KindsOf(StageReaders[j]),
             NEW d, d = <<StageReaders[j], k>>
      PROVE  Heard(d)' = Len(lists[d])
 <2>1. j \in 1 .. Len(StageReaders) /\ j # Done + 1
  BY <1>5
 <2>2. Heard(d) = Len(lists[d])
  BY <1>7 DEF PlaceOK
 <2> QED BY <1>4, <1>7, <2>1, <2>2
<1>8. ASSUME NEW j \in Done + 2 .. Len(StageReaders), NEW k \in KindsOf(StageReaders[j]),
             NEW d, d = <<StageReaders[j], k>>
      PROVE  Heard(d)' = 0
 BY <1>4, <1>5, <1>8 DEF PlaceOK
<1>9. \A i \in 1 .. Len(readers) : readers[i] = StageReaders[Done + i]
 BY DEF PlaceOK
<1>10. Len(readers) <= Len(StageReaders)
 BY DEF PlaceOK
<1> HIDE DEF Done, StageReaders, Channels, Heard, KindsOf
<1>11. ASSUME NEW j \in 1 .. Done', NEW k \in KindsOf(StageReaders[j])'
       PROVE  Heard(<<StageReaders[j], k>>)' = Len(lists[<<StageReaders[j], k>>])'
 <2>1. j \in 1 .. Done /\ k \in KindsOf(StageReaders[j]) /\ StageReaders[j]' = StageReaders[j]
  BY <1>1, <1>2, <1>6
 <2>2. PICK d : d = <<StageReaders[j], k>>
  OBVIOUS
 <2>3. <<StageReaders[j], k>>' = d /\ Heard(d)' = Len(lists'[d])
  BY <1>1, <1>7, <2>1, <2>2
 <2> QED BY <2>3
<1>12. ASSUME NEW j \in (Done + 2 .. Len(StageReaders))', NEW k \in KindsOf(StageReaders[j])'
       PROVE  Heard(<<StageReaders[j], k>>)' = 0
 <2>1. /\ j \in Done + 2 .. Len(StageReaders) /\ k \in KindsOf(StageReaders[j])
       /\ StageReaders[j]' = StageReaders[j]
  BY <1>1, <1>2, <1>6
 <2>2. PICK d : d = <<StageReaders[j], k>>
  OBVIOUS
 <2>3. <<StageReaders[j], k>>' = d /\ Heard(d)' = 0
  BY <1>1, <1>8, <2>1, <2>2
 <2> QED BY <2>3
<1> QED BY <1>1, <1>2, <1>3, <1>9, <1>10, <1>11, <1>12 DEF PlaceOK

\* An answer is heard on its channel only.
LEMMA HeardAfter ==
  ASSUME StreamInv, PlaceOK, NEW c \in Channels, NEW T, NEW items \in Seq(T), Answers(c, items)
  PROVE  /\ Heard(c)' = Heard(c) + Len(items)
         /\ \A d \in Channels : d # c => Heard(d)' = Heard(d)
<1>1. sent' = [sent EXCEPT ![c] = @ \o items] /\ lost' = lost /\ c \in DOMAIN sent
 BY SentAreSequences DEF Answers
<1>2. sent'[c] = sent[c] \o items /\ \A d : d # c => sent'[d] = sent[d]
 BY <1>1 DEF StreamInv, GeometryInv, ItemsOK
<1>3. Len(sent[c] \o items) = Len(sent[c]) + Len(items)
 <2>1. PICK U : sent[c] \in Seq(U)
  BY SentAreSequences
 <2> QED BY <2>1, JoinedLength
<1>4. \A d : d # c => Heard(d)' = Heard(d)
 BY <1>1, <1>2 DEF Heard
<1>5. Heard(c)' = Heard(c) + Len(items)
 <2>1. PICK more \in Nat : more = IF c = <<"identities", "objects">> THEN lost ELSE 0
  BY DEF PlaceOK
 <2>2. Heard(c) = Len(sent[c]) + more /\ Heard(c)' = Len(sent'[c]) + more
  BY <1>1, <2>1 DEF Heard
 <2>3. Len(sent[c]) \in Nat /\ Len(items) \in Nat
  BY HeardIsNumber, ItemsOfSequence DEF PlaceOK
 <2> QED BY <1>2, <1>3, <2>2, <2>3
<1> QED BY <1>4, <1>5

\* An answer with the items that come next is a step of the abstract stream.
LEMMA Delivers ==
  ASSUME StreamInv, PlaceOK, stream = "open", readers # <<>>, UNCHANGED fixedVars,
         UNCHANGED readers, NEW r, r = Head(readers), NEW kind \in KindsOf(r),
         NEW c, c = <<r, kind>>, NEW T, NEW items \in Seq(T), items # <<>>, NEW met,
         Fits(lists[c], Heard(c), items, met), met <= Len(lists[c]), Answers(c, items)
  PROVE  /\ Stream!Next /\ PlaceOK'
         /\ Fits(lists[c], Heard(c)', <<>>, met) /\ Heard(c)' = met
         /\ \A d \in Channels : d # c => Heard(d)' = Heard(d)
         /\ ~calling' /\ lost' = lost
<1>1. c \in Channels /\ c[1] = r /\ c[2] = kind
 BY StageAtWork
<1>2. Heard(c)' = Heard(c) + Len(items) /\ \A d \in Channels : d # c => Heard(d)' = Heard(d)
 BY <1>1, HeardAfter
<1>3. Heard(c) \in Nat
 BY <1>1, HeardIsNumber DEF PlaceOK
<1>4. PICK U : lists[c] \in Seq(U)
 <2>1. FixedOK
  BY DEF StreamInv, WinnersInv
 <2> QED BY <1>1, <2>1, ListsAreSequences DEF PlaceOK
<1>5. Len(items) \in 1 .. Len(lists[c]) - Heard(c)
      /\ items = SubSeq(lists[c], Heard(c) + 1, Heard(c) + Len(items))
 BY <1>3, <1>4, FitsNext, SMTT(40)
<1>6. answer' = Batch(c[2], items) /\ ~calling' /\ lost' = lost
 BY DEF Answers
<1>7. Stream!Next
 <2>1. PICK n \in 1 .. Len(lists[c]) - Heard(c) : n = Len(items)
  BY <1>5
 <2>2. answer' = Batch(c[2], SubSeq(lists[c], Heard(c) + 1, Heard(c) + n))
  BY <1>5, <1>6, <2>1
 <2> QED BY <1>2, <2>1, <2>2, DeliverIsStep
<1>8. PlaceOK'
 BY <1>1, <1>2, <1>6, PlaceGoesOn DEF PlaceOK
<1>9. Fits(lists[c], Heard(c)', <<>>, met)
 BY <1>2, <1>3, FitsSent
<1>10. Heard(c)' = met
 BY <1>2 DEF Fits
<1> QED BY <1>2, <1>6, <1>7, <1>8, <1>9, <1>10

\* Where nothing is answered, what was heard stays.
LEMMA Silence ==
  ASSUME StreamInv, TrackInv, stream = "open", readers # <<>>, UNCHANGED fixedVars,
         UNCHANGED readers, UNCHANGED <<sent, lost, answer>>
  PROVE  /\ PlaceOK' /\ UNCHANGED Stream!streamVars
         /\ \A d : Heard(d)' = Heard(d)
<1>1. \A d : Heard(d)' = Heard(d)
 BY DEF Heard
<1>2. PlaceOK /\ lost' \in Nat
 BY DEF TrackInv, PlaceOK
<1>3. PlaceOK'
 BY <1>1, <1>2, PlaceGoesOn
<1>4. UNCHANGED Stream!streamVars
 BY <1>1, <1>2, SilenceIsStutter DEF fixedVars
<1> QED BY <1>1, <1>3, <1>4

\* Once the stream is open, the winners are not written.
LEMMA ChoiceStays ==
  ASSUME ChoiceOK, stream = "open", UNCHANGED fixedVars
  PROVE  ChoiceOK'
 BY DEF ChoiceOK, fixedVars

\* The readers that are not at work have nothing to keep.
LEMMA OthersIdle ==
  ASSUME ReadersOnTrack, stream = "open", readers # <<>>, UNCHANGED fixedVars,
         UNCHANGED readers, calling' => calling
  PROVE  /\ Head(readers) # "attributes" => LinksOK'
         /\ Head(readers) # "identities" => ObjectsOK'
         /\ Head(readers) \notin ChainNames /\ UNCHANGED <<materials, emitMaterials>> => ChainOK'
         /\ Head(readers) \notin PagedReaders => PagedOK'
         /\ Head(readers) # "geometry" => WindowTrack'
         /\ Head(readers) # "nonpart" /\ UNCHANGED opened => NonPartOK'
<1>1. \A r : AtWork(r)' <=> AtWork(r)
 BY DEF AtWork, fixedVars
<1>2. \A r : AtWork(r) <=> Head(readers) = r
 BY DEF AtWork
<1>3. Head(readers) # "attributes" => LinksOK'
 BY <1>1, <1>2 DEF LinksOK
<1>4. Head(readers) # "identities" => ObjectsOK'
 BY <1>1, <1>2 DEF ObjectsOK
<1>5. Head(readers) \notin ChainNames /\ UNCHANGED <<materials, emitMaterials>> => ChainOK'
 BY <1>1, <1>2, ChainIsItsNames DEF ReadersOnTrack, ChainOK
<1>6. Head(readers) \notin PagedReaders => PagedOK'
 BY <1>1, <1>2 DEF PagedOK
<1>7. Head(readers) # "geometry" => WindowTrack'
 BY <1>1, <1>2 DEF WindowTrack
<1>8. Head(readers) # "nonpart" /\ UNCHANGED opened => NonPartOK'
 BY <1>1, <1>2 DEF NonPartOK, ReadersOnTrack, fixedVars
<1> QED BY <1>3, <1>4, <1>5, <1>6, <1>7, <1>8
---------------------------------------------------------------------------
(* The readers of objects, attributes and lists.                          *)

LEMMA ObjectsGoOn ==
  ASSUME StreamInv, TrackInv, ReadObject \/ AnswerObjects \/ FailObject
  PROVE  TrackInv' /\ [Stream!Next]_(Stream!streamVars)
<1> DEFINE c == <<"identities", "objects">>
           n == Len(Table("identities"))
<1>1. /\ At("identities") /\ UNCHANGED fixedVars /\ UNCHANGED <<readers, materials, emitMaterials>>
      /\ UNCHANGED opened /\ (calling' => calling) /\ calling
 BY DEF ReadObject, AnswerObjects, FailObject, At, cursorVars, materialVars, answerVars, Answers
<1>2. /\ stream = "open" /\ readers # <<>> /\ Head(readers) = "identities"
      /\ AtWork("identities") /\ FixedOK /\ ~AtWork("attributes")
 BY <1>1 DEF At, StreamInv, GeometryInv, CallsOK, AtWork, WinnersInv
<1>3. /\ "identities" \notin ChainNames /\ "identities" \notin PagedReaders
      /\ "objects" \in KindsOf("identities")
 BY DEF ChainNames, PagedReaders, KindsOf
<1>4. ChoiceOK' /\ LinksOK' /\ ChainOK' /\ PagedOK' /\ WindowTrack' /\ NonPartOK'
 BY <1>1, <1>2, <1>3, ChoiceStays, OthersIdle DEF TrackInv
<1>5. /\ n \in Nat /\ lists[c] = [i \in 1 .. n |-> i] /\ Len(lists[c]) = n /\ c \in Channels
      /\ n' = n /\ lists' = lists
 BY <1>1, <1>2, <1>3, StageAtWork, ListsAreSequences, ListsStay, ListOfNumbers DEF TrackInv,
    PlaceOK, fixedVars
<1>6. /\ row \in Nat /\ row <= n /\ Fits(lists[c], Heard(c), page, row) /\ page \in Seq(Nat)
      /\ Heard(c) \in Nat /\ PlaceOK
 BY <1>1, <1>2, <1>5, HeardIsNumber DEF StreamInv, GeometryInv, ItemsOK, CallsOK, TrackInv,
    ReadersOnTrack, ObjectsOK, OnTrack, CallPage, PlaceOK
<1>7. Len(page) \in Nat /\ Heard(c) + Len(page) = row
 BY <1>6 DEF Fits
<1> HIDE DEF c, n
<1>8. ASSUME row' <= n, Fits(lists[c], Heard(c)', CallPage', row')
      PROVE  ObjectsOK'
 BY <1>5, <1>8 DEF ObjectsOK, OnTrack, c, n
<1>9. CASE ReadObject
 <2>1. row' = row + 1 /\ page' = Append(page, row + 1) /\ row < n /\ UNCHANGED <<sent, lost, answer, calling>>
  BY <1>9 DEF ReadObject, answerVars, n
 <2>2. PlaceOK' /\ UNCHANGED Stream!streamVars /\ Heard(c)' = Heard(c)
  BY <1>1, <1>2, <2>1, Silence DEF c
 <2>3. lists[c][row + 1] = row + 1 /\ row + 1 <= n
  BY <1>5, <1>6, <2>1
 <2>4. Fits(lists[c], Heard(c), Append(page, row + 1), row + 1)
  BY <1>6, <2>3, FitsMore
 <2>5. CallPage' = page'
  BY <1>1, <2>1 DEF CallPage
 <2>6. ObjectsOK'
  BY <1>8, <2>1, <2>2, <2>3, <2>4, <2>5
 <2> QED BY <1>4, <2>2, <2>6 DEF TrackInv, ReadersOnTrack
<1>10. CASE AnswerObjects
 <2>1. UNCHANGED row /\ page # <<>> /\ Answers(c, page)
  BY <1>10 DEF AnswerObjects, cursorVars, c
 <2>2. /\ Stream!Next /\ PlaceOK' /\ Fits(lists[c], Heard(c)', <<>>, row) /\ ~calling'
  BY <1>1, <1>2, <1>3, <1>5, <1>6, <2>1, Delivers DEF c
 <2>3. CallPage' = <<>>
  BY <2>2 DEF CallPage
 <2>4. ObjectsOK'
  BY <1>6, <1>8, <2>1, <2>2, <2>3
 <2> QED BY <1>4, <2>2, <2>4 DEF TrackInv, ReadersOnTrack
<1>11. CASE FailObject
 <2>1. /\ row' = row + 1 /\ row < n /\ Len(page) < request.size
       /\ ~Table("identities")[row + 1].attribute
       /\ ~calling' /\ answer' = Failure /\ lost' = lost + Len(page) + 1 /\ sent' = sent
  BY <1>11 DEF FailObject, n
 <2>2. lost \in Nat /\ request.size \in Nat
  BY <1>2, <1>6 DEF PlaceOK, FixedOK, Requests
 <2>3. Heard(c)' = Heard(c) + (Len(page) + 1) /\ \A d \in Channels : d # c => Heard(d)' = Heard(d)
  <3>1. Heard(c) = Len(sent[c]) + lost /\ Heard(c)' = Len(sent[c]) + lost'
   BY <2>1 DEF Heard, c
  <3>2. Len(sent[c]) \in Nat
   BY <1>5, <1>6, HeardIsNumber DEF PlaceOK
  <3>3. \A d : d # c => Heard(d)' = Heard(d)
   BY <2>1 DEF Heard, c
  <3>4. Len(sent[c]) + lost' = (Len(sent[c]) + lost) + (Len(page) + 1)
   <4>1. \A a, b, p \in Nat : a + (b + p + 1) = (a + b) + (p + 1)
    OBVIOUS
   <4>2. lost' = lost + Len(page) + 1 /\ lost \in Nat /\ Len(page) \in Nat
    BY <1>7, <2>1, <2>2
   <4> QED BY ONLY <3>2, <4>1, <4>2
  <3> QED BY <3>1, <3>3, <3>4
 <2>4. c \in Faulty
  BY <1>5, <1>6, <2>1 DEF Rows, n, PlaceOK, Faulty, c
 <2>5. Stream!Next
  <3>1. Len(page) + 1 \in 0 .. request.size /\ Heard(c) + (Len(page) + 1) <= Len(lists[c])
   BY <1>5, <1>6, <1>7, <2>1, <2>2
  <3>2. PICK m \in 0 .. request.size : m = Len(page) + 1
   BY <3>1
  <3> QED BY <1>1, <1>2, <1>3, <1>6, <2>1, <2>3, <2>4, <3>1, <3>2, FailIsStep DEF c
 <2>6. PlaceOK'
  BY <1>1, <1>2, <1>6, <1>7, <2>1, <2>2, <2>3, PlaceGoesOn DEF c
 <2>7. Heard(c)' = row' /\ row' \in Nat /\ row' <= n
  BY <1>5, <1>6, <1>7, <2>1, <2>3
 <2>8. CallPage' = <<>>
  BY <2>1 DEF CallPage
 <2>9. ObjectsOK'
  BY <1>8, <2>7, <2>8, FitsNone
 <2> QED BY <1>4, <2>5, <2>6, <2>9 DEF TrackInv, ReadersOnTrack
<1> QED BY <1>9, <1>10, <1>11

LEMMA LinksGoOn ==
  ASSUME StreamInv, TrackInv, ReadLink \/ AnswerAttributes \/ (At("attributes") /\ LinkTableDone)
  PROVE  TrackInv' /\ [Stream!Next]_(Stream!streamVars)
<1> DEFINE met == Cardinality(PromisedMet(source, row))
<1>1. /\ At("attributes") /\ UNCHANGED fixedVars /\ UNCHANGED <<readers, materials, emitMaterials>>
      /\ UNCHANGED opened /\ (calling' => calling) /\ calling
 BY DEF ReadLink, AnswerAttributes, LinkTableDone, At, cursorVars, materialVars, answerVars, Answers
<1>2. /\ stream = "open" /\ readers # <<>> /\ Head(readers) = "attributes"
      /\ AtWork("attributes") /\ FixedOK
 BY <1>1 DEF At, StreamInv, GeometryInv, CallsOK, AtWork, WinnersInv
<1>3. /\ "attributes" \notin ChainNames /\ "attributes" \notin PagedReaders
      /\ "properties" \in KindsOf("attributes") /\ Channel = <<"attributes", "properties">>
 BY DEF ChainNames, PagedReaders, KindsOf, Channel
<1>4. ChoiceOK' /\ ObjectsOK' /\ ChainOK' /\ PagedOK' /\ WindowTrack' /\ NonPartOK'
 BY <1>1, <1>2, <1>3, ChoiceStays, OthersIdle DEF TrackInv
<1>5. /\ Channel \in Channels /\ "properties" \in request.stages
      /\ lists[Channel] = ListOf(Channel) /\ lists' = lists
      /\ \A s, r : PromisedMet(s, r)' = PromisedMet(s, r)
 <2>1. Channel \in Channels /\ Wanted("attributes")
  BY <1>2, <1>3, StageAtWork DEF TrackInv
 <2>2. lists[Channel] = ListOf(Channel)
  BY <1>2, <2>1, ListsAreSequences DEF TrackInv, PlaceOK
 <2>3. lists' = lists /\ \A s, r : PromisedMet(s, r)' = PromisedMet(s, r)
  BY <1>1, ListsStay DEF fixedVars
 <2>4. "properties" \in request.stages
  BY <2>1, AttributesApart DEF Wanted
 <2> QED BY <2>1, <2>2, <2>3, <2>4
<1>6. /\ row \in Nat /\ source \in 1 .. 4 /\ Fits(lists[Channel], Heard(Channel), page, met)
      /\ page \in Seq(OutRows(attributes, winners)) /\ Heard(Channel) \in Nat /\ PlaceOK
      /\ met \in Nat /\ met <= Len(lists[Channel])
 <2>1. page \in Seq(OutRows(attributes, winners)) /\ row \in Nat /\ source \in 1 .. 4
  BY <1>2 DEF StreamInv, GeometryInv, CallsOK, WinnersInv, PageOK
 <2>2. Fits(lists[Channel], Heard(Channel), page, met)
  BY <1>1, <1>2 DEF TrackInv, ReadersOnTrack, LinksOK, OnTrack, CallPage
 <2>3. PlaceOK /\ Heard(Channel) \in Nat
  BY <1>5, HeardIsNumber DEF TrackInv, PlaceOK
 <2>4. met \in Nat /\ met <= Len(lists[Channel])
  BY <1>2, <1>5, CountOfLinks, ListOfLinks
 <2> QED BY <2>1, <2>2, <2>3, <2>4
<1> HIDE DEF met
<1>7. ASSUME NEW s, NEW r, source' = s, row' = r,
             Fits(lists[Channel], Heard(Channel)', CallPage', Cardinality(PromisedMet(s, r)))
      PROVE  LinksOK'
 BY <1>5, <1>7 DEF PromisedMet, PromisedRows, LinksOK, OnTrack
<1>8. CASE ReadLink
 <2> DEFINE l == <<source, row + 1>>
 <2>1. /\ source \in 1 .. 3 /\ row < Len(LinkTable(attributes, source))
       /\ page' = IF GoesOut(attributes, winners, l) THEN Append(page, l) ELSE page
       /\ row' = row + 1 /\ UNCHANGED <<source, sent, lost, answer, calling>>
  BY <1>6, <1>8 DEF ReadLink, answerVars
 <2>2. PlaceOK' /\ UNCHANGED Stream!streamVars /\ Heard(Channel)' = Heard(Channel)
  BY <1>1, <1>2, <2>1, Silence
 <2>3. CallPage' = page'
  BY <1>1, <2>1 DEF CallPage
 <2>4. PICK k : k = l
  OBVIOUS
 <2>5. /\ k \in AllRows(attributes)
       /\ IF IsPromised(attributes, k)
          THEN lists[Channel][met + 1] = k /\ Cardinality(PromisedMet(source, row + 1)) = met + 1
          ELSE Cardinality(PromisedMet(source, row + 1)) = met
  BY <1>2, <1>5, <1>6, <2>1, <2>4, NextLink DEF met
 <2>6. GoesOut(attributes, winners, k) <=> IsPromised(attributes, k)
  BY <1>2, <1>5, <2>5 DEF TrackInv, ChoiceOK
 <2>7. Fits(lists[Channel], Heard(Channel), page', Cardinality(PromisedMet(source, row + 1)))
  <3>1. CASE IsPromised(attributes, k)
   BY <1>6, <2>1, <2>4, <2>5, <2>6, <3>1, FitsMore
  <3>2. CASE ~IsPromised(attributes, k)
   BY <1>6, <2>1, <2>4, <2>5, <2>6, <3>2
  <3> QED BY <3>1, <3>2
 <2>8. LinksOK'
  BY <1>7, <2>1, <2>2, <2>3, <2>7
 <2> QED BY <1>4, <2>2, <2>8 DEF TrackInv, ReadersOnTrack
<1>9. CASE AnswerAttributes
 <2>1. UNCHANGED <<row, source>> /\ page # <<>> /\ Answers(Channel, page)
  BY <1>3, <1>9 DEF AnswerAttributes, cursorVars
 <2>2. /\ Stream!Next /\ PlaceOK' /\ Fits(lists[Channel], Heard(Channel)', <<>>, met) /\ ~calling'
  BY <1>1, <1>2, <1>3, <1>5, <1>6, <2>1, Delivers
 <2>3. CallPage' = <<>>
  BY <2>2 DEF CallPage
 <2>4. LinksOK'
  BY <1>7, <2>1, <2>2, <2>3 DEF met
 <2> QED BY <1>4, <2>2, <2>4 DEF TrackInv, ReadersOnTrack
<1>10. CASE At("attributes") /\ LinkTableDone
 <2>1. /\ source \in 1 .. 3 /\ row = Len(LinkTable(attributes, source))
       /\ source' = source + 1 /\ row' = 0 /\ UNCHANGED <<page, sent, lost, answer, calling>>
  BY <1>6, <1>10 DEF LinkTableDone, answerVars
 <2>2. PlaceOK' /\ UNCHANGED Stream!streamVars /\ Heard(Channel)' = Heard(Channel)
  BY <1>1, <1>2, <2>1, Silence
 <2>3. CallPage' = page
  BY <1>1, <2>1 DEF CallPage
 <2>4. PromisedMet(source + 1, 0) = PromisedMet(source, row)
  BY <1>2, <2>1, NextLinkTable
 <2>5. Fits(lists[Channel], Heard(Channel)', CallPage', Cardinality(PromisedMet(source + 1, 0)))
  BY <1>6, <2>2, <2>3, <2>4 DEF met
 <2>6. LinksOK'
  BY <1>7, <2>1, <2>5
 <2> QED BY <1>4, <2>2, <2>6 DEF TrackInv, ReadersOnTrack
<1> QED BY <1>8, <1>9, <1>10

\* Numbers that follow the first `heard` ones are the next items of a list of numbers.
LEMMA NumbersFit ==
  ASSUME NEW n \in Nat, NEW heard \in Nat, NEW m \in Nat, heard + m <= n
  PROVE  /\ [i \in 1 .. m |-> heard + i] \in Seq(Nat)
         /\ Len([i \in 1 .. m |-> heard + i]) = m
         /\ Fits([i \in 1 .. n |-> i], heard, [i \in 1 .. m |-> heard + i], heard + m)
<1> DEFINE items == [i \in 1 .. m |-> heard + i]
<1>1. items \in [1 .. m -> Nat]
 OBVIOUS
<1>2. items \in Seq(Nat) /\ Len(items) = m
 <2>1. DOMAIN items = 1 .. m
  OBVIOUS
 <2> HIDE DEF items
 <2> QED BY <1>1, <2>1
<1>3. \A i \in 1 .. m : [j \in 1 .. n |-> j][heard + i] = items[i]
 OBVIOUS
<1> HIDE DEF items
<1>4. Fits([i \in 1 .. n |-> i], heard, items, heard + m)
 BY <1>2, <1>3 DEF Fits
<1> QED BY <1>2, <1>4 DEF items

LEMMA PagesGoOn ==
  ASSUME StreamInv, TrackInv, AnswerPage
  PROVE  TrackInv' /\ [Stream!Next]_(Stream!streamVars)
<1> DEFINE r == Head(readers)
           c == <<r, r>>
           n == Len(Table(r))
           next == IF row + request.size < n THEN row + request.size ELSE n
           items == [i \in 1 .. next - row |-> row + i]
<1>1. /\ r \in PagedReaders /\ UNCHANGED fixedVars /\ UNCHANGED <<readers, materials, emitMaterials>>
      /\ UNCHANGED opened /\ (calling' => calling) /\ calling /\ readers # <<>>
      /\ row < n /\ Answers(c, items) /\ row' = next
 BY DEF AnswerPage, Current, PagedReaders, materialVars, Answers
<1>2. /\ stream = "open" /\ AtWork(r) /\ FixedOK /\ PlaceOK
 BY <1>1 DEF StreamInv, GeometryInv, CallsOK, AtWork, WinnersInv, TrackInv
<1>3. /\ r \notin ChainNames /\ r # "geometry" /\ r # "nonpart" /\ r # "attributes"
      /\ r # "identities" /\ r \in KindsOf(r)
 BY <1>1 DEF ChainNames, PagedReaders, KindsOf
<1>4. ChoiceOK' /\ LinksOK' /\ ObjectsOK' /\ ChainOK' /\ WindowTrack' /\ NonPartOK'
 BY <1>1, <1>2, <1>3, ChoiceStays, OthersIdle DEF TrackInv
<1>5. /\ n \in Nat /\ lists[c] = [i \in 1 .. n |-> i] /\ Len(lists[c]) = n /\ c \in Channels
 BY <1>1, <1>2, <1>3, StageAtWork, ListsAreSequences, ListOfNumbers DEF PlaceOK
<1>6. /\ row \in Nat /\ Heard(c) = row /\ request.size \in Nat \ {0}
      /\ next \in Nat /\ row < next /\ next <= n
 BY <1>1, <1>2, <1>5 DEF StreamInv, GeometryInv, CallsOK, FixedOK, Requests, TrackInv,
    ReadersOnTrack, PagedOK
<1>7. /\ items \in Seq(Nat) /\ items # <<>> /\ Fits(lists[c], Heard(c), items, next)
 <2>1. PICK m \in Nat : m = next - row /\ m # 0 /\ row + m = next
  <3> HIDE DEF next, n, r
  <3>1. next - row \in Nat /\ next - row # 0 /\ row + (next - row) = next
   BY <1>6
  <3> QED BY <3>1
 <2>2. /\ [i \in 1 .. m |-> row + i] \in Seq(Nat) /\ Len([i \in 1 .. m |-> row + i]) = m
       /\ Fits([i \in 1 .. n |-> i], row, [i \in 1 .. m |-> row + i], row + m)
  <3> HIDE DEF next, n
  <3>1. row + m <= n
   BY <1>6, <2>1
  <3>2. n \in Nat /\ row \in Nat /\ m \in Nat
   BY <1>5, <1>6, <2>1
  <3> QED BY ONLY <3>1, <3>2, NumbersFit, SMTT(40)
 <2>3. items = [i \in 1 .. m |-> row + i]
  BY <2>1
 <2> HIDE DEF items, next, n, c, r
 <2>4. items # <<>>
  BY <2>1, <2>2, <2>3, EmptySeq
 <2> QED BY <1>5, <1>6, <2>1, <2>2, <2>3, <2>4
<1> HIDE DEF items, next
<1>8. /\ Stream!Next /\ PlaceOK' /\ Heard(c)' = next
 BY <1>1, <1>2, <1>3, <1>5, <1>6, <1>7, Delivers
<1>9. PagedOK'
 BY <1>1, <1>2, <1>6, <1>8, ListsStay DEF AtWork, fixedVars, PagedOK
<1> QED BY <1>4, <1>8, <1>9 DEF TrackInv, ReadersOnTrack

LEMMA KindsOfNonPart ==
  /\ \A k \in 1 .. 3 : NonPartKinds[k] \in KindsOf("nonpart") /\ NonPartKinds[k] # "opening"
  /\ \A k, j \in 1 .. 3 : k # j => NonPartKinds[k] # NonPartKinds[j]
  /\ "opening" \in KindsOf("nonpart")
<1>1. \A k \in 1 .. 3 : k = 1 \/ k = 2 \/ k = 3
 OBVIOUS
<1>2. NonPartKinds[1] = "curves" /\ NonPartKinds[2] = "meshes" /\ NonPartKinds[3] = "diagnostics"
 BY DEF NonPartKinds
<1>3. KindsOf("nonpart") = {"curves", "meshes", "diagnostics", "opening"}
 BY DEF KindsOf
<1> HIDE DEF NonPartKinds
<1> QED BY <1>1, <1>2, <1>3

LEMMA NonPartGoesOn ==
  ASSUME StreamInv, TrackInv, OpenNonPart \/ FailNonPart \/ AnswerNonPart \/ NonPartListDone
  PROVE  TrackInv' /\ [Stream!Next]_(Stream!streamVars)
<1> DEFINE C(k) == <<"nonpart", NonPartKinds[k]>>
           N(k) == NonPartCount(NonPartKinds[k])
           opening == <<"nonpart", "opening">>
<1>1. /\ At("nonpart") /\ UNCHANGED fixedVars /\ UNCHANGED <<readers, materials, emitMaterials>>
      /\ (calling' => calling) /\ calling
 BY DEF OpenNonPart, FailNonPart, AnswerNonPart, NonPartListDone, At, cursorVars, materialVars,
        answerVars, Answers
<1>2. /\ stream = "open" /\ readers # <<>> /\ Head(readers) = "nonpart"
      /\ AtWork("nonpart") /\ FixedOK /\ PlaceOK
 BY <1>1 DEF At, StreamInv, GeometryInv, CallsOK, AtWork, WinnersInv, TrackInv
<1>3. "nonpart" \notin ChainNames /\ "nonpart" \notin PagedReaders
 BY DEF ChainNames, PagedReaders
<1>4. ChoiceOK' /\ LinksOK' /\ ObjectsOK' /\ ChainOK' /\ PagedOK' /\ WindowTrack'
 BY <1>1, <1>2, <1>3, ChoiceStays, OthersIdle DEF TrackInv
<1>5. ASSUME NEW k \in KindsOf("nonpart"), NEW c, c = <<"nonpart", k>>
      PROVE  /\ c \in Channels /\ Heard(c) \in Nat /\ NonPartCount(k) \in Nat
             /\ lists[c] = [i \in 1 .. NonPartCount(k) |-> i] /\ Len(lists[c]) = NonPartCount(k)
 BY <1>2, <1>5, StageAtWork, ListsAreSequences, HeardIsNumber, ListOfNonPart DEF PlaceOK
<1>6. /\ row \in Nat /\ source \in 1 .. 4 /\ request.size \in Nat \ {0}
      /\ opened => "nonpart" \notin model.unopenable
      /\ Heard(opening) = 0
      /\ source <= 3 => row <= N(source)
      /\ \A k \in 1 .. 3 : Heard(C(k)) = IF k < source THEN N(k) ELSE IF k = source THEN row ELSE 0
 BY <1>2 DEF StreamInv, GeometryInv, CallsOK, FixedOK, Requests, TrackInv, ReadersOnTrack,
    NonPartOK
<1>7. /\ \A k \in 1 .. 3 : N(k)' = N(k) /\ N(k) \in Nat
      /\ model' = model
 BY <1>1, <1>5, ListsStay, KindsOfNonPart DEF fixedVars
<1> HIDE DEF C, N
<1>8. ASSUME NEW s, NEW r, source' = s, row' = r, opened' => "nonpart" \notin model.unopenable,
             Heard(opening)' = 0, s <= 3 => r <= N(s), s \in 1 .. 4,
             \A k \in 1 .. 3 : Heard(C(k))' = IF k < s THEN N(k) ELSE IF k = s THEN r ELSE 0
      PROVE  NonPartOK'
 BY <1>7, <1>8 DEF NonPartOK, N, C
<1>9. CASE OpenNonPart
 <2>1. opened' /\ "nonpart" \notin model.unopenable /\ UNCHANGED <<row, source, sent, lost, answer>>
  BY <1>9 DEF OpenNonPart, cursorVars, answerVars
 <2>2. PlaceOK' /\ UNCHANGED Stream!streamVars /\ \A d : Heard(d)' = Heard(d)
  BY <1>1, <1>2, <2>1, Silence
 <2>3. NonPartOK'
  BY <1>6, <1>8, <2>1, <2>2 DEF C
 <2> QED BY <1>4, <2>2, <2>3 DEF TrackInv, ReadersOnTrack
<1>10. CASE FailNonPart
 <2>1. /\ answer' = Failure /\ UNCHANGED <<row, source, opened, sent, lost>>
  BY <1>10 DEF FailNonPart, cursorVars
 <2>2. \A d : Heard(d)' = Heard(d)
  BY <2>1 DEF Heard
 <2>3. Stream!Next
  <3>1. /\ opening \in Channels /\ Len(lists[opening]) \in Nat /\ "opening" \in KindsOf("nonpart")
   BY <1>5, KindsOfNonPart
  <3>2. opening \in Faulty
   BY <1>2, <3>1 DEF Faulty, PlaceOK
  <3>3. 0 \in 0 .. request.size /\ Heard(opening)' = Heard(opening) + 0
        /\ Heard(opening) + 0 <= Len(lists[opening])
   BY <1>6, <2>2, <3>1
  <3> QED BY <1>1, <1>2, <2>1, <2>2, <3>1, <3>2, <3>3, FailIsStep
 <2>4. PlaceOK'
  BY <1>1, <1>2, <2>1, <2>2, PlaceGoesOn DEF PlaceOK
 <2>5. NonPartOK'
  BY <1>6, <1>8, <2>1, <2>2 DEF C
 <2> QED BY <1>4, <2>3, <2>4, <2>5 DEF TrackInv, ReadersOnTrack
<1>11. CASE AnswerNonPart
 <2> DEFINE left == N(source) - row
            m == IF left < request.size THEN left ELSE request.size
            items == [i \in 1 .. m |-> row + i]
 <2>1. source \in 1 .. 3 /\ UNCHANGED <<source, opened>>
  BY <1>6, <1>11 DEF AnswerNonPart
 <2>2. N(source) = model.nonpart[NonPartKinds[source]]
  BY <2>1, KindsOfNonPart DEF N, NonPartCount
 <2>3. left > 0 /\ Answers(C(source), items) /\ row' = row + m
  BY <1>11, <2>2 DEF AnswerNonPart, C
 <2>4. PICK c : c = C(source)
  OBVIOUS
 <2>5. PICK n : n = N(source) /\ n \in Nat
  BY <1>7, <2>1
 <2>6. /\ NonPartKinds[source] \in KindsOf("nonpart") /\ c = <<"nonpart", NonPartKinds[source]>>
       /\ c \in Channels /\ lists[c] = [i \in 1 .. n |-> i] /\ Len(lists[c]) = n
       /\ Heard(c) = row
  <3>1. NonPartKinds[source] \in KindsOf("nonpart") /\ c = <<"nonpart", NonPartKinds[source]>>
   BY <2>1, <2>4, KindsOfNonPart DEF C
  <3>2. Heard(c) = row
   BY <1>6, <2>1, <2>4
  <3> QED BY <1>5, <2>5, <3>1, <3>2 DEF N
 <2>7. m \in Nat \ {0} /\ row + m \in Nat /\ row + m <= n
  BY <1>6, <2>3, <2>5
 <2>8. items \in Seq(Nat) /\ items # <<>> /\ Fits(lists[c], Heard(c), items, row + m)
  <3>1. PICK q \in Nat : q = m
   BY <2>7
  <3> HIDE DEF m
  <3>2. /\ [i \in 1 .. q |-> row + i] \in Seq(Nat) /\ Len([i \in 1 .. q |-> row + i]) = q
        /\ Fits([i \in 1 .. n |-> i], row, [i \in 1 .. q |-> row + i], row + q)
   <4>1. n \in Nat /\ row \in Nat /\ q \in Nat /\ row + q <= n
    BY <1>6, <2>5, <2>7, <3>1
   <4> QED BY ONLY <4>1, NumbersFit, SMTT(40)
  <3>3. items = [i \in 1 .. q |-> row + i] /\ q # 0
   BY <2>7, <3>1
  <3> HIDE DEF items
  <3>4. items # <<>>
   BY <3>2, <3>3, EmptySeq
  <3> QED BY <2>6, <3>1, <3>2, <3>3, <3>4
 <2> HIDE DEF items, m
 <2>9. /\ Stream!Next /\ PlaceOK' /\ Heard(c)' = row + m
       /\ \A d \in Channels : d # c => Heard(d)' = Heard(d)
  <3>1. Answers(c, items)
   BY <2>3, <2>4 DEF Answers
  <3>2. PICK met : met = row + m
   OBVIOUS
  <3>3. met <= Len(lists[c]) /\ Fits(lists[c], Heard(c), items, met)
   BY <2>6, <2>7, <2>8, <3>2
  <3>4. /\ Stream!Next /\ PlaceOK' /\ Heard(c)' = met
        /\ \A d \in Channels : d # c => Heard(d)' = Heard(d)
   <4>1. PICK kind \in KindsOf("nonpart") : c = <<"nonpart", kind>>
    BY <2>6
   <4>2. PICK r : r = Head(readers) /\ r = "nonpart"
    BY <1>2
   <4>3. kind \in KindsOf(r) /\ c = <<r, kind>>
    BY <4>1, <4>2
   <4>4. UNCHANGED readers
    BY <1>1
   <4> HIDE DEF Answers
   <4> QED BY <1>1, <1>2, <2>8, <3>1, <3>3, <4>2, <4>3, <4>4, Delivers
  <3> QED BY <3>2, <3>4
 <2>10. Heard(opening)' = 0
  BY <1>5, <1>6, <2>1, <2>6, <2>9, KindsOfNonPart
 <2>11. ASSUME NEW k \in 1 .. 3
        PROVE  Heard(C(k))' = IF k < source THEN N(k) ELSE IF k = source THEN row + m ELSE 0
  <3>1. CASE k = source
   BY <1>6, <2>1, <2>4, <2>9, <3>1 DEF C
  <3>2. CASE k # source
   <4>1. PICK d : d = C(k)
    OBVIOUS
   <4>2. d \in Channels /\ d # c
    BY <1>5, <2>1, <2>6, <3>2, <4>1, KindsOfNonPart DEF C
   <4>3. Heard(d)' = Heard(d)
    BY <2>9, <4>2
   <4>4. Heard(C(k))' = Heard(d)'
    BY <4>1 DEF C
   <4> QED BY <1>6, <3>2, <4>1, <4>3, <4>4
  <3> QED BY <3>1, <3>2
 <2>12. NonPartOK'
  BY <1>6, <1>8, <2>1, <2>3, <2>5, <2>7, <2>10, <2>11
 <2> QED BY <1>4, <2>9, <2>12 DEF TrackInv, ReadersOnTrack
<1>12. CASE NonPartListDone
 <2>1. /\ source \in 1 .. 3 /\ source' = source + 1 /\ row' = 0
       /\ row = model.nonpart[NonPartKinds[source]] /\ UNCHANGED <<opened, sent, lost, answer>>
  BY <1>6, <1>12 DEF NonPartListDone, answerVars
 <2>2. N(source) = row
  BY <2>1, KindsOfNonPart DEF N, NonPartCount
 <2>3. PlaceOK' /\ UNCHANGED Stream!streamVars /\ \A d : Heard(d)' = Heard(d)
  BY <1>1, <1>2, <2>1, Silence
 <2>4. NonPartOK'
  <3>1. \A k \in 1 .. 3 : Heard(C(k))' = Heard(C(k))
   BY <2>3 DEF C
  <3>2. ASSUME NEW k \in 1 .. 3
        PROVE  Heard(C(k))' = IF k < source + 1 THEN N(k) ELSE IF k = source + 1 THEN 0 ELSE 0
   BY <1>6, <2>1, <2>2, <3>1
  <3>3. source + 1 \in 1 .. 4 /\ (source + 1 <= 3 => 0 <= N(source + 1))
   BY <1>7, <2>1
  <3>4. Heard(opening)' = 0
   BY <1>6, <2>3
  <3> QED BY <1>6, <1>8, <2>1, <3>2, <3>3, <3>4
 <2> QED BY <1>4, <2>3, <2>4 DEF TrackInv, ReadersOnTrack
<1> QED BY <1>9, <1>10, <1>11, <1>12

---------------------------------------------------------------------------
(* The readers of the chain.                                              *)

\* One row more, which comes to an item of the channel or to none.
LEMMA OneRowOn ==
  ASSUME FixedOK, NEW r \in RowReaders, NEW k, NEW c, c = <<r, k>>, NEW i \in Nat,
         i < Len(Table(r)), NEW heard \in Nat, NEW w \in Seq(Nat),
         Fits(ListOf(c), heard, w, Cardinality(Upto(RowsOf(c), i))),
         NEW v, v = IF i + 1 \in RowsOf(c) THEN Append(w, i + 1) ELSE w
  PROVE  Fits(ListOf(c), heard, v, Cardinality(Upto(RowsOf(c), i + 1)))
<1> DEFINE n == Len(Table(r))
           P == RowsOf(c)
<1>1. n \in Nat /\ P \subseteq 1 .. n /\ ListOf(c) = InOrder(P, RowPairs(n))
 BY ListOfRows
<1> HIDE DEF n, P
<1>2. /\ i + 1 \in P =>
            /\ InOrder(P, RowPairs(n))[Cardinality(Upto(P, i)) + 1] = i + 1
            /\ Cardinality(Upto(P, i + 1)) = Cardinality(Upto(P, i)) + 1
      /\ i + 1 \notin P => Cardinality(Upto(P, i + 1)) = Cardinality(Upto(P, i))
 <2>1. i < n
  BY DEF n
 <2>2. RowAdds(InOrder(P, RowPairs(n)), P, i)
  BY <1>1, <2>1, NextRow
 <2> QED BY <2>2 DEF RowAdds
<1>3. Fits(ListOf(c), heard, w, Cardinality(Upto(P, i)))
 BY DEF P
<1>4. CASE i + 1 \in P
 BY <1>1, <1>2, <1>3, <1>4, FitsMore DEF P
<1>5. CASE i + 1 \notin P
 BY <1>2, <1>3, <1>5 DEF P
<1> QED BY <1>4, <1>5

LEMMA MetWithin ==
  ASSUME FixedOK, NEW r \in RowReaders, NEW k, NEW c, c = <<r, k>>,
         NEW i \in 0 .. Len(Table(r))
  PROVE  /\ Cardinality(Upto(RowsOf(c), i)) \in Nat
         /\ Cardinality(Upto(RowsOf(c), i)) <= Len(ListOf(c))
         /\ Cardinality(Upto(RowsOf(c), 0)) = 0
         /\ Cardinality(Upto(RowsOf(c), Len(Table(r)))) = Len(ListOf(c))
<1>1. /\ Len(Table(r)) \in Nat /\ RowsOf(c) \subseteq 1 .. Len(Table(r))
      /\ Len(ListOf(c)) = Cardinality(RowsOf(c))
 BY ListOfRows
<1>2. /\ Cardinality(Upto(RowsOf(c), i)) \in Nat
      /\ Cardinality(Upto(RowsOf(c), i)) <= Cardinality(RowsOf(c))
      /\ Cardinality(Upto(RowsOf(c), 0)) = 0 /\ Upto(RowsOf(c), Len(Table(r))) = RowsOf(c)
 BY <1>1, CountOfRows
<1> QED BY <1>1, <1>2

\* Where the reader at work has answered or read, its channels are on their way.
LEMMA ChainOnTrack ==
  ASSUME StreamInv, TrackInv, stream = "open", readers # <<>>, UNCHANGED fixedVars,
         UNCHANGED readers, NEW r \in ChainNames, r = Head(readers),
         NEW i \in 0 .. Len(Table(r)), row' = i,
         emitMaterials' => materials' # <<>> /\ r \in {"parts", "surfaces"},
         calling' /\ r \notin {"parts", "surfaces"} => materials' = <<>>,
         NEW props, props = <<r, "properties">>, NEW mats, mats = <<r, "materials">>,
         Fits(lists[props], Heard(props)', (IF emitMaterials THEN <<>> ELSE CallPage)',
              Cardinality(Upto(RowsOf(props), i))),
         r \in {"parts", "surfaces"} =>
            Fits(lists[mats], Heard(mats)',
                 (IF calling \/ emitMaterials THEN materials ELSE <<>>)',
                 Cardinality(Upto(RowsOf(mats), i)))
  PROVE  ChainOK'
<1>1. /\ UNCHANGED <<model, request, attributes, lists, stream>> /\ Table(r)' = Table(r)
      /\ \A c : RowsOf(c)' = RowsOf(c)
 BY ListsStay DEF fixedVars
<1>2. \A q : AtWork(q)' <=> q = r
 BY <1>1 DEF AtWork
<1>3. \A c : MetBy(c)' = Cardinality(Upto(RowsOf(c), i))
 BY <1>1 DEF MetBy
<1>4. FixedOK
 BY DEF StreamInv, WinnersInv
<1>5. i <= Len(Table(r))
 BY <1>4, TablesAreSequences DEF RowReaders
<1>6. OnTrack(props, IF emitMaterials THEN <<>> ELSE CallPage, MetBy(props))'
 BY <1>1, <1>3 DEF OnTrack
<1>7. r \in {"parts", "surfaces"} =>
         OnTrack(mats, IF calling \/ emitMaterials THEN materials ELSE <<>>, MetBy(mats))'
 BY <1>1, <1>3 DEF OnTrack
<1> HIDE DEF OnTrack, MetBy, CallPage
<1>8. ASSUME NEW q \in ToSet(Chain), AtWork(q)'
      PROVE  /\ row' <= Len(Table(q))'
             /\ OnTrack(<<q, "properties">>, IF emitMaterials THEN <<>> ELSE CallPage,
                        MetBy(<<q, "properties">>))'
             /\ q \in {"parts", "surfaces"} =>
                   OnTrack(<<q, "materials">>,
                           IF calling \/ emitMaterials THEN materials ELSE <<>>,
                           MetBy(<<q, "materials">>))'
 BY <1>1, <1>2, <1>5, <1>6, <1>7, <1>8
<1>9. /\ emitMaterials' => materials' # <<>> /\ (AtWork("parts")' \/ AtWork("surfaces")')
      /\ calling' /\ ~AtWork("parts")' /\ ~AtWork("surfaces")' => materials' = <<>>
 BY <1>2
<1> QED BY <1>8, <1>9 DEF ChainOK

\* What a reader of the chain answers with, and which of its rows.
LEMMA ChainAnswers ==
  ASSUME FixedOK, NEW r \in ChainNames
  PROVE  /\ "properties" \in KindsOf(r)
         /\ r \in {"parts", "surfaces"} => "materials" \in KindsOf(r)
         /\ r # "attributes" /\ r # "identities" /\ r # "geometry" /\ r # "nonpart"
         /\ r \notin PagedReaders /\ r \in RowReaders /\ r \in ToSet(Chain)
         /\ \A i \in 1 .. Len(Table(r)) :
               /\ i \in RowsOf(<<r, "properties">>)
                     <=> Takes(r, Table(r)[i]) /\ Describes(r, Table(r)[i])
               /\ i \in RowsOf(<<r, "materials">>) <=> Takes(r, Table(r)[i])
<1>1. /\ r # "attributes" /\ r # "identities" /\ r # "geometry" /\ r # "nonpart"
      /\ r \notin PagedReaders /\ r \in RowReaders /\ r \in ToSet(Chain)
 BY ChainIsItsNames DEF ChainNames, PagedReaders, RowReaders
<1>2. Rows(r) = 1 .. Len(Table(r))
 BY <1>1, TablesAreSequences
<1>3. \A i \in 1 .. Len(Table(r)) :
         /\ i \in RowsOf(<<r, "properties">>)
               <=> Takes(r, Table(r)[i]) /\ Describes(r, Table(r)[i])
         /\ i \in RowsOf(<<r, "materials">>) <=> Takes(r, Table(r)[i])
 BY <1>1, <1>2 DEF RowsOf
<1>4. "properties" \in KindsOf(r) /\ (r \in {"parts", "surfaces"} => "materials" \in KindsOf(r))
 BY <1>1 DEF KindsOf, PagedReaders
<1> QED BY <1>1, <1>3, <1>4

\* The reader at work in the chain, and its two channels.
LEMMA ChainAtWork ==
  ASSUME StreamInv, TrackInv, stream = "open", readers # <<>>,
         NEW r \in ChainNames, r = Head(readers), NEW props, props = <<r, "properties">>,
         NEW mats, mats = <<r, "materials">>
  PROVE  /\ FixedOK /\ PlaceOK /\ row \in Nat /\ row <= Len(Table(r)) /\ Len(Table(r)) \in Nat
         /\ page \in Seq(Nat) /\ materials \in Seq(Nat) /\ emitMaterials \in BOOLEAN
         /\ props \in Channels /\ Heard(props) \in Nat /\ lists[props] = ListOf(props)
         /\ Fits(lists[props], Heard(props), IF emitMaterials THEN <<>> ELSE CallPage,
                 Cardinality(Upto(RowsOf(props), row)))
         /\ Cardinality(Upto(RowsOf(props), row)) <= Len(lists[props])
         /\ emitMaterials => materials # <<>> /\ r \in {"parts", "surfaces"}
         /\ calling /\ r \notin {"parts", "surfaces"} => materials = <<>>
         /\ r \in {"parts", "surfaces"} =>
               /\ mats \in Channels /\ Heard(mats) \in Nat /\ lists[mats] = ListOf(mats)
               /\ Fits(lists[mats], Heard(mats),
                       IF calling \/ emitMaterials THEN materials ELSE <<>>,
                       Cardinality(Upto(RowsOf(mats), row)))
               /\ Cardinality(Upto(RowsOf(mats), row)) <= Len(lists[mats])
<1>1. FixedOK /\ PlaceOK /\ ChainOK
 BY DEF StreamInv, WinnersInv, TrackInv, ReadersOnTrack
<1>2. /\ r \in ToSet(Chain) /\ r \in RowReaders /\ "properties" \in KindsOf(r)
      /\ r \in {"parts", "surfaces"} => "materials" \in KindsOf(r)
      /\ r # "attributes"
 BY <1>1, ChainAnswers
<1>3. \A q : AtWork(q) <=> q = r
 BY DEF AtWork
<1>4. /\ row \in Nat /\ page \in Seq(Nat) /\ materials \in Seq(Nat) /\ emitMaterials \in BOOLEAN
 BY <1>2, <1>3 DEF StreamInv, GeometryInv, ItemsOK, CallsOK
<1>5. Len(Table(r)) \in Nat
 BY <1>1, <1>2, TablesAreSequences
<1>6. /\ row <= Len(Table(r))
      /\ OnTrack(props, IF emitMaterials THEN <<>> ELSE CallPage, MetBy(props))
      /\ r \in {"parts", "surfaces"} =>
            OnTrack(mats, IF calling \/ emitMaterials THEN materials ELSE <<>>, MetBy(mats))
 BY <1>1, <1>2, <1>3 DEF ChainOK
<1>7. /\ emitMaterials => materials # <<>> /\ r \in {"parts", "surfaces"}
      /\ calling /\ r \notin {"parts", "surfaces"} => materials = <<>>
 BY <1>1, <1>3 DEF ChainOK
<1>8. props \in Channels /\ (r \in {"parts", "surfaces"} => mats \in Channels)
 BY <1>1, <1>2, StageAtWork
<1>9. /\ Heard(props) \in Nat /\ lists[props] = ListOf(props)
      /\ r \in {"parts", "surfaces"} => Heard(mats) \in Nat /\ lists[mats] = ListOf(mats)
 BY <1>1, <1>8, HeardIsNumber, ListsAreSequences DEF PlaceOK
<1>10. row \in 0 .. Len(Table(r))
 BY <1>4, <1>5, <1>6
<1>11. /\ Cardinality(Upto(RowsOf(props), row)) <= Len(ListOf(props))
       /\ Cardinality(Upto(RowsOf(mats), row)) <= Len(ListOf(mats))
 BY <1>1, <1>2, <1>10, MetWithin
<1>12. /\ Fits(lists[props], Heard(props), IF emitMaterials THEN <<>> ELSE CallPage,
               Cardinality(Upto(RowsOf(props), row)))
       /\ r \in {"parts", "surfaces"} =>
             Fits(lists[mats], Heard(mats), IF calling \/ emitMaterials THEN materials ELSE <<>>,
                  Cardinality(Upto(RowsOf(mats), row)))
 BY <1>6 DEF OnTrack, MetBy
<1> QED BY <1>1, <1>4, <1>5, <1>6, <1>7, <1>8, <1>9, <1>11, <1>12

\* While a reader of the chain is at work, the others keep what they have.
LEMMA ChainAlone ==
  ASSUME StreamInv, TrackInv, stream = "open", readers # <<>>, UNCHANGED fixedVars,
         UNCHANGED <<readers, opened>>, calling' => calling, Head(readers) \in ChainNames
  PROVE  ChoiceOK' /\ LinksOK' /\ ObjectsOK' /\ PagedOK' /\ WindowTrack' /\ NonPartOK'
BY ChainAnswers, ChoiceStays, OthersIdle DEF StreamInv, WinnersInv, TrackInv

LEMMA RowGoesOn ==
  ASSUME StreamInv, TrackInv, ReadSemanticRow
  PROVE  TrackInv' /\ [Stream!Next]_(Stream!streamVars)
<1>1. PICK r : r = Head(readers)
 OBVIOUS
<1>2. /\ UNCHANGED fixedVars /\ UNCHANGED <<readers, opened, emitMaterials, calling>>
      /\ UNCHANGED <<sent, lost, answer>> /\ calling /\ ~emitMaterials
      /\ readers # <<>> /\ r \in ChainNames
      /\ row < Len(Table(r)) /\ row' = row + 1
 BY <1>1, ChainIsItsNames DEF ReadSemanticRow, InChain, Current, answerVars
<1>3. stream = "open"
 BY <1>2 DEF StreamInv, GeometryInv, CallsOK
<1>4. ChoiceOK' /\ LinksOK' /\ ObjectsOK' /\ PagedOK' /\ WindowTrack' /\ NonPartOK'
 BY <1>1, <1>2, <1>3, ChainAlone
<1>5. PlaceOK' /\ UNCHANGED Stream!streamVars /\ \A d : Heard(d)' = Heard(d)
 BY <1>2, <1>3, Silence
<1>6. PICK props, mats : props = <<r, "properties">> /\ mats = <<r, "materials">>
 OBVIOUS
<1>7. /\ FixedOK /\ row \in Nat /\ Len(Table(r)) \in Nat
      /\ page \in Seq(Nat) /\ materials \in Seq(Nat)
      /\ Heard(props) \in Nat /\ lists[props] = ListOf(props)
      /\ Fits(ListOf(props), Heard(props), page, Cardinality(Upto(RowsOf(props), row)))
      /\ r \notin {"parts", "surfaces"} => materials = <<>>
      /\ r \in {"parts", "surfaces"} =>
            /\ Heard(mats) \in Nat /\ lists[mats] = ListOf(mats)
            /\ Fits(ListOf(mats), Heard(mats), materials, Cardinality(Upto(RowsOf(mats), row)))
 BY <1>1, <1>2, <1>3, <1>6, ChainAtWork DEF CallPage
<1>8. PICK i \in Nat : i = row
 BY <1>7
<1>9. i < Len(Table(r)) /\ i + 1 \in 1 .. Len(Table(r)) /\ r \in RowReaders
 BY <1>2, <1>7, <1>8 DEF RowReaders
<1>10. /\ page' = IF i + 1 \in RowsOf(props) THEN Append(page, i + 1) ELSE page
       /\ r \in {"parts", "surfaces"} =>
             materials' = IF i + 1 \in RowsOf(mats) THEN Append(materials, i + 1) ELSE materials
       /\ r \notin {"parts", "surfaces"} => materials' = materials
 BY <1>1, <1>2, <1>6, <1>7, <1>8, <1>9, ChainAnswers DEF ReadSemanticRow, Current
<1>11. Fits(ListOf(props), Heard(props), page', Cardinality(Upto(RowsOf(props), i + 1)))
 <2>1. Fits(ListOf(props), Heard(props), page, Cardinality(Upto(RowsOf(props), i)))
  BY <1>7, <1>8
 <2>2. PICK v : v = page'
  OBVIOUS
 <2>3. PICK heard \in Nat : heard = Heard(props)
  BY <1>7
 <2>4. Fits(ListOf(props), heard, v, Cardinality(Upto(RowsOf(props), i + 1)))
  BY <1>6, <1>7, <1>9, <1>10, <2>1, <2>2, <2>3, OneRowOn
 <2> QED BY <2>2, <2>3, <2>4
<1>12. ASSUME r \in {"parts", "surfaces"}
       PROVE  Fits(ListOf(mats), Heard(mats), materials', Cardinality(Upto(RowsOf(mats), i + 1)))
 <2>1. Fits(ListOf(mats), Heard(mats), materials, Cardinality(Upto(RowsOf(mats), i)))
  BY <1>7, <1>8, <1>12
 <2>2. PICK v : v = materials'
  OBVIOUS
 <2>3. PICK heard \in Nat : heard = Heard(mats)
  BY <1>7, <1>12
 <2>4. Fits(ListOf(mats), heard, v, Cardinality(Upto(RowsOf(mats), i + 1)))
  BY <1>6, <1>7, <1>9, <1>10, <1>12, <2>1, <2>2, <2>3, OneRowOn
 <2> QED BY <2>2, <2>3, <2>4
<1>13. ChainOK'
 <2>1. (IF emitMaterials THEN <<>> ELSE CallPage)' = page'
  BY <1>2 DEF CallPage
 <2>2. (IF calling \/ emitMaterials THEN materials ELSE <<>>)' = materials'
  BY <1>2
 <2>3. Heard(props)' = Heard(props) /\ Heard(mats)' = Heard(mats)
  BY <1>5
 <2>4. /\ Fits(lists[props], Heard(props)', (IF emitMaterials THEN <<>> ELSE CallPage)',
               Cardinality(Upto(RowsOf(props), i + 1)))
       /\ r \in {"parts", "surfaces"} =>
             Fits(lists[mats], Heard(mats)',
                  (IF calling \/ emitMaterials THEN materials ELSE <<>>)',
                  Cardinality(Upto(RowsOf(mats), i + 1)))
  BY <1>7, <1>11, <1>12, <2>1, <2>2, <2>3
 <2>5. /\ ~emitMaterials' /\ (r \notin {"parts", "surfaces"} => materials' = <<>>)
       /\ i + 1 \in 0 .. Len(Table(r)) /\ row' = i + 1
  BY <1>2, <1>7, <1>8, <1>9, <1>10
 <2> QED BY <1>1, <1>2, <1>3, <1>6, <2>4, <2>5, ChainOnTrack
<1> QED BY <1>4, <1>5, <1>13 DEF TrackInv, ReadersOnTrack

LEMMA PropertiesGoOn ==
  ASSUME StreamInv, TrackInv, AnswerProperties
  PROVE  TrackInv' /\ [Stream!Next]_(Stream!streamVars)
<1>1. PICK r : r = Head(readers)
 OBVIOUS
<1>2. PICK props, mats : props = <<r, "properties">> /\ mats = <<r, "materials">>
 OBVIOUS
<1>3. /\ UNCHANGED fixedVars /\ UNCHANGED <<readers, opened, row, materials>> /\ calling
      /\ ~emitMaterials /\ readers # <<>> /\ r \in ChainNames /\ page # <<>>
      /\ Answers(props, page) /\ emitMaterials' = (materials # <<>>) /\ ~calling'
 BY <1>1, <1>2, ChainIsItsNames DEF AnswerProperties, InChain, Current, cursorVars, Answers
<1>4. stream = "open"
 BY <1>3 DEF StreamInv, GeometryInv, CallsOK
<1>5. ChoiceOK' /\ LinksOK' /\ ObjectsOK' /\ PagedOK' /\ WindowTrack' /\ NonPartOK'
 BY <1>1, <1>3, <1>4, ChainAlone
<1>6. /\ FixedOK /\ PlaceOK /\ row \in Nat /\ row <= Len(Table(r)) /\ Len(Table(r)) \in Nat
      /\ page \in Seq(Nat) /\ materials \in Seq(Nat) /\ props \in Channels
      /\ Fits(lists[props], Heard(props), page, Cardinality(Upto(RowsOf(props), row)))
      /\ Cardinality(Upto(RowsOf(props), row)) <= Len(lists[props])
      /\ r \notin {"parts", "surfaces"} => materials = <<>>
      /\ r \in {"parts", "surfaces"} =>
            /\ mats \in Channels
            /\ Fits(lists[mats], Heard(mats), materials, Cardinality(Upto(RowsOf(mats), row)))
 BY <1>1, <1>2, <1>3, <1>4, ChainAtWork DEF CallPage
<1>7. PICK met : met = Cardinality(Upto(RowsOf(props), row))
 OBVIOUS
<1>8. /\ Stream!Next /\ PlaceOK' /\ Fits(lists[props], Heard(props)', <<>>, met)
      /\ \A d \in Channels : d # props => Heard(d)' = Heard(d)
 BY <1>1, <1>2, <1>3, <1>4, <1>6, <1>7, ChainAnswers, Delivers
<1>9. ChainOK'
 <2>1. PICK i \in 0 .. Len(Table(r)) : i = row
  BY <1>6
 <2>2. (IF emitMaterials THEN <<>> ELSE CallPage)' = <<>>
  BY <1>3 DEF CallPage
 <2>3. (IF calling \/ emitMaterials THEN materials ELSE <<>>)' = materials
  BY <1>3
 <2>4. Fits(lists[props], Heard(props)', (IF emitMaterials THEN <<>> ELSE CallPage)',
            Cardinality(Upto(RowsOf(props), i)))
  BY <1>7, <1>8, <2>1, <2>2
 <2>5. ASSUME r \in {"parts", "surfaces"}
       PROVE  Fits(lists[mats], Heard(mats)', (IF calling \/ emitMaterials THEN materials ELSE <<>>)',
                   Cardinality(Upto(RowsOf(mats), i)))
  BY <1>2, <1>6, <1>8, <2>1, <2>3, <2>5
 <2>6. /\ emitMaterials' => materials' # <<>> /\ r \in {"parts", "surfaces"}
       /\ calling' /\ r \notin {"parts", "surfaces"} => materials' = <<>>
       /\ row' = i
  BY <1>3, <1>6, <2>1
 <2> QED BY <1>1, <1>2, <1>3, <1>4, <2>4, <2>5, <2>6, ChainOnTrack
<1> QED BY <1>5, <1>8, <1>9 DEF TrackInv, ReadersOnTrack

LEMMA MaterialsGoOn ==
  ASSUME StreamInv, TrackInv, AnswerMaterials
  PROVE  TrackInv' /\ [Stream!Next]_(Stream!streamVars)
<1>1. PICK r : r = Head(readers)
 OBVIOUS
<1>2. PICK props, mats : props = <<r, "properties">> /\ mats = <<r, "materials">>
 OBVIOUS
<1>3. /\ UNCHANGED fixedVars /\ UNCHANGED <<readers, opened, row, materials, page>> /\ calling
      /\ readers # <<>> /\ r \in {"parts", "surfaces"} /\ r \in ChainNames
      /\ emitMaterials \/ (page = <<>> /\ materials # <<>>)
      /\ Answers(mats, materials) /\ emitMaterials' = FALSE /\ ~calling'
 BY <1>1, <1>2 DEF AnswerMaterials, Current, cursorVars, Answers, ChainNames
<1>4. stream = "open"
 BY <1>3 DEF StreamInv, GeometryInv, CallsOK
<1>5. ChoiceOK' /\ LinksOK' /\ ObjectsOK' /\ PagedOK' /\ WindowTrack' /\ NonPartOK'
 BY <1>1, <1>3, <1>4, ChainAlone
<1>6. /\ FixedOK /\ PlaceOK /\ row \in Nat /\ row <= Len(Table(r)) /\ Len(Table(r)) \in Nat
      /\ materials \in Seq(Nat) /\ materials # <<>> /\ props \in Channels /\ mats \in Channels
      /\ Fits(lists[props], Heard(props), <<>>, Cardinality(Upto(RowsOf(props), row)))
      /\ Fits(lists[mats], Heard(mats), materials, Cardinality(Upto(RowsOf(mats), row)))
      /\ Cardinality(Upto(RowsOf(mats), row)) <= Len(lists[mats])
 BY <1>1, <1>2, <1>3, <1>4, ChainAtWork DEF CallPage
<1>7. PICK met : met = Cardinality(Upto(RowsOf(mats), row))
 OBVIOUS
<1>8. /\ Stream!Next /\ PlaceOK' /\ Fits(lists[mats], Heard(mats)', <<>>, met)
      /\ \A d \in Channels : d # mats => Heard(d)' = Heard(d)
 <2>1. "materials" \in KindsOf(r)
  BY <1>3, <1>6, ChainAnswers
 <2>2. Fits(lists[mats], Heard(mats), materials, met) /\ met <= Len(lists[mats])
  BY <1>6, <1>7
 <2>3. /\ UNCHANGED fixedVars /\ UNCHANGED readers /\ readers # <<>> /\ Answers(mats, materials)
       /\ PlaceOK /\ materials \in Seq(Nat) /\ materials # <<>> /\ mats = <<r, "materials">>
  BY <1>2, <1>3, <1>6
 <2> QED BY <1>1, <1>4, <2>1, <2>2, <2>3, Delivers
<1>9. ChainOK'
 <2>1. PICK i \in 0 .. Len(Table(r)) : i = row
  BY <1>6
 <2>2. (IF emitMaterials THEN <<>> ELSE CallPage)' = <<>>
  BY <1>3 DEF CallPage
 <2>3. (IF calling \/ emitMaterials THEN materials ELSE <<>>)' = <<>>
  BY <1>3
 <2>4. Heard(props)' = Heard(props)
  BY <1>2, <1>6, <1>8
 <2>5. /\ Fits(lists[props], Heard(props)', (IF emitMaterials THEN <<>> ELSE CallPage)',
               Cardinality(Upto(RowsOf(props), i)))
       /\ Fits(lists[mats], Heard(mats)', (IF calling \/ emitMaterials THEN materials ELSE <<>>)',
               Cardinality(Upto(RowsOf(mats), i)))
  BY <1>6, <1>7, <1>8, <2>1, <2>2, <2>3, <2>4
 <2>6. ~emitMaterials' /\ ~calling' /\ row' = i
  BY <1>3, <2>1
 <2> QED BY <1>1, <1>2, <1>3, <1>4, <2>5, <2>6, ChainOnTrack
<1> QED BY <1>5, <1>8, <1>9 DEF TrackInv, ReadersOnTrack

LEMMA SkipGoesOn ==
  ASSUME StreamInv, TrackInv, SkipWindow
  PROVE  TrackInv' /\ [Stream!Next]_(Stream!streamVars)
<1>1. /\ UNCHANGED fixedVars /\ UNCHANGED <<readers, opened, row, page>> /\ calling
      /\ UNCHANGED <<materials, emitMaterials>>
      /\ UNCHANGED <<sent, lost, answer, calling>> /\ readers # <<>> /\ Head(readers) \in ChainNames
 BY ChainIsItsNames DEF SkipWindow, InChain, Current, cursorVars, materialVars, answerVars
<1>2. stream = "open"
 BY <1>1 DEF StreamInv, GeometryInv, CallsOK
<1>3. ChoiceOK' /\ LinksOK' /\ ObjectsOK' /\ PagedOK' /\ WindowTrack' /\ NonPartOK'
 BY <1>1, <1>2, ChainAlone
<1>4. PlaceOK' /\ UNCHANGED Stream!streamVars /\ \A d : Heard(d)' = Heard(d)
 BY <1>1, <1>2, Silence
<1>5. ChainOK'
 <2>1. \A c : RowsOf(c)' = RowsOf(c) /\ Table(c)' = Table(c)
  BY <1>1, ListsStay DEF fixedVars
 <2>2. \A q : AtWork(q)' <=> AtWork(q)
  BY <1>1 DEF AtWork, fixedVars
 <2>3. CallPage' = CallPage
  BY <1>1 DEF CallPage
 <2>4. \A c, w, m : OnTrack(c, w, m)' <=> OnTrack(c, w, m)
  BY <1>1, <1>4 DEF OnTrack, fixedVars
 <2>5. \A c : MetBy(c)' = MetBy(c)
  BY <1>1, <2>1 DEF MetBy
 <2> HIDE DEF OnTrack, MetBy, CallPage
 <2> QED BY <1>1, <2>1, <2>2, <2>3, <2>4, <2>5 DEF ChainOK, TrackInv, ReadersOnTrack
<1> QED BY <1>3, <1>4, <1>5 DEF TrackInv, ReadersOnTrack

---------------------------------------------------------------------------
(* The reader of the geometry of the parts.                               *)

\* The reader of the geometry of the parts.
LEMMA WindowAtWork ==
  ASSUME StreamInv, TrackInv, AtWork("geometry"), NEW kind \in KindsOf("geometry"),
         NEW c, c = <<"geometry", kind>>
  PROVE  /\ c \in Channels /\ Heard(c) \in Nat /\ lists[c] = ListOf(c)
         /\ Cardinality(Upto(RowsOf(c), row)) <= Len(lists[c])
         /\ Fits(lists[c], Heard(c), WindowWaits(kind), Cardinality(Upto(RowsOf(c), row)))
         /\ WindowWaits(kind) \in Seq(Nat)
<1>1. FixedOK /\ PlaceOK /\ WindowTrack
 BY DEF StreamInv, WinnersInv, TrackInv, ReadersOnTrack
<1>2. stream = "open" /\ readers # <<>> /\ Head(readers) = "geometry" /\ ~AtWork("attributes")
 BY DEF AtWork
<1>3. c \in Channels
 BY <1>1, <1>2, StageAtWork
<1>4. Heard(c) \in Nat /\ lists[c] = ListOf(c)
 BY <1>1, <1>3, HeardIsNumber, ListsAreSequences DEF PlaceOK
<1>5. row \in 0 .. Len(Table("geometry"))
 BY DEF StreamInv, GeometryInv, CallsOK
<1>6. Cardinality(Upto(RowsOf(c), row)) <= Len(ListOf(c))
 BY <1>1, <1>5, MetWithin DEF RowReaders
<1>7. Fits(lists[c], Heard(c), WindowWaits(kind), Cardinality(Upto(RowsOf(c), row)))
 BY <1>1 DEF WindowTrack, OnTrack, MetBy
<1>8. WindowWaits(kind) \in Seq(Nat)
 BY <1>2, NoneIsSequence DEF StreamInv, GeometryInv, ItemsOK, WindowWaits
<1> QED BY <1>3, <1>4, <1>6, <1>7, <1>8

LEMMA WindowOnTrack ==
  ASSUME StreamInv, TrackInv, At("geometry"), UNCHANGED fixedVars,
         UNCHANGED <<readers, materials, emitMaterials, opened>>, calling' => calling, PlaceOK',
         NEW i, row' = i,
         \A kind \in KindsOf("geometry") : \A c : c = <<"geometry", kind>> =>
            Fits(lists[c], Heard(c)', WindowWaits(kind)', Cardinality(Upto(RowsOf(c), i)))
  PROVE  TrackInv'
<1>1. stream = "open" /\ readers # <<>> /\ Head(readers) = "geometry" /\ calling
 BY DEF At, StreamInv, GeometryInv, CallsOK
<1>2. "geometry" \notin ChainNames /\ "geometry" \notin PagedReaders
 BY DEF ChainNames, PagedReaders
<1>3. ChoiceOK' /\ LinksOK' /\ ObjectsOK' /\ ChainOK' /\ PagedOK' /\ NonPartOK'
 BY <1>1, <1>2, ChoiceStays, OthersIdle DEF TrackInv
<1>4. WindowTrack'
 <2>1. /\ \A c : RowsOf(c)' = RowsOf(c)
       /\ lists' = lists /\ KindsOf("geometry")' = KindsOf("geometry")
  BY ListsStay DEF fixedVars, KindsOf
 <2>2. ASSUME NEW kind \in KindsOf("geometry"), NEW c, c = <<"geometry", kind>>
       PROVE  OnTrack(<<"geometry", kind>>, WindowWaits(kind), MetBy(<<"geometry", kind>>))'
  BY <2>1, <2>2 DEF MetBy, OnTrack
 <2> HIDE DEF OnTrack, MetBy, WindowWaits, KindsOf
 <2> QED BY <2>1, <2>2 DEF WindowTrack
<1> QED BY <1>3, <1>4 DEF TrackInv, ReadersOnTrack

\* A turn that neither answers nor adds to what waits.
LEMMA WindowIsSilent ==
  ASSUME StreamInv, TrackInv, At("geometry"), UNCHANGED fixedVars, UNCHANGED cursorVars,
         UNCHANGED materialVars, UNCHANGED answerVars, UNCHANGED opened,
         \A kind \in KindsOf("geometry") : WindowWaits(kind)' = WindowWaits(kind)
  PROVE  TrackInv' /\ [Stream!Next]_(Stream!streamVars)
<1>1. /\ stream = "open" /\ readers # <<>> /\ AtWork("geometry")
      /\ UNCHANGED <<readers, row, materials, emitMaterials, calling, sent, lost, answer>>
 BY DEF At, AtWork, StreamInv, GeometryInv, CallsOK, cursorVars, materialVars, answerVars
<1>2. PlaceOK' /\ UNCHANGED Stream!streamVars /\ \A d : Heard(d)' = Heard(d)
 BY <1>1, Silence
<1>3. PICK i : i = row
 OBVIOUS
<1>4. ASSUME NEW kind \in KindsOf("geometry"), NEW c, c = <<"geometry", kind>>
      PROVE  Fits(lists[c], Heard(c)', WindowWaits(kind)', Cardinality(Upto(RowsOf(c), i)))
 <2>1. Fits(lists[c], Heard(c), WindowWaits(kind), Cardinality(Upto(RowsOf(c), row)))
  BY <1>1, <1>4, WindowAtWork
 <2>2. Heard(c)' = Heard(c) /\ WindowWaits(kind)' = WindowWaits(kind)
  BY <1>2
 <2> HIDE DEF WindowWaits
 <2> QED BY <1>3, <2>1, <2>2
<1>5. TrackInv'
 <2> HIDE DEF WindowWaits
 <2> QED BY <1>1, <1>2, <1>3, <1>4, WindowOnTrack
<1> QED BY <1>2, <1>5

\* An answer with all that waits of one kind.
LEMMA WindowAnswers ==
  ASSUME StreamInv, TrackInv, At("geometry"), UNCHANGED fixedVars, UNCHANGED cursorVars,
         UNCHANGED materialVars, UNCHANGED opened, NEW kind \in KindsOf("geometry"),
         NEW c, c = <<"geometry", kind>>, NEW items, items = WindowWaits(kind), items # <<>>,
         Answers(c, items), WindowWaits(kind)' = <<>>,
         \A k \in KindsOf("geometry") : k # kind => WindowWaits(k)' = WindowWaits(k)
  PROVE  TrackInv' /\ [Stream!Next]_(Stream!streamVars)
<1>1. /\ stream = "open" /\ readers # <<>> /\ AtWork("geometry") /\ Head(readers) = "geometry"
      /\ UNCHANGED <<readers, row, materials, emitMaterials>> /\ calling /\ PlaceOK
 BY DEF At, AtWork, StreamInv, GeometryInv, CallsOK, cursorVars, materialVars, TrackInv
<1>2. PICK i : i = row
 OBVIOUS
<1>3. PICK met : met = Cardinality(Upto(RowsOf(c), i))
 OBVIOUS
<1>4. /\ c \in Channels /\ items \in Seq(Nat) /\ Fits(lists[c], Heard(c), items, met)
      /\ met <= Len(lists[c])
 BY <1>1, <1>2, <1>3, WindowAtWork
<1>5. /\ Stream!Next /\ PlaceOK' /\ Fits(lists[c], Heard(c)', <<>>, met)
      /\ \A d \in Channels : d # c => Heard(d)' = Heard(d)
      /\ ~calling'
 BY <1>1, <1>4, Delivers
<1>6. ASSUME NEW k \in KindsOf("geometry"), NEW d, d = <<"geometry", k>>
      PROVE  Fits(lists[d], Heard(d)', WindowWaits(k)', Cardinality(Upto(RowsOf(d), i)))
 <2>1. CASE k = kind
  BY <1>3, <1>5, <1>6, <2>1
 <2>2. CASE k # kind
  <3>1. d \in Channels /\ d # c
   BY <1>1, <1>6, <2>2, WindowAtWork
  <3>2. Heard(d)' = Heard(d) /\ WindowWaits(k)' = WindowWaits(k)
   BY <1>5, <2>2, <3>1
  <3>3. Fits(lists[d], Heard(d), WindowWaits(k), Cardinality(Upto(RowsOf(d), row)))
   BY <1>1, <1>6, WindowAtWork
  <3> HIDE DEF WindowWaits
  <3> QED BY <1>2, <3>2, <3>3
 <2> QED BY <2>1, <2>2
<1>7. TrackInv'
 <2> HIDE DEF WindowWaits
 <2> QED BY <1>1, <1>2, <1>5, <1>6, WindowOnTrack
<1> QED BY <1>5, <1>7

\* The window's reader begins, goes on without an answer, and answers.
LEMMA WindowTurns ==
  ASSUME StreamInv, TrackInv, NothingPending \/ StartWindow \/ EmptyWindow
  PROVE  TrackInv' /\ [Stream!Next]_(Stream!streamVars)
<1>1. /\ At("geometry") /\ UNCHANGED fixedVars /\ UNCHANGED cursorVars /\ UNCHANGED materialVars
      /\ UNCHANGED answerVars /\ UNCHANGED opened
 BY DEF NothingPending, StartWindow, EmptyWindow, AtGeometry, WindowDone
<1>2. KindsOf("geometry") = {"definition_geometry", "meshes", "diagnostics"}
 BY DEF KindsOf
<1>3. EmitsDefinitions' <=> EmitsDefinitions
 BY <1>1, ListsStay DEF fixedVars
<1>4. pending \in 1 .. 3 /\ decoding \in BOOLEAN /\ (decoding => pending = 1)
 BY DEF StreamInv, GeometryInv, CallsOK
<1>5. \A kind \in KindsOf("geometry") : WindowWaits(kind)' = WindowWaits(kind)
 <2>1. CASE NothingPending
  BY <1>2, <1>4, <2>1 DEF NothingPending, WindowWaits
 <2>2. CASE StartWindow
  BY <1>2, <1>4, <2>2 DEF StartWindow, WindowWaits
 <2>3. CASE EmptyWindow
  BY <1>2, <1>4, <2>3 DEF EmptyWindow, WindowDone, WindowWaits
 <2> QED BY <2>1, <2>2, <2>3
<1> QED BY <1>1, <1>5, WindowIsSilent

LEMMA WindowGoesOut ==
  ASSUME StreamInv, TrackInv,
         \/ PendingMeshes \/ PendingDiagnostics
         \/ AnswerDefinitions \/ AnswerMeshes \/ AnswerDiagnostics
  PROVE  TrackInv' /\ [Stream!Next]_(Stream!streamVars)
<1>1. /\ At("geometry") /\ UNCHANGED fixedVars /\ UNCHANGED cursorVars /\ UNCHANGED materialVars
      /\ UNCHANGED opened /\ UNCHANGED <<page, meshes, diagnostics>>
 BY DEF PendingMeshes, PendingDiagnostics, AnswerDefinitions, AnswerMeshes, AnswerDiagnostics,
        AtGeometry, WindowDone
<1>2. KindsOf("geometry") = {"definition_geometry", "meshes", "diagnostics"}
 BY DEF KindsOf
<1>3. EmitsDefinitions' <=> EmitsDefinitions
 BY <1>1, ListsStay DEF fixedVars
<1>4. pending \in 1 .. 3 /\ decoding \in BOOLEAN /\ (decoding => pending = 1)
 BY DEF StreamInv, GeometryInv, CallsOK
<1>5. CASE PendingMeshes
 BY <1>1, <1>2, <1>5, WindowAnswers DEF PendingMeshes, WindowWaits
<1>6. CASE PendingDiagnostics
 BY <1>1, <1>2, <1>4, <1>6, WindowAnswers DEF PendingDiagnostics, WindowWaits
<1>7. CASE AnswerDefinitions
 BY <1>1, <1>2, <1>7, WindowAnswers DEF AnswerDefinitions, WindowDone, WindowWaits
<1>8. CASE AnswerMeshes
 <2>1. /\ decoding /\ ~decoding' /\ (EmitsDefinitions => page = <<>>) /\ meshes # <<>>
       /\ pending = 1 /\ pending' = 2 /\ Answers(<<"geometry", "meshes">>, meshes)
  BY <1>4, <1>8 DEF AnswerMeshes, WindowDone
 <2>2. /\ WindowWaits("meshes") = meshes /\ WindowWaits("meshes")' = <<>>
       /\ \A k \in KindsOf("geometry") : k # "meshes" => WindowWaits(k)' = WindowWaits(k)
  BY <1>1, <1>2, <1>3, <2>1 DEF WindowWaits
 <2>3. "meshes" \in KindsOf("geometry")
  BY <1>2
 <2> QED BY <1>1, <2>1, <2>2, <2>3, WindowAnswers
<1>9. CASE AnswerDiagnostics
 <2>1. /\ decoding /\ ~decoding' /\ (EmitsDefinitions => page = <<>>) /\ meshes = <<>>
       /\ diagnostics # <<>> /\ pending = 1 /\ pending' = 3
       /\ Answers(<<"geometry", "diagnostics">>, diagnostics)
  BY <1>4, <1>9 DEF AnswerDiagnostics, WindowDone
 <2>2. /\ WindowWaits("diagnostics") = diagnostics /\ WindowWaits("diagnostics")' = <<>>
       /\ \A k \in KindsOf("geometry") : k # "diagnostics" => WindowWaits(k)' = WindowWaits(k)
  BY <1>1, <1>2, <1>3, <2>1 DEF WindowWaits
 <2>3. "diagnostics" \in KindsOf("geometry")
  BY <1>2
 <2> QED BY <1>1, <2>1, <2>2, <2>3, WindowAnswers
<1> QED BY <1>5, <1>6, <1>7, <1>8, <1>9

\* A part comes to an item where it is added to the window.
LEMMA PartGoesOn ==
  ASSUME StreamInv, TrackInv, ReadPart
  PROVE  TrackInv' /\ [Stream!Next]_(Stream!streamVars)
<1> DEFINE n == Len(Table("geometry"))
<1>1. /\ At("geometry") /\ UNCHANGED fixedVars /\ decoding /\ decoding' /\ pending' = pending
      /\ UNCHANGED <<readers, materials, emitMaterials, opened, sent, lost, answer, calling>>
      /\ row < n /\ row' = row + 1
 BY DEF ReadPart, AtGeometry, materialVars, answerVars
<1>2. /\ stream = "open" /\ readers # <<>> /\ AtWork("geometry") /\ FixedOK /\ pending = 1
      /\ row \in 0 .. n /\ n \in Nat
 BY <1>1, TablesAreSequences DEF StreamInv, WinnersInv, RowReaders, At, AtWork, GeometryInv,
    CallsOK
<1>3. PlaceOK' /\ UNCHANGED Stream!streamVars /\ \A d : Heard(d)' = Heard(d)
 BY <1>1, <1>2, Silence
<1>4. PICK i \in Nat : i = row /\ i < n
 BY <1>1, <1>2
<1>5. PICK j : j = i + 1 /\ j \in 1 .. n
 BY <1>2, <1>4
<1>6. PICK r : r = Table("geometry")[j]
 OBVIOUS
<1>7. r.attribute \in BOOLEAN /\ r.geometry \in Shapes
 BY <1>2, <1>5, <1>6, TablesAreSequences DEF RowReaders
<1> DEFINE shape == IF ~r.attribute /\ r.geometry # "operative" THEN "frameless" ELSE r.geometry
           taken == Selected(j) /\ shape \notin Passed
           reports == shape = "frameless" \/ (EmitsMeshes /\ shape \in {"undrawn", "omitting"})
           Adds(list, condition) == IF taken /\ condition THEN Append(list, j) ELSE list
<1>8. /\ page' = Adds(page, shape \in Framed)
      /\ meshes' = Adds(meshes, EmitsMeshes /\ shape \in {"drawn", "omitting"})
      /\ diagnostics' = Adds(diagnostics, reports)
 BY <1>4, <1>5, <1>6 DEF ReadPart
<1>9. /\ EmitsDefinitions =>
            (taken /\ shape \in Framed <=> GeometryComes("definition_geometry", j))
      /\ ~EmitsDefinitions => ~GeometryComes("definition_geometry", j)
      /\ taken /\ EmitsMeshes /\ shape \in {"drawn", "omitting"} <=> GeometryComes("meshes", j)
      /\ taken /\ reports <=> GeometryComes("diagnostics", j)
 <2>1. /\ Frameless(j) <=> Selected(j)
              /\ (r.geometry = "frameless" \/ (~r.attribute /\ r.geometry # "operative"))
       /\ IsFramed(j) <=> Selected(j) /\ r.attribute /\ r.geometry \in Framed
  BY <1>6 DEF Frameless, IsFramed
 <2>2. /\ GeometryComes("definition_geometry", j) <=> EmitsDefinitions /\ IsFramed(j)
       /\ GeometryComes("meshes", j) <=> EmitsMeshes /\ IsFramed(j) /\ r.geometry # "undrawn"
       /\ GeometryComes("diagnostics", j)
             <=> Frameless(j) \/ (EmitsMeshes /\ IsFramed(j) /\ r.geometry # "drawn")
  BY <1>6 DEF GeometryComes
 <2> HIDE DEF Selected, EmitsMeshes, EmitsDefinitions, Frameless, IsFramed, GeometryComes
 <2>3. CASE r.attribute
  BY <1>7, <2>1, <2>2, <2>3 DEF Framed, Passed, Shapes
 <2>4. CASE ~r.attribute
  BY <1>7, <2>1, <2>2, <2>4 DEF Framed, Passed, Shapes
 <2> QED BY <1>7, <2>3, <2>4
<1>10. \A kind : j \in RowsOf(<<"geometry", kind>>) <=> GeometryComes(kind, j)
 BY <1>2, <1>5, TablesAreSequences DEF RowReaders, RowsOf
<1> HIDE DEF shape, taken, reports
<1>11. ASSUME NEW kind \in KindsOf("geometry"), NEW c, c = <<"geometry", kind>>
       PROVE  WindowWaits(kind)'
                 = IF j \in RowsOf(c) THEN Append(WindowWaits(kind), j) ELSE WindowWaits(kind)
 <2>1. kind \in {"definition_geometry", "meshes", "diagnostics"}
  BY DEF KindsOf
 <2>2. j \in RowsOf(c) <=> GeometryComes(kind, j)
  BY <1>10, <1>11
 <2>3. EmitsDefinitions' <=> EmitsDefinitions
  BY <1>1, ListsStay DEF fixedVars
 <2>4. CASE kind = "definition_geometry"
  BY <1>1, <1>8, <1>9, <2>2, <2>3, <2>4 DEF WindowWaits
 <2>5. CASE kind = "meshes"
  BY <1>1, <1>2, <1>8, <1>9, <2>2, <2>5 DEF WindowWaits
 <2>6. CASE kind = "diagnostics"
  BY <1>1, <1>2, <1>8, <1>9, <2>2, <2>6 DEF WindowWaits
 <2> QED BY <2>1, <2>4, <2>5, <2>6
<1>12. ASSUME NEW kind \in KindsOf("geometry"), NEW c, c = <<"geometry", kind>>
       PROVE  Fits(lists[c], Heard(c)', WindowWaits(kind)', Cardinality(Upto(RowsOf(c), j)))
 <2>1. PICK w \in Seq(Nat) : w = WindowWaits(kind)
  BY <1>2, <1>12, WindowAtWork
 <2>2. PICK v : v = WindowWaits(kind)'
  OBVIOUS
 <2>3. PICK heard \in Nat : heard = Heard(c)
  BY <1>2, <1>12, WindowAtWork
 <2>4. Fits(ListOf(c), heard, w, Cardinality(Upto(RowsOf(c), i))) /\ lists[c] = ListOf(c)
  BY <1>2, <1>4, <1>12, <2>1, <2>3, WindowAtWork
 <2>5. v = IF i + 1 \in RowsOf(c) THEN Append(w, i + 1) ELSE w
  BY <1>5, <1>11, <1>12, <2>1, <2>2
 <2>6. i < Len(Table("geometry")) /\ "geometry" \in RowReaders
  BY <1>4 DEF RowReaders
 <2>7. Fits(ListOf(c), heard, v, Cardinality(Upto(RowsOf(c), i + 1)))
  BY <1>2, <1>12, <2>4, <2>5, <2>6, OneRowOn
 <2>8. Heard(c)' = heard
  BY <1>3, <2>3
 <2> QED BY <1>5, <2>2, <2>4, <2>7, <2>8
<1>13. TrackInv'
 <2>1. row' = j
  BY <1>1, <1>4, <1>5
 <2> HIDE DEF WindowWaits
 <2> QED BY <1>1, <1>3, <1>12, <2>1, WindowOnTrack
<1> QED BY <1>3, <1>13

---------------------------------------------------------------------------
(* The calls, and the way from one reader to the next.                    *)

\* Nobody is at work; or a reader begins that has not been heard yet.
Begun == emitMaterials \/ (calling /\ ~(page = <<>> /\ materials = <<>>))

Idle ==
  /\ \A r : ~AtWork(r)
  /\ ~emitMaterials /\ (calling => materials = <<>>)
  /\ opened => "nonpart" \notin model.unopenable

Fresh ==
  /\ FixedOK /\ lists = [c \in Channels |-> ListOf(c)]
  /\ stream = "open" /\ readers # <<>> /\ Head(readers) \in Readers
  /\ row = 0 /\ source = 1 /\ ~Begun /\ ~decoding /\ pending = 3
  /\ opened => "nonpart" \notin model.unopenable
  /\ \A k \in KindsOf(Head(readers)) : \A c : c = <<Head(readers), k>> =>
        c \in Channels /\ Heard(c) = 0

LEMMA IdleIsOnTrack == Idle => ReadersOnTrack
BY DEF Idle, LinksOK, ObjectsOK, PagedOK, WindowTrack, ChainOK, NonPartOK, ReadersOnTrack

LEMMA FreshIsOnTrack == Fresh => ReadersOnTrack
<1> SUFFICES ASSUME Fresh PROVE ReadersOnTrack
 OBVIOUS
<1>1. PICK r \in Readers : r = Head(readers)
 BY DEF Fresh
<1>2. \A q : AtWork(q) <=> q = r
 BY <1>1 DEF AtWork, Fresh
<1>3. FixedOK /\ row = 0 /\ source = 1 /\ ~decoding /\ pending = 3 /\ ~emitMaterials
 BY DEF Fresh, Begun
<1>4. CallPage = <<>> /\ (calling => materials = <<>>)
 BY DEF Fresh, Begun, CallPage
<1>5. ASSUME NEW k \in KindsOf(r), NEW c, c = <<r, k>>
      PROVE  c \in Channels /\ Heard(c) = 0 /\ lists[c] = ListOf(c)
 BY <1>1, <1>5 DEF Fresh
<1>6. \A list : Fits(list, 0, <<>>, 0)
 BY FitsNone
<1>7. \A k \in KindsOf(r) : OnTrack(<<r, k>>, <<>>, 0)
 BY <1>5, <1>6 DEF OnTrack
<1>8. ASSUME r \in RowReaders, NEW k, NEW c, c = <<r, k>>
      PROVE  MetBy(c) = 0 /\ 0 <= Len(Table(r))
 BY <1>3, <1>8, TablesAreSequences, MetWithin DEF MetBy
<1>9. LinksOK
 BY <1>2, <1>3, <1>4, <1>7, CountOfLinks DEF LinksOK, KindsOf, Channel
<1>10. ObjectsOK
 BY <1>2, <1>3, <1>4, <1>7, TablesAreSequences DEF ObjectsOK, KindsOf
<1>11. ChainOK
 <2>1. ASSUME NEW q \in ToSet(Chain), AtWork(q)
       PROVE  /\ row <= Len(Table(q))
              /\ OnTrack(<<q, "properties">>, IF emitMaterials THEN <<>> ELSE CallPage,
                         MetBy(<<q, "properties">>))
              /\ q \in {"parts", "surfaces"} =>
                    OnTrack(<<q, "materials">>,
                            IF calling \/ emitMaterials THEN materials ELSE <<>>,
                            MetBy(<<q, "materials">>))
  <3>1. q = r /\ r \in ChainNames /\ r \in RowReaders
   BY <1>2, <2>1, ChainIsItsNames DEF RowReaders
  <3>2. /\ "properties" \in KindsOf(r)
        /\ r \in {"parts", "surfaces"} => "materials" \in KindsOf(r)
   BY <1>3, <3>1, ChainAnswers
  <3>3. /\ MetBy(<<r, "properties">>) = 0 /\ MetBy(<<r, "materials">>) = 0
        /\ 0 <= Len(Table(r))
   BY <1>8, <3>1
  <3> HIDE DEF OnTrack, MetBy, CallPage
  <3> QED BY <1>3, <1>4, <1>7, <3>1, <3>2, <3>3
 <2>2. ~emitMaterials /\ (calling => materials = <<>>)
  BY <1>3, <1>4
 <2> HIDE DEF OnTrack, MetBy, CallPage
 <2> QED BY <2>1, <2>2 DEF ChainOK
<1>12. PagedOK
 BY <1>2, <1>3, <1>5, TablesAreSequences DEF PagedOK, KindsOf, PagedReaders
<1>13. WindowTrack
 <2> SUFFICES ASSUME r = "geometry", NEW k \in KindsOf("geometry")
              PROVE  OnTrack(<<"geometry", k>>, WindowWaits(k), MetBy(<<"geometry", k>>))
  BY <1>2 DEF WindowTrack
 <2>1. WindowWaits(k) = <<>>
  BY <1>3 DEF WindowWaits
 <2>2. MetBy(<<"geometry", k>>) = 0
  BY <1>8 DEF RowReaders
 <2> HIDE DEF OnTrack, MetBy, WindowWaits
 <2> QED BY <1>7, <2>1, <2>2
<1>14. NonPartOK
 <2>1. opened => "nonpart" \notin model.unopenable
  BY DEF Fresh
 <2>2. ASSUME r = "nonpart"
       PROVE  /\ Heard(<<"nonpart", "opening">>) = 0
              /\ 0 <= NonPartCount(NonPartKinds[1])
              /\ \A k \in 1 .. 3 : Heard(<<"nonpart", NonPartKinds[k]>>) = 0
  <3>1. NonPartCount(NonPartKinds[1]) \in Nat
   <4>1. NonPartKinds[1] \in KindsOf("nonpart")
    BY KindsOfNonPart
   <4> QED BY <1>3, <4>1, ListOfNonPart
  <3> QED BY <1>5, <2>2, <3>1, KindsOfNonPart
 <2> HIDE DEF NonPartCount, Heard
 <2> QED BY <1>2, <1>3, <2>1, <2>2 DEF NonPartOK
<1> QED BY <1>9, <1>10, <1>11, <1>12, <1>13, <1>14 DEF ReadersOnTrack

LEMMA AnyIsOnTrackNext == Idle' \/ Fresh' => ReadersOnTrack'
 BY IdleIsOnTrack, FreshIsOnTrack, PTL

\* Where the readers and what was heard stay, so do their places.
LEMMA PlaceStays ==
  ASSUME StreamInv, PlaceOK, UNCHANGED fixedVars, UNCHANGED <<readers, sent, lost>>
  PROVE  PlaceOK' /\ \A d : Heard(d)' = Heard(d)
<1>1. /\ UNCHANGED <<model, request, attributes, lists, stream, readers, lost>>
      /\ StageReaders' = StageReaders /\ Channels' = Channels /\ \A c : ListOf(c)' = ListOf(c)
 BY ListsStay DEF fixedVars
<1>2. Done' = Done
 BY <1>1 DEF Done
<1>3. \A d : Heard(d)' = Heard(d)
 BY DEF Heard
<1>4. lists' = [c \in Channels' |-> ListOf(c)']
 BY <1>1 DEF PlaceOK
<1>5. \A r : KindsOf(r)' = KindsOf(r)
 BY DEF KindsOf
<1> HIDE DEF Done, StageReaders, Channels, Heard, KindsOf
<1>6. ASSUME stream' # "open", NEW c \in Channels'
      PROVE  Heard(c)' = 0
 <2>1. PICK d \in Channels : d = c
  BY <1>1
 <2>2. Heard(d)' = Heard(d) /\ Heard(d) = 0
  BY <1>1, <1>3, <1>6 DEF PlaceOK
 <2> QED BY <2>1, <2>2
<1>7. ASSUME stream' \in {"choosing", "open"}
      PROVE  /\ Len(readers') <= Len(StageReaders')
             /\ \A i \in 1 .. Len(readers') : readers'[i] = StageReaders'[Done' + i]
             /\ \A j \in 1 .. Done' : \A k \in KindsOf(StageReaders[j])' :
                   Heard(<<StageReaders[j], k>>)' = Len(lists[<<StageReaders[j], k>>])'
             /\ \A j \in (Done + 2 .. Len(StageReaders))' : \A k \in KindsOf(StageReaders[j])' :
                   Heard(<<StageReaders[j], k>>)' = 0
 <2>1. stream \in {"choosing", "open"}
  BY <1>1, <1>7
 <2>2. ASSUME NEW j \in 1 .. Done', NEW k \in KindsOf(StageReaders[j])'
       PROVE  Heard(<<StageReaders[j], k>>)' = Len(lists[<<StageReaders[j], k>>])'
  <3>1. j \in 1 .. Done /\ k \in KindsOf(StageReaders[j]) /\ StageReaders[j]' = StageReaders[j]
   BY <1>1, <1>2, <1>5
  <3>2. PICK d : d = <<StageReaders[j], k>>
   OBVIOUS
  <3>3. Heard(d) = Len(lists[d])
   BY <2>1, <3>1, <3>2 DEF PlaceOK
  <3>4. <<StageReaders[j], k>>' = d /\ Heard(d)' = Len(lists'[d])
   BY <1>1, <1>3, <3>1, <3>2, <3>3
  <3> QED BY <3>4
 <2>3. ASSUME NEW j \in (Done + 2 .. Len(StageReaders))', NEW k \in KindsOf(StageReaders[j])'
       PROVE  Heard(<<StageReaders[j], k>>)' = 0
  <3>1. /\ j \in Done + 2 .. Len(StageReaders) /\ k \in KindsOf(StageReaders[j])
        /\ StageReaders[j]' = StageReaders[j]
   BY <1>1, <1>2, <1>5
  <3>2. PICK d : d = <<StageReaders[j], k>>
   OBVIOUS
  <3>3. Heard(d) = 0
   BY <2>1, <3>1, <3>2 DEF PlaceOK
  <3>4. <<StageReaders[j], k>>' = d /\ Heard(d)' = 0
   BY <1>1, <1>3, <3>1, <3>2, <3>3
  <3> QED BY <3>4
 <2>4. \A i \in 1 .. Len(readers') : readers'[i] = StageReaders'[Done' + i]
  BY <1>1, <1>2, <2>1 DEF PlaceOK
 <2>5. Len(readers') <= Len(StageReaders')
  BY <1>1, <2>1 DEF PlaceOK
 <2> QED BY <2>2, <2>3, <2>4, <2>5
<1>8. /\ lost' \in Nat /\ (stream' = "choosing" => readers' = StageReaders')
 BY <1>1 DEF PlaceOK
<1>9. PlaceOK'
 BY <1>4, <1>6, <1>7, <1>8 DEF PlaceOK
<1> QED BY <1>3, <1>9

\* Where nothing is read, nothing waits anew and nothing is answered, all is as it was.
LEMMA WaitingStays ==
  ASSUME StreamInv, TrackInv, UNCHANGED fixedVars, UNCHANGED geometryVars,
         UNCHANGED <<readers, row, source, emitMaterials, opened, answer, sent, lost>>,
         CallPage' = CallPage, decoding => page' = page,
         NEW w, w = IF calling \/ emitMaterials THEN materials ELSE <<>>,
         (IF calling \/ emitMaterials THEN materials ELSE <<>>)' = w
  PROVE  TrackInv' /\ [Stream!Next]_(Stream!streamVars)
<1>1. PlaceOK /\ ReadersOnTrack
 BY DEF TrackInv
<1>2. PlaceOK' /\ \A d : Heard(d)' = Heard(d)
 BY <1>1, PlaceStays
<1>3. UNCHANGED Stream!streamVars
 BY <1>1, <1>2, SilenceIsStutter DEF fixedVars
<1>4. ChoiceOK'
 BY DEF ChoiceOK, TrackInv, fixedVars
<1>5. (\A q : AtWork(q)' <=> AtWork(q)) /\ UNCHANGED <<lists, model, decoding, pending>>
 BY DEF AtWork, fixedVars, geometryVars
<1>6. /\ \A c : RowsOf(c)' = RowsOf(c) /\ Table(c)' = Table(c)
      /\ \A s, r : PromisedMet(s, r)' = PromisedMet(s, r)
      /\ \A k : NonPartCount(k)' = NonPartCount(k)
 BY ListsStay DEF fixedVars
<1>7. \A c, l, m : OnTrack(c, l, m)' <=> OnTrack(c, l, m)
 BY <1>2, <1>5 DEF OnTrack
<1>8. \A c : MetBy(c)' = MetBy(c)
 BY <1>6 DEF MetBy
<1>9. \A k : WindowWaits(k)' = WindowWaits(k)
 BY <1>5, ListsStay DEF fixedVars, WindowWaits, geometryVars
<1>10. KindsOf("geometry")' = KindsOf("geometry")
 BY DEF KindsOf
<1> HIDE DEF OnTrack, MetBy, WindowWaits, CallPage, Heard, KindsOf
<1>11. LinksOK'
 <2>1. Cardinality(PromisedMet(source, row))' = Cardinality(PromisedMet(source, row))
  BY <1>1, <1>6 DEF PromisedMet, PromisedRows
 <2>2. LinksOK
  BY <1>1 DEF ReadersOnTrack
 <2>3. PICK p, m : p = CallPage /\ m = Cardinality(PromisedMet(source, row))
  OBVIOUS
 <2>4. AtWork("attributes") => OnTrack(Channel, p, m)
  BY <2>2, <2>3 DEF LinksOK
 <2>5. AtWork("attributes")' => OnTrack(Channel, p, m)'
  BY <1>5, <1>7, <2>4
 <2>6. CallPage' = p /\ Cardinality(PromisedMet(source, row))' = m
  BY <2>1, <2>3
 <2>7. AtWork("attributes")' => OnTrack(Channel, CallPage, Cardinality(PromisedMet(source, row)))'
  BY <2>5, <2>6 DEF OnTrack
 <2> QED BY <2>7 DEF LinksOK
<1>12. ObjectsOK'
 <2>1. PICK p, i : p = CallPage /\ i = row
  OBVIOUS
 <2>2. AtWork("identities") => i <= Len(Table("identities"))
                               /\ OnTrack(<<"identities", "objects">>, p, i)
  BY <1>1, <2>1 DEF ReadersOnTrack, ObjectsOK
 <2>3. AtWork("identities")' => OnTrack(<<"identities", "objects">>, p, i)'
  BY <1>5, <1>7, <2>2
 <2>4. CallPage' = p /\ row' = i
  BY <2>1
 <2>5. AtWork("identities")' => row' <= Len(Table("identities"))'
                                /\ OnTrack(<<"identities", "objects">>, CallPage, row)'
  BY <1>5, <1>6, <2>2, <2>3, <2>4 DEF OnTrack
 <2> QED BY <2>5 DEF ObjectsOK
<1>13. ChainOK'
 <2>1. ChainOK
  BY <1>1 DEF ReadersOnTrack
 <2>2. emitMaterials \in BOOLEAN
  BY DEF StreamInv, GeometryInv, ItemsOK
 <2>3. PICK p : p = IF emitMaterials THEN <<>> ELSE CallPage
  OBVIOUS
 <2>4. (IF emitMaterials THEN <<>> ELSE CallPage)' = p
  BY <2>3
 <2>5. ASSUME NEW r \in ToSet(Chain), AtWork(r)'
       PROVE  /\ row' <= Len(Table(r))'
              /\ OnTrack(<<r, "properties">>, IF emitMaterials THEN <<>> ELSE CallPage,
                         MetBy(<<r, "properties">>))'
              /\ r \in {"parts", "surfaces"} =>
                    OnTrack(<<r, "materials">>,
                            IF calling \/ emitMaterials THEN materials ELSE <<>>,
                            MetBy(<<r, "materials">>))'
  <3>1. AtWork(r)
   BY <1>5, <2>5
  <3>2. PICK props, mats : props = <<r, "properties">> /\ mats = <<r, "materials">>
   OBVIOUS
  <3>3. PICK m, n : m = MetBy(props) /\ n = MetBy(mats)
   OBVIOUS
  <3>4. /\ row <= Len(Table(r)) /\ OnTrack(props, p, m)
        /\ r \in {"parts", "surfaces"} => OnTrack(mats, w, n)
   BY <2>1, <2>3, <3>1, <3>2, <3>3 DEF ChainOK
  <3>5. OnTrack(props, p, m)' /\ (r \in {"parts", "surfaces"} => OnTrack(mats, w, n)')
   BY <1>7, <3>4
  <3>6. MetBy(props)' = m /\ MetBy(mats)' = n
   BY <1>8, <3>3
  <3>7. row' <= Len(Table(r))'
   BY <1>1, <1>6, <3>4
  <3> QED BY <2>4, <3>2, <3>5, <3>6, <3>7 DEF OnTrack
 <2>6. /\ emitMaterials => materials # <<>> /\ (AtWork("parts") \/ AtWork("surfaces"))
       /\ calling /\ ~AtWork("parts") /\ ~AtWork("surfaces") => materials = <<>>
  BY <2>1 DEF ChainOK
 <2>7. /\ emitMaterials' => materials' # <<>> /\ (AtWork("parts") \/ AtWork("surfaces"))'
       /\ (calling /\ ~AtWork("parts") /\ ~AtWork("surfaces") => materials = <<>>)'
  BY <1>5, <2>6
 <2> QED BY <2>5, <2>6, <2>7 DEF ChainOK
<1>14. PagedOK'
 <2>1. ASSUME NEW r \in PagedReaders, AtWork(r)'
       PROVE  row' <= Len(Table(r))' /\ Heard(<<r, r>>)' = row'
  <3>1. row <= Len(Table(r)) /\ Heard(<<r, r>>) = row
   BY <1>1, <1>5, <2>1 DEF ReadersOnTrack, PagedOK
  <3>2. PICK c : c = <<r, r>>
   OBVIOUS
  <3>3. Heard(c)' = row
   BY <1>2, <3>1, <3>2
  <3> QED BY <1>1, <1>6, <3>1, <3>2, <3>3
 <2> QED BY <2>1 DEF PagedOK
<1>15. WindowTrack'
 <2>1. ASSUME AtWork("geometry")', NEW kind \in KindsOf("geometry")
       PROVE  OnTrack(<<"geometry", kind>>, WindowWaits(kind), MetBy(<<"geometry", kind>>))'
  <3>1. PICK c, l, m : c = <<"geometry", kind>> /\ l = WindowWaits(kind) /\ m = MetBy(c)
   OBVIOUS
  <3>2. OnTrack(c, l, m)
   BY <1>1, <1>5, <2>1, <3>1 DEF ReadersOnTrack, WindowTrack
  <3>3. OnTrack(c, l, m)' /\ WindowWaits(kind)' = l /\ MetBy(c)' = m
   BY <1>7, <1>8, <1>9, <3>1, <3>2
  <3> QED BY <3>1, <3>3 DEF OnTrack
 <2> QED BY <1>10, <2>1 DEF WindowTrack
<1>16. NonPartOK'
 <2>1. NonPartOK
  BY <1>1 DEF ReadersOnTrack
 <2>2. \A k : Heard(<<"nonpart", k>>)' = Heard(<<"nonpart", k>>)
  <3>1. ASSUME NEW k
        PROVE  Heard(<<"nonpart", k>>)' = Heard(<<"nonpart", k>>)
   <4>1. PICK c : c = <<"nonpart", k>>
    OBVIOUS
   <4>2. Heard(c)' = Heard(c)
    BY <1>2
   <4> QED BY <4>1, <4>2
  <3> QED BY <3>1
 <2>3. \A k : NonPartCount(NonPartKinds[k])' = NonPartCount(NonPartKinds[k])
  BY <1>6
 <2> HIDE DEF NonPartCount
 <2> QED BY <1>1, <1>5, <2>1, <2>2, <2>3 DEF NonPartOK
<1> QED BY <1>2, <1>3, <1>4, <1>11, <1>12, <1>13, <1>14, <1>15, <1>16 DEF TrackInv, ReadersOnTrack

\* A call begins.
LEMMA CallGoesOn ==
  ASSUME StreamInv, TrackInv, Call
  PROVE  TrackInv' /\ [Stream!Next]_(Stream!streamVars)
<1>1. /\ ~calling /\ calling' /\ page' = <<>>
      /\ materials' = IF emitMaterials THEN materials ELSE <<>>
      /\ UNCHANGED fixedVars /\ UNCHANGED geometryVars
      /\ UNCHANGED <<readers, row, source, emitMaterials, opened, answer, sent, lost>>
 BY DEF Call, cursorVars
<1>2. CallPage' = CallPage /\ ~decoding
 BY <1>1 DEF CallPage, StreamInv, GeometryInv, CallsOK
<1>3. PICK w : w = IF calling \/ emitMaterials THEN materials ELSE <<>>
 OBVIOUS
<1>4. emitMaterials \in BOOLEAN
 BY DEF StreamInv, GeometryInv, ItemsOK
<1>5. (IF calling \/ emitMaterials THEN materials ELSE <<>>)' = w
 BY <1>1, <1>3, <1>4
<1> QED BY <1>1, <1>2, <1>3, <1>5, WaitingStays

LEMMA NothingGoesOn ==
  ASSUME StreamInv, TrackInv, UNCHANGED processVars
  PROVE  TrackInv' /\ [Stream!Next]_(Stream!streamVars)
<1>1. /\ UNCHANGED <<page, materials, calling>>
      /\ UNCHANGED fixedVars /\ UNCHANGED geometryVars
      /\ UNCHANGED <<readers, row, source, emitMaterials, opened, answer, sent, lost>>
 BY DEF processVars, cursorVars, materialVars, answerVars
<1>2. CallPage' = CallPage
 BY <1>1 DEF CallPage
<1>3. PICK w : w = IF calling \/ emitMaterials THEN materials ELSE <<>>
 OBVIOUS
<1>4. (IF calling \/ emitMaterials THEN materials ELSE <<>>)' = w
 BY <1>1, <1>3
<1> QED BY <1>1, <1>2, <1>3, <1>4, WaitingStays

\* The end is answered when every stage is through.
LEMMA EndGoesOn ==
  ASSUME StreamInv, TrackInv, AnswerEnd
  PROVE  TrackInv' /\ [Stream!Next]_(Stream!streamVars)
<1>1. /\ calling /\ ~calling' /\ readers = <<>> /\ readers' = <<>> /\ answer' = Ended
      /\ UNCHANGED fixedVars /\ UNCHANGED <<emitMaterials, opened, sent, lost>>
      /\ PlaceOK /\ ReadersOnTrack
 BY DEF AnswerEnd, cursorVars, materialVars, TrackInv
<1>2. stream = "open" /\ UNCHANGED <<stream, model, lists>>
 BY <1>1 DEF StreamInv, GeometryInv, CallsOK, fixedVars
<1>3. PlaceOK' /\ \A d : Heard(d)' = Heard(d)
 BY <1>1, PlaceStays
<1>4. ChoiceOK'
 BY <1>1, <1>2, ChoiceStays DEF TrackInv
<1>5. Idle'
 BY <1>1, <1>2 DEF AtWork, ReadersOnTrack, ChainOK, NonPartOK, Idle
<1>6. ReadersOnTrack'
 BY <1>5, AnyIsOnTrackNext
<1>7. Stream!Next
 <2>1. Len(StageReaders) \in Nat /\ Len(readers) = 0
  BY <1>1, StagesApart
 <2>2. Done = Len(StageReaders)
  BY <2>1 DEF Done
 <2>3. Len(Stages) = Len(StageReaders)
  <3>1. DOMAIN Stages = 1 .. Len(StageReaders) /\ Stages = [k \in 1 .. Len(StageReaders) |-> Stages[k]]
   BY StagesApart DEF Stages
  <3> HIDE DEF Stages, StageReaders
  <3> QED BY <2>1, <3>1
 <2>4. Stream!Reached(Len(Stages) + 1)
  BY <1>1, <1>2, <2>2, <2>3, StagesBefore
 <2>5. UNCHANGED Stages /\ UNCHANGED Faulty /\ UNCHANGED <<lists, request.size, sent, lost>>
  BY <1>1, <1>2, StagesStay
 <2>6. answer' = Stream!Ended
  BY <1>1 DEF Ended, Stream!Ended, Batch, Stream!Batch
 <2> HIDE DEF Stages, Faulty
 <2>7. Stream!End
  BY <2>4, <2>5, <2>6 DEF Stream!End
 <2> QED BY <2>7 DEF Stream!Next
<1> QED BY <1>3, <1>4, <1>6, <1>7 DEF TrackInv

\* A reader with nothing left to answer has drained its channels.
LEMMA ReaderIsThrough ==
  ASSUME StreamInv, TrackInv, calling, readers # <<>>, NEW r, r = Head(readers), AtEnd(r),
         NEW k \in KindsOf(r), NEW c, c = <<r, k>>
  PROVE  Heard(c) = Len(lists[c]) /\ ~emitMaterials /\ ~decoding /\ pending = 3
<1>1. /\ FixedOK /\ PlaceOK /\ ReadersOnTrack /\ stream = "open"
      /\ pending \in 1 .. 3 /\ decoding \in BOOLEAN
      /\ decoding \/ pending # 3 => AtWork("geometry")
 BY DEF StreamInv, WinnersInv, GeometryInv, CallsOK, TrackInv
<1>2. (\A q : AtWork(q) <=> q = r) /\ CallPage = page
 BY <1>1 DEF AtWork, CallPage
<1>3. c \in Channels /\ r \in Readers
 BY <1>1, StageAtWork
<1>4. Heard(c) \in Nat /\ lists[c] = ListOf(c)
 BY <1>1, <1>3, HeardIsNumber, ListsAreSequences DEF PlaceOK
<1>5. ~decoding /\ pending = 3
 BY <1>1, <1>2 DEF AtEnd
<1>6. /\ emitMaterials => materials # <<>> /\ r \in {"parts", "surfaces"}
 BY <1>1, <1>2 DEF ReadersOnTrack, ChainOK
<1>7. ~emitMaterials
 BY <1>6 DEF AtEnd
<1>8. \A list, h, m : Fits(list, h, <<>>, m) => h + 0 = m
 BY DEF Fits
<1>9. CASE r = "attributes"
 <2>1. page = <<>> /\ source \in 1 .. 4 /\ source > 3
  BY <1>9 DEF AtEnd, StreamInv, GeometryInv, CallsOK
 <2>2. c = Channel
  BY <1>9 DEF KindsOf, Channel
 <2>3. Fits(lists[c], Heard(c), <<>>, Cardinality(PromisedMet(source, row)))
  BY <1>1, <1>2, <1>9, <2>1, <2>2 DEF ReadersOnTrack, LinksOK, OnTrack
 <2>4. PromisedMet(source, row) = PromisedRows
  BY <1>1, <2>1, LastLinkTable
 <2>5. Len(ListOf(c)) = Cardinality(PromisedRows)
  BY <1>1, <2>2, ListOfLinks
 <2> QED BY <1>4, <1>5, <1>7, <1>8, <2>3, <2>4, <2>5
<1>10. CASE r = "identities"
 <2>1. page = <<>> /\ row = Len(Table(r)) /\ c = <<"identities", "objects">>
  BY <1>10 DEF AtEnd, KindsOf
 <2>2. Fits(lists[c], Heard(c), <<>>, row)
  BY <1>1, <1>2, <1>10, <2>1 DEF ReadersOnTrack, ObjectsOK, OnTrack
 <2>3. Len(ListOf(c)) = Len(Table(r))
  BY <1>1, <1>10, ListOfNumbers
 <2> QED BY <1>4, <1>5, <1>7, <1>8, <2>1, <2>2, <2>3
<1>11. CASE r \in PagedReaders
 <2>1. row = Len(Table(r)) /\ k = r
  BY <1>11 DEF AtEnd, PagedReaders, KindsOf
 <2>2. Heard(c) = row
  BY <1>1, <1>2, <1>11, <2>1 DEF ReadersOnTrack, PagedOK
 <2>3. Len(ListOf(c)) = Len(Table(r))
  BY <1>1, <1>11, ListOfNumbers
 <2> QED BY <1>4, <1>5, <1>7, <2>1, <2>2, <2>3
<1>12. CASE r \in ChainNames
 <2>1. page = <<>> /\ materials = <<>> /\ row = Len(Table(r))
  BY <1>12 DEF AtEnd, ChainNames
 <2>2. PICK props, mats : props = <<r, "properties">> /\ mats = <<r, "materials">>
  OBVIOUS
 <2>3. /\ Fits(lists[props], Heard(props), <<>>, Cardinality(Upto(RowsOf(props), row)))
       /\ r \in {"parts", "surfaces"} =>
             Fits(lists[mats], Heard(mats), <<>>, Cardinality(Upto(RowsOf(mats), row)))
  BY <1>1, <1>2, <1>7, <1>12, <2>1, <2>2, ChainAtWork
 <2>4. c = props \/ (c = mats /\ r \in {"parts", "surfaces"})
  BY <1>12, <2>2 DEF KindsOf, ChainNames
 <2>5. Fits(lists[c], Heard(c), <<>>, Cardinality(Upto(RowsOf(c), row)))
  BY <2>3, <2>4
 <2>6. Cardinality(Upto(RowsOf(c), row)) = Len(ListOf(c))
  BY <1>1, <1>12, <2>1, TablesAreSequences, MetWithin DEF RowReaders
 <2> QED BY <1>4, <1>5, <1>7, <1>8, <2>5, <2>6
<1>13. CASE r = "geometry"
 <2>1. row = Len(Table(r))
  BY <1>13 DEF AtEnd
 <2>2. WindowWaits(k) = <<>>
  BY <1>5 DEF WindowWaits
 <2>3. Fits(lists[c], Heard(c), <<>>, Cardinality(Upto(RowsOf(c), row)))
  BY <1>2, <1>13, <2>2, WindowAtWork
 <2>4. Cardinality(Upto(RowsOf(c), row)) = Len(ListOf(c))
  BY <1>1, <1>13, <2>1, TablesAreSequences, MetWithin DEF RowReaders
 <2> QED BY <1>4, <1>5, <1>7, <1>8, <2>3, <2>4
<1>14. CASE r = "nonpart"
 <2>1. opened /\ source \in 1 .. 4 /\ source > 3
  BY <1>14 DEF AtEnd, StreamInv, GeometryInv, CallsOK
 <2>2. /\ "nonpart" \notin model.unopenable /\ Heard(<<"nonpart", "opening">>) = 0
       /\ \A j \in 1 .. 3 : Heard(<<"nonpart", NonPartKinds[j]>>) = NonPartCount(NonPartKinds[j])
  BY <1>1, <1>2, <1>14, <2>1 DEF ReadersOnTrack, NonPartOK
 <2>3. Heard(c) = NonPartCount(k)
  <3>1. CASE k = "opening"
   BY <1>14, <2>2, <3>1 DEF NonPartCount
  <3>2. CASE k # "opening"
   <4>1. \E j \in 1 .. 3 : k = NonPartKinds[j]
    <5>1. k \in {"curves", "meshes", "diagnostics"}
     BY <1>14, <3>2 DEF KindsOf
    <5>2. /\ NonPartKinds[1] = "curves" /\ NonPartKinds[2] = "meshes"
          /\ NonPartKinds[3] = "diagnostics"
     BY DEF NonPartKinds
    <5> HIDE DEF NonPartKinds
    <5> QED BY <5>1, <5>2
   <4> QED BY <1>14, <2>2, <4>1
  <3> QED BY <3>1, <3>2
 <2>4. Len(ListOf(c)) = NonPartCount(k)
  BY <1>1, <1>14, ListOfNonPart
 <2> QED BY <1>4, <1>5, <1>7, <2>3, <2>4
<1> QED BY <1>3, <1>9, <1>10, <1>11, <1>12, <1>13, <1>14 DEF Readers, ChainNames, PagedReaders

LEMMA EveryReaderAnswers == \A r \in Readers : \E k : k \in KindsOf(r)
<1> SUFFICES ASSUME NEW r \in Readers PROVE \E k : k \in KindsOf(r)
 OBVIOUS
<1>1. CASE r \in {"identities", "parts", "surfaces", "relations", "semantic_relations",
                  "instances", "geometry", "nonpart"}
 BY <1>1 DEF KindsOf
<1>2. CASE r \notin {"identities", "parts", "surfaces", "relations", "semantic_relations",
                     "instances", "geometry", "nonpart"}
 BY <1>2 DEF KindsOf
<1> QED BY <1>1, <1>2

\* The next reader begins where the one before has drained its stage.
LEMMA NextReaderGoesOn ==
  ASSUME StreamInv, TrackInv, ChainAdvances \/ StageAdvances
  PROVE  TrackInv' /\ [Stream!Next]_(Stream!streamVars)
<1>1. PICK r : r = Head(readers)
 OBVIOUS
<1>2. /\ calling /\ readers # <<>> /\ AtEnd(r) /\ readers' = Tail(readers)
      /\ row' = 0 /\ source' = 1 /\ page' = <<>> /\ materials' = <<>> /\ UNCHANGED fixedVars
      /\ UNCHANGED <<emitMaterials, decoding, pending, opened, calling, answer, sent, lost>>
 BY <1>1 DEF ChainAdvances, StageAdvances, EnterNext, geometryVars, answerVars
<1>3. /\ stream = "open" /\ readers \in Seq(Readers) /\ FixedOK /\ PlaceOK /\ ReadersOnTrack
      /\ lost \in Nat
 BY <1>2 DEF StreamInv, GeometryInv, CallsOK, WinnersInv, TrackInv, PlaceOK
<1>4. /\ Done \in Nat /\ Done + 1 \in 1 .. Len(StageReaders) /\ StageReaders[Done + 1] = r
      /\ r \in Readers /\ Len(StageReaders) \in Nat
 BY <1>1, <1>2, <1>3, StageAtWork, StagesApart
<1>5. ASSUME NEW k \in KindsOf(r), NEW c, c = <<r, k>>
      PROVE  Heard(c) = Len(lists[c])
 BY <1>1, <1>2, <1>5, ReaderIsThrough
<1>6. ~emitMaterials /\ ~decoding /\ pending = 3
 <2>1. PICK k : k \in KindsOf(r)
  BY <1>4, EveryReaderAnswers
 <2>2. PICK c : c = <<r, k>>
  OBVIOUS
 <2> QED BY <1>1, <1>2, <2>1, <2>2, ReaderIsThrough
<1>7. /\ UNCHANGED <<model, request, attributes, lists, stream>>
      /\ StageReaders' = StageReaders /\ Channels' = Channels /\ \A c : ListOf(c)' = ListOf(c)
 BY <1>2, ListsStay DEF fixedVars
<1>8. /\ Tail(readers) \in Seq(Readers) /\ Len(readers) \in Nat \ {0}
      /\ Len(Tail(readers)) = Len(readers) - 1
      /\ \A i \in 1 .. Len(readers) - 1 : Tail(readers)[i] = readers[i + 1]
 BY <1>2, <1>3, EmptySeq
<1>9. Done' = Done + 1
 BY <1>2, <1>4, <1>7, <1>8 DEF Done
<1>10. /\ \A d : Heard(d)' = Heard(d)
       /\ \A q : KindsOf(q)' = KindsOf(q)
 BY <1>2 DEF Heard, KindsOf
<1>11. /\ Len(readers) <= Len(StageReaders)
       /\ \A i \in 1 .. Len(readers) : readers[i] = StageReaders[Done + i]
 BY <1>3 DEF PlaceOK
<1>12. Len(readers) + Done = Len(StageReaders)
 BY <1>4, <1>8 DEF Done
<1>13. PICK done : done = Done
 OBVIOUS
<1>14. /\ Len(readers') <= Len(StageReaders')
       /\ \A i \in 1 .. Len(readers') : readers'[i] = StageReaders'[Done' + i]
 <2>1. Len(readers') <= Len(StageReaders')
  BY <1>2, <1>4, <1>7, <1>8, <1>11
 <2>2. ASSUME NEW i \in 1 .. Len(readers) - 1
       PROVE  Tail(readers)[i] = StageReaders[(Done + 1) + i]
  BY <1>4, <1>8, <1>11
 <2> HIDE DEF Done, StageReaders
 <2> QED BY <1>2, <1>7, <1>8, <1>9, <2>1, <2>2
<1> HIDE DEF Done, StageReaders, Channels, Heard, KindsOf
<1>15. ASSUME NEW j \in 1 .. Done', NEW k \in KindsOf(StageReaders[j])'
       PROVE  Heard(<<StageReaders[j], k>>)' = Len(lists[<<StageReaders[j], k>>])'
 <2>1. j \in 1 .. Done + 1 /\ k \in KindsOf(StageReaders[j]) /\ StageReaders[j]' = StageReaders[j]
  BY <1>7, <1>9, <1>10
 <2>2. PICK d : d = <<StageReaders[j], k>>
  OBVIOUS
 <2>3. Heard(d) = Len(lists[d])
  <3>1. CASE j \in 1 .. Done
   BY <1>3, <2>1, <2>2, <3>1 DEF PlaceOK
  <3>2. CASE j = Done + 1
   BY <1>4, <1>5, <2>1, <2>2, <3>2
  <3> QED BY <1>4, <2>1, <3>1, <3>2
 <2>4. <<StageReaders[j], k>>' = d /\ Heard(d)' = Len(lists'[d])
  BY <1>7, <1>10, <2>1, <2>2, <2>3
 <2> QED BY <2>4
<1>16. ASSUME NEW j \in Done + 2 .. Len(StageReaders), NEW k \in KindsOf(StageReaders[j]),
              NEW d, d = <<StageReaders[j], k>>
       PROVE  Heard(d)' = 0 /\ Heard(d) = 0
 BY <1>3, <1>10, <1>16 DEF PlaceOK
<1>17. ASSUME NEW j \in (Done + 2 .. Len(StageReaders))', NEW k \in KindsOf(StageReaders[j])'
       PROVE  Heard(<<StageReaders[j], k>>)' = 0
 <2>1. /\ j \in Done + 2 .. Len(StageReaders) /\ k \in KindsOf(StageReaders[j])
       /\ StageReaders[j]' = StageReaders[j]
  BY <1>4, <1>7, <1>9, <1>10
 <2>2. PICK d : d = <<StageReaders[j], k>>
  OBVIOUS
 <2>3. <<StageReaders[j], k>>' = d /\ Heard(d)' = 0
  BY <1>7, <1>16, <2>1, <2>2
 <2> QED BY <2>3
<1>18. PlaceOK'
 BY <1>2, <1>3, <1>7, <1>14, <1>15, <1>17 DEF PlaceOK
<1>19. UNCHANGED Stream!streamVars
 BY <1>2, <1>3, <1>7, <1>10, SilenceIsStutter
<1>20. ChoiceOK'
 BY <1>2, <1>3, ChoiceStays DEF TrackInv
<1>21. opened' => "nonpart" \notin model'.unopenable
 BY <1>2, <1>3, <1>7 DEF ReadersOnTrack, NonPartOK
<1>22. Idle' \/ Fresh'
 <2>1. CASE readers' = <<>>
  BY <1>2, <1>6, <1>21, <2>1 DEF AtWork, Idle
 <2>2. CASE readers' # <<>>
  <3>1. Len(readers) - 1 \in Nat \ {0} /\ Tail(readers) # <<>>
   BY <1>2, <1>8, <2>2, EmptySeq
  <3>2. 2 \in 1 .. Len(readers) /\ 1 \in 1 .. Len(readers) - 1
   BY <1>8, <3>1
  <3>3. Head(Tail(readers)) = readers[2]
   BY <1>8, <3>1, <3>2
  <3>4. PICK q : q = readers[2]
   OBVIOUS
  <3>5. q = StageReaders[Done + 2] /\ Done + 2 \in Done + 2 .. Len(StageReaders)
        /\ Done + 2 \in 1 .. Len(StageReaders)
   BY <1>4, <1>8, <1>11, <1>12, <3>2, <3>4
  <3>6. q \in Readers /\ Wanted(q)
   BY <3>5, StagesApart
  <3>7. ASSUME NEW k \in KindsOf(q), NEW c, c = <<q, k>>
        PROVE  c \in Channels /\ Heard(c)' = 0
   BY <1>16, <3>5, <3>6, <3>7, ChannelsOfReaders
  <3>8. Head(readers') = q /\ Head(readers)' = q
   BY <1>2, <3>3, <3>4
  <3>9. \A k \in KindsOf(Head(readers))' : \A c : c = <<Head(readers), k>>' =>
           c \in Channels' /\ Heard(c)' = 0
   BY <1>7, <1>10, <3>7, <3>8 DEF KindsOf
  <3>10. FixedOK' /\ lists' = [c \in Channels' |-> ListOf(c)']
   BY <1>3, <1>7, FixedStays DEF PlaceOK
  <3>11. ~Begun' /\ ~decoding' /\ pending' = 3
   BY <1>2, <1>6 DEF Begun
  <3>12. stream' = "open" /\ row' = 0 /\ source' = 1 /\ readers' # <<>> /\ Head(readers') \in Readers
   BY <1>2, <1>3, <1>7, <2>2, <3>6, <3>8
  <3> QED BY <1>21, <3>9, <3>10, <3>11, <3>12 DEF Fresh
 <2> QED BY <2>1, <2>2
<1>23. ReadersOnTrack'
 BY <1>22, AnyIsOnTrackNext
<1> QED BY <1>18, <1>19, <1>20, <1>23 DEF TrackInv

---------------------------------------------------------------------------
(* The stream is opened, and the step is any step.                        *)

\* Until the stream is open nothing is heard; then all readers are to come.
LEMMA StreamOpens ==
  ASSUME StreamInv, TrackInv, stream # "open", stream' \in {"choosing", "open"},
         UNCHANGED <<model, request, attributes, lists>>, readers' = StageReaders,
         stream' = "open" => row' = 0 /\ source' = 1,
         UNCHANGED <<calling, emitMaterials, decoding, pending, opened, answer, sent, lost>>
  PROVE  PlaceOK' /\ ReadersOnTrack' /\ UNCHANGED Stream!streamVars
<1>1. /\ FixedOK /\ PlaceOK /\ ReadersOnTrack /\ ~calling /\ ~emitMaterials
      /\ ~decoding /\ pending = 3 /\ lost \in Nat
 BY NotYetOpen DEF StreamInv, WinnersInv, TrackInv, PlaceOK
<1>2. /\ StageReaders' = StageReaders /\ Channels' = Channels /\ \A c : ListOf(c)' = ListOf(c)
 BY ListsStay
<1>3. \A c \in Channels : Heard(c) = 0
 BY <1>1 DEF PlaceOK
<1>4. (\A d : Heard(d)' = Heard(d)) /\ (\A r : KindsOf(r)' = KindsOf(r))
 BY DEF Heard, KindsOf
<1>5. Done' = 0 /\ Len(StageReaders) \in Nat
 BY <1>2, StagesApart DEF Done
<1>6. UNCHANGED Stream!streamVars
 BY <1>1, <1>4, SilenceIsStutter
<1>7. ASSUME NEW j \in 1 .. Len(StageReaders), NEW k \in KindsOf(StageReaders[j]),
             NEW d, d = <<StageReaders[j], k>>
      PROVE  d \in Channels /\ Heard(d)' = 0
 <2>1. d \in Channels
  BY <1>7, StagesApart, ChannelsOfReaders
 <2> QED BY <1>3, <1>4, <2>1
<1> HIDE DEF Done, StageReaders, Channels, Heard, KindsOf
<1>8. PlaceOK'
 <2>1. lists' = [c \in Channels' |-> ListOf(c)']
  BY <1>1, <1>2 DEF PlaceOK
 <2>2. ASSUME NEW c \in Channels'
       PROVE  Heard(c)' = 0
  <3>1. PICK d \in Channels : d = c
   BY <1>2
  <3>2. Heard(d)' = 0
   BY <1>3, <1>4
  <3> QED BY <3>1, <3>2
 <2>3. ASSUME NEW j \in (Done + 2 .. Len(StageReaders))', NEW k \in KindsOf(StageReaders[j])'
       PROVE  Heard(<<StageReaders[j], k>>)' = 0
  <3>1. /\ j \in 1 .. Len(StageReaders) /\ k \in KindsOf(StageReaders[j])
        /\ StageReaders[j]' = StageReaders[j]
   BY <1>2, <1>4, <1>5
  <3>2. PICK d : d = <<StageReaders[j], k>>
   OBVIOUS
  <3>3. <<StageReaders[j], k>>' = d /\ Heard(d)' = 0
   BY <1>2, <1>7, <3>1, <3>2
  <3> QED BY <3>3
 <2>4. \A j \in 1 .. Done' : FALSE
  BY <1>5
 <2>5. /\ Len(readers') <= Len(StageReaders')
       /\ \A i \in 1 .. Len(readers') : readers'[i] = StageReaders'[Done' + i]
  BY <1>2, <1>5
 <2>6. lost' \in Nat /\ (stream' = "choosing" => readers' = StageReaders')
  BY <1>1, <1>2
 <2> QED BY <2>1, <2>2, <2>3, <2>4, <2>5, <2>6 DEF PlaceOK
<1>9. opened' => "nonpart" \notin model'.unopenable
 BY <1>1 DEF ReadersOnTrack, NonPartOK
<1>10. Idle' \/ Fresh'
 <2>1. CASE stream' # "open" \/ readers' = <<>>
  BY <1>1, <1>9, <2>1 DEF AtWork, Idle
 <2>2. CASE stream' = "open" /\ readers' # <<>>
  <3>1. PICK q : q = StageReaders[1]
   OBVIOUS
  <3>2. 1 \in 1 .. Len(StageReaders) /\ Head(readers') = q /\ Head(readers)' = q
   BY <2>2, <3>1, StagesApart, EmptySeq
  <3>3. q \in Readers
   BY <3>1, <3>2, StagesApart
  <3>4. \A k \in KindsOf(Head(readers))' : \A c : c = <<Head(readers), k>>' =>
           c \in Channels' /\ Heard(c)' = 0
   BY <1>2, <1>4, <1>7, <3>1, <3>2 DEF KindsOf
  <3>5. FixedOK' /\ lists' = [c \in Channels' |-> ListOf(c)']
   BY <1>1, <1>2, FixedStays DEF PlaceOK
  <3>6. ~Begun' /\ ~decoding' /\ pending' = 3
   BY <1>1 DEF Begun
  <3> QED BY <1>9, <2>2, <3>2, <3>3, <3>4, <3>5, <3>6 DEF Fresh
 <2> QED BY <2>1, <2>2
<1>11. ReadersOnTrack'
 BY <1>10, AnyIsOnTrackNext
<1> QED BY <1>6, <1>8, <1>11

LEMMA ProcessGoesOn ==
  ASSUME StreamInv, TrackInv, Process
  PROVE  TrackInv' /\ [Stream!Next]_(Stream!streamVars)
<1>1. /\ stream = "none" /\ UNCHANGED <<model, request, attributes, winners, lists, row, source>>
      /\ UNCHANGED <<calling, emitMaterials, decoding, pending, opened, answer, sent, lost>>
      /\ stream' \in {"failed", "choosing", "open"}
      /\ stream' = "open" => "properties" \notin request.stages
      /\ stream' = "failed" => readers' = readers
      /\ stream' # "failed" => readers' = StageReaders
 BY DEF Process, materialVars, geometryVars, answerVars
<1>2. /\ FixedOK /\ PlaceOK /\ ReadersOnTrack /\ row = 0 /\ source = 1 /\ winners = <<>>
      /\ ~calling /\ ~emitMaterials
 BY <1>1, NotYetOpen DEF StreamInv, WinnersInv, CursorOK, TrackInv
<1>3. ChoiceOK'
 <2>1. Best(attributes, winners, source, row)
  BY <1>2 DEF AllRows, Through, Best
 <2>2. Best(attributes', winners', source', row')
  BY <1>1, <2>1
 <2> QED BY <1>1, <2>2 DEF ChoiceOK
<1>4. CASE stream' = "failed"
 <2>1. /\ Channels' = Channels /\ (\A c : ListOf(c)' = ListOf(c)) /\ \A d : Heard(d)' = Heard(d)
  BY <1>1, ListsStay DEF Heard
 <2>2. PlaceOK'
  <3>1. \A c \in Channels' : Heard(c)' = 0
   <4> HIDE DEF Heard
   <4>1. ASSUME NEW c \in Channels
         PROVE  Heard(c)' = 0
    BY <1>1, <1>2, <2>1 DEF PlaceOK
   <4> QED BY <2>1, <4>1
  <3>2. lists' = [c \in Channels' |-> ListOf(c)'] /\ lost' \in Nat
   BY <1>1, <1>2, <2>1 DEF PlaceOK
  <3> QED BY <1>4, <3>1, <3>2 DEF PlaceOK
 <2>3. Idle'
  BY <1>1, <1>2, <1>4 DEF AtWork, ReadersOnTrack, NonPartOK, Idle
 <2>4. UNCHANGED Stream!streamVars
  BY <1>1, <1>2, <2>1, SilenceIsStutter
 <2> QED BY <1>3, <2>2, <2>3, <2>4, AnyIsOnTrackNext DEF TrackInv
<1>5. CASE stream' # "failed"
 BY <1>1, <1>2, <1>3, <1>5, StreamOpens DEF TrackInv
<1> QED BY <1>4, <1>5

\* The winners are chosen.
LEMMA ChoosingGoesOn ==
  ASSUME StreamInv, TrackInv, stream = "choosing", ChooseWinner \/ LinkTableDone \/ WinnersChosen
  PROVE  TrackInv' /\ [Stream!Next]_(Stream!streamVars)
<1>1. /\ UNCHANGED <<model, request, attributes, lists, readers>>
      /\ UNCHANGED <<calling, emitMaterials, decoding, pending, opened, answer, sent, lost>>
      /\ stream' \in {"choosing", "open"}
 BY DEF ChooseWinner, LinkTableDone, WinnersChosen, fixedVars, materialVars, geometryVars,
        answerVars
<1>2. /\ FixedOK /\ readers = StageReaders /\ Best(attributes, winners, source, row)
      /\ row \in Nat /\ source \in 1 .. 4 /\ (source > 3 => row = 0)
 BY DEF StreamInv, WinnersInv, GeometryInv, CallsOK, TrackInv, PlaceOK, ChoiceOK
<1>3. PlaceOK' /\ ReadersOnTrack' /\ UNCHANGED Stream!streamVars
 BY <1>1, <1>2, StreamOpens DEF ChooseWinner, LinkTableDone, WinnersChosen, fixedVars
<1>4. CASE ChooseWinner
 <2>1. /\ source \in 1 .. 3 /\ row < Len(LinkTable(attributes, source)) /\ source' = source
       /\ row' = row + 1 /\ winners' = Meet(attributes, winners, <<source, row + 1>>)
       /\ stream' = "choosing"
  BY <1>2, <1>4 DEF ChooseWinner
 <2>2. PICK l : l = <<source, row + 1>>
  OBVIOUS
 <2>3. l \in AllRows(attributes)
  BY <1>2, <2>1, <2>2, NextLink
 <2>4. Best(attributes, Meet(attributes, winners, l), source, row + 1)
  BY <1>2, <2>1, <2>2, <2>3, MeetKeepsBest
 <2>5. Best(attributes', winners', source', row')
  BY <1>1, <2>1, <2>2, <2>4
 <2>6. ChoiceOK'
  BY <2>1, <2>5 DEF ChoiceOK
 <2> QED BY <1>3, <2>6 DEF TrackInv
<1>5. CASE LinkTableDone
 <2>1. /\ source \in 1 .. 3 /\ row = Len(LinkTable(attributes, source)) /\ source' = source + 1
       /\ row' = 0 /\ winners' = winners /\ stream' = "choosing"
  BY <1>2, <1>5 DEF LinkTableDone, fixedVars
 <2>2. \A l \in AllRows(attributes) : Through(source + 1, 0, l) <=> Through(source, row, l)
  BY <1>2, <2>1, NextLinkTable
 <2>3. Best(attributes, winners, source + 1, 0)
  <3> HIDE DEF Through
  <3> QED BY <1>2, <2>2 DEF Best
 <2>4. Best(attributes', winners', source', row')
  BY <1>1, <2>1, <2>3
 <2>5. ChoiceOK'
  BY <2>1, <2>4 DEF ChoiceOK
 <2> QED BY <1>3, <2>5 DEF TrackInv
<1>6. CASE WinnersChosen
 <2>1. source > 3 /\ winners' = Contested(winners) /\ stream' = "open"
  BY <1>6 DEF WinnersChosen
 <2>2. \A l \in AllRows(attributes) : Through(source, row, l)
  BY <1>2, <2>1, LastLinkTable
 <2>3. /\ Counted(winners) /\ AllLinks(attributes) = AllRows(attributes)
       /\ \A l, m \in AllRows(attributes) :
             Rivals(attributes, l, m) => winners[Path(attributes, l)].occurrences > 1
  BY <1>2, <2>2, LinksByNumber DEF StreamInv, WinnersInv, MetOK
 <2>4. \A l \in AllRows(attributes) :
          GoesOut(attributes, Contested(winners), l) <=> IsPromised(attributes, l)
  BY <1>2, <2>2, <2>3, ChosenArePromised
 <2>5. \A l \in AllRows(attributes') :
          GoesOut(attributes', winners', l) <=> IsPromised(attributes', l)
  BY <1>1, <2>1, <2>4
 <2>6. ChoiceOK'
  BY <2>1, <2>5 DEF ChoiceOK
 <2> QED BY <1>3, <2>6 DEF TrackInv
<1> QED BY <1>4, <1>5, <1>6

\* Before the first request nothing is heard and no reader is at work.
LEMMA TrackBegins == Init => TrackInv /\ Stream!Init
<1> SUFFICES ASSUME Init PROVE TrackInv /\ Stream!Init
 OBVIOUS
<1>1. /\ stream = "none" /\ readers = <<>> /\ ~calling /\ ~emitMaterials /\ opened = FALSE
      /\ lists = [c \in Channels |-> ListOf(c)] /\ sent = [c \in Channels |-> <<>>]
      /\ lost = 0 /\ answer = NoAnswer
 BY DEF Init
<1>2. \A c \in Channels : Heard(c) = 0
 BY <1>1 DEF Heard
<1>3. PlaceOK
 BY <1>1, <1>2 DEF PlaceOK
<1>4. ChoiceOK
 BY <1>1 DEF ChoiceOK
<1>5. Idle
 BY <1>1 DEF Idle, AtWork
<1>6. [c \in DOMAIN lists |-> Heard(c)] = [c \in DOMAIN lists |-> 0]
 BY <1>1, <1>2
<1>7. Stream!Init
 BY <1>1, <1>6 DEF Stream!Init, Stream!NoAnswer, Stream!Batch, NoAnswer, Batch, Heard
<1> QED BY <1>3, <1>4, <1>5, <1>7, IdleIsOnTrack DEF TrackInv

\* Every step of the composite stream is an answer of the promise or silent to it.
LEMMA StreamGoesOn ==
  StreamInv /\ TrackInv /\ [Next]_processVars => TrackInv' /\ [Stream!Next]_(Stream!streamVars)
<1> SUFFICES ASSUME StreamInv, TrackInv, [Next]_processVars
             PROVE  TrackInv' /\ [Stream!Next]_(Stream!streamVars)
 OBVIOUS
<1>1. CASE Process
 BY <1>1, ProcessGoesOn
<1>2. CASE ChooseWinner \/ WinnersChosen \/ (LinkTableDone /\ ~At("attributes"))
 BY <1>2, ChoosingGoesOn DEF ChooseWinner, LinkTableDone, WinnersChosen
<1>3. CASE ProcessAgain \/ UNCHANGED processVars
 BY <1>3, NothingGoesOn DEF ProcessAgain
<1>4. CASE Call
 BY <1>4, CallGoesOn
<1>5. CASE ChainAdvances \/ StageAdvances
 BY <1>5, NextReaderGoesOn
<1>6. CASE AnswerEnd
 BY <1>6, EndGoesOn
<1>7. CASE ReadObject \/ FailObject \/ AnswerObjects
 BY <1>7, ObjectsGoOn
<1>8. CASE ReadLink \/ AnswerAttributes \/ (At("attributes") /\ LinkTableDone)
 BY <1>8, LinksGoOn
<1>9. CASE ReadSemanticRow
 BY <1>9, RowGoesOn
<1>10. CASE AnswerProperties
 BY <1>10, PropertiesGoOn
<1>11. CASE AnswerMaterials
 BY <1>11, MaterialsGoOn
<1>12. CASE SkipWindow
 BY <1>12, SkipGoesOn
<1>13. CASE AnswerPage
 BY <1>13, PagesGoOn
<1>14. CASE NothingPending \/ StartWindow \/ EmptyWindow
 BY <1>14, WindowTurns
<1>15. CASE ReadPart
 BY <1>15, PartGoesOn
<1>16. CASE \/ PendingMeshes \/ PendingDiagnostics
            \/ AnswerDefinitions \/ AnswerMeshes \/ AnswerDiagnostics
 BY <1>16, WindowGoesOut
<1>17. CASE OpenNonPart \/ FailNonPart \/ AnswerNonPart \/ NonPartListDone
 BY <1>17, NonPartGoesOn
<1> QED BY <1>1, <1>2, <1>3, <1>4, <1>5, <1>6, <1>7, <1>8, <1>9, <1>10, <1>11, <1>12, <1>13,
<1>14, <1>15, <1>16, <1>17 DEF Next

\* The readers, their windows, their two turns over the attributes and what waits
\* between two calls are together what Model::process promises: every list of the
\* model goes out in order, each item once, stage by stage, and an error costs one
\* batch at most; for every model, request and size of a batch.
THEOREM StreamsAreBatchStreams == Spec => IsBatchStream
<1>1. Init => Stream!Init /\ StreamInv /\ TrackInv
 BY TrackBegins, InitWinners, InitGeometry DEF StreamInv
<1>2. StreamInv /\ TrackInv /\ [Next]_processVars
         => StreamInv' /\ TrackInv' /\ [Stream!Next]_(Stream!streamVars)
 BY StreamKeeps, StreamGoesOn
<1> QED BY <1>1, <1>2, PTL DEF Spec, IsBatchStream, Stream!Spec
=============================================================================
