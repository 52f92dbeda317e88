-------------------------- MODULE PackageOpeningProofs --------------------------
(***************************************************************************)
(* Proofs about the opening of a model: the limits hold for every set of   *)
(* files, and a database written by its schema is never misread.           *)
(***************************************************************************)
EXTENDS PackageOpening, SequenceTheorems, FiniteSetTheorems, TLAPS

---------------------------------------------------------------------------
(* A footer is never guessed wrong.                                       *)

\* A remainder of zero, as a multiple.
LEMMA Divides ==
  ASSUME NEW a \in Nat, NEW r \in Nat \ {0}, a % r = 0
  PROVE  a = r * (a \div r) /\ a \div r \in Nat
 OBVIOUS

LEMMA Multiple ==
  ASSUME NEW n \in Nat, NEW r \in Nat \ {0}
  PROVE  (n * r) % r = 0 /\ (n * r) \div r = n /\ n * r \in Nat
 OBVIOUS

\* Two lengths that differ by no more than eight are not both whole numbers of
\* records of nine bytes or more.
LEMMA NotBoth ==
  ASSUME NEW a \in Nat, NEW d \in 1 .. 8, NEW r \in Nat, r >= 9,
         a % r = 0, (a + d) % r = 0
  PROVE  FALSE
<1>1. r \in Nat \ {0}
 OBVIOUS
<1> DEFINE p == a \div r
           q == (a + d) \div r
<1>2. a = r * p /\ p \in Nat
 BY <1>1, Divides
<1>3. a + d = r * q /\ q \in Nat
 BY <1>1, Divides
<1> HIDE DEF p, q
<1>4. r * q - r * p = d
 BY <1>2, <1>3
<1>5. r * (q - p) = d
 BY <1>2, <1>3, <1>4
<1>6. CASE q - p <= 0
 <2>1. r * (q - p) <= 0
  BY <1>2, <1>3, <1>6
 <2>2. QED
  BY <2>1, <1>5
<1>7. CASE q - p >= 1
 <2>1. r * (q - p) >= r
  BY <1>2, <1>3, <1>7
 <2>2. QED
  BY <2>1, <1>5
<1>8. QED
 BY <1>2, <1>3, <1>6, <1>7

\* The last bytes of a section may look like every footer there is: it can be
\* read with one of them at most (parse_delimited_table).
THEOREM OneFooterParses ==
  ASSUME NEW section \in Sections, NEW i \in ReadableAs(section), NEW j \in ReadableAs(section)
  PROVE  i = j
<1> DEFINE r == RecordSize(section.tuple)
           body(k) == BodySize(section, Delimited[k])
<1>1. r \in Nat /\ r >= 9
 BY DEF Sections, RecordSize
<1>2. i \in 1 .. 3 /\ j \in 1 .. 3
 BY DEF ReadableAs, Delimited
<1>3. \A k \in {i, j} : body(k) >= 0 /\ body(k) % r = 0
 BY DEF ReadableAs, Parses
<1>4. HeaderSize(section.descriptors) \in Nat /\ section.size \in Nat
 BY DEF Sections, HeaderSize
<1>5. /\ body(1) = section.size - 13 - HeaderSize(section.descriptors)
      /\ body(2) = section.size - 9 - HeaderSize(section.descriptors)
      /\ body(3) = section.size - 5 - HeaderSize(section.descriptors)
 BY DEF BodySize, Delimited, FooterSize
<1> HIDE DEF r, body
<1>6. \A k, m \in 1 .. 3 : k < m => body(m) - body(k) \in 1 .. 8
 BY <1>4, <1>5
<1>7. ASSUME NEW k \in {i, j}, NEW m \in {i, j}, k < m
      PROVE  FALSE
 <2>1. body(m) - body(k) \in 1 .. 8 /\ body(k) \in Int /\ body(m) \in Int
  BY <1>2, <1>4, <1>5, <1>6, <1>7
 <2> DEFINE d == body(m) - body(k)
            a == body(k)
 <2>2. a \in Nat /\ a % r = 0
  BY <1>3, <2>1
 <2>3. a + d = body(m) /\ d \in 1 .. 8
  BY <2>1
 <2>4. (a + d) % r = 0
  BY <1>3, <2>3
 <2> HIDE DEF a, d
 <2>5. QED
  BY <1>1, <2>2, <2>3, <2>4, NotBoth
<1>8. QED
 BY <1>2, <1>7

\* A written table's own footer can be read, with the rows that were written.
LEMMA OwnFooterParses ==
  ASSUME NEW t \in Tables, NEW section \in Sections, Written(t, section)
  PROVE  /\ Parses(section, t.footer)
         /\ BodySize(section, t.footer) \div RecordSize(section.tuple) = t.rows
<1> DEFINE r == RecordSize(t.tuple)
           n == t.rows
<1>1. r \in Nat \ {0} /\ n \in Nat
 BY DEF Tables, RecordSize
<1>2. HeaderSize(t.descriptors) \in Nat
 BY DEF Tables, HeaderSize
<1>3. FooterSize[t.footer] \in Nat
 BY DEF Tables, Footers, FooterSize
<1>4. /\ section.size = HeaderSize(t.descriptors) + n * r + FooterSize[t.footer]
      /\ RecordSize(section.tuple) = r
      /\ section.descriptors = t.descriptors
 BY DEF Written, SizeOf
<1>5. BodySize(section, t.footer)
         = section.size - FooterSize[t.footer] - HeaderSize(t.descriptors)
 BY <1>4 DEF BodySize
<1> HIDE DEF r, n
<1>6. (n * r) % r = 0 /\ (n * r) \div r = n /\ n * r \in Nat
 BY <1>1, Multiple
<1> DEFINE m == n * r
<1>7. m \in Nat
 BY <1>6
<1> HIDE DEF m
<1>8. BodySize(section, t.footer) = m
 BY <1>2, <1>3, <1>4, <1>5, <1>7 DEF m
<1>9. \A i \in DOMAIN section.descriptors : section.descriptors[i] <= 255
 <2>1. t.descriptors \in Seq(0 .. 255)
  BY DEF Tables
 <2>2. \A i \in 1 .. Len(t.descriptors) : t.descriptors[i] \in 0 .. 255
  BY <2>1, ElementOfSeq
 <2>3. DOMAIN t.descriptors = 1 .. Len(t.descriptors)
  BY <2>1
 <2>4. \A i \in DOMAIN t.descriptors : t.descriptors[i] <= 255
  <3>1. \A x \in 0 .. 255 : x <= 255
   OBVIOUS
  <3>2. QED
   BY <2>2, <2>3, <3>1, Zenon
 <2> HIDE DEF r, n
 <2>5. section.descriptors = t.descriptors
  BY <1>4
 <2>6. QED
  BY <2>4, <2>5
<1>10. Parses(section, t.footer)
 BY <1>4, <1>6, <1>7, <1>8, <1>9 DEF Parses, m
<1>11. QED
 BY <1>4, <1>6, <1>8, <1>10 DEF m, n

\* A table that stands between two delimiters is read as it was written, though
\* its last row may look like another footer.
THEOREM WrittenTableReadsBack ==
  ASSUME NEW t \in Tables, NEW section \in Sections, NEW ordinal \in Nat,
         Written(t, section), t.footer # "final"
  PROVE  /\ ReadableAs(section) # {}
         /\ ParseTable(section, ordinal, FooterOf(section))
              = [ordinal |-> ordinal, tuple |-> t.tuple, descriptors |-> t.descriptors,
                 rows |-> t.rows, key |-> t.key, footer |-> t.footer]
<1>1. PICK i \in DOMAIN Delimited : Delimited[i] = t.footer
 <2>1. t.footer \in {"connected", "keyed", "plain"}
  BY DEF Tables, Footers
 <2>2. /\ Delimited[1] = "connected" /\ Delimited[2] = "keyed" /\ Delimited[3] = "plain"
       /\ DOMAIN Delimited = 1 .. 3
  BY DEF Delimited
 <2>3. QED
  BY <2>1, <2>2
<1>2. Parses(section, t.footer)
 BY OwnFooterParses
<1>3. i \in ReadableAs(section)
 BY <1>1, <1>2 DEF ReadableAs, Written
<1>4. ReadableAs(section) = {i}
 BY <1>3, OneFooterParses
<1>5. i <= i
 BY DEF Delimited
<1>6. FooterOf(section) = t.footer
 BY <1>1, <1>4, <1>5 DEF FooterOf
<1>7. BodySize(section, t.footer) \div RecordSize(section.tuple) = t.rows
 BY OwnFooterParses
<1>8. QED
 BY <1>3, <1>6, <1>7 DEF ParseTable, Written

\* What inspect_payload finds in a database that no row cuts is what was
\* written in it; in one that rows cut it finds more tables.
LEMMA InspectionOfWritten ==
  ASSUME NEW d \in Disks, NEW validate \in BOOLEAN,
         AsWritten(d.database.payload),
         InspectPayload(d.database.payload, validate).error = "none",
         ValidateSchema(InspectPayload(d.database.payload, validate)) = "none"
  PROVE  LET tables == d.database.payload.tables
             found == InspectPayload(d.database.payload, validate).tables
         IN  /\ Len(found) = Len(tables)
             /\ \A i \in DOMAIN tables :
                   /\ SameShape(found[i], tables[i])
                   /\ found[i].rows = tables[i].rows
                   /\ found[i].footer = tables[i].footer
                   /\ found[i].key = tables[i].key
<1> DEFINE p == d.database.payload
           layout0 == InspectPayload(p, validate)
           n == Len(p.sections)
           table == [i \in 1 .. n + 1 |->
                       IF i <= n
                       THEN ParseTable(p.sections[i], i - 1, FooterOf(p.sections[i]))
                       ELSE ParseTable(p.trailing, n, "final")]
<1>1. /\ p.sections \in Seq(Sections) /\ p.trailing \in Sections /\ p.tables \in Seq(Tables)
      /\ n \in Nat /\ Len(p.tables) \in Nat
 BY DisksAreFiles
<1>2. p.header # "malformed"
 BY DEF InspectPayload
<1>3. layout0.format = p.format /\ (layout0.tables = <<>> \/ layout0.tables = table)
 BY <1>2 DEF InspectPayload, Failed
<1>4. /\ HasSchema(p.format)
      /\ Len(layout0.tables) = Len(SchemaFor(p.format).tables)
 BY <1>3 DEF ValidateSchema
<1>5. Len(layout0.tables) = Len(p.tables) /\ Len(p.tables) > 0
 BY <1>4 DEF AsWritten
<1>6. layout0.tables = table /\ Len(table) = n + 1
 <2>1. Len(<<>>) = 0
  OBVIOUS
 <2>2. layout0.tables # <<>>
  BY <1>1, <1>5, <2>1
 <2>3. Len(table) = n + 1
  BY <1>1
 <2>4. QED
  BY <1>3, <2>2, <2>3
<1> HIDE DEF layout0
<1>7. /\ n = Len(p.tables) - 1
      /\ \A i \in 1 .. n : p.tables[i].footer # "final" /\ Written(p.tables[i], p.sections[i])
      /\ p.tables[n + 1].footer = "final" /\ Written(p.tables[n + 1], p.trailing)
 <2>1. Len(p.tables) = n + 1
  BY <1>5, <1>6
 <2>2. ~(n >= Len(p.tables))
  BY <1>1, <2>1
 <2>3. QED
  BY <1>1, <2>1, <2>2 DEF AsWritten
<1>8. \A i \in 1 .. n + 1 : p.tables[i] \in Tables
 BY <1>1, <1>7
<1>9. ASSUME NEW i \in 1 .. n + 1
      PROVE  /\ table[i].tuple = p.tables[i].tuple
             /\ table[i].descriptors = p.tables[i].descriptors
             /\ table[i].rows = p.tables[i].rows
             /\ table[i].footer = p.tables[i].footer
             /\ table[i].key = p.tables[i].key
 <2>1. CASE i <= n
  <3>1. i \in 1 .. n /\ p.sections[i] \in Sections /\ i - 1 \in Nat
   BY <1>1, <2>1
  <3>2. Written(p.tables[i], p.sections[i]) /\ p.tables[i].footer # "final"
   BY <1>7, <3>1
  <3>3. ParseTable(p.sections[i], i - 1, FooterOf(p.sections[i]))
          = [ordinal |-> i - 1, tuple |-> p.tables[i].tuple,
             descriptors |-> p.tables[i].descriptors, rows |-> p.tables[i].rows,
             key |-> p.tables[i].key, footer |-> p.tables[i].footer]
   BY <1>8, <3>1, <3>2, WrittenTableReadsBack
  <3>4. table[i] = ParseTable(p.sections[i], i - 1, FooterOf(p.sections[i]))
   BY <2>1
  <3> HIDE DEF table
  <3>5. QED
   BY <3>3, <3>4
 <2>2. CASE i = n + 1
  <3>1. table[i] = ParseTable(p.trailing, n, "final")
   BY <1>1, <2>2, SMTT(30)
  <3>2. BodySize(p.trailing, "final") \div RecordSize(p.trailing.tuple) = p.tables[i].rows
   BY <1>1, <1>7, <1>8, <2>2, OwnFooterParses
  <3>3. Written(p.tables[i], p.trailing) /\ p.tables[i].footer = "final"
   BY <1>7, <2>2
  <3> HIDE DEF table
  <3>4. /\ table[i].tuple = p.trailing.tuple
        /\ table[i].descriptors = p.trailing.descriptors
        /\ table[i].rows = p.tables[i].rows
        /\ table[i].footer = "final"
        /\ table[i].key = KeyOf(p.trailing, "final")
   BY <3>1, <3>2 DEF ParseTable
  <3>5. QED
   BY <3>3, <3>4 DEF Written
 <2> HIDE DEF table
 <2>3. i <= n \/ i = n + 1
  BY <1>1
 <2>4. QED
  BY <2>1, <2>2, <2>3
<1>10. DOMAIN p.tables = 1 .. n + 1
 BY <1>1, <1>7
<1> HIDE DEF table
<1>11. QED
 BY <1>5, <1>6, <1>9, <1>10 DEF SameShape, layout0

---------------------------------------------------------------------------
(* What is opened is what was written.                                    *)

\* The layout is that of the database, and the schema's answer is about it.
Inspected ==
  /\ disk \in Disks
  /\ pc = "model" => \E validate \in BOOLEAN :
                        /\ layout = InspectPayload(disk.database.payload, validate)
                        /\ layout.error = "none"
  /\ schema # "not asked" => pc = "model" /\ schema = ValidateSchema(layout)

LEMMA InspectedInitially == Init => Inspected
 BY DEF Init, Inspected

LEMMA InspectedKept ==
  ASSUME Inspected, [Next]_packageVars
  PROVE  Inspected'
<1> USE DEF Inspected
<1>1. CASE MapPackage
 <2>1. /\ pc \notin {"model", "inspect"} /\ pc' # "model" /\ UNCHANGED <<disk, layout, schema>>
  BY <1>1 DEF MapPackage, MapDatabase, ListDirectory, MapSidecar, ListArchives, OpenArchive,
     ReadEntry, PackageDone, Fail, NextArchive, diskVars, openVars, stageVars
 <2>2. QED
  BY <2>1
<1>2. CASE StartPayload \/ DecodeChunk
 <2>1. /\ pc # "model" /\ pc' # "model" /\ UNCHANGED <<disk, layout, schema>>
  BY <1>2 DEF StartPayload, DecodeChunk, Fail, diskVars, stageVars
 <2>2. QED
  BY <2>1
<1>3. CASE Inspect
 <2>1. /\ pc = "inspect" /\ UNCHANGED <<disk, schema>>
  BY <1>3 DEF Inspect, diskVars, stageVars
 <2>2. PICK validate \in BOOLEAN :
          LET found == InspectPayload(disk.database.payload, validate)
          IN  IF found.error = "none" THEN layout' = found /\ pc' = "model"
              ELSE pc' = "failed"
  BY <1>3 DEF Inspect, Fail
 <2>3. schema = "not asked"
  BY <2>1
 <2>4. QED
  BY <2>1, <2>2, <2>3
<1>4. CASE Process
 BY <1>4 DEF Process, diskVars, openVars, stageVars
<1>5. CASE AskComponents \/ AskMaterials \/ AskShape \/ AskSections
 BY <1>5 DEF AskComponents, AskMaterials, AskShape, AskSections, diskVars, openVars, stageVars
<1>6. CASE Vanish
 BY <1>6 DEF Vanish, openVars, stageVars
<1>7. CASE UNCHANGED packageVars
 BY <1>7 DEF packageVars, diskVars, openVars, stageVars
<1>8. QED
 BY <1>1, <1>2, <1>3, <1>4, <1>5, <1>6, <1>7 DEF Next, OpenModel, Ask

\* A database written by its schema is never misread, whatever its rows hold.
THEOREM DatabaseIsNeverMisread == Spec => []NeverMisread
<1>1. Inspected => NeverMisread
 <2> SUFFICES ASSUME Inspected, schema = "none", AsWritten(disk.database.payload)
              PROVE  NeverMisread
  BY DEF NeverMisread
 <2>1. PICK validate \in BOOLEAN :
          layout = InspectPayload(disk.database.payload, validate) /\ layout.error = "none"
  BY DEF Inspected
 <2>2. disk \in Disks /\ ValidateSchema(layout) = "none"
  BY DEF Inspected
 <2>3. QED
  BY <2>1, <2>2, InspectionOfWritten DEF NeverMisread
<1>2. QED
 BY <1>1, InspectedInitially, InspectedKept, PTL DEF Spec

---------------------------------------------------------------------------
(* The limits.                                                            *)

ArchiveNumbers == 1 .. Len(disk.archives)

\* PackageInv, with what the steps need: the files listed are those of the
\* disk, and the member of a stream that is being read is one of its members.
PackageIInv ==
  /\ PackageInv
  /\ pc \in {"archives", "entries"} => listed \in Seq(ArchiveNumbers)
  /\ pc = "entries" => listed # <<>> /\ entry \in Nat \ {0}
  /\ pc = "archives" => entry = 1
  /\ pc \in {"database", "list", "sidecars"} => entry = 1
  /\ payload \in [bytes : Nat, member : Nat, left : Nat]
  /\ pc = "decode" => payload.member \in 1 .. Len(disk.database.members)

LEMMA PackageIInvInitially == Init => PackageIInv
<1> SUFFICES ASSUME Init PROVE PackageIInv
 OBVIOUS
<1>1. /\ Limits.archives \in Nat /\ Limits.entries \in Nat /\ Limits.bytes \in Nat
      /\ PayloadLimits \subseteq Nat
 BY PackageLimits
<1>2. /\ budget = [archives |-> 0, entries |-> 0, bytes |-> 0] /\ inflated = 0
      /\ payload = [bytes |-> 0, member |-> 1, left |-> 0]
      /\ limit \in PayloadLimits /\ disk \in Disks /\ pc = "database" /\ entry = 1
 BY DEF Init
<1>3. /\ budget \in [archives : Nat, entries : Nat, bytes : Nat]
      /\ payload \in [bytes : Nat, member : Nat, left : Nat]
 BY <1>2
<1>4. /\ budget.archives <= Limits.archives /\ budget.entries <= Limits.entries
      /\ budget.bytes <= Limits.bytes /\ inflated <= budget.bytes /\ inflated \in Nat
 BY <1>1, <1>2
<1>5. payload.bytes \in Nat /\ (limit # 0 => payload.bytes <= limit)
 BY <1>1, <1>2
<1>6. QED
 BY <1>2, <1>3, <1>4, <1>5 DEF PackageIInv, PackageInv

\* An order of a finite set of numbers is a sequence of them.
LEMMA OrdersAreSequences ==
  ASSUME NEW n \in Nat, NEW S \in SUBSET (1 .. n), NEW order \in Orders(S)
  PROVE  Cardinality(S) \in Nat /\ order \in Seq(1 .. n)
<1>1. IsFiniteSet(S)
 <2>1. IsFiniteSet(1 .. n)
  BY FS_Interval
 <2>2. QED
  BY <2>1, FS_Subset
<1>2. Cardinality(S) \in Nat
 BY <1>1, FS_CardinalityType
<1>3. order \in [1 .. Cardinality(S) -> 1 .. n]
 BY DEF Orders
<1>4. QED
 BY <1>2, <1>3, IsASeq

\* Every step but the ones about archives and payloads leaves the limits alone.
LEMMA OtherStepsKeep ==
  ASSUME PackageIInv,
         MapDatabase \/ ListDirectory \/ MapSidecar \/ Inspect \/ Ask \/ Vanish
           \/ UNCHANGED packageVars
  PROVE  PackageIInv'
<1> USE DEF PackageIInv, PackageInv, ArchiveNumbers, Fail, diskVars, archiveVars, openVars,
            stageVars
<1>1. CASE MapDatabase
 BY <1>1 DEF MapDatabase
<1>2. CASE ListDirectory
 BY <1>2 DEF ListDirectory
<1>3. CASE MapSidecar
 BY <1>3 DEF MapSidecar
<1>4. CASE Inspect
 BY <1>4 DEF Inspect
<1>5. CASE Process
 BY <1>5 DEF Process
<1>6. CASE AskComponents
 BY <1>6 DEF AskComponents
<1>7. CASE AskMaterials
 BY <1>7 DEF AskMaterials
<1>8. CASE AskShape
 BY <1>8 DEF AskShape
<1>9. CASE Vanish
 BY <1>9 DEF Vanish
<1>10. CASE UNCHANGED packageVars
 BY <1>10 DEF packageVars
<1>11. CASE AskSections
 BY <1>11 DEF AskSections
<1>12. QED
 BY <1>1, <1>2, <1>3, <1>4, <1>5, <1>6, <1>7, <1>8, <1>9, <1>10, <1>11 DEF Ask

\* What a disk is made of.
LEMMA DiskIsFiles ==
  ASSUME PackageIInv
  PROVE  /\ disk.archives \in Seq([wrapper : STRING, directory : BOOLEAN,
                                    entries : Seq(Entries)])
         /\ Len(disk.archives) \in Nat
         /\ DOMAIN disk.archives = 1 .. Len(disk.archives)
         /\ \A i \in 1 .. Len(disk.archives) : disk.archives[i].entries \in Seq(Entries)
         /\ disk.database.size \in Nat
         /\ disk.database.wrapper = "gzip" => disk.database.members # <<>>
         /\ Len(disk.database.members) \in Nat
         /\ \A i \in 1 .. Len(disk.database.members) : disk.database.members[i].size \in Nat
<1>1. disk \in Disks
 BY DEF PackageIInv, PackageInv
<1>2. /\ disk.database.size \in Nat
      /\ disk.database.members \in Seq([size : Nat, intact : BOOLEAN])
      /\ disk.database.wrapper = "gzip" => disk.database.members # <<>>
      /\ disk.archives \in Seq([wrapper : STRING, directory : BOOLEAN,
                                 entries : Seq(Entries)])
 BY <1>1, DisksAreFiles
<1> DEFINE a == disk.archives
           m == disk.database.members
<1>3. \A i \in 1 .. Len(a) : a[i] \in [wrapper : STRING, directory : BOOLEAN,
                                       entries : Seq(Entries)]
 <2> HIDE DEF a
 <2>1. a \in Seq([wrapper : STRING, directory : BOOLEAN, entries : Seq(Entries)])
  BY <1>2 DEF a
 <2>2. QED
  BY <2>1, ElementOfSeq
<1>4. \A i \in 1 .. Len(m) : m[i] \in [size : Nat, intact : BOOLEAN]
 <2> HIDE DEF m
 <2>1. m \in Seq([size : Nat, intact : BOOLEAN])
  BY <1>2 DEF m
 <2>2. QED
  BY <2>1, ElementOfSeq
<1>5. QED
 BY <1>2, <1>3, <1>4, SMTT(30)

LEMMA ArchiveStepsKeep ==
  ASSUME PackageIInv, ListArchives \/ OpenArchive \/ ReadEntry \/ PackageDone
  PROVE  PackageIInv'
<1> USE DEF PackageIInv, PackageInv, ArchiveNumbers
<1>1. /\ disk.archives \in Seq([wrapper : STRING, directory : BOOLEAN, entries : Seq(Entries)])
      /\ Len(disk.archives) \in Nat /\ DOMAIN disk.archives = 1 .. Len(disk.archives)
      /\ \A i \in 1 .. Len(disk.archives) : disk.archives[i].entries \in Seq(Entries)
 BY DiskIsFiles
<1>2. /\ Limits.archives \in Nat /\ Limits.entries \in Nat /\ Limits.bytes \in Nat
      /\ budget.archives \in Nat /\ budget.entries \in Nat /\ budget.bytes \in Nat
 BY PackageLimits
<1>3. CASE ListArchives
 <2>1. CASE pc' = "failed"
  BY <1>3, <2>1, <1>2 DEF ListArchives, Fail, diskVars, openVars, stageVars
 <2>2. CASE pc' # "failed"
  <3> DEFINE found == {i \in DOMAIN disk.archives : <<"archive", i>> \notin gone}
  <3>1. PICK order \in Orders(found) :
           /\ listed' = order
           /\ Fits(budget.archives, Cardinality(found), Limits.archives)
           /\ budget' = [budget EXCEPT !.archives = @ + Cardinality(found)]
           /\ pc' = "archives" /\ pc = "sidecars"
           /\ UNCHANGED <<diskVars, entry, inflated, openVars>>
   BY <1>3, <2>2 DEF ListArchives, Fail
  <3>2. found \in SUBSET (1 .. Len(disk.archives))
   BY <1>1
  <3>3. Cardinality(found) \in Nat /\ order \in Seq(1 .. Len(disk.archives))
   BY <1>1, <3>2, OrdersAreSequences
  <3> DEFINE n == Cardinality(found)
  <3> HIDE DEF found, n
  <3>4. /\ n \in Nat /\ n <= Limits.archives - budget.archives
        /\ budget' = [budget EXCEPT !.archives = @ + n]
   BY <3>1, <3>3 DEF Fits, n
  <3>5. /\ budget' \in [archives : Nat, entries : Nat, bytes : Nat]
        /\ budget'.archives = budget.archives + n
        /\ budget'.entries = budget.entries /\ budget'.bytes = budget.bytes
   BY <1>2, <3>4, SMTT(40)
  <3>6. budget'.archives <= Limits.archives
   BY <1>2, <3>4, <3>5
  <3>7. QED
   BY <3>1, <3>3, <3>5, <3>6 DEF diskVars, openVars
 <2>3. QED
  BY <2>1, <2>2
<1>4. CASE OpenArchive \/ ReadEntry
 <2> DEFINE archive == disk.archives[Head(listed)]
 <2>1. /\ listed \in Seq(1 .. Len(disk.archives)) /\ listed # <<>> /\ pc \in {"archives", "entries"}
       /\ UNCHANGED <<disk, limit, payload>>
  BY <1>4 DEF OpenArchive, ReadEntry, diskVars, openVars
 <2>2. Head(listed) \in 1 .. Len(disk.archives) /\ Tail(listed) \in Seq(1 .. Len(disk.archives))
  BY <2>1, HeadTailProperties
 <2>3. archive.entries \in Seq(Entries) /\ Len(archive.entries) \in Nat
  <3>1. archive.entries \in Seq(Entries)
   BY <1>1, <2>2, Zenon
  <3> HIDE DEF archive
  <3>2. QED
   BY <3>1
 <2> HIDE DEF archive
 <2>4. CASE OpenArchive
  <3> DEFINE count == Len(archive.entries)
  <3>1. pc = "archives" /\ entry = 1 /\ UNCHANGED <<disk, limit, payload, inflated>>
   BY <2>4 DEF OpenArchive, diskVars, openVars
  <3>2. CASE NextArchive /\ UNCHANGED budget
   BY <2>1, <2>2, <3>1, <3>2 DEF NextArchive
  <3>3. CASE Fail("resource_limit") /\ UNCHANGED <<listed, entry, budget>>
   BY <3>1, <3>3 DEF Fail
  <3>4. CASE /\ Fits(budget.entries, count, Limits.entries)
             /\ budget' = [budget EXCEPT !.entries = @ + count]
             /\ pc' = "entries" /\ UNCHANGED <<listed, entry>>
   <4> HIDE DEF count
   <4>1. count \in Nat
    BY <2>3 DEF count
   <4>2. /\ budget' \in [archives : Nat, entries : Nat, bytes : Nat]
         /\ budget'.entries = budget.entries + count
         /\ budget'.archives = budget.archives /\ budget'.bytes = budget.bytes
    BY <1>2, <3>4, <4>1, SMTT(30)
   <4>3. budget'.entries <= Limits.entries
    BY <1>2, <3>4, <4>1, <4>2 DEF Fits
   <4>4. QED
    BY <2>1, <3>1, <3>4, <4>2, <4>3
  <3>5. QED
   BY <2>4, <3>2, <3>3, <3>4 DEF OpenArchive, archive
 <2>5. CASE ReadEntry
  <3> DEFINE e == archive.entries[entry]
  <3>1. pc = "entries" /\ entry \in Nat \ {0} /\ UNCHANGED <<disk, limit, payload>>
   BY <2>1, <2>5 DEF ReadEntry
  <3>2. CASE NextArchive /\ UNCHANGED <<budget, inflated>>
   BY <2>1, <2>2, <3>1, <3>2 DEF NextArchive
  <3>3. CASE Fail("resource_limit") /\ UNCHANGED <<listed, entry, budget, inflated>>
   BY <3>1, <3>3 DEF Fail
  <3>4. CASE /\ entry <= Len(archive.entries)
             /\ entry' = entry + 1 /\ UNCHANGED <<pc, listed>>
             /\ IF IsCatalog(e)
                THEN /\ Fits(budget.bytes, e.size, Limits.bytes)
                     /\ budget' = [budget EXCEPT !.bytes = @ + e.size]
                     /\ inflated' = inflated + (IF Inflates(e) THEN e.size ELSE 0)
                ELSE UNCHANGED <<budget, inflated>>
   <4>1. e \in Entries
    BY <2>3, <3>1, <3>4, ElementOfSeq
   <4>2. e.size \in Nat
    BY <4>1 DEF Entries
   <4> HIDE DEF e
   <4>3. CASE IsCatalog(e)
    <5>1. inflated' \in {inflated, inflated + e.size} /\ inflated' \in Nat
     BY <3>4, <4>2, <4>3
    <5>2. /\ budget' = [budget EXCEPT !.bytes = @ + e.size]
          /\ budget'.bytes = budget.bytes + e.size
          /\ budget' \in [archives : Nat, entries : Nat, bytes : Nat]
          /\ budget'.archives = budget.archives /\ budget'.entries = budget.entries
     BY <1>2, <3>4, <4>2, <4>3, SMTT(40)
    <5>3. inflated' <= budget'.bytes
     BY <4>2, <5>1, <5>2, SMTT(30)
    <5>4. budget'.bytes <= Limits.bytes
     BY <1>2, <3>4, <4>2, <4>3, <5>2 DEF Fits
    <5>5. /\ pc' = pc /\ listed' = listed /\ disk' = disk /\ payload' = payload
          /\ limit' = limit /\ entry' = entry + 1
     BY ONLY <3>1, <3>4
    <5>6. PackageInv'
     BY ONLY PackageIInv, <5>1, <5>2, <5>3, <5>4, <5>5 DEF PackageIInv, PackageInv
    <5>7. entry' \in Nat \ {0}
     BY ONLY <3>1, <5>5
    <5>8. QED
     BY ONLY PackageIInv, <3>1, <5>5, <5>6, <5>7 DEF PackageIInv, ArchiveNumbers
   <4>4. CASE ~IsCatalog(e)
    BY <3>1, <3>4, <4>4
   <4>5. QED
    BY <4>3, <4>4
  <3>5. entry > Len(archive.entries) \/ entry <= Len(archive.entries)
   BY <2>3, <3>1
  <3>6. QED
   BY <2>5, <3>2, <3>3, <3>4, <3>5 DEF ReadEntry, archive
 <2>6. QED
  BY <1>4, <2>4, <2>5
<1>5. CASE PackageDone
 BY <1>5 DEF PackageDone, diskVars, archiveVars, openVars
<1>6. QED
 BY <1>3, <1>4, <1>5 DEF PackageInv

LEMMA PayloadStepsKeep ==
  ASSUME PackageIInv, StartPayload \/ DecodeChunk
  PROVE  PackageIInv'
<1> USE DEF PackageIInv, PackageInv, ArchiveNumbers, Fail, diskVars, archiveVars
<1> DEFINE members == disk.database.members
<1>1. /\ disk.database.size \in Nat
      /\ disk.database.wrapper = "gzip" => Len(members) > 0
      /\ Len(members) \in Nat
 <2>1. members \in Seq([size : Nat, intact : BOOLEAN])
  BY DisksAreFiles
 <2>2. QED
  BY <2>1, DiskIsFiles, EmptySeq
<1>2. limit \in Nat /\ ChunkBytes \in Nat
 BY PackageLimits
<1>3. \A i \in 1 .. Len(members) : members[i].size \in Nat
 BY DiskIsFiles
<1> HIDE DEF members
<1>4. CASE StartPayload
 <2>1. CASE disk.database.wrapper = "gzip"
  <3>1. 1 \in 1 .. Len(members)
   BY <1>1, <2>1
  <3>2. members[1].size \in Nat
   BY <1>3, <3>1
  <3>3. UNCHANGED <<disk, listed, entry, budget, inflated, limit>>
   BY <1>4, <2>1 DEF StartPayload
  <3>4. /\ payload' = [bytes |-> 0, member |-> 1, left |-> members[1].size]
        /\ pc' = "decode"
   BY <1>4, <2>1 DEF StartPayload, members
  <3>5. payload' \in [bytes : Nat, member : Nat, left : Nat] /\ payload'.bytes = 0
   BY <3>2, <3>4
  <3>6. payload'.member \in 1 .. Len(disk'.database.members)
   BY <3>1, <3>3, <3>4 DEF members
  <3>7. limit' # 0 => payload'.bytes <= limit'
   BY <1>2, <3>3, <3>5
  <3>8. QED
   BY <3>3, <3>4, <3>5, <3>6, <3>7
 <2>2. CASE disk.database.wrapper # "gzip"
  <3>1. UNCHANGED <<disk, listed, entry, budget, inflated, limit>> /\ pc' # "decode"
   BY <1>4, <2>2 DEF StartPayload
  <3>2. \/ UNCHANGED payload
        \/ /\ payload' = [payload EXCEPT !.bytes = disk.database.size]
           /\ limit # 0 => disk.database.size <= limit
   BY <1>1, <1>2, <1>4, <2>2 DEF StartPayload
  <3>3. /\ payload' \in [bytes : Nat, member : Nat, left : Nat]
        /\ limit # 0 => payload'.bytes <= limit
   BY <1>1, <3>2
  <3>4. pc' \in {"inspect", "failed"}
   BY <1>4, <2>2 DEF StartPayload
  <3>5. QED
   BY <3>1, <3>3, <3>4
 <2>3. QED
  BY <2>1, <2>2
<1>5. CASE DecodeChunk
 <2> DEFINE produced == Least(payload.left, ChunkBytes)
            left == payload.left - produced
 <2>1. /\ produced \in Nat /\ left \in Nat
  BY <1>2 DEF Least
 <2>2. /\ pc = "decode" /\ payload.member \in 1 .. Len(members)
       /\ UNCHANGED <<disk, listed, entry, budget, inflated, limit>>
  BY <1>5 DEF DecodeChunk, members
 <2>3. CASE pc' = "failed"
  BY <1>5, <2>2, <2>3 DEF DecodeChunk
 <2>4. CASE pc' # "failed"
  <3>1. PICK ends \in BOOLEAN :
          /\ ~(limit # 0 /\ produced > limit - Least(limit, payload.bytes))
          /\ IF ends /\ LastMember(payload.member)
             THEN /\ payload' = [payload EXCEPT !.bytes = @ + produced, !.left = 0]
                  /\ pc' = "inspect"
             ELSE /\ payload' = [bytes |-> payload.bytes + produced,
                                 member |-> payload.member + (IF ends THEN 1 ELSE 0),
                                 left |-> IF ends THEN members[payload.member + 1].size
                                          ELSE left]
                  /\ UNCHANGED pc
   BY <1>5, <2>4 DEF DecodeChunk, members
  <3> HIDE DEF produced, left
  <3>2. limit # 0 => payload.bytes + produced <= limit
   BY <1>2, <2>1, <3>1 DEF Least
  <3>3. CASE ends /\ LastMember(payload.member)
   <4>1. payload' = [payload EXCEPT !.bytes = @ + produced, !.left = 0] /\ pc' = "inspect"
    BY <3>1, <3>3
   <4>2. payload \in [bytes : Nat, member : Nat, left : Nat]
    OBVIOUS
   <4>3. payload'.bytes = payload.bytes + produced
    BY <4>1, <4>2
   <4>4. payload' \in [bytes : Nat, member : Nat, left : Nat]
    <5>1. payload.bytes + produced \in Nat
     BY <2>1, <4>2
    <5>2. payload' = [bytes |-> payload.bytes + produced, member |-> payload.member,
                      left |-> 0]
     BY <4>1, <4>2
    <5>3. QED
     BY <4>2, <5>1, <5>2
   <4>5. QED
    BY <2>2, <3>2, <4>1, <4>3, <4>4
  <3>4. CASE ends /\ ~LastMember(payload.member)
   <4>1. payload.member + 1 \in 1 .. Len(members)
    BY <1>1, <2>2, <3>4 DEF LastMember, members
   <4>2. members[payload.member + 1].size \in Nat
    BY <1>3, <4>1
   <4>3. /\ payload' = [bytes |-> payload.bytes + produced, member |-> payload.member + 1,
                         left |-> members[payload.member + 1].size]
         /\ UNCHANGED pc
    BY <3>1, <3>4
   <4>4. /\ payload' \in [bytes : Nat, member : Nat, left : Nat]
         /\ payload'.bytes = payload.bytes + produced
         /\ payload'.member \in 1 .. Len(members)
    BY <2>1, <4>1, <4>2, <4>3
   <4>5. QED
    BY <2>2, <3>2, <4>3, <4>4 DEF members
  <3>5. CASE ~ends
   <4>1. /\ payload' = [bytes |-> payload.bytes + produced, member |-> payload.member + 0,
                         left |-> left]
         /\ UNCHANGED pc
    BY <3>1, <3>5
   <4>2. /\ payload' \in [bytes : Nat, member : Nat, left : Nat]
         /\ payload'.bytes = payload.bytes + produced
         /\ payload'.member \in 1 .. Len(members)
    BY <2>1, <2>2, <4>1
   <4>3. QED
    BY <2>2, <3>2, <4>1, <4>2 DEF members
  <3>6. QED
   BY <3>3, <3>4, <3>5
 <2>5. QED
  BY <2>3, <2>4
<1>6. QED
 BY <1>4, <1>5

\* Opening a model keeps every limit: of the archives' number, entries and
\* bytes, and of the database's payload.
THEOREM PackageKeepsLimits == Spec => []PackageInv
<1>1. PackageIInv /\ [Next]_packageVars => PackageIInv'
 BY OtherStepsKeep, ArchiveStepsKeep, PayloadStepsKeep DEF Next, MapPackage, OpenModel
<1>2. PackageIInv => PackageInv
 BY DEF PackageIInv
<1>3. QED
 BY <1>1, <1>2, PackageIInvInitially, PTL DEF Spec
\* No set of numbers up to n holds 0 and the successor of all it holds.
LEMMA NoEndlessAscent ==
  ASSUME NEW n \in Nat, NEW D, D \subseteq 0 .. n, 0 \in D, \A x \in D : x + 1 \in D
  PROVE  FALSE
<1>1. IsFiniteSet(0 .. n)
 BY FS_Interval
<1>2. IsFiniteSet(D) /\ Cardinality(D) \in Nat
 BY <1>1, FS_Subset, FS_CardinalityType
<1>3. PICK T : T = D \ {0}
 OBVIOUS
<1>4. IsFiniteSet(T) /\ Cardinality(T) < Cardinality(D)
 BY <1>2, <1>3, FS_RemoveElement
<1>5. PICK next : next = [x \in D |-> x + 1]
 OBVIOUS
<1>6. next \in [D -> T] /\ \A x \in D : next[x] = x + 1
 BY <1>3, <1>5
<1>7. /\ next \in [D -> T] /\ IsFiniteSet(D) /\ IsFiniteSet(T)
      /\ Cardinality(T) < Cardinality(D)
 BY <1>2, <1>4, <1>6
<1>8. \E x, y \in D : x # y /\ next[x] = next[y]
 BY ONLY <1>7, FS_PigeonHole
<1>9. QED
 BY <1>6, <1>8

\* Numbers have a least one.
LEMMA LeastOfNumbers ==
  ASSUME NEW S, S \subseteq Nat, S # {}
  PROVE  \E m \in S : \A k \in S : m <= k
<1> SUFFICES ASSUME \A m \in S : \E k \in S : k < m
             PROVE  FALSE
 OBVIOUS
<1>1. PICK n \in S : TRUE
 OBVIOUS
<1>2. PICK D : D = {x \in 0 .. n : \A k \in S : x <= k}
 OBVIOUS
<1>3. D \subseteq 0 .. n /\ 0 \in D
 BY <1>1, <1>2
<1>4. ASSUME NEW x \in D
      PROVE  x + 1 \in D
 <2>1. \A k \in S : x <= k /\ x # k
  BY <1>2
 <2>2. \A k \in S : x + 1 <= k
  BY <1>2, <2>1
 <2>3. QED
  BY <1>1, <1>2, <2>2
<1>5. QED
 BY <1>1, <1>3, <1>4, NoEndlessAscent

\* Numbers up to n have a last one.
LEMMA LastOfNumbers ==
  ASSUME NEW n \in Nat, NEW S, S \subseteq 1 .. n, S # {}
  PROVE  \E m \in S : \A k \in S : k <= m
<1>1. PICK D : D = {n - x : x \in S}
 OBVIOUS
<1>2. D \subseteq Nat /\ D # {}
 <2>1. \A x \in S : x \in Nat /\ x <= n
  OBVIOUS
 <2>2. \A x \in S : n - x \in Nat
  BY <2>1
 <2>3. QED
  BY <1>1, <2>2
<1>3. PICK d \in D : \A k \in D : d <= k
 BY <1>2, LeastOfNumbers
<1>4. PICK m \in S : d = n - m
 BY <1>1, <1>3
<1>5. \A k \in S : n - m <= n - k
 BY <1>1, <1>3, <1>4
<1>6. QED
 BY <1>4, <1>5

\* A set that holds 0 and every successor of what it holds has all numbers.
LEMMA SetInduction ==
  ASSUME NEW S, 0 \in S, \A n \in Nat : n \in S => n + 1 \in S
  PROVE  Nat \subseteq S
<1> SUFFICES ASSUME Nat \ S # {}
             PROVE  FALSE
 OBVIOUS
<1>1. Nat \ S \subseteq Nat
 OBVIOUS
<1>2. PICK m \in Nat \ S : \A k \in Nat \ S : m <= k
 BY <1>1, LeastOfNumbers
<1>3. m # 0 /\ m - 1 \in Nat
 BY <1>2
<1>4. m - 1 \in S
 BY <1>2, <1>3
<1>5. QED
 BY <1>2, <1>3, <1>4

---------------------------------------------------------------------------
(* The catalogs give the last of what a package has.                      *)

\* Every step of a pass over a package.
IsPass(after, assets, where, skipped) ==
  after = [i \in 0 .. Len(assets) |->
              IF i = 0 THEN << >>
              ELSE IF Useful(assets[i], where, skipped)
              THEN InsertOrAssign(after[i - 1], assets[i].content.name, assets[i].content.value)
              ELSE after[i - 1]]

\* The useful assets among the first n.
UsefulUpTo(n, assets, where, skipped) == {i \in 1 .. n : Useful(assets[i], where, skipped)}

\* A map holds the names of some assets, each with the value of its last one.
HoldsLast(map, taken, assets) ==
  /\ DOMAIN map = {assets[i].content.name : i \in taken}
  /\ \A i \in taken :
        (\A j \in taken : assets[j].content.name = assets[i].content.name => j <= i)
          => map[assets[i].content.name] = assets[i].content.value

\* One step of a pass: what the map was before it, for the first n assets.
Passed(map, before, n, assets, where, skipped) ==
  map = IF Useful(assets[n], where, skipped)
        THEN InsertOrAssign(before, assets[n].content.name, assets[n].content.value)
        ELSE before

\* A pass can be made over assets of any number.
LEMMA PassExists ==
  ASSUME NEW assets, NEW where, NEW skipped, Len(assets) \in Nat
  PROVE  \E after : IsPass(after, assets, where, skipped)
<1> DEFINE Step(map, i) == IF Useful(assets[i], where, skipped)
                           THEN InsertOrAssign(map, assets[i].content.name,
                                               assets[i].content.value)
                           ELSE map
           Steps(f, n) == f = [i \in 0 .. n |-> IF i = 0 THEN << >> ELSE Step(f[i - 1], i)]
           S == {n \in Nat : \E f : Steps(f, n)}
<1> HIDE DEF Step
<1>1. 0 \in S
 <2>1. PICK f : f = [i \in 0 .. 0 |-> << >>]
  OBVIOUS
 <2>2. Steps(f, 0)
  BY <2>1
 <2>3. QED
  BY <2>2
<1>2. ASSUME NEW n \in Nat, n \in S
      PROVE  n + 1 \in S
 <2>1. PICK f : Steps(f, n)
  BY <1>2
 <2>2. PICK g : g = [i \in 0 .. n + 1 |-> IF i = n + 1 THEN Step(f[n], n + 1) ELSE f[i]]
  OBVIOUS
 <2>3. \A i \in 0 .. n : g[i] = f[i]
  BY <2>2
 <2>4. g[n + 1] = Step(g[n], n + 1)
  BY <2>2, <2>3
 <2>5. \A i \in 0 .. n : f[i] = IF i = 0 THEN << >> ELSE Step(f[i - 1], i)
  BY <2>1
 <2>6. \A i \in 1 .. n : f[i - 1] = g[i - 1]
  BY <2>3
 <2>7. \A i \in 0 .. n + 1 : g[i] = IF i = 0 THEN << >> ELSE Step(g[i - 1], i)
  <3>1. \A i \in 0 .. n + 1 : i \in 0 .. n \/ i = n + 1
   OBVIOUS
  <3>2. \A i \in 0 .. n : i = 0 \/ i \in 1 .. n
   OBVIOUS
  <3>3. (n + 1) - 1 = n /\ n + 1 # 0
   OBVIOUS
  <3>4. QED
   BY <2>3, <2>4, <2>5, <2>6, <3>1, <3>2, <3>3
 <2>8. g = [i \in 0 .. n + 1 |-> g[i]]
  BY <2>2
 <2>9. Steps(g, n + 1)
  BY <2>7, <2>8
 <2>10. QED
  BY <2>9
<1> HIDE DEF S
<1>3. Nat \subseteq S
 BY ONLY <1>1, <1>2, SetInduction
<1>4. PICK f : Steps(f, Len(assets))
 BY <1>3 DEF S
<1>5. IsPass(f, assets, where, skipped)
 BY <1>4 DEF IsPass, Step
<1>6. QED
 BY <1>5

\* A step keeps the last value of every name.
LEMMA StepHoldsLast ==
  ASSUME NEW assets, NEW where, NEW skipped, NEW n \in Nat, NEW map, NEW before,
         Passed(map, before, n + 1, assets, where, skipped),
         HoldsLast(before, UsefulUpTo(n, assets, where, skipped), assets)
  PROVE  HoldsLast(map, UsefulUpTo(n + 1, assets, where, skipped), assets)
<1> DEFINE old == UsefulUpTo(n, assets, where, skipped)
           new == UsefulUpTo(n + 1, assets, where, skipped)
           name(i) == assets[i].content.name
           value(i) == assets[i].content.value
<1>1. CASE ~Useful(assets[n + 1], where, skipped)
 <2>1. new = old
  BY <1>1 DEF UsefulUpTo
 <2>2. QED
  BY <1>1, <2>1 DEF Passed
<1>2. CASE Useful(assets[n + 1], where, skipped)
 <2>1. /\ new = old \cup {n + 1} /\ old \subseteq 1 .. n
  BY <1>2 DEF UsefulUpTo
 <2>2. /\ DOMAIN map = DOMAIN before \cup {name(n + 1)}
       /\ map[name(n + 1)] = value(n + 1)
       /\ \A k \in DOMAIN before : k # name(n + 1) => map[k] = before[k]
  BY <1>2 DEF Passed, InsertOrAssign
 <2> HIDE DEF old, new, name, value
 <2>3. DOMAIN before = {name(i) : i \in old}
  BY DEF HoldsLast, old, name
 <2>4. \A i \in old : (\A j \in old : name(j) = name(i) => j <= i) => before[name(i)] = value(i)
  BY DEF HoldsLast, old, name, value
 <2>5. DOMAIN map = {name(i) : i \in new}
  BY <2>1, <2>2, <2>3
 <2>6. ASSUME NEW i \in new, \A j \in new : name(j) = name(i) => j <= i
       PROVE  map[name(i)] = value(i)
  <3>1. CASE i = n + 1
   BY <2>2, <3>1
  <3>2. CASE i # n + 1
   <4>1. i \in old /\ i <= n /\ n + 1 \in new
    BY <2>1, <3>2
   <4>2. name(n + 1) # name(i)
    <5>1. name(n + 1) = name(i) => n + 1 <= i
     BY <2>6, <4>1, Zenon
    <5>2. i \in Nat
     BY <2>1, <4>1
    <5>3. QED
     BY <4>1, <5>1, <5>2
   <4>3. before[name(i)] = value(i)
    BY <2>1, <2>4, <2>6, <4>1
   <4>4. QED
    BY <2>2, <2>3, <4>1, <4>2, <4>3
  <3>3. QED
   BY <3>1, <3>2
 <2>7. QED
  BY <2>5, <2>6 DEF HoldsLast, new, name, value
<1>3. QED
 BY <1>1, <1>2

\* After a pass every useful name has its last value.
LEMMA PassHoldsLast ==
  ASSUME NEW assets, NEW where, NEW skipped, Len(assets) \in Nat
  PROVE  HoldsLast(PassOver(assets, where, skipped),
                   UsefulUpTo(Len(assets), assets, where, skipped), assets)
<1> DEFINE after == CHOOSE f : IsPass(f, assets, where, skipped)
           Held(n) == HoldsLast(after[n], UsefulUpTo(n, assets, where, skipped), assets)
           S == {n \in Nat : n <= Len(assets) => Held(n)}
<1>1. IsPass(after, assets, where, skipped)
 BY PassExists
<1>2. PassOver(assets, where, skipped) = after[Len(assets)]
 BY DEF PassOver, IsPass
<1> HIDE DEF after
<1>3. after[0] = << >>
 BY <1>1 DEF IsPass
<1>4. 0 \in S
 <2>1. UsefulUpTo(0, assets, where, skipped) = {}
  BY DEF UsefulUpTo
 <2>2. DOMAIN after[0] = {}
  BY <1>3
 <2>3. Held(0)
  BY <2>1, <2>2 DEF HoldsLast
 <2>4. QED
  BY <2>3
<1>5. ASSUME NEW n \in Nat, n \in S
      PROVE  n + 1 \in S
 <2> SUFFICES ASSUME n + 1 <= Len(assets)
              PROVE  Held(n + 1)
  OBVIOUS
 <2>1. Held(n)
  BY <1>5
 <2>2. n + 1 \in 0 .. Len(assets) /\ n + 1 # 0 /\ (n + 1) - 1 = n
  OBVIOUS
 <2>3. Passed(after[n + 1], after[n], n + 1, assets, where, skipped)
  BY <1>1, <2>2 DEF IsPass, Passed
 <2>4. QED
  BY <2>1, <2>3, StepHoldsLast
<1> HIDE DEF S, Held
<1>6. Nat \subseteq S
 BY ONLY <1>4, <1>5, SetInduction
<1>7. Held(Len(assets))
 BY <1>6 DEF S
<1>8. QED
 BY <1>2, <1>7 DEF Held
\* The last useful asset of a name, among those that CatalogsResolve looks at.
NamedAssets(assets, name, where, useless) ==
  {i \in DOMAIN assets : /\ assets[i].role = "catalog_snapshot"
                         /\ assets[i].content.folder = where
                         /\ assets[i].content.name = name
                         /\ assets[i].content.value \notin useless}

LastValue(assets, S) == assets[CHOOSE i \in S : \A j \in S : j <= i].content.value

\* What a pass finds under a name is the value of the last asset that has it.
LEMMA PassFindsLast ==
  ASSUME NEW assets, NEW name, NEW where, NEW useless,
         Len(assets) \in Nat, DOMAIN assets = 1 .. Len(assets)
  PROVE  LET S == NamedAssets(assets, name, where, useless)
             map == PassOver(assets, where, useless)
         IN  /\ name \in DOMAIN map <=> S # {}
             /\ S # {} => map[name] = LastValue(assets, S)
<1> DEFINE S == NamedAssets(assets, name, where, useless)
           map == PassOver(assets, where, useless)
           taken == UsefulUpTo(Len(assets), assets, where, useless)
<1>1. HoldsLast(map, taken, assets)
 BY PassHoldsLast
<1>2. S = {i \in taken : assets[i].content.name = name}
 BY DEF NamedAssets, UsefulUpTo, Useful
<1>3. taken \subseteq 1 .. Len(assets)
 BY DEF UsefulUpTo
<1> HIDE DEF S, map, taken
<1>4. name \in DOMAIN map <=> S # {}
 BY <1>1, <1>2 DEF HoldsLast
<1>5. ASSUME S # {}
      PROVE  map[name] = LastValue(assets, S)
 <2>1. S \subseteq 1 .. Len(assets)
  BY <1>2, <1>3
 <2>2. \E m \in S : \A k \in S : k <= m
  BY <1>5, <2>1, LastOfNumbers
 <2> DEFINE m == CHOOSE i \in S : \A j \in S : j <= i
 <2>3. m \in S /\ \A k \in S : k <= m
  BY <2>2
 <2>4. LastValue(assets, S) = assets[m].content.value
  BY DEF LastValue
 <2> HIDE DEF m
 <2>5. m \in taken /\ assets[m].content.name = name
  BY <1>2, <2>3
 <2>6. \A j \in taken : assets[j].content.name = assets[m].content.name => j <= m
  BY <1>2, <2>3, <2>5
 <2>7. map[assets[m].content.name] = assets[m].content.value
  BY <1>1, <2>5, <2>6 DEF HoldsLast
 <2>8. QED
  BY <2>4, <2>5, <2>7
<1>6. QED
 BY <1>4, <1>5 DEF S, map

\* What the stages were told stays what the package says: a package is not
\* changed once the model is open.
CatalogsIInv ==
  /\ package \in Seq({package[i] : i \in DOMAIN package})
  /\ answers = [components |-> answers.components, materials |-> answers.materials,
                sections |-> answers.sections, shapes |-> answers.shapes]
  /\ DOMAIN answers.shapes # {} \/ answers.sections # NotAsked => pc = "model"
  /\ \A guid \in DOMAIN answers.shapes : answers.shapes[guid] = Shape(package, guid)
  /\ answers.sections # NotAsked => answers.sections.found = ProfileSections(package)

LEMMA CatalogsIInvInitially == Init => CatalogsIInv
<1> SUFFICES ASSUME Init PROVE CatalogsIInv
 OBVIOUS
<1>1. /\ package = << >>
      /\ answers = [components |-> NotAsked, materials |-> NotAsked, sections |-> NotAsked,
                    shapes |-> << >>]
 BY DEF Init
<1>2. package \in Seq({package[i] : i \in DOMAIN package})
 BY <1>1
<1>3. answers.sections = NotAsked /\ answers.shapes = << >> /\ DOMAIN answers.shapes = {}
 BY <1>1
<1>4. QED
 BY <1>1, <1>2, <1>3 DEF CatalogsIInv

\* A sequence with one more asset is a sequence of what it holds.
LEMMA StillAPackage ==
  ASSUME NEW assets, assets \in Seq({assets[i] : i \in DOMAIN assets}), NEW asset,
         NEW longer, longer = Append(assets, asset)
  PROVE  longer \in Seq({longer[i] : i \in DOMAIN longer})
<1> DEFINE T == {assets[i] : i \in DOMAIN assets} \cup {asset}
<1>1. assets \in Seq(T)
 <2>1. {assets[i] : i \in DOMAIN assets} \subseteq T
  OBVIOUS
 <2>2. QED
  BY <2>1
<1>2. asset \in T
 OBVIOUS
<1> HIDE DEF T
<1>3. longer \in Seq(T)
 BY <1>1, <1>2
<1>4. Len(longer) \in Nat /\ longer \in [1 .. Len(longer) -> T]
 BY ONLY <1>3
<1>5. longer \in [1 .. Len(longer) -> {longer[i] : i \in DOMAIN longer}]
 BY ONLY <1>4
<1>6. QED
 BY ONLY <1>4, <1>5, IsASeq

\* Steps that leave what the stages were told, and the package when it counts.
LEMMA QuietStepKeeps ==
  ASSUME CatalogsIInv, UNCHANGED answers,
         \/ UNCHANGED <<package, pc>>
         \/ pc # "model" /\ package' \in Seq({package'[i] : i \in DOMAIN package'})
  PROVE  CatalogsIInv'
<1>1. CASE UNCHANGED <<package, pc>>
 BY <1>1 DEF CatalogsIInv
<1>2. CASE pc # "model" /\ package' \in Seq({package'[i] : i \in DOMAIN package'})
 <2>1. DOMAIN answers.shapes = {} /\ answers.sections = NotAsked
  BY <1>2 DEF CatalogsIInv
 <2>2. QED
  BY <1>2, <2>1 DEF CatalogsIInv
<1>3. QED
 BY <1>1, <1>2
\* The steps that put a package together, and every step that asks nothing.
LEMMA PackageStepsKeepCatalogs ==
  ASSUME CatalogsIInv, MapPackage \/ OpenModel \/ Vanish \/ Process \/ AskComponents
           \/ AskMaterials \/ UNCHANGED packageVars
  PROVE  CatalogsIInv'
<1>1. package \in Seq({package[i] : i \in DOMAIN package})
 BY DEF CatalogsIInv
<1>2. CASE MapDatabase
 <2>1. UNCHANGED answers /\ pc # "model"
  BY <1>2 DEF MapDatabase, stageVars
 <2>2. \/ UNCHANGED package
       \/ package' = <<FileAsset("model_database")>>
                        \o OptionalAsset("component_catalog", "components", disk.components)
                        \o OptionalAsset("material_catalog", "materials", disk.materials)
  BY <1>2 DEF MapDatabase
 <2>3. CASE UNCHANGED package
  BY <1>1, <2>1, <2>3, QuietStepKeeps
 <2>4. CASE package' = <<FileAsset("model_database")>>
                          \o OptionalAsset("component_catalog", "components", disk.components)
                          \o OptionalAsset("material_catalog", "materials", disk.materials)
  <3> DEFINE T == {FileAsset("model_database"), FileAsset("component_catalog"),
                   FileAsset("material_catalog")}
             c == OptionalAsset("component_catalog", "components", disk.components)
             m == OptionalAsset("material_catalog", "materials", disk.materials)
             d == <<FileAsset("model_database")>>
  <3>1. c \in Seq(T) /\ m \in Seq(T)
   BY DEF OptionalAsset
  <3>2. d \in Seq(T)
   OBVIOUS
  <3> HIDE DEF T, c, m, d
  <3>3. (d \o c) \o m \in Seq(T)
   BY <3>1, <3>2
  <3>4. package' \in Seq(T)
   BY <2>4, <3>3 DEF c, m, d
  <3>5. PICK longer : longer = package'
   OBVIOUS
  <3>6. Len(longer) \in Nat /\ longer \in [1 .. Len(longer) -> T]
   BY ONLY <3>4, <3>5
  <3>7. longer \in [1 .. Len(longer) -> {longer[i] : i \in DOMAIN longer}]
   BY ONLY <3>6
  <3>8. longer \in Seq({longer[i] : i \in DOMAIN longer})
   BY ONLY <3>6, <3>7, IsASeq
  <3>9. package' \in Seq({package'[i] : i \in DOMAIN package'})
   BY ONLY <3>5, <3>8
  <3>10. QED
   BY <2>1, <3>9, QuietStepKeeps
 <2>5. QED
  BY <2>2, <2>3, <2>4
<1>3. CASE ListDirectory \/ ListArchives \/ OpenArchive \/ PackageDone
 <2>1. UNCHANGED <<answers, package>> /\ pc # "model"
  BY <1>3 DEF ListDirectory, ListArchives, OpenArchive, PackageDone, stageVars
 <2>2. QED
  BY <1>1, <2>1, QuietStepKeeps
<1>4. CASE MapSidecar \/ ReadEntry
 <2>1. UNCHANGED answers /\ pc # "model"
  BY <1>4 DEF MapSidecar, ReadEntry, stageVars
 <2>2. UNCHANGED package \/ \E asset : package' = Append(package, asset)
  BY <1>4 DEF MapSidecar, ReadEntry
 <2>3. package' \in Seq({package'[i] : i \in DOMAIN package'})
  BY <1>1, <2>2, StillAPackage
 <2>4. QED
  BY <2>1, <2>3, QuietStepKeeps
<1>5. CASE OpenModel
 <2>1. UNCHANGED <<answers, package>> /\ pc # "model"
  BY <1>5 DEF OpenModel, StartPayload, DecodeChunk, Inspect, stageVars
 <2>2. QED
  BY <1>1, <2>1, QuietStepKeeps
<1>6. CASE Vanish \/ UNCHANGED packageVars
 <2>1. UNCHANGED <<answers, package, pc>>
  BY <1>6 DEF Vanish, packageVars, stageVars
 <2>2. QED
  BY <2>1, QuietStepKeeps
<1>7. CASE Process
 BY <1>7, QuietStepKeeps DEF Process
<1>8. CASE AskComponents
 <2>1. UNCHANGED <<package, pc>> /\ \E a : answers' = [answers EXCEPT !.components = a]
  BY <1>8 DEF AskComponents
 <2>2. QED
  BY <2>1 DEF CatalogsIInv
<1>9. CASE AskMaterials
 <2>1. UNCHANGED <<package, pc>> /\ \E a : answers' = [answers EXCEPT !.materials = a]
  BY <1>9 DEF AskMaterials
 <2>2. QED
  BY <2>1 DEF CatalogsIInv
<1>10. QED
 BY <1>2, <1>3, <1>4, <1>5, <1>6, <1>7, <1>8, <1>9 DEF MapPackage

LEMMA AskStepsKeepCatalogs ==
  ASSUME CatalogsIInv, AskShape \/ AskSections
  PROVE  CatalogsIInv'
<1>1. answers = [components |-> answers.components, materials |-> answers.materials,
                 sections |-> answers.sections, shapes |-> answers.shapes]
 BY DEF CatalogsIInv
<1>2. CASE AskShape
 <2>1. PICK guid \in Guids \ DOMAIN answers.shapes :
          answers' = [answers EXCEPT !.shapes = InsertOrAssign(@, guid, Shape(package, guid))]
  BY <1>2 DEF AskShape
 <2>2. pc' = "model" /\ UNCHANGED <<package, pc>>
  BY <1>2 DEF AskShape
 <2>3. /\ answers'.shapes = InsertOrAssign(answers.shapes, guid, Shape(package, guid))
       /\ answers'.sections = answers.sections
       /\ answers' = [components |-> answers'.components, materials |-> answers'.materials,
                      sections |-> answers'.sections, shapes |-> answers'.shapes]
  BY <1>1, <2>1
 <2>4. \A g \in DOMAIN answers'.shapes : answers'.shapes[g] = Shape(package, g)
  BY <2>3 DEF CatalogsIInv, InsertOrAssign
 <2>5. QED
  BY <2>2, <2>3, <2>4 DEF CatalogsIInv
<1>3. CASE AskSections
 <2>1. answers' = [answers EXCEPT !.sections = [found |-> ProfileSections(package)]]
  BY <1>3 DEF AskSections
 <2>2. pc' = "model" /\ UNCHANGED <<package, pc>>
  BY <1>3 DEF AskSections
 <2>3. /\ answers'.sections = [found |-> ProfileSections(package)]
       /\ answers'.shapes = answers.shapes
       /\ answers' = [components |-> answers'.components, materials |-> answers'.materials,
                      sections |-> answers'.sections, shapes |-> answers'.shapes]
  BY <1>1, <2>1
 <2>4. answers'.sections.found = ProfileSections(package)
  BY <2>3
 <2>5. QED
  BY <2>2, <2>3, <2>4 DEF CatalogsIInv
<1>4. QED
 BY <1>2, <1>3

\* Shapes and profiles resolve to the last of what the package has.
LEMMA AnswersResolve ==
  ASSUME CatalogsIInv
  PROVE  CatalogsResolve
<1> DEFINE named(name, where, useless) == NamedAssets(package, name, where, useless)
           last(S) == LastValue(package, S)
           storage == PassOver(package, "shapes", {NoValue})
           geometry == PassOver(package, "shapegeometries", {})
           sections == PassOver(package, "profiles", {NoValue})
           shape(guid) ==
              LET id == last(named(guid, "shapes", {NoValue}))
              IN  IF named(guid, "shapes", {NoValue}) = {} THEN "no_metadata"
                  ELSE IF named(id, "shapegeometries", {}) = {} THEN "no_polymesh"
                  ELSE last(named(id, "shapegeometries", {}))
<1>1. Len(package) \in Nat /\ DOMAIN package = 1 .. Len(package)
 BY DEF CatalogsIInv
<1>2. \A name : /\ name \in DOMAIN storage <=> named(name, "shapes", {NoValue}) # {}
                /\ named(name, "shapes", {NoValue}) # {} =>
                      storage[name] = last(named(name, "shapes", {NoValue}))
 BY <1>1, PassFindsLast
<1>3. \A name : /\ name \in DOMAIN geometry <=> named(name, "shapegeometries", {}) # {}
                /\ named(name, "shapegeometries", {}) # {} =>
                      geometry[name] = last(named(name, "shapegeometries", {}))
 BY <1>1, PassFindsLast
<1>4. \A name : /\ name \in DOMAIN sections <=> named(name, "profiles", {NoValue}) # {}
                /\ named(name, "profiles", {NoValue}) # {} =>
                      sections[name] = last(named(name, "profiles", {NoValue}))
 BY <1>1, PassFindsLast
<1>5. \A guid : Shape(package, guid) = shape(guid)
 <2> TAKE guid
 <2>1. Shape(package, guid) =
          IF guid \in DOMAIN storage
          THEN IF storage[guid] \in DOMAIN geometry THEN geometry[storage[guid]]
               ELSE "no_polymesh"
          ELSE "no_metadata"
  BY DEF Shape, ShapeDefinitions
 <2> HIDE DEF storage, geometry, named, last
 <2>2. QED
  BY <1>2, <1>3, <2>1
<1>6. \A guid \in DOMAIN answers.shapes : answers.shapes[guid] = shape(guid)
 <2> HIDE DEF shape
 <2>1. QED
  BY <1>5 DEF CatalogsIInv
<1>7. ASSUME answers.sections # NotAsked
      PROVE  \A name : IF named(name, "profiles", {NoValue}) = {}
                       THEN name \notin DOMAIN answers.sections.found
                       ELSE answers.sections.found[name] = last(named(name, "profiles", {NoValue}))
 <2>1. answers.sections.found = sections
  BY <1>7 DEF CatalogsIInv, ProfileSections
 <2> HIDE DEF named, last, sections
 <2>2. QED
  BY <1>4, <2>1
<1>8. answers.sections # NotAsked =>
         \A i \in DOMAIN package :
            LET c == package[i].content
            IN  c.folder = "profiles" =>
                   IF named(c.name, "profiles", {NoValue}) = {}
                   THEN c.name \notin DOMAIN answers.sections.found
                   ELSE answers.sections.found[c.name] = last(named(c.name, "profiles", {NoValue}))
 <2> HIDE DEF named, last
 <2>1. QED
  BY <1>7
<1>9. QED
 BY <1>6, <1>8, Zenon DEF CatalogsResolve, NamedAssets, LastValue

\* A shape is the mesh of the last asset with the storage id that the last
\* metadata of its guid names, and a profile is the last section of its name
\* that can be decoded, for every package (ShapeCatalog, LocalProfileCatalog).
THEOREM LastAssetWins == Spec => []CatalogsResolve
<1>1. CatalogsIInv /\ [Next]_packageVars => CatalogsIInv'
 BY PackageStepsKeepCatalogs, AskStepsKeepCatalogs DEF Next, Ask
<1>2. QED
 BY <1>1, CatalogsIInvInitially, AnswersResolve, PTL DEF Spec
\* The sizes of a stream's members, summed up to each of them.
IsSizes(total, members) ==
  total = [i \in 0 .. Len(members) |-> IF i = 0 THEN 0 ELSE total[i - 1] + members[i].size]

Summed(total, members) ==
  /\ total[0] = 0
  /\ \A i \in 1 .. Len(members) : total[i] = total[i - 1] + members[i].size
  /\ \A i \in 0 .. Len(members) : total[i] \in Nat
  /\ \A i, j \in 0 .. Len(members) : i <= j => total[i] <= total[j]

LEMMA SizesExist ==
  ASSUME NEW members, Len(members) \in Nat
  PROVE  \E total : IsSizes(total, members)
<1> DEFINE Steps(f, n) == f = [i \in 0 .. n |-> IF i = 0 THEN 0 ELSE f[i - 1] + members[i].size]
           S == {n \in Nat : \E f : Steps(f, n)}
<1>1. 0 \in S
 <2>1. PICK f : f = [i \in 0 .. 0 |-> 0]
  OBVIOUS
 <2>2. Steps(f, 0)
  BY <2>1
 <2>3. QED
  BY <2>2
<1>2. ASSUME NEW n \in Nat, n \in S
      PROVE  n + 1 \in S
 <2>1. PICK f : Steps(f, n)
  BY <1>2
 <2>2. PICK g : g = [i \in 0 .. n + 1 |-> IF i = n + 1 THEN f[n] + members[n + 1].size ELSE f[i]]
  OBVIOUS
 <2>3. \A i \in 0 .. n : g[i] = f[i]
  BY <2>2
 <2>4. g[n + 1] = g[n] + members[n + 1].size
  BY <2>2, <2>3
 <2>5. \A i \in 0 .. n : f[i] = IF i = 0 THEN 0 ELSE f[i - 1] + members[i].size
  BY <2>1
 <2>6. \A i \in 1 .. n : f[i - 1] = g[i - 1]
  BY <2>3
 <2>7. \A i \in 0 .. n + 1 : g[i] = IF i = 0 THEN 0 ELSE g[i - 1] + members[i].size
  <3>1. \A i \in 0 .. n + 1 : i \in 0 .. n \/ i = n + 1
   OBVIOUS
  <3>2. \A i \in 0 .. n : i = 0 \/ i \in 1 .. n
   OBVIOUS
  <3>3. (n + 1) - 1 = n /\ n + 1 # 0
   OBVIOUS
  <3>4. QED
   BY <2>3, <2>4, <2>5, <2>6, <3>1, <3>2, <3>3
 <2>8. g = [i \in 0 .. n + 1 |-> g[i]]
  BY <2>2
 <2>9. Steps(g, n + 1)
  BY <2>7, <2>8
 <2>10. QED
  BY <2>9
<1> HIDE DEF S
<1>3. Nat \subseteq S
 BY ONLY <1>1, <1>2, SetInduction
<1>4. PICK f : Steps(f, Len(members))
 BY <1>3 DEF S
<1>5. IsSizes(f, members)
 BY <1>4 DEF IsSizes
<1>6. QED
 BY <1>5

LEMMA SizesAreSummed ==
  ASSUME NEW members, Len(members) \in Nat, \A i \in 1 .. Len(members) : members[i].size \in Nat
  PROVE  Summed(SizesUpTo(members), members)
<1> DEFINE total == CHOOSE f : IsSizes(f, members)
           n == Len(members)
<1>1. IsSizes(total, members)
 BY SizesExist
<1>2. SizesUpTo(members) = total
 BY DEF SizesUpTo, IsSizes
<1> HIDE DEF total
<1>3. /\ total[0] = 0
      /\ \A i \in 1 .. n : total[i] = total[i - 1] + members[i].size
 BY <1>1 DEF IsSizes
<1> DEFINE S == {i \in Nat : i <= n => total[i] \in Nat}
<1>4. 0 \in S
 BY <1>3
<1>5. ASSUME NEW i \in Nat, i \in S
      PROVE  i + 1 \in S
 <2>1. i + 1 <= n => i + 1 \in 1 .. n /\ (i + 1) - 1 = i /\ total[i] \in Nat
  BY <1>5
 <2>2. i + 1 <= n => total[i + 1] = total[i] + members[i + 1].size /\ members[i + 1].size \in Nat
  BY <1>3, <2>1
 <2>3. i + 1 <= n => total[i + 1] \in Nat
  BY <2>1, <2>2
 <2>4. QED
  BY <2>3
<1> HIDE DEF S
<1>6. Nat \subseteq S
 BY ONLY <1>4, <1>5, SetInduction
<1>7. \A i \in 0 .. n : total[i] \in Nat
 BY <1>6 DEF S
<1>8. ASSUME NEW i \in 0 .. n
      PROVE  \A j \in 0 .. n : i <= j => total[i] <= total[j]
 <2> DEFINE T == {k \in Nat : i + k <= n => total[i] <= total[i + k]}
 <2>1. 0 \in T
  <3>1. i + 0 = i /\ total[i] \in Nat
   BY <1>7
  <3>2. QED
   BY <3>1
 <2>2. ASSUME NEW k \in Nat, k \in T
       PROVE  k + 1 \in T
  <3> SUFFICES ASSUME i + (k + 1) <= n
               PROVE  total[i] <= total[i + (k + 1)]
   OBVIOUS
  <3>1. i + (k + 1) \in 1 .. n /\ (i + (k + 1)) - 1 = i + k /\ i + k \in 0 .. n
   OBVIOUS
  <3>2. total[i + (k + 1)] = total[i + k] + members[i + (k + 1)].size
   BY <1>3, <3>1
  <3>3. members[i + (k + 1)].size \in Nat /\ total[i + k] \in Nat /\ total[i] \in Nat
   BY <1>7, <3>1
  <3>4. total[i] <= total[i + k]
   BY <2>2
  <3>5. QED
   BY <3>2, <3>3, <3>4
 <2> HIDE DEF T
 <2>3. Nat \subseteq T
  BY ONLY <2>1, <2>2, SetInduction
 <2>4. ASSUME NEW j \in 0 .. n, i <= j
       PROVE  total[i] <= total[j]
  <3>1. j - i \in Nat /\ i + (j - i) = j
   BY <2>4
  <3>2. j - i \in T
   BY <2>3, <3>1
  <3>3. QED
   BY <3>1, <3>2 DEF T
 <2>5. QED
  BY <2>4
<1>9. QED
 BY <1>2, <1>3, <1>7, <1>8 DEF Summed

\* Decoding in one go succeeds when all members are intact and fit, and fails
\* with the first that is damaged when what comes before it fits.
LEMMA WholeStreamDecodes ==
  ASSUME NEW file, NEW most \in Nat, Len(file.members) \in Nat,
         DOMAIN file.members = 1 .. Len(file.members),
         Summed(SizesUpTo(file.members), file.members), file.wrapper # "raw",
         \A i \in 1 .. Len(file.members) : file.members[i].intact,
         SizesUpTo(file.members)[Len(file.members)] <= most
  PROVE  DecodeError(file, most) = "none"
<1> DEFINE total == SizesUpTo(file.members)
           n == Len(file.members)
<1>1. \A i \in 1 .. n : total[i] <= total[n] /\ total[i] \in Nat /\ total[n] \in Nat
 <2>1. \A i \in 1 .. n : i \in 0 .. n /\ n \in 0 .. n /\ i <= n
  OBVIOUS
 <2>2. QED
  BY <2>1 DEF Summed
<1>2. \A i \in 1 .. n : total[i] <= most
 BY <1>1
<1>3. {i \in DOMAIN file.members : total[i] > most \/ ~file.members[i].intact} = {}
 BY <1>1, <1>2
<1>4. QED
 BY <1>3 DEF DecodeError

LEMMA DamagedStreamFails ==
  ASSUME NEW file, NEW most \in Nat, Len(file.members) \in Nat,
         DOMAIN file.members = 1 .. Len(file.members),
         Summed(SizesUpTo(file.members), file.members), file.wrapper # "raw",
         NEW m \in 1 .. Len(file.members), ~file.members[m].intact,
         \A i \in 1 .. m - 1 : file.members[i].intact,
         SizesUpTo(file.members)[m] <= most
  PROVE  DecodeError(file, most) = "decompression_failed"
<1> DEFINE total == SizesUpTo(file.members)
           n == Len(file.members)
           bad == {i \in DOMAIN file.members : total[i] > most \/ ~file.members[i].intact}
           first == CHOOSE i \in bad : \A j \in bad : i <= j
<1>1. \A i \in 1 .. m : total[i] <= total[m] /\ total[i] \in Nat
 <2>1. \A i \in 1 .. m : i \in 0 .. n /\ m \in 0 .. n /\ i <= m
  OBVIOUS
 <2>2. QED
  BY <2>1 DEF Summed
<1>2. m \in bad /\ ~(total[m] > most)
 BY <1>1
<1>3. \A i \in bad : i \in Nat /\ m <= i
 <2> SUFFICES ASSUME NEW i \in bad, ~(m <= i)
              PROVE  FALSE
  OBVIOUS
 <2>1. i \in 1 .. m - 1 /\ i \in 1 .. m
  OBVIOUS
 <2>2. total[i] <= total[m] /\ total[i] \in Nat /\ total[m] \in Nat
  BY <1>1, <2>1
 <2>3. QED
  BY <2>1, <2>2
<1>4. first = m
 <2> HIDE DEF bad
 <2>1. \E i \in bad : \A j \in bad : i <= j
  BY <1>2, <1>3
 <2>2. first \in bad /\ \A j \in bad : first <= j
  BY <2>1
 <2> HIDE DEF first
 <2>3. first \in Nat /\ first <= m /\ m <= first
  BY <1>2, <1>3, <2>2
 <2>4. QED
  BY <2>3
<1>5. bad # {}
 BY <1>2
<1>6. DecodeError(file, most) =
         IF file.wrapper = "raw" THEN IF file.size > most THEN "resource_limit" ELSE "none"
         ELSE IF bad = {} THEN "none"
         ELSE IF total[first] > most THEN "resource_limit" ELSE "decompression_failed"
 BY DEF DecodeError
<1> HIDE DEF bad, first, total
<1>7. QED
 BY <1>2, <1>4, <1>5, <1>6

\* While a stream is decoded its bytes are those of the members before this
\* one, all intact, and of this one as far as it has been inflated.
WholeInv ==
  /\ PayloadIsWhole
  /\ pc \notin {"database", "failed"} => disk.database.wrapper \in {"raw", "gzip"}
  /\ pc = "decode" =>
        /\ disk.database.wrapper = "gzip"
        /\ \A i \in 1 .. payload.member - 1 : disk.database.members[i].intact
        /\ payload.bytes + payload.left = SizesUpTo(disk.database.members)[payload.member]

LEMMA WholeInitially == Init => WholeInv
 BY DEF Init, WholeInv, PayloadIsWhole

\* Steps that leave the payload alone.
LEMMA OtherStepKeepsWhole ==
  ASSUME WholeInv, UNCHANGED <<disk, limit, payload>>,
         \/ UNCHANGED <<pc, error>>
         \/ pc \notin {"database", "failed"}
              /\ pc' \notin {"database", "decode", "inspect", "model", "failed"}
         \/ pc' = "failed" /\ error' # "decompression_failed"
  PROVE  WholeInv'
<1>1. CASE UNCHANGED <<pc, error>>
 BY <1>1 DEF WholeInv, PayloadIsWhole
<1>2. CASE pc \notin {"database", "failed"}
             /\ pc' \notin {"database", "decode", "inspect", "model", "failed"}
 <2>1. pc' # "decode" /\ pc' \notin {"inspect", "model"} /\ pc' # "failed"
  BY <1>2
 <2>2. disk'.database.wrapper \in {"raw", "gzip"}
  BY <1>2 DEF WholeInv
 <2>3. QED
  BY <2>1, <2>2 DEF WholeInv, PayloadIsWhole
<1>3. CASE pc' = "failed" /\ error' # "decompression_failed"
 <2>1. pc' # "decode" /\ pc' \notin {"inspect", "model"}
  BY <1>3
 <2>2. QED
  BY <1>3, <2>1 DEF WholeInv, PayloadIsWhole
<1>4. QED
 BY <1>1, <1>2, <1>3

\* A file that can be opened is a raw or a packed one.
LEMMA MapDatabaseKeepsWhole ==
  ASSUME WholeInv, disk \in Disks, MapDatabase
  PROVE  WholeInv'
<1>1. UNCHANGED <<disk, limit, payload>>
 BY DEF MapDatabase, diskVars, openVars
<1>2. CASE CanMap(<<"database", 0>>, disk.database)
 <2>1. pc' = "list"
  BY <1>2 DEF MapDatabase
 <2>2. disk.database.wrapper \in {"raw", "gzip"}
  BY <1>2, DisksAreFiles DEF CanMap
 <2>3. QED
  BY <1>1, <2>1, <2>2 DEF WholeInv, PayloadIsWhole
<1>3. CASE ~CanMap(<<"database", 0>>, disk.database)
 <2>1. pc' = "failed" /\ error' # "decompression_failed"
  BY <1>3 DEF MapDatabase, Fail
 <2>2. QED
  BY <1>1, <2>1, OtherStepKeepsWhole
<1>4. QED
 BY <1>2, <1>3

LEMMA QuietStepsKeepWhole ==
  ASSUME WholeInv, ListDirectory \/ MapSidecar \/ ListArchives \/ OpenArchive \/ ReadEntry
           \/ PackageDone \/ Ask \/ Vanish \/ UNCHANGED packageVars
  PROVE  WholeInv'
<1>1. UNCHANGED <<disk, limit, payload>>
 BY DEF ListDirectory, MapSidecar, ListArchives, OpenArchive, ReadEntry, PackageDone, Ask,
        Vanish, packageVars, Process, AskComponents, AskMaterials, AskShape, AskSections,
        diskVars, openVars
<1>2. \/ UNCHANGED <<pc, error>>
      \/ pc \notin {"database", "failed"}
           /\ pc' \notin {"database", "decode", "inspect", "model", "failed"}
      \/ pc' = "failed" /\ error' # "decompression_failed"
 <2>1. CASE ListDirectory \/ MapSidecar \/ ListArchives
  BY <2>1 DEF ListDirectory, MapSidecar, ListArchives, Fail
 <2>2. CASE OpenArchive \/ ReadEntry \/ PackageDone
  BY <2>2 DEF OpenArchive, ReadEntry, PackageDone, NextArchive, Fail
 <2>3. CASE Ask
  BY <2>3 DEF Ask, Process, AskComponents, AskMaterials, AskShape, AskSections
 <2>4. CASE Vanish \/ UNCHANGED packageVars
  BY <2>4 DEF Vanish, packageVars
 <2>5. QED
  BY <2>1, <2>2, <2>3, <2>4
<1>3. QED
 BY <1>1, <1>2, OtherStepKeepsWhole

LEMMA InspectKeepsWhole ==
  ASSUME WholeInv, Inspect
  PROVE  WholeInv'
<1>1. UNCHANGED <<disk, limit, payload>> /\ pc = "inspect"
 BY DEF Inspect, diskVars
<1>2. PICK validate \in BOOLEAN :
         LET found == InspectPayload(disk.database.payload, validate)
         IN  IF found.error = "none" THEN pc' = "model" /\ UNCHANGED error
             ELSE Fail(found.error)
 BY DEF Inspect
<1>3. CASE pc' = "model" /\ UNCHANGED error
 BY <1>1, <1>3 DEF WholeInv, PayloadIsWhole
<1>4. CASE Fail(InspectPayload(disk.database.payload, validate).error)
             /\ InspectPayload(disk.database.payload, validate).error # "none"
 <2>1. InspectPayload(disk.database.payload, validate).error
          \in {"none", "unsupported_format", "invalid_container"}
  BY DEF InspectPayload, Failed
 <2>2. pc' = "failed" /\ error' # "decompression_failed"
  BY <1>4, <2>1 DEF Fail
 <2>3. QED
  BY <1>1, <2>2, OtherStepKeepsWhole
<1>5. QED
 BY <1>2, <1>3, <1>4
\* The sizes of the members of an opened stream.
LEMMA DatabaseIsSummed ==
  ASSUME PackageIInv
  PROVE  /\ Summed(SizesUpTo(disk.database.members), disk.database.members)
         /\ Len(disk.database.members) \in Nat
         /\ DOMAIN disk.database.members = 1 .. Len(disk.database.members)
         /\ disk.database.size \in Nat
         /\ disk.database.wrapper = "raw" => disk.database.total = disk.database.size
         /\ disk.database.wrapper = "gzip" =>
               /\ disk.database.total
                    = SizesUpTo(disk.database.members)[Len(disk.database.members)]
               /\ Len(disk.database.members) \in Nat \ {0}
         /\ limit \in Nat
<1>1. disk \in Disks /\ limit \in PayloadLimits
 BY DEF PackageIInv, PackageInv
<1>2. limit \in Nat
 BY <1>1, PackageLimits
<1>3. /\ disk.database.members \in Seq([size : Nat, intact : BOOLEAN])
      /\ disk.database.wrapper = "raw" => disk.database.total = disk.database.size
      /\ disk.database.wrapper = "gzip" => disk.database.members # <<>>
      /\ disk.database.wrapper = "gzip" =>
            disk.database.total = SizesUpTo(disk.database.members)[Len(disk.database.members)]
 BY <1>1, DisksAreFiles
<1>4. PICK members : members = disk.database.members
 OBVIOUS
<1>5. members \in Seq([size : Nat, intact : BOOLEAN])
 BY <1>3, <1>4
<1>6. /\ Len(members) \in Nat /\ DOMAIN members = 1 .. Len(members)
      /\ members # <<>> => Len(members) # 0
 BY ONLY <1>5, EmptySeq
<1>7. \A i \in 1 .. Len(members) : members[i].size \in Nat
 BY <1>4, DiskIsFiles
<1>8. Summed(SizesUpTo(members), members)
 BY <1>6, <1>7, SizesAreSummed
<1>9. disk.database.size \in Nat
 BY DiskIsFiles
<1>10. QED
 BY <1>2, <1>3, <1>4, <1>6, <1>8, <1>9

LEMMA StartPayloadKeepsWhole ==
  ASSUME PackageIInv, WholeInv, StartPayload
  PROVE  WholeInv'
<1> DEFINE file == disk.database
<1>1. UNCHANGED <<disk, limit>> /\ pc = "open"
 BY DEF StartPayload, diskVars
<1>2. file.wrapper \in {"raw", "gzip"}
 BY <1>1 DEF WholeInv
<1>3. /\ payload \in [bytes : Nat, member : Nat, left : Nat]
 BY DEF PackageIInv
<1>4. CASE file.wrapper = "gzip"
 <2>1. /\ payload' = [bytes |-> 0, member |-> 1, left |-> file.members[1].size]
       /\ pc' = "decode"
  BY <1>4 DEF StartPayload
 <2>2. 1 \in 1 .. Len(file.members) /\ 1 - 1 = 0
  BY <1>4, DatabaseIsSummed
 <2>3. /\ SizesUpTo(file.members)[1] = SizesUpTo(file.members)[0] + file.members[1].size
       /\ SizesUpTo(file.members)[0] = 0
  BY <2>2, DatabaseIsSummed DEF Summed
 <2>4. payload'.bytes + payload'.left = SizesUpTo(file.members)[payload'.member]
  BY <2>1, <2>3
 <2>5. 1 .. payload'.member - 1 = {}
  BY <2>1
 <2>6. QED
  BY <1>1, <1>4, <2>1, <2>4, <2>5 DEF WholeInv, PayloadIsWhole
<1>5. CASE file.wrapper = "raw" /\ limit # 0 /\ file.size > limit
 <2>1. pc' = "failed" /\ error' # "decompression_failed" /\ UNCHANGED payload
  BY <1>5 DEF StartPayload, Fail
 <2>2. QED
  BY <1>1, <2>1, OtherStepKeepsWhole
<1>6. CASE file.wrapper = "raw" /\ ~(limit # 0 /\ file.size > limit)
 <2>1. payload' = [payload EXCEPT !.bytes = file.size] /\ pc' = "inspect"
  BY <1>6 DEF StartPayload
 <2>2. payload'.bytes = file.size
  BY <1>3, <2>1
 <2>3. file.total = file.size /\ file.size \in Nat /\ limit \in Nat
  BY <1>6, DatabaseIsSummed
 <2>4. DecodeError(file, IF limit = 0 THEN file.total ELSE limit) = "none"
  BY <1>6, <2>3 DEF DecodeError
 <2>5. QED
  BY <1>1, <1>6, <2>1, <2>2, <2>3, <2>4 DEF WholeInv, PayloadIsWhole
<1>7. QED
 BY <1>2, <1>4, <1>5, <1>6

LEMMA DecodeChunkKeepsWhole ==
  ASSUME PackageIInv, WholeInv, DecodeChunk
  PROVE  WholeInv'
<1> DEFINE file == disk.database
           members == file.members
           total == SizesUpTo(members)
           produced == Least(payload.left, ChunkBytes)
           left == payload.left - produced
           most == IF limit = 0 THEN file.total ELSE limit
<1>1. /\ UNCHANGED <<disk, limit>> /\ pc = "decode"
      /\ file.wrapper = "gzip"
      /\ \A i \in 1 .. payload.member - 1 : members[i].intact
      /\ payload.bytes + payload.left = total[payload.member]
 BY DEF DecodeChunk, diskVars, WholeInv
<1>2. /\ payload \in [bytes : Nat, member : Nat, left : Nat]
      /\ payload.member \in 1 .. Len(members)
      /\ limit # 0 => payload.bytes <= limit
      /\ ChunkBytes \in Nat
 BY <1>1, PackageLimits DEF PackageIInv, PackageInv
<1>3. /\ Len(members) \in Nat /\ DOMAIN members = 1 .. Len(members) /\ limit \in Nat
      /\ file.total = total[Len(members)] /\ Summed(total, members)
 BY <1>1, DatabaseIsSummed
<1>4. produced \in Nat /\ left \in Nat /\ produced + left = payload.left
 BY <1>2 DEF Least
<1>5. /\ \A i \in 0 .. Len(members) : total[i] \in Nat
      /\ \A i, j \in 0 .. Len(members) : i <= j => total[i] <= total[j]
      /\ \A i \in 1 .. Len(members) : total[i] = total[i - 1] + members[i].size
 BY <1>3 DEF Summed
<1>6. /\ total[payload.member] \in Nat /\ total[payload.member] <= total[Len(members)]
      /\ total[Len(members)] \in Nat
 <2>1. payload.member \in 0 .. Len(members) /\ Len(members) \in 0 .. Len(members)
         /\ payload.member <= Len(members)
  BY <1>2, <1>3
 <2>2. QED
  BY <1>5, <2>1
<1>7. most \in Nat
 BY <1>3, <1>6
<1>8. PICK ends \in BOOLEAN :
        /\ ends => left = 0
        /\ IF limit # 0 /\ produced > limit - Least(limit, payload.bytes)
           THEN Fail("resource_limit") /\ UNCHANGED payload
           ELSE IF ends /\ ~members[payload.member].intact
           THEN Fail("decompression_failed") /\ UNCHANGED payload
           ELSE /\ UNCHANGED error
                /\ IF ends /\ LastMember(payload.member)
                   THEN /\ payload' = [payload EXCEPT !.bytes = @ + produced, !.left = 0]
                        /\ pc' = "inspect"
                   ELSE /\ payload' = [bytes |-> payload.bytes + produced,
                                       member |-> payload.member + (IF ends THEN 1 ELSE 0),
                                       left |-> IF ends THEN members[payload.member + 1].size
                                                ELSE left]
                        /\ UNCHANGED pc
 <2>1. PICK ends \in (IF left # 0 THEN {FALSE}
                      ELSE IF produced = ChunkBytes THEN BOOLEAN ELSE {TRUE}) :
       IF limit # 0 /\ produced > limit - Least(limit, payload.bytes)
          THEN Fail("resource_limit") /\ UNCHANGED payload
          ELSE IF ends /\ ~members[payload.member].intact
          THEN Fail("decompression_failed") /\ UNCHANGED payload
          ELSE /\ UNCHANGED error
               /\ IF ends /\ LastMember(payload.member)
                  THEN /\ payload' = [payload EXCEPT !.bytes = @ + produced, !.left = 0]
                       /\ pc' = "inspect"
                  ELSE /\ payload' = [bytes |-> payload.bytes + produced,
                                      member |-> payload.member + (IF ends THEN 1 ELSE 0),
                                      left |-> IF ends THEN members[payload.member + 1].size
                                               ELSE left]
                       /\ UNCHANGED pc
  BY DEF DecodeChunk
 <2>2. ends \in BOOLEAN /\ (ends => left = 0)
  BY <2>1
 <2>3. QED
  BY <2>1, <2>2
<1> HIDE DEF produced, left
<1>9. CASE limit # 0 /\ produced > limit - Least(limit, payload.bytes)
 <2>1. pc' = "failed" /\ error' # "decompression_failed" /\ UNCHANGED payload
  BY <1>8, <1>9 DEF Fail
 <2>2. QED
  BY <1>1, <2>1, OtherStepKeepsWhole
<1>10. CASE ~(limit # 0 /\ produced > limit - Least(limit, payload.bytes))
 <2>1. limit # 0 => payload.bytes + produced <= limit
  BY <1>2, <1>3, <1>4, <1>10 DEF Least
 <2>2. ends => payload.bytes + produced = total[payload.member]
  BY <1>1, <1>2, <1>4, <1>8
 <2>3. ends => total[payload.member] <= most
  BY <1>3, <1>6, <2>1, <2>2
 <2>4. CASE ends /\ ~members[payload.member].intact
  <3>1. pc' = "failed" /\ error' = "decompression_failed"
   BY <1>8, <1>10, <2>4 DEF Fail
  <3>2. DecodeError(file, most) = "decompression_failed"
   <4> HIDE DEF most
   <4>1. file.wrapper # "raw"
    BY <1>1
   <4>2. QED
    BY <1>1, <1>2, <1>3, <1>7, <2>3, <2>4, <4>1, DamagedStreamFails
  <3>3. QED
   BY <1>1, <3>1, <3>2 DEF WholeInv, PayloadIsWhole
 <2>5. CASE ends /\ members[payload.member].intact /\ LastMember(payload.member)
  <3>1. /\ payload' = [payload EXCEPT !.bytes = @ + produced, !.left = 0]
        /\ pc' = "inspect"
   BY <1>8, <1>10, <2>5
  <3>2. payload'.bytes = payload.bytes + produced /\ payload.member = Len(members)
   BY <1>2, <2>5, <3>1 DEF LastMember
  <3>3. \A i \in 1 .. Len(members) : members[i].intact
   <4>1. \A i \in 1 .. Len(members) : i = Len(members) \/ i \in 1 .. Len(members) - 1
    BY <1>3
   <4>2. QED
    BY <1>1, <2>5, <3>2, <4>1
  <3>4. payload'.bytes = file.total
   BY <1>3, <2>2, <2>5, <3>2
  <3>5. DecodeError(file, most) = "none"
   <4> HIDE DEF most
   <4>1. total[Len(members)] <= most /\ file.wrapper # "raw"
    BY <1>1, <2>3, <2>5, <3>2
   <4>2. QED
    BY <1>3, <1>7, <3>3, <4>1, WholeStreamDecodes
  <3>6. QED
   BY <1>1, <3>1, <3>4, <3>5 DEF WholeInv, PayloadIsWhole
 <2>6. CASE ends /\ members[payload.member].intact /\ ~LastMember(payload.member)
  <3>1. /\ payload' = [bytes |-> payload.bytes + produced, member |-> payload.member + 1,
                       left |-> members[payload.member + 1].size]
        /\ pc' = "decode"
   BY <1>1, <1>8, <1>10, <2>6
  <3>2. payload.member + 1 \in 1 .. Len(members) /\ (payload.member + 1) - 1 = payload.member
   BY <1>2, <1>3, <2>6 DEF LastMember
  <3>3. total[payload.member + 1] = total[payload.member] + members[payload.member + 1].size
   BY <1>5, <3>2
  <3>4. payload'.bytes + payload'.left = total[payload'.member]
   BY <2>2, <2>6, <3>1, <3>3
  <3>5. \A i \in 1 .. payload'.member - 1 : members[i].intact
   <4>1. \A i \in 1 .. payload'.member - 1 : i = payload.member \/ i \in 1 .. payload.member - 1
    BY <1>2, <3>1
   <4>2. QED
    BY <1>1, <2>6, <4>1
  <3>6. QED
   BY <1>1, <3>1, <3>4, <3>5 DEF WholeInv, PayloadIsWhole
 <2>7. CASE ~ends
  <3>1. /\ payload' = [bytes |-> payload.bytes + produced, member |-> payload.member + 0,
                       left |-> left]
        /\ pc' = "decode"
   BY <1>1, <1>8, <1>10, <2>7
  <3>2. payload'.member = payload.member
   BY <1>2, <3>1
  <3>3. payload'.bytes + payload'.left = total[payload'.member]
   BY <1>1, <1>2, <1>4, <3>1, <3>2
  <3>4. QED
   BY <1>1, <3>1, <3>2, <3>3 DEF WholeInv, PayloadIsWhole
 <2>8. QED
  BY <2>4, <2>5, <2>6, <2>7
<1>11. QED
 BY <1>9, <1>10

\* A payload that is handed on has every member of its gzip stream, all intact;
\* a failure to decompress is what decoding in one go would give
\* (decode_payload).
THEOREM PayloadsAreWhole == Spec => []PayloadIsWhole
<1>1. PackageIInv /\ [Next]_packageVars => PackageIInv'
 BY OtherStepsKeep, ArchiveStepsKeep, PayloadStepsKeep DEF Next, MapPackage, OpenModel
<1>2. PackageIInv /\ WholeInv /\ [Next]_packageVars => WholeInv'
 <2> SUFFICES ASSUME PackageIInv, WholeInv, [Next]_packageVars
              PROVE  WholeInv'
  OBVIOUS
 <2>1. disk \in Disks
  BY DEF PackageIInv, PackageInv
 <2>2. QED
  BY <2>1, MapDatabaseKeepsWhole, QuietStepsKeepWhole, InspectKeepsWhole,
     StartPayloadKeepsWhole, DecodeChunkKeepsWhole DEF Next, MapPackage, OpenModel
<1>3. WholeInv => PayloadIsWhole
 BY DEF WholeInv
<1>4. QED
 BY <1>1, <1>2, <1>3, PackageIInvInitially, WholeInitially, PTL DEF Spec
\* Sequences joined one after the other.
IsJoin(upTo, parts) ==
  upTo = [i \in 0 .. Len(parts) |-> IF i = 0 THEN <<>> ELSE upTo[i - 1] \o parts[i]]

LEMMA JoinExists ==
  ASSUME NEW parts, Len(parts) \in Nat
  PROVE  \E upTo : IsJoin(upTo, parts)
<1> DEFINE Step(s, i) == s \o parts[i]
           Steps(f, n) == f = [i \in 0 .. n |-> IF i = 0 THEN <<>> ELSE Step(f[i - 1], i)]
           S == {n \in Nat : \E f : Steps(f, n)}
<1> HIDE DEF Step
<1>1. 0 \in S
 <2>1. PICK f : f = [i \in 0 .. 0 |-> <<>>]
  OBVIOUS
 <2>2. Steps(f, 0)
  BY <2>1
 <2>3. QED
  BY <2>2
<1>2. ASSUME NEW n \in Nat, n \in S
      PROVE  n + 1 \in S
 <2>1. PICK f : Steps(f, n)
  BY <1>2
 <2>2. PICK g : g = [i \in 0 .. n + 1 |-> IF i = n + 1 THEN Step(f[n], n + 1) ELSE f[i]]
  OBVIOUS
 <2>3. \A i \in 0 .. n : g[i] = f[i]
  BY <2>2
 <2>4. g[n + 1] = Step(g[n], n + 1)
  BY <2>2, <2>3
 <2>5. \A i \in 0 .. n : f[i] = IF i = 0 THEN <<>> ELSE Step(f[i - 1], i)
  BY <2>1
 <2>6. \A i \in 1 .. n : f[i - 1] = g[i - 1]
  BY <2>3
 <2>7. \A i \in 0 .. n + 1 : g[i] = IF i = 0 THEN <<>> ELSE Step(g[i - 1], i)
  <3>1. \A i \in 0 .. n + 1 : i \in 0 .. n \/ i = n + 1
   OBVIOUS
  <3>2. \A i \in 0 .. n : i = 0 \/ i \in 1 .. n
   OBVIOUS
  <3>3. (n + 1) - 1 = n /\ n + 1 # 0
   OBVIOUS
  <3>4. QED
   BY <2>3, <2>4, <2>5, <2>6, <3>1, <3>2, <3>3
 <2>8. g = [i \in 0 .. n + 1 |-> g[i]]
  BY <2>2
 <2>9. Steps(g, n + 1)
  BY <2>7, <2>8
 <2>10. QED
  BY <2>9
<1> HIDE DEF S
<1>3. Nat \subseteq S
 BY ONLY <1>1, <1>2, SetInduction
<1>4. PICK f : Steps(f, Len(parts))
 BY <1>3 DEF S
<1>5. IsJoin(f, parts)
 BY <1>4 DEF IsJoin, Step
<1>6. QED
 BY <1>5

\* The joins of a list of sequences, up to each of them.
JoinsOf(upTo, parts, n, T) ==
  /\ upTo[0] = <<>>
  /\ \A i \in 1 .. n : upTo[i] = upTo[i - 1] \o parts[i]
  /\ \A i \in 0 .. n : upTo[i] \in Seq(T)
  /\ Joined(parts) = upTo[n]

LEMMA PartsAreJoined ==
  ASSUME NEW T, NEW n \in Nat, NEW parts \in [1 .. n -> Seq(T)]
  PROVE  \E upTo : JoinsOf(upTo, parts, n, T)
<1> DEFINE upTo == CHOOSE f : IsJoin(f, parts)
<1>1. Len(parts) = n
 BY IsASeq
<1>2. IsJoin(upTo, parts)
 BY <1>1, JoinExists
<1>3. Joined(parts) = upTo[n]
 BY <1>1 DEF Joined, IsJoin
<1> HIDE DEF upTo
<1> DEFINE Step(s, i) == s \o parts[i]
<1>a. upTo = [i \in 0 .. n |-> IF i = 0 THEN <<>> ELSE Step(upTo[i - 1], i)]
 BY <1>1, <1>2 DEF IsJoin
<1> HIDE DEF Step
<1>b. upTo[0] = <<>> /\ \A i \in 1 .. n : upTo[i] = Step(upTo[i - 1], i)
 BY <1>a
<1>4. /\ upTo[0] = <<>>
      /\ \A i \in 1 .. n : upTo[i] = upTo[i - 1] \o parts[i]
 BY <1>b DEF Step
<1> DEFINE S == {i \in Nat : i <= n => upTo[i] \in Seq(T)}
<1>5. 0 \in S
 <2>1. <<>> \in Seq(T)
  OBVIOUS
 <2>2. upTo[0] \in Seq(T)
  BY <1>4, <2>1, Zenon
 <2>3. QED
  BY <2>2
<1>6. ASSUME NEW i \in Nat, i \in S
      PROVE  i + 1 \in S
 <2> SUFFICES ASSUME i + 1 <= n
              PROVE  upTo[i + 1] \in Seq(T)
  OBVIOUS
 <2>1. i + 1 \in 1 .. n /\ (i + 1) - 1 = i /\ i <= n
  OBVIOUS
 <2>2. upTo[i + 1] = upTo[i] \o parts[i + 1]
  BY <1>4, <2>1
 <2>3. upTo[i] \in Seq(T) /\ parts[i + 1] \in Seq(T)
  BY <1>6, <2>1
 <2>4. QED
  BY <2>2, <2>3
<1> HIDE DEF S
<1>7. Nat \subseteq S
 BY ONLY <1>5, <1>6, SetInduction
<1>8. \A i \in 0 .. n : upTo[i] \in Seq(T)
 BY <1>7 DEF S
<1>9. JoinsOf(upTo, parts, n, T)
 BY <1>3, <1>4, <1>8 DEF JoinsOf
<1>10. QED
 BY <1>9

\* What is appended to the last part that is not empty is appended to the join.
Grows(parts, more, n, k, x, T) ==
  /\ n \in Nat /\ parts \in [1 .. n -> Seq(T)] /\ more \in [1 .. n -> Seq(T)]
  /\ k \in 1 .. n /\ x \in T
  /\ \A i \in 1 .. n : i < k => more[i] = parts[i]
  /\ more[k] = Append(parts[k], x)
  /\ \A i \in 1 .. n : i > k => parts[i] = <<>> /\ more[i] = <<>>

LEMMA JoinedGrows ==
  ASSUME NEW parts, NEW more, NEW n, NEW k, NEW x, NEW T, Grows(parts, more, n, k, x, T)
  PROVE  Joined(more) = Append(Joined(parts), x) /\ Joined(parts) \in Seq(T)
<1> USE DEF Grows
<1>1. PICK p : JoinsOf(p, parts, n, T)
 BY PartsAreJoined
<1>2. PICK m : JoinsOf(m, more, n, T)
 BY PartsAreJoined
<1> DEFINE Longer(i) == Append(p[i], x)
           S == {i \in Nat : i <= n => /\ i < k => m[i] = p[i]
                                       /\ i >= k => m[i] = Longer(i)}
<1> HIDE DEF Longer
<1>3. 0 \in S
 <2>1. m[0] = p[0]
  BY <1>1, <1>2, Zenon DEF JoinsOf
 <2>2. QED
  BY <2>1
<1>4. ASSUME NEW i \in Nat, i \in S
      PROVE  i + 1 \in S
 <2> SUFFICES ASSUME i + 1 <= n
              PROVE  /\ i + 1 < k => m[i + 1] = p[i + 1]
                     /\ i + 1 >= k => m[i + 1] = Longer(i + 1)
  OBVIOUS
 <2>1. i + 1 \in 1 .. n /\ (i + 1) - 1 = i /\ i \in 0 .. n
  OBVIOUS
 <2>a. /\ \A c \in 1 .. n : m[c] = m[c - 1] \o more[c]
       /\ \A c \in 1 .. n : p[c] = p[c - 1] \o parts[c]
       /\ \A c \in 0 .. n : m[c] \in Seq(T) /\ p[c] \in Seq(T)
  BY <1>1, <1>2, Zenon DEF JoinsOf
 <2>2. /\ m[i + 1] = m[i] \o more[i + 1] /\ p[i + 1] = p[i] \o parts[i + 1]
       /\ m[i] \in Seq(T) /\ p[i] \in Seq(T)
  <3>1. m[i + 1] = m[(i + 1) - 1] \o more[i + 1] /\ p[i + 1] = p[(i + 1) - 1] \o parts[i + 1]
   BY <2>1, <2>a, Zenon
  <3>2. QED
   BY <2>1, <2>a, <3>1, Zenon
 <2>3. (i < k => m[i] = p[i]) /\ (i >= k => m[i] = Longer(i))
  BY <1>4
 <2>4. CASE i + 1 < k
  <3>1. more[i + 1] = parts[i + 1] /\ m[i] = p[i] /\ ~(i + 1 >= k)
   BY <2>1, <2>3, <2>4
  <3>2. QED
   BY <2>2, <3>1, Zenon
 <2>5. CASE i + 1 = k
  <3>1. m[i] = p[i] /\ more[i + 1] = Append(parts[i + 1], x)
   BY <2>3, <2>5
  <3>2. parts[i + 1] \in Seq(T)
   BY <2>1
  <3>3. p[i] \o Append(parts[i + 1], x) = Append(p[i] \o parts[i + 1], x)
   <4> DEFINE s == p[i]
              u == parts[i + 1]
   <4>1. s \in Seq(T) /\ u \in Seq(T)
    BY <2>2, <3>2
   <4> HIDE DEF s, u
   <4>2. s \o Append(u, x) = Append(s \o u, x)
    BY ONLY <4>1, x \in T
   <4>3. QED
    BY <4>2 DEF s, u
  <3>4. m[i + 1] = Append(p[i + 1], x)
   BY <2>2, <3>1, <3>3, Zenon
  <3>5. QED
   BY <2>5, <3>4 DEF Longer
 <2>6. CASE i + 1 > k
  <3>1. more[i + 1] = <<>> /\ parts[i + 1] = <<>> /\ m[i] = Longer(i)
   BY <2>1, <2>3, <2>6
  <3>2. Longer(i) \in Seq(T)
   BY <2>2 DEF Longer
  <3>3. \A s \in Seq(T) : s \o <<>> = s
   BY ConcatEmptySeq
  <3>4. m[i + 1] = Longer(i) /\ p[i + 1] = p[i]
   BY <2>2, <3>1, <3>2, <3>3, Zenon
  <3>5. Longer(i) = Longer(i + 1)
   BY <3>4, Zenon DEF Longer
  <3>6. QED
   BY <2>6, <3>4, <3>5
 <2>7. QED
  BY <2>4, <2>5, <2>6
<1> HIDE DEF S
<1>5. Nat \subseteq S
 BY ONLY <1>3, <1>4, SetInduction
<1>6. m[n] = Longer(n)
 BY <1>5 DEF S
<1>7. p[n] \in Seq(T) /\ Joined(parts) = p[n] /\ Joined(more) = m[n]
 <2>1. n \in 0 .. n
  OBVIOUS
 <2>2. QED
  BY <1>1, <1>2, <2>1, Zenon DEF JoinsOf
<1>8. QED
 BY <1>6, <1>7, Zenon DEF Longer

\* What a directory of an archive gives, up to each entry.
IsGiven(archive, i) ==
  /\ \A j \in 1 .. i : archive.entries[j].record
  /\ IsCatalog(archive.entries[i]) /\ Inflates(archive.entries[i])
  /\ archive.entries[i].intact

IsGiving(given, archive) ==
  given = [i \in 0 .. Len(archive.entries) |->
              IF i = 0 THEN <<>>
              ELSE IF IsGiven(archive, i)
              THEN Append(given[i - 1], Snapshot(archive.entries[i].content))
              ELSE given[i - 1]]

LEMMA GivingExists ==
  ASSUME NEW archive, Len(archive.entries) \in Nat
  PROVE  \E given : IsGiving(given, archive)
<1> DEFINE Step(s, i) == IF IsGiven(archive, i)
                         THEN Append(s, Snapshot(archive.entries[i].content)) ELSE s
           Steps(f, n) == f = [i \in 0 .. n |-> IF i = 0 THEN <<>> ELSE Step(f[i - 1], i)]
           S == {n \in Nat : \E f : Steps(f, n)}
<1> HIDE DEF Step
<1>1. 0 \in S
 <2>1. PICK f : f = [i \in 0 .. 0 |-> <<>>]
  OBVIOUS
 <2>2. Steps(f, 0)
  BY <2>1
 <2>3. QED
  BY <2>2
<1>2. ASSUME NEW n \in Nat, n \in S
      PROVE  n + 1 \in S
 <2>1. PICK f : Steps(f, n)
  BY <1>2
 <2>2. PICK g : g = [i \in 0 .. n + 1 |-> IF i = n + 1 THEN Step(f[n], n + 1) ELSE f[i]]
  OBVIOUS
 <2>3. \A i \in 0 .. n : g[i] = f[i]
  BY <2>2
 <2>4. g[n + 1] = Step(g[n], n + 1)
  BY <2>2, <2>3
 <2>5. \A i \in 0 .. n : f[i] = IF i = 0 THEN <<>> ELSE Step(f[i - 1], i)
  BY <2>1
 <2>6. \A i \in 1 .. n : f[i - 1] = g[i - 1]
  BY <2>3
 <2>7. \A i \in 0 .. n + 1 : g[i] = IF i = 0 THEN <<>> ELSE Step(g[i - 1], i)
  <3>1. \A i \in 0 .. n + 1 : i \in 0 .. n \/ i = n + 1
   OBVIOUS
  <3>2. \A i \in 0 .. n : i = 0 \/ i \in 1 .. n
   OBVIOUS
  <3>3. (n + 1) - 1 = n /\ n + 1 # 0
   OBVIOUS
  <3>4. QED
   BY <2>3, <2>4, <2>5, <2>6, <3>1, <3>2, <3>3
 <2>8. g = [i \in 0 .. n + 1 |-> g[i]]
  BY <2>2
 <2>9. Steps(g, n + 1)
  BY <2>7, <2>8
 <2>10. QED
  BY <2>9
<1> HIDE DEF S
<1>3. Nat \subseteq S
 BY ONLY <1>1, <1>2, SetInduction
<1>4. PICK f : Steps(f, Len(archive.entries))
 BY <1>3 DEF S
<1>5. IsGiving(f, archive)
 BY <1>4 DEF IsGiving, Step
<1>6. QED
 BY <1>5

\* An archive gives one entry after the other, and none after a record that is none.
Gives(archive, T) ==
  LET n == Len(archive.entries)
      given == Given(archive)
  IN  /\ given[0] = <<>>
      /\ \A i \in 1 .. n : given[i] = IF IsGiven(archive, i)
                                      THEN Append(given[i - 1], Snapshot(archive.entries[i].content))
                                      ELSE given[i - 1]
      /\ \A i \in 0 .. n : given[i] \in Seq(T)
      /\ \A i \in 1 .. n : ~archive.entries[i].record => given[n] = given[i - 1]

LEMMA ArchiveGives ==
  ASSUME NEW T, NEW archive, Len(archive.entries) \in Nat,
         \A i \in 1 .. Len(archive.entries) : Snapshot(archive.entries[i].content) \in T
  PROVE  Gives(archive, T)
<1> DEFINE given == CHOOSE f : IsGiving(f, archive)
           n == Len(archive.entries)
<1>1. IsGiving(given, archive)
 BY GivingExists
<1>2. Given(archive) = given
 BY DEF Given, IsGiving, IsGiven
<1> HIDE DEF given
<1> DEFINE Step(s, i) == IF IsGiven(archive, i)
                         THEN Append(s, Snapshot(archive.entries[i].content)) ELSE s
<1>a. given = [i \in 0 .. n |-> IF i = 0 THEN <<>> ELSE Step(given[i - 1], i)]
 BY <1>1 DEF IsGiving
<1> HIDE DEF Step
<1>b. given[0] = <<>> /\ \A i \in 1 .. n : given[i] = Step(given[i - 1], i)
 BY <1>a
<1>3. /\ given[0] = <<>>
      /\ \A i \in 1 .. n : given[i] = IF IsGiven(archive, i)
                                      THEN Append(given[i - 1], Snapshot(archive.entries[i].content))
                                      ELSE given[i - 1]
 BY <1>b DEF Step
<1> DEFINE S == {i \in Nat : i <= n => given[i] \in Seq(T)}
<1>4. 0 \in S
 <2>1. <<>> \in Seq(T)
  OBVIOUS
 <2>2. given[0] \in Seq(T)
  BY <1>3, <2>1, Zenon
 <2>3. QED
  BY <2>2
<1>5. ASSUME NEW i \in Nat, i \in S
      PROVE  i + 1 \in S
 <2> SUFFICES ASSUME i + 1 <= n
              PROVE  given[i + 1] \in Seq(T)
  OBVIOUS
 <2>1. i + 1 \in 1 .. n /\ (i + 1) - 1 = i /\ i <= n
  OBVIOUS
 <2>2. given[i + 1] \in {given[i], Append(given[i], Snapshot(archive.entries[i + 1].content))}
  BY <1>3, <2>1
 <2>3. given[i] \in Seq(T) /\ Snapshot(archive.entries[i + 1].content) \in T
  BY <1>5, <2>1
 <2>4. \A s \in Seq(T), c \in T : Append(s, c) \in Seq(T)
  OBVIOUS
 <2>5. QED
  BY <2>2, <2>3, <2>4, Zenon
<1> HIDE DEF S
<1>6. Nat \subseteq S
 BY ONLY <1>4, <1>5, SetInduction
<1>7. \A i \in 0 .. n : given[i] \in Seq(T)
 BY <1>6 DEF S
<1>8. ASSUME NEW e \in 1 .. n, ~archive.entries[e].record
      PROVE  given[n] = given[e - 1]
 <2> DEFINE R == {k \in Nat : e - 1 + k <= n => given[e - 1 + k] = given[e - 1]}
 <2>1. 0 \in R
  OBVIOUS
 <2>2. ASSUME NEW k \in Nat, k \in R
       PROVE  k + 1 \in R
  <3> SUFFICES ASSUME e - 1 + (k + 1) <= n
               PROVE  given[e - 1 + (k + 1)] = given[e - 1]
   OBVIOUS
  <3>1. e + k \in 1 .. n /\ (e + k) - 1 = e - 1 + k /\ e - 1 + (k + 1) = e + k /\ e \in 1 .. e + k
   OBVIOUS
  <3>2. ~IsGiven(archive, e + k)
   BY <1>8, <3>1 DEF IsGiven
  <3>3. given[e + k] = given[e - 1 + k]
   BY <1>3, <3>1, <3>2
  <3>4. QED
   BY <2>2, <3>1, <3>3
 <2> HIDE DEF R
 <2>3. Nat \subseteq R
  BY ONLY <2>1, <2>2, SetInduction
 <2>4. n - (e - 1) \in Nat /\ e - 1 + (n - (e - 1)) = n
  OBVIOUS
 <2>5. n - (e - 1) \in R
  BY <2>3, <2>4
 <2>6. given[e - 1 + (n - (e - 1))] = given[e - 1]
  BY <2>4, <2>5 DEF R
 <2>7. QED
  BY <2>4, <2>6, Zenon
<1>9. QED
 BY <1>2, <1>3, <1>7, <1>8 DEF Gives
\* What every file of a disk gives: sidecars and archives that are kept, and one
\* archive, if there is one, up to an entry.
PartsOf(d, sidecars, archives, a, e) ==
  LET n == Len(d.sidecars)
  IN  [i \in 1 .. n + Len(d.archives) |->
          IF i <= n
          THEN IF i \in sidecars THEN <<Snapshot(d.sidecars[i].content)>> ELSE <<>>
          ELSE IF i - n = a THEN Given(d.archives[a])[e]
          ELSE IF i - n \in archives /\ d.archives[i - n].directory
          THEN Contribution(d.archives[i - n]) ELSE <<>>]

JoinOf(d, sidecars, archives, a, e) == Joined(PartsOf(d, sidecars, archives, a, e))

AssetsOf(d) == {Snapshot(c) : c \in Contents \cup {d.sidecars[i].content : i \in 1 .. Len(d.sidecars)}}

LEMMA SnapshotsAreJoined ==
  ASSUME NEW sidecars, NEW archives
  PROVE  Len(disk.sidecars) \in Nat => Snapshots(sidecars, archives) = JoinOf(disk, sidecars, archives, 0, 0)
<1> SUFFICES ASSUME Len(disk.sidecars) \in Nat
             PROVE  Snapshots(sidecars, archives) = JoinOf(disk, sidecars, archives, 0, 0)
 OBVIOUS
<1> DEFINE n == Len(disk.sidecars)
           rest(j) == IF j \in archives /\ disk.archives[j].directory
                      THEN Contribution(disk.archives[j]) ELSE <<>>
           first(i) == IF i \in sidecars THEN <<Snapshot(disk.sidecars[i].content)>> ELSE <<>>
           given == Given(disk.archives[0])[0]
<1>1. Snapshots(sidecars, archives)
         = Joined([i \in 1 .. n + Len(disk.archives) |-> IF i <= n THEN first(i) ELSE rest(i - n)])
 BY DEF Snapshots
<1>2. JoinOf(disk, sidecars, archives, 0, 0)
         = Joined([i \in 1 .. n + Len(disk.archives) |->
                      IF i <= n THEN first(i) ELSE IF i - n = 0 THEN given ELSE rest(i - n)])
 BY DEF JoinOf, PartsOf
<1> HIDE DEF rest, first, given
<1>3. \A i \in 1 .. n + Len(disk.archives) : ~(i <= n) => i - n # 0
 OBVIOUS
<1>4. [i \in 1 .. n + Len(disk.archives) |-> IF i <= n THEN first(i) ELSE rest(i - n)]
        = [i \in 1 .. n + Len(disk.archives) |->
              IF i <= n THEN first(i) ELSE IF i - n = 0 THEN given ELSE rest(i - n)]
 BY <1>3
<1>5. QED
 BY <1>1, <1>2, <1>4, Zenon

\* The files of a disk.
LEMMA DiskHas ==
  ASSUME NEW d \in Disks
  PROVE  /\ Len(d.sidecars) \in Nat /\ Len(d.archives) \in Nat
         /\ DOMAIN d.sidecars = 1 .. Len(d.sidecars)
         /\ DOMAIN d.archives = 1 .. Len(d.archives)
         /\ \A a \in 1 .. Len(d.archives) :
               Len(d.archives[a].entries) \in Nat /\ Gives(d.archives[a], AssetsOf(d))
<1>1. /\ Len(d.sidecars) \in Nat /\ DOMAIN d.sidecars = 1 .. Len(d.sidecars)
      /\ d.archives \in Seq([wrapper : STRING, directory : BOOLEAN, entries : Seq(Entries)])
 BY DisksAreFiles
<1>2. PICK archives : archives = d.archives
 OBVIOUS
<1>3. archives \in Seq([wrapper : STRING, directory : BOOLEAN, entries : Seq(Entries)])
 BY <1>1, <1>2
<1>4. /\ Len(archives) \in Nat /\ DOMAIN archives = 1 .. Len(archives)
      /\ \A a \in 1 .. Len(archives) : archives[a].entries \in Seq(Entries)
 <2> DEFINE R == [wrapper : STRING, directory : BOOLEAN, entries : Seq(Entries)]
 <2>1. archives \in Seq(R)
  BY <1>3
 <2>2. \A x \in R : x.entries \in Seq(Entries)
  OBVIOUS
 <2> HIDE DEF R
 <2>3. /\ Len(archives) \in Nat /\ DOMAIN archives = 1 .. Len(archives)
       /\ \A a \in 1 .. Len(archives) : archives[a] \in R
  BY ONLY <2>1, ElementOfSeq
 <2>4. QED
  BY <2>2, <2>3
<1>5. ASSUME NEW a \in 1 .. Len(archives)
      PROVE  Len(archives[a].entries) \in Nat /\ Gives(archives[a], AssetsOf(d))
 <2>1. PICK entries : entries = archives[a].entries
  OBVIOUS
 <2>2. entries \in Seq(Entries)
  BY <1>4, <2>1
 <2>3. Len(entries) \in Nat /\ \A i \in 1 .. Len(entries) : entries[i] \in Entries
  BY ONLY <2>2, ElementOfSeq
 <2>4. \A i \in 1 .. Len(entries) : entries[i].content \in Contents
  BY <2>3 DEF Entries
 <2>5. \A i \in 1 .. Len(entries) : Snapshot(entries[i].content) \in AssetsOf(d)
  BY <2>4 DEF AssetsOf
 <2>6. QED
  BY <2>1, <2>3, <2>5, ArchiveGives
<1>6. QED
 BY <1>1, <1>2, <1>4, <1>5

\* The archive at hand, and how far it has been read; 0 and 0 when there is none.
At(d, a, e) ==
  \/ a = 0
  \/ a \in 1 .. Len(d.archives) /\ e \in 0 .. Len(d.archives[a].entries)

LEMMA PartsAreSequences ==
  ASSUME NEW d \in Disks, NEW sidecars, NEW archives, NEW a, NEW e, At(d, a, e)
  PROVE  PartsOf(d, sidecars, archives, a, e)
            \in [1 .. Len(d.sidecars) + Len(d.archives) -> Seq(AssetsOf(d))]
<1> DEFINE n == Len(d.sidecars)
           m == Len(d.archives)
           T == AssetsOf(d)
           first(i) == <<Snapshot(d.sidecars[i].content)>>
           rest(j) == Contribution(d.archives[j])
           given == Given(d.archives[a])[e]
           parts == PartsOf(d, sidecars, archives, a, e)
<1>1. n \in Nat /\ m \in Nat
 BY DiskHas
<1>2. \A i \in 1 .. n : first(i) \in Seq(T)
 <2>1. \A i \in 1 .. n : Snapshot(d.sidecars[i].content) \in T
  BY DEF AssetsOf
 <2>2. QED
  BY <2>1
<1>3. \A j \in 1 .. m : rest(j) \in Seq(T)
 <2> SUFFICES ASSUME NEW j \in 1 .. m
              PROVE  rest(j) \in Seq(T)
  OBVIOUS
 <2>1. Gives(d.archives[j], T) /\ Len(d.archives[j].entries) \in Nat
  BY DiskHas
 <2>2. Len(d.archives[j].entries) \in 0 .. Len(d.archives[j].entries)
  BY <2>1
 <2>3. QED
  BY <2>1, <2>2, Zenon DEF Gives, Contribution
<1>4. a # 0 => given \in Seq(T)
 <2> SUFFICES ASSUME a # 0
              PROVE  given \in Seq(T)
  OBVIOUS
 <2>1. a \in 1 .. m /\ e \in 0 .. Len(d.archives[a].entries)
  BY DEF At
 <2>2. Gives(d.archives[a], T)
  BY <2>1, DiskHas
 <2>3. QED
  BY <2>1, <2>2, Zenon DEF Gives
<1>5. parts = [i \in 1 .. n + m |->
                  IF i <= n THEN IF i \in sidecars THEN first(i) ELSE <<>>
                  ELSE IF i - n = a THEN given
                  ELSE IF i - n \in archives /\ d.archives[i - n].directory THEN rest(i - n)
                  ELSE <<>>]
 BY DEF PartsOf
<1>6. <<>> \in Seq(T)
 OBVIOUS
<1> DEFINE Q == Seq(T)
           none == <<>>
           kept(j) == j \in archives /\ d.archives[j].directory
<1>7. /\ \A i \in 1 .. n : first(i) \in Q
      /\ \A j \in 1 .. m : rest(j) \in Q
      /\ a # 0 => given \in Q
      /\ none \in Q
      /\ parts = [i \in 1 .. n + m |->
                     IF i <= n THEN IF i \in sidecars THEN first(i) ELSE none
                     ELSE IF i - n = a THEN given
                     ELSE IF kept(i - n) THEN rest(i - n) ELSE none]
 BY <1>2, <1>3, <1>4, <1>5, <1>6, Zenon
<1> HIDE DEF n, m, T, first, rest, given, parts, Q, none, kept
<1>8. \A i \in 1 .. n + m : i <= n => i \in 1 .. n
 BY <1>1
<1>9. \A i \in 1 .. n + m : ~(i <= n) => i - n \in 1 .. m /\ i - n # 0
 BY <1>1
<1>10. \A i \in 1 .. n + m : parts[i] \in Q
 BY <1>7, <1>8, <1>9
<1>11. parts \in [1 .. n + m -> Q]
 BY <1>7, <1>10
<1>12. QED
 BY <1>11 DEF n, m, T, parts, Q
\* What a file gives, by its number.
PartsAre(parts, d, sidecars, archives, a, e) ==
  /\ \A i \in 1 .. Len(d.sidecars) :
        parts[i] = IF i \in sidecars THEN <<Snapshot(d.sidecars[i].content)>> ELSE <<>>
  /\ \A j \in 1 .. Len(d.archives) :
        parts[Len(d.sidecars) + j] = IF j = a THEN Given(d.archives[a])[e]
                                     ELSE IF j \in archives /\ d.archives[j].directory
                                     THEN Contribution(d.archives[j]) ELSE <<>>

LEMMA PartsAt ==
  ASSUME NEW d \in Disks, NEW sidecars, NEW archives, NEW a, NEW e
  PROVE  PartsAre(PartsOf(d, sidecars, archives, a, e), d, sidecars, archives, a, e)
<1> DEFINE n == Len(d.sidecars)
           m == Len(d.archives)
           first(i) == IF i \in sidecars THEN <<Snapshot(d.sidecars[i].content)>> ELSE <<>>
           rest(j) == IF j = a THEN Given(d.archives[a])[e]
                      ELSE IF j \in archives /\ d.archives[j].directory
                      THEN Contribution(d.archives[j]) ELSE <<>>
           parts == PartsOf(d, sidecars, archives, a, e)
<1>1. n \in Nat /\ m \in Nat
 BY DiskHas
<1>2. parts = [i \in 1 .. n + m |-> IF i <= n THEN first(i) ELSE rest(i - n)]
 BY DEF PartsOf
<1> HIDE DEF n, m, first, rest, parts
<1>3. \A i \in 1 .. n : i \in 1 .. n + m /\ i <= n
 BY <1>1
<1>4. \A j \in 1 .. m : n + j \in 1 .. n + m /\ ~(n + j <= n) /\ (n + j) - n = j
 BY <1>1
<1>5. \A i \in 1 .. n : parts[i] = first(i)
 BY <1>2, <1>3
<1>6. \A j \in 1 .. m : parts[n + j] = rest(j)
 BY <1>2, <1>4
<1>7. QED
 BY <1>5, <1>6, Zenon DEF PartsAre, n, m, first, rest, parts

\* Archives that give the same make the same join.
SameParts(d, p, q) ==
  \A j \in 1 .. Len(d.archives) : p[Len(d.sidecars) + j] = q[Len(d.sidecars) + j]

LEMMA SameJoin ==
  ASSUME NEW d \in Disks, NEW sidecars, NEW archives, NEW a, NEW e, NEW others, NEW b, NEW f,
         SameParts(d, PartsOf(d, sidecars, archives, a, e), PartsOf(d, sidecars, others, b, f))
  PROVE  JoinOf(d, sidecars, archives, a, e) = JoinOf(d, sidecars, others, b, f)
<1> DEFINE n == Len(d.sidecars)
           m == Len(d.archives)
           p == PartsOf(d, sidecars, archives, a, e)
           q == PartsOf(d, sidecars, others, b, f)
<1>1. n \in Nat /\ m \in Nat
 BY DiskHas
<1>2. \A i \in 1 .. n : p[i] = q[i]
 <2>1. PartsAre(p, d, sidecars, archives, a, e) /\ PartsAre(q, d, sidecars, others, b, f)
  BY PartsAt
 <2> HIDE DEF p, q
 <2>2. QED
  BY <2>1, Zenon DEF PartsAre
<1>3. p = [i \in 1 .. n + m |-> p[i]] /\ q = [i \in 1 .. n + m |-> q[i]]
 BY DEF PartsOf
<1>4. \A j \in 1 .. m : p[n + j] = q[n + j]
 BY DEF SameParts
<1> HIDE DEF n, m, p, q
<1>5. ASSUME NEW i \in 1 .. n + m
      PROVE  p[i] = q[i]
 <2>1. CASE i <= n
  BY <1>1, <1>2, <2>1
 <2>2. CASE ~(i <= n)
  <3>1. i - n \in 1 .. m /\ n + (i - n) = i
   BY <1>1, <2>2
  <3>2. p[n + (i - n)] = q[n + (i - n)]
   BY <1>4, <3>1
  <3>3. QED
   BY <3>1, <3>2
 <2>3. QED
  BY <2>1, <2>2
<1>6. p = q
 BY <1>3, <1>5
<1>7. QED
 BY <1>6 DEF JoinOf, p, q

\* The next sidecar is appended.
LEMMA SidecarJoins ==
  ASSUME NEW d \in Disks, NEW sidecars, NEW k \in 1 .. Len(d.sidecars),
         \A s \in sidecars : s \in Nat /\ s < k
  PROVE  /\ JoinOf(d, sidecars \cup {k}, {}, 0, 0)
              = Append(JoinOf(d, sidecars, {}, 0, 0), Snapshot(d.sidecars[k].content))
         /\ JoinOf(d, sidecars, {}, 0, 0) \in Seq(AssetsOf(d))
         /\ Snapshot(d.sidecars[k].content) \in AssetsOf(d)
<1> DEFINE T == AssetsOf(d)
           x == Snapshot(d.sidecars[k].content)
           p == PartsOf(d, sidecars, {}, 0, 0)
           q == PartsOf(d, sidecars \cup {k}, {}, 0, 0)
<1>a. PICK n : n = Len(d.sidecars)
 OBVIOUS
<1>b. PICK m : m = Len(d.archives)
 OBVIOUS
<1>c. n \in Nat /\ m \in Nat /\ k \in 1 .. n
 BY <1>a, <1>b, DiskHas
<1>d. PICK z : z = n + m
 OBVIOUS
<1>1. z \in Nat /\ k \in 1 .. z
 BY <1>c, <1>d
<1>2. p \in [1 .. z -> Seq(T)] /\ q \in [1 .. z -> Seq(T)]
 BY <1>a, <1>b, <1>d, PartsAreSequences DEF At
<1>3. x \in T
 BY DEF AssetsOf
<1>e. PartsAre(p, d, sidecars, {}, 0, 0) /\ PartsAre(q, d, sidecars \cup {k}, {}, 0, 0)
 BY PartsAt
<1> HIDE DEF p, q
<1>4. \A i \in 1 .. n : /\ p[i] = IF i \in sidecars THEN <<Snapshot(d.sidecars[i].content)>> ELSE <<>>
                        /\ q[i] = IF i \in sidecars \cup {k}
                                  THEN <<Snapshot(d.sidecars[i].content)>> ELSE <<>>
 BY <1>a, <1>e, Zenon DEF PartsAre
<1>5. \A j \in 1 .. m : p[n + j] = <<>> /\ q[n + j] = <<>>
 <2>1. \A j \in 1 .. m : j # 0 /\ j \notin {}
  BY <1>c
 <2>2. \A j \in 1 .. m :
          /\ p[n + j] = IF j = 0 THEN Given(d.archives[0])[0]
                        ELSE IF j \in {} /\ d.archives[j].directory
                        THEN Contribution(d.archives[j]) ELSE <<>>
          /\ q[n + j] = IF j = 0 THEN Given(d.archives[0])[0]
                        ELSE IF j \in {} /\ d.archives[j].directory
                        THEN Contribution(d.archives[j]) ELSE <<>>
  BY <1>a, <1>b, <1>e, Zenon DEF PartsAre
 <2>3. QED
  BY <2>1, <2>2, Zenon
<1>6. Append(<<>>, x) = <<x>>
 OBVIOUS
<1>7. k \notin sidecars
 OBVIOUS
<1>8. q[k] = Append(p[k], x)
 <2>1. p[k] = <<>> /\ q[k] = <<x>>
  BY <1>c, <1>4, <1>7, Zenon
 <2>2. QED
  BY <1>6, <2>1, Zenon
<1>9. \A i \in 1 .. z : i < k => q[i] = p[i]
 <2>1. \A i \in 1 .. z : i < k => i \in 1 .. n /\ i # k
  BY <1>c, <1>d
 <2>2. QED
  BY <1>4, <2>1, Zenon
<1>10. \A i \in 1 .. z : i > k => p[i] = <<>> /\ q[i] = <<>>
 <2> SUFFICES ASSUME NEW i \in 1 .. z, i > k
              PROVE  p[i] = <<>> /\ q[i] = <<>>
  OBVIOUS
 <2>1. CASE i <= n
  <3>1. i \in 1 .. n /\ i \notin sidecars \cup {k} /\ i \notin sidecars
   BY <1>c, <2>1
  <3>2. QED
   BY <1>4, <3>1, Zenon
 <2>2. CASE ~(i <= n)
  <3>1. i - n \in 1 .. m /\ n + (i - n) = i
   BY <1>c, <1>d, <2>2
  <3>2. QED
   BY <1>5, <3>1, Zenon
 <2>3. QED
  BY <2>1, <2>2
<1> HIDE DEF T, x
<1>11. Joined(q) = Append(Joined(p), x) /\ Joined(p) \in Seq(T)
 <2>1. Grows(p, q, z, k, x, T)
  BY ONLY <1>1, <1>2, <1>3, <1>8, <1>9, <1>10, Zenon DEF Grows
 <2>2. QED
  BY ONLY <2>1, JoinedGrows
<1>12. QED
 BY <1>3, <1>11 DEF JoinOf, T, x, p, q
\* An archive that has just been opened has given nothing.
LEMMA ArchiveStarts ==
  ASSUME NEW d \in Disks, NEW sidecars, NEW archives, NEW a \in 1 .. Len(d.archives),
         a \notin archives
  PROVE  JoinOf(d, sidecars, archives, a, 0) = JoinOf(d, sidecars, archives, 0, 0)
<1> DEFINE p == PartsOf(d, sidecars, archives, a, 0)
           q == PartsOf(d, sidecars, archives, 0, 0)
           n == Len(d.sidecars)
<1>1. PartsAre(p, d, sidecars, archives, a, 0) /\ PartsAre(q, d, sidecars, archives, 0, 0)
 BY PartsAt
<1>2. Given(d.archives[a])[0] = <<>>
 BY DiskHas, Zenon DEF Gives
<1>3. \A j \in 1 .. Len(d.archives) : j # 0
 BY DiskHas
<1> HIDE DEF p, q
<1>4. \A j \in 1 .. Len(d.archives) : p[n + j] = q[n + j]
 BY <1>1, <1>2, <1>3, Zenon DEF PartsAre
<1>5. SameParts(d, p, q)
 BY <1>4 DEF SameParts
<1>6. SameParts(d, PartsOf(d, sidecars, archives, a, 0), PartsOf(d, sidecars, archives, 0, 0))
 BY <1>5 DEF p, q
<1>7. QED
 BY ONLY <1>6, SameJoin

\* An archive whose last entry, or last record, has been read has given all it has.
LEMMA ArchiveEnds ==
  ASSUME NEW d \in Disks, NEW sidecars, NEW archives, NEW a \in 1 .. Len(d.archives), NEW e,
         d.archives[a].directory,
         Given(d.archives[a])[e] = Contribution(d.archives[a])
  PROVE  JoinOf(d, sidecars, archives, a, e) = JoinOf(d, sidecars, archives \cup {a}, 0, 0)
<1> DEFINE p == PartsOf(d, sidecars, archives, a, e)
           q == PartsOf(d, sidecars, archives \cup {a}, 0, 0)
           n == Len(d.sidecars)
<1>1. PartsAre(p, d, sidecars, archives, a, e)
        /\ PartsAre(q, d, sidecars, archives \cup {a}, 0, 0)
 BY PartsAt
<1>2. \A j \in 1 .. Len(d.archives) : j # 0
 BY DiskHas
<1> HIDE DEF p, q
<1>3. \A j \in 1 .. Len(d.archives) : p[n + j] = q[n + j]
 BY <1>1, <1>2, Zenon DEF PartsAre
<1>4. SameParts(d, p, q)
 BY <1>3 DEF SameParts
<1>5. SameParts(d, PartsOf(d, sidecars, archives, a, e), PartsOf(d, sidecars, archives \cup {a}, 0, 0))
 BY <1>4 DEF p, q
<1>6. QED
 BY ONLY <1>5, SameJoin

\* An archive without a directory gives nothing.
LEMMA NoDirectoryGivesNothing ==
  ASSUME NEW d \in Disks, NEW sidecars, NEW archives, NEW a \in 1 .. Len(d.archives),
         ~d.archives[a].directory
  PROVE  JoinOf(d, sidecars, archives \cup {a}, 0, 0) = JoinOf(d, sidecars, archives, 0, 0)
<1> DEFINE p == PartsOf(d, sidecars, archives \cup {a}, 0, 0)
           q == PartsOf(d, sidecars, archives, 0, 0)
           n == Len(d.sidecars)
<1>1. PartsAre(p, d, sidecars, archives \cup {a}, 0, 0)
        /\ PartsAre(q, d, sidecars, archives, 0, 0)
 BY PartsAt
<1>2. \A j \in 1 .. Len(d.archives) : j # 0
 BY DiskHas
<1> HIDE DEF p, q
<1>3. \A j \in 1 .. Len(d.archives) : p[n + j] = q[n + j]
 BY <1>1, <1>2, Zenon DEF PartsAre
<1>4. SameParts(d, p, q)
 BY <1>3 DEF SameParts
<1>5. SameParts(d, PartsOf(d, sidecars, archives \cup {a}, 0, 0), PartsOf(d, sidecars, archives, 0, 0))
 BY <1>4 DEF p, q
<1>6. QED
 BY ONLY <1>5, SameJoin

\* An entry that gives nothing changes nothing, and one that is given is appended.
LEMMA EntryGivesNothing ==
  ASSUME NEW d \in Disks, NEW sidecars, NEW archives, NEW a \in 1 .. Len(d.archives),
         NEW e \in 1 .. Len(d.archives[a].entries), ~IsGiven(d.archives[a], e)
  PROVE  JoinOf(d, sidecars, archives, a, e) = JoinOf(d, sidecars, archives, a, e - 1)
<1> DEFINE p == PartsOf(d, sidecars, archives, a, e)
           q == PartsOf(d, sidecars, archives, a, e - 1)
           n == Len(d.sidecars)
<1>1. PartsAre(p, d, sidecars, archives, a, e) /\ PartsAre(q, d, sidecars, archives, a, e - 1)
 BY PartsAt
<1>2. Given(d.archives[a])[e] = Given(d.archives[a])[e - 1]
 BY DiskHas, Zenon DEF Gives
<1> HIDE DEF p, q
<1>3. \A j \in 1 .. Len(d.archives) : p[n + j] = q[n + j]
 BY <1>1, <1>2, Zenon DEF PartsAre
<1>4. SameParts(d, p, q)
 BY <1>3 DEF SameParts
<1>5. SameParts(d, PartsOf(d, sidecars, archives, a, e), PartsOf(d, sidecars, archives, a, e - 1))
 BY <1>4 DEF p, q
<1>6. QED
 BY ONLY <1>5, SameJoin

LEMMA EntryJoins ==
  ASSUME NEW d \in Disks, NEW sidecars, NEW archives, NEW a \in 1 .. Len(d.archives),
         NEW e \in 1 .. Len(d.archives[a].entries), IsGiven(d.archives[a], e),
         \A b \in archives : b \in Nat /\ b < a
  PROVE  /\ JoinOf(d, sidecars, archives, a, e)
              = Append(JoinOf(d, sidecars, archives, a, e - 1),
                       Snapshot(d.archives[a].entries[e].content))
         /\ JoinOf(d, sidecars, archives, a, e - 1) \in Seq(AssetsOf(d))
         /\ Snapshot(d.archives[a].entries[e].content) \in AssetsOf(d)
<1> DEFINE T == AssetsOf(d)
           x == Snapshot(d.archives[a].entries[e].content)
           p == PartsOf(d, sidecars, archives, a, e - 1)
           q == PartsOf(d, sidecars, archives, a, e)
<1>1. PICK n : n = Len(d.sidecars)
 OBVIOUS
<1>2. PICK m : m = Len(d.archives)
 OBVIOUS
<1>3. n \in Nat /\ m \in Nat /\ a \in 1 .. m
 BY <1>1, <1>2, DiskHas
<1>4. PICK z : z = n + m
 OBVIOUS
<1>5. PICK k : k = n + a
 OBVIOUS
<1>6. z \in Nat /\ k \in 1 .. z
 BY <1>3, <1>4, <1>5
<1>7. /\ Len(d.archives[a].entries) \in Nat /\ e \in 1 .. Len(d.archives[a].entries)
      /\ Gives(d.archives[a], T)
 BY DiskHas
<1>8. At(d, a, e) /\ At(d, a, e - 1)
 BY <1>7 DEF At
<1>9. p \in [1 .. z -> Seq(T)] /\ q \in [1 .. z -> Seq(T)]
 BY <1>1, <1>2, <1>4, <1>8, PartsAreSequences
<1>10. PartsAre(p, d, sidecars, archives, a, e - 1) /\ PartsAre(q, d, sidecars, archives, a, e)
 BY PartsAt
<1> HIDE DEF p, q
<1>11. Given(d.archives[a])[e] = Append(Given(d.archives[a])[e - 1], x)
 BY <1>7, Zenon DEF Gives
<1>12. x \in T
 <2>1. PICK archives2 : archives2 = d.archives
  OBVIOUS
 <2>2. archives2 \in Seq([wrapper : STRING, directory : BOOLEAN, entries : Seq(Entries)])
  BY <2>1, DisksAreFiles
 <2>3. archives2[a] \in [wrapper : STRING, directory : BOOLEAN, entries : Seq(Entries)]
  BY <2>1, <2>2, ElementOfSeq
 <2>4. archives2[a].entries \in Seq(Entries)
  BY <2>3
 <2>5. archives2[a].entries[e] \in Entries
  BY <1>7, <2>1, <2>4, ElementOfSeq
 <2>6. archives2[a].entries[e].content \in Contents
  BY <2>5 DEF Entries
 <2>7. QED
  BY <2>1, <2>6 DEF AssetsOf
<1>13. q[k] = Append(p[k], x)
 <2>1. q[k] = Given(d.archives[a])[e] /\ p[k] = Given(d.archives[a])[e - 1]
  BY <1>1, <1>5, <1>10, Zenon DEF PartsAre
 <2>2. QED
  BY <1>11, <2>1, Zenon
<1>14. \A i \in 1 .. n : p[i] = q[i]
 BY <1>1, <1>10, Zenon DEF PartsAre
<1>15. \A j \in 1 .. m : j # a => p[n + j] = q[n + j]
 BY <1>1, <1>2, <1>10, Zenon DEF PartsAre
<1>16. \A j \in 1 .. m : j > a => p[n + j] = <<>>
 <2>1. \A j \in 1 .. m : j > a => j # a /\ j \notin archives
  BY <1>3
 <2>2. QED
  BY <1>1, <1>2, <1>10, <2>1, Zenon DEF PartsAre
<1>17. ASSUME NEW i \in 1 .. z
       PROVE  /\ i < k => q[i] = p[i]
              /\ i > k => p[i] = <<>> /\ q[i] = <<>>
 <2>1. CASE i <= n
  <3>1. i \in 1 .. n /\ ~(i > k)
   BY <1>3, <1>5, <2>1
  <3>2. QED
   BY <1>14, <3>1, Zenon
 <2>2. CASE ~(i <= n)
  <3>1. i - n \in 1 .. m /\ n + (i - n) = i /\ (i < k => i - n # a) /\ (i > k => i - n > a /\ i - n # a)
   BY <1>3, <1>4, <1>5, <2>2
  <3>2. i < k => q[i] = p[i]
   BY <1>15, <3>1, Zenon
  <3>3. i > k => p[i] = <<>> /\ q[i] = <<>>
   BY <1>15, <1>16, <3>1, Zenon
  <3>4. QED
   BY <3>2, <3>3
 <2>3. QED
  BY <2>1, <2>2
<1> HIDE DEF T, x
<1>18. Grows(p, q, z, k, x, T)
 BY ONLY <1>6, <1>9, <1>12, <1>13, <1>17, Zenon DEF Grows
<1>19. Joined(q) = Append(Joined(p), x) /\ Joined(p) \in Seq(T)
 BY ONLY <1>18, JoinedGrows
<1>20. QED
 BY <1>12, <1>19 DEF JoinOf, T, x, p, q

LEMMA JoinIsASequence ==
  ASSUME NEW d \in Disks, NEW sidecars, NEW archives, NEW a, NEW e, At(d, a, e)
  PROVE  JoinOf(d, sidecars, archives, a, e) \in Seq(AssetsOf(d))
<1> DEFINE p == PartsOf(d, sidecars, archives, a, e)
           T == AssetsOf(d)
<1>a. PICK n : n = Len(d.sidecars)
 OBVIOUS
<1>b. PICK m : m = Len(d.archives)
 OBVIOUS
<1>1. PICK z : z = n + m
 OBVIOUS
<1>2. z \in Nat /\ z \in 0 .. z
 <2>1. n \in Nat /\ m \in Nat
  BY <1>a, <1>b, DiskHas
 <2>2. QED
  BY <1>1, <2>1
<1>3. p \in [1 .. z -> Seq(T)]
 BY <1>a, <1>b, <1>1, PartsAreSequences
<1> HIDE DEF p, T
<1>4. PICK upTo : JoinsOf(upTo, p, z, T)
 BY ONLY <1>2, <1>3, PartsAreJoined
<1>5. Joined(p) \in Seq(T)
 BY <1>2, <1>4, Zenon DEF JoinsOf
<1>6. QED
 BY <1>5 DEF p, T, JoinOf
\* No file, no snapshot.
LEMMA NothingJoins ==
  ASSUME NEW d \in Disks
  PROVE  JoinOf(d, {}, {}, 0, 0) = <<>>
<1> DEFINE p == PartsOf(d, {}, {}, 0, 0)
           T == AssetsOf(d)
<1>1. PICK n : n = Len(d.sidecars)
 OBVIOUS
<1>2. PICK m : m = Len(d.archives)
 OBVIOUS
<1>3. n \in Nat /\ m \in Nat
 BY <1>1, <1>2, DiskHas
<1>4. PICK z : z = n + m
 OBVIOUS
<1>5. z \in Nat
 BY <1>3, <1>4
<1>6. p \in [1 .. z -> Seq(T)]
 BY <1>1, <1>2, <1>4, PartsAreSequences DEF At
<1>7. PartsAre(p, d, {}, {}, 0, 0)
 BY PartsAt
<1> HIDE DEF p, T
<1>8. \A i \in 1 .. n : p[i] = <<>>
 <2>1. \A i \in 1 .. n : i \notin {}
  OBVIOUS
 <2>2. QED
  BY <1>1, <1>7, <2>1, Zenon DEF PartsAre
<1>9. \A j \in 1 .. m : p[n + j] = <<>>
 <2>1. \A j \in 1 .. m : j # 0 /\ j \notin {}
  BY <1>3
 <2>2. QED
  BY <1>1, <1>2, <1>7, <2>1, Zenon DEF PartsAre
<1>10. ASSUME NEW i \in 1 .. z
       PROVE  p[i] = <<>>
 <2>1. CASE i <= n
  <3>1. i \in 1 .. n
   BY <1>3, <2>1
  <3>2. QED
   BY <1>8, <3>1, Zenon
 <2>2. CASE ~(i <= n)
  <3>1. i - n \in 1 .. m /\ n + (i - n) = i
   BY <1>3, <1>4, <2>2
  <3>2. QED
   BY <1>9, <3>1, Zenon
 <2>3. QED
  BY <2>1, <2>2
<1>11. PICK upTo : JoinsOf(upTo, p, z, T)
 BY ONLY <1>5, <1>6, PartsAreJoined
<1> DEFINE S == {i \in Nat : i <= z => upTo[i] = <<>>}
<1>12. 0 \in S
 <2>1. upTo[0] = <<>>
  BY <1>11, Zenon DEF JoinsOf
 <2>2. QED
  BY <2>1
<1>13. ASSUME NEW i \in Nat, i \in S
       PROVE  i + 1 \in S
 <2> SUFFICES ASSUME i + 1 <= z
              PROVE  upTo[i + 1] = <<>>
  OBVIOUS
 <2>1. i + 1 \in 1 .. z /\ (i + 1) - 1 = i /\ i <= z
  BY <1>5
 <2>2. upTo[i] = <<>>
  BY <1>13, <2>1
 <2>3. upTo[i + 1] = upTo[(i + 1) - 1] \o p[i + 1]
  BY <1>11, <2>1, Zenon DEF JoinsOf
 <2>4. <<>> \o <<>> = <<>>
  OBVIOUS
 <2>5. upTo[(i + 1) - 1] = upTo[i] /\ p[i + 1] = <<>>
  BY <1>10, <2>1, Zenon
 <2>6. QED
  BY <2>2, <2>3, <2>4, <2>5, Zenon
<1> HIDE DEF S
<1>14. Nat \subseteq S
 BY ONLY <1>12, <1>13, SetInduction
<1>15. upTo[z] = <<>>
 BY <1>5, <1>14 DEF S
<1>16. Joined(p) = upTo[z]
 BY <1>11, Zenon DEF JoinsOf
<1>17. QED
 BY <1>15, <1>16, Zenon DEF JoinOf, p

\* What is left in a list, and what is before it.
Numbers(order) == {order[i] : i \in DOMAIN order}
Behind(done, order) == \A x \in done : \A i \in DOMAIN order : x < order[i]

\* An order of a set holds all of it.
LEMMA OrdersHoldAll ==
  ASSUME NEW S, NEW order \in Orders(S)
  PROVE  Numbers(order) = S
 BY DEF Orders, Numbers

\* The head of a list in order is before the rest of it.
LEMMA HeadIsBehind ==
  ASSUME NEW n \in Nat, NEW order \in Seq(1 .. n), order # <<>>, InPathOrder(order),
         NEW done \in SUBSET (1 .. n), Behind(done, order)
  PROVE  /\ Head(order) \in 1 .. n /\ Tail(order) \in Seq(1 .. n)
         /\ InPathOrder(Tail(order))
         /\ Numbers(order) = {Head(order)} \cup Numbers(Tail(order))
         /\ Behind(done \cup {Head(order)}, Tail(order))
         /\ \A x \in done : x \in Nat /\ x < Head(order)
         /\ Head(order) \notin done
<1>1. /\ Head(order) \in 1 .. n /\ Tail(order) \in Seq(1 .. n)
      /\ Len(Tail(order)) = Len(order) - 1
      /\ \A i \in 1 .. Len(Tail(order)) : Tail(order)[i] = order[i + 1]
 BY HeadTailProperties
<1>2. PICK rest : rest = Tail(order)
 OBVIOUS
<1>3. PICK k : k = Len(order)
 OBVIOUS
<1>4. /\ k \in Nat /\ k > 0 /\ DOMAIN order = 1 .. k /\ Head(order) = order[1]
      /\ DOMAIN rest = 1 .. k - 1
      /\ \A i \in 1 .. k - 1 : rest[i] = order[i + 1]
 BY <1>1, <1>2, <1>3, EmptySeq
<1>5. \A i \in 1 .. k - 1 : i + 1 \in 1 .. k /\ 1 < i + 1
 BY <1>4
<1>6. InPathOrder(rest)
 <2>1. \A i, j \in 1 .. k - 1 : i < j => i + 1 < j + 1
  BY <1>4
 <2>2. \A i, j \in 1 .. k - 1 : i < j => order[i + 1] < order[j + 1]
  BY <1>4, <1>5, <2>1 DEF InPathOrder
 <2>3. QED
  BY <1>4, <2>2 DEF InPathOrder
<1>7. Numbers(order) = {Head(order)} \cup Numbers(rest)
 <2>1. \A i \in 1 .. k : i = 1 \/ (i - 1 \in 1 .. k - 1 /\ (i - 1) + 1 = i)
  BY <1>4
 <2>2. \A i \in 1 .. k : i = 1 \/ order[i] \in Numbers(rest)
  <3> SUFFICES ASSUME NEW i \in 1 .. k, i # 1
               PROVE  order[i] \in Numbers(rest)
   OBVIOUS
  <3>1. i - 1 \in 1 .. k - 1 /\ (i - 1) + 1 = i
   BY <2>1
  <3>2. rest[i - 1] = order[(i - 1) + 1]
   BY <1>4, <3>1
  <3>3. rest[i - 1] \in Numbers(rest)
   BY <1>4, <3>1, Zenon DEF Numbers
  <3>4. QED
   BY <3>1, <3>2, <3>3, Zenon
 <2>3. 1 \in 1 .. k
  BY <1>4
 <2>4. \A i \in 1 .. k - 1 : rest[i] \in Numbers(order)
  BY <1>4, <1>5 DEF Numbers
 <2>5. QED
  BY <1>4, <2>2, <2>3, <2>4, ZenonT(40) DEF Numbers
<1>8. \A i \in 1 .. k - 1 : order[1] < rest[i]
 <2>1. 1 \in 1 .. k
  BY <1>4
 <2>2. QED
  BY <1>4, <1>5, <2>1 DEF InPathOrder
<1>9. \A x \in done : x \in Nat /\ x < order[1] /\ \A i \in 1 .. k - 1 : x < rest[i]
 <2>1. 1 \in 1 .. k
  BY <1>4
 <2> TAKE x \in done
 <2>2. \A i \in 1 .. k : x < order[i]
  BY <1>4, Zenon DEF Behind
 <2>3. \A i \in 1 .. k - 1 : x < rest[i]
  BY <1>4, <1>5, <2>2
 <2>4. QED
  BY <2>1, <2>2, <2>3
<1>10. Head(order) \notin done
 <2>1. order[1] \in Nat
  BY <1>1, <1>4
 <2>2. QED
  BY <1>4, <1>9, <2>1
<1>11. Behind(done \cup {Head(order)}, rest)
 BY <1>4, <1>8, <1>9 DEF Behind
<1>12. QED
 BY <1>1, <1>2, <1>4, <1>6, <1>7, <1>9, <1>10, <1>11
\* Files that no program has removed.
SidecarNumbers == 1 .. Len(disk.sidecars)
StayingSidecars == {i \in SidecarNumbers : <<"sidecar", i>> \notin gone}
StayingArchives == {i \in ArchiveNumbers : disk.archives[i].wrapper = "zip"
                                              /\ <<"archive", i>> \notin gone}

\* The directories listed so far: what stays of them is in the list.
ListInv ==
  /\ pc = "database" => folder = 1 /\ listed = <<>>
  /\ pc = "list" =>
        /\ folder \in 1 .. 3
        /\ package \in FileAssets
        /\ listed \in Seq(SidecarNumbers)
        /\ \A i \in StayingSidecars : \A f \in 1 .. folder - 1 :
              disk.sidecars[i].content.folder = Folders[f] => i \in Numbers(listed)

\* The sidecars mapped so far are all before those that are still listed.
SidecarsAre(files, sidecars) ==
  /\ Behind(sidecars, listed)
  /\ StayingSidecars \subseteq sidecars \cup Numbers(listed)
  /\ package = files \o JoinOf(disk, sidecars, {}, 0, 0)
SidecarsInv ==
  pc = "sidecars" =>
      /\ listed \in Seq(SidecarNumbers) /\ InPathOrder(listed)
      /\ \E files \in FileAssets, sidecars \in SUBSET SidecarNumbers :
            SidecarsAre(files, sidecars)

\* The archives read so far are all before those that are still listed; the one
\* at hand has given what it has up to its entry.
ArchivesAre(files, sidecars, archives) ==
  /\ Behind(archives, listed)
  /\ StayingSidecars \subseteq sidecars
  /\ StayingArchives \subseteq archives \cup Numbers(listed)
  /\ pc = "archives" => package = files \o JoinOf(disk, sidecars, archives, 0, 0)
  /\ pc = "entries" => package = files \o JoinOf(disk, sidecars, archives, Head(listed), entry - 1)
ArchivesInv ==
  /\ pc \in {"archives", "entries"} =>
        /\ InPathOrder(listed)
        /\ \E files \in FileAssets, sidecars \in SUBSET SidecarNumbers,
              archives \in SUBSET ArchiveNumbers : ArchivesAre(files, sidecars, archives)
  /\ pc = "entries" =>
        /\ disk.archives[Head(listed)].directory
        /\ entry \in 1 .. Len(disk.archives[Head(listed)].entries) + 1
        /\ \A j \in 1 .. entry - 1 : disk.archives[Head(listed)].entries[j].record

\* The package when all is read.
DoneWith(files, sidecars, archives) ==
  /\ StayingSidecars \subseteq sidecars
  /\ StayingArchives \subseteq archives
  /\ package = files \o JoinOf(disk, sidecars, archives, 0, 0)
DoneInv ==
  pc \in {"open", "decode", "inspect", "model"} =>
      \E files \in FileAssets, sidecars \in SUBSET SidecarNumbers,
         archives \in SUBSET ArchiveNumbers : DoneWith(files, sidecars, archives)

PromisedInv == ListInv /\ SidecarsInv /\ ArchivesInv /\ DoneInv

LEMMA PromisedInitially == Init => PromisedInv
 BY DEF Init, PromisedInv, ListInv, SidecarsInv, ArchivesInv, DoneInv

\* What a package of a disk is made of.
LEMMA FilesAreAssets ==
  ASSUME NEW files \in FileAssets
  PROVE  files \in Seq({FileAsset("model_database"), FileAsset("component_catalog"),
                        FileAsset("material_catalog")})
<1> DEFINE x == FileAsset("model_database")
           y == FileAsset("component_catalog")
           z == FileAsset("material_catalog")
<1>1. PICK c \in {<<>>, <<y>>}, m \in {<<>>, <<z>>} : files = <<x>> \o c \o m
 BY DEF FileAssets
<1> HIDE DEF x, y, z
<1>2. <<x>> \in Seq({x, y, z}) /\ c \in Seq({x, y, z}) /\ m \in Seq({x, y, z})
 <2>1. <<>> \in Seq({x, y, z})
  OBVIOUS
 <2>2. <<x>> \in Seq({x, y, z})
  OBVIOUS
 <2>3. <<y>> \in Seq({x, y, z})
  OBVIOUS
 <2>4. <<z>> \in Seq({x, y, z})
  OBVIOUS
 <2>5. QED
  BY <1>1, <2>1, <2>2, <2>3, <2>4, Zenon
<1>3. (<<x>> \o c) \o m \in Seq({x, y, z})
 BY <1>2
<1>4. QED
 BY <1>1, <1>3 DEF x, y, z

\* Appending to what follows the files.
LEMMA AppendsBehindFiles ==
  ASSUME NEW files \in FileAssets, NEW T, NEW join \in Seq(T), NEW x \in T
  PROVE  Append(files \o join, x) = files \o Append(join, x)
<1> DEFINE F == {FileAsset("model_database"), FileAsset("component_catalog"),
                 FileAsset("material_catalog")}
<1>1. files \in Seq(F)
 BY FilesAreAssets
<1> HIDE DEF F
<1>2. PICK U : U = F \cup T
 OBVIOUS
<1>3. F \subseteq U /\ T \subseteq U
 BY <1>2
<1>4. files \in Seq(U)
 BY <1>1, <1>3
<1>5. join \in Seq(U) /\ x \in U
 BY <1>3
<1>6. QED
 BY ONLY <1>4, <1>5

\* Files that disappear: less stays, and the package is what it was.
LEMMA QuietStepsKeepPromise ==
  ASSUME PromisedInv,
         UNCHANGED <<disk, pc, listed, folder, entry, package>>, gone \subseteq gone'
  PROVE  PromisedInv'
<1>1. StayingSidecars' \subseteq StayingSidecars /\ StayingArchives' \subseteq StayingArchives
 BY DEF StayingSidecars, StayingArchives, SidecarNumbers, ArchiveNumbers
<1>2. SidecarNumbers' = SidecarNumbers /\ ArchiveNumbers' = ArchiveNumbers
 BY DEF SidecarNumbers, ArchiveNumbers
<1>3. ListInv'
 BY <1>1, <1>2 DEF PromisedInv, ListInv
<1>4. SidecarsInv'
 <2>1. \A files, sidecars : SidecarsAre(files, sidecars) => SidecarsAre(files, sidecars)'
  BY <1>1 DEF SidecarsAre
 <2>2. QED
  BY <1>2, <2>1 DEF PromisedInv, SidecarsInv
<1>5. ArchivesInv'
 <2>1. \A files, sidecars, archives :
          ArchivesAre(files, sidecars, archives) => ArchivesAre(files, sidecars, archives)'
  BY <1>1 DEF ArchivesAre
 <2>2. QED
  BY <1>2, <2>1 DEF PromisedInv, ArchivesInv
<1>6. DoneInv'
 <2>1. \A files, sidecars, archives :
          DoneWith(files, sidecars, archives) => DoneWith(files, sidecars, archives)'
  BY <1>1 DEF DoneWith
 <2>2. QED
  BY <1>2, <2>1 DEF PromisedInv, DoneInv
<1>7. QED
 BY <1>3, <1>4, <1>5, <1>6 DEF PromisedInv

\* The database and the stages change nothing of the package.
LEMMA LaterStepsKeepPromise ==
  ASSUME PromisedInv, StartPayload \/ DecodeChunk \/ Inspect \/ Ask
  PROVE  PromisedInv'
<1>1. /\ UNCHANGED <<disk, gone, package, listed, folder, entry>>
      /\ pc \in {"open", "decode", "inspect", "model"}
      /\ pc' \in {"open", "decode", "inspect", "model", "failed"}
 BY DEF StartPayload, DecodeChunk, Inspect, Ask, Process, AskComponents, AskMaterials, AskShape,
        AskSections, diskVars, archiveVars, Fail
<1>2. StayingSidecars' = StayingSidecars /\ StayingArchives' = StayingArchives
        /\ SidecarNumbers' = SidecarNumbers /\ ArchiveNumbers' = ArchiveNumbers
 BY <1>1 DEF StayingSidecars, StayingArchives, SidecarNumbers, ArchiveNumbers
<1>3. \A files, sidecars, archives :
           DoneWith(files, sidecars, archives) => DoneWith(files, sidecars, archives)'
 BY <1>1, <1>2 DEF DoneWith
<1>4. DoneInv'
 BY <1>1, <1>2, <1>3 DEF PromisedInv, DoneInv
<1>5. ListInv' /\ SidecarsInv' /\ ArchivesInv'
 BY <1>1 DEF ListInv, SidecarsInv, ArchivesInv
<1>6. QED
 BY <1>4, <1>5 DEF PromisedInv

\* A failure promises nothing.
LEMMA FailurePromisesNothing ==
  ASSUME pc' = "failed"
  PROVE  PromisedInv'
 BY DEF PromisedInv, ListInv, SidecarsInv, ArchivesInv, DoneInv
LEMMA FilesMakeAPackage ==
  ASSUME NEW c \in {<<>>, <<FileAsset("component_catalog")>>},
         NEW m \in {<<>>, <<FileAsset("material_catalog")>>}
  PROVE  <<FileAsset("model_database")>> \o c \o m \in FileAssets
<1> DEFINE C == {<<>>, <<FileAsset("component_catalog")>>}
           M == {<<>>, <<FileAsset("material_catalog")>>}
           whole(a, b) == <<FileAsset("model_database")>> \o a \o b
<1>1. FileAssets = {whole(a, b) : a \in C, b \in M}
 BY DEF FileAssets
<1>2. c \in C /\ m \in M
 OBVIOUS
<1> HIDE DEF C, M, whole
<1>3. whole(c, m) \in FileAssets
 BY <1>1, <1>2
<1>4. QED
 BY <1>3 DEF whole

LEMMA MapDatabaseKeepsPromise ==
  ASSUME PromisedInv, disk \in Disks, MapDatabase
  PROVE  PromisedInv'
<1>1. CASE pc' = "failed"
 BY <1>1, FailurePromisesNothing
<1>2. CASE pc' # "failed"
 <2>1. /\ pc = "database" /\ pc' = "list"
       /\ package' = <<FileAsset("model_database")>>
                         \o OptionalAsset("component_catalog", "components", disk.components)
                         \o OptionalAsset("material_catalog", "materials", disk.materials)
       /\ UNCHANGED <<disk, gone, listed, folder>>
  BY <1>2 DEF MapDatabase, Fail, diskVars
 <2>2. folder = 1 /\ listed = <<>>
  BY <2>1 DEF PromisedInv, ListInv
 <2>3. package' \in FileAssets
  <3>1. /\ OptionalAsset("component_catalog", "components", disk.components)
               \in {<<>>, <<FileAsset("component_catalog")>>}
        /\ OptionalAsset("material_catalog", "materials", disk.materials)
               \in {<<>>, <<FileAsset("material_catalog")>>}
   BY DEF OptionalAsset
  <3>2. PICK c \in {<<>>, <<FileAsset("component_catalog")>>},
             m \in {<<>>, <<FileAsset("material_catalog")>>} :
                package' = <<FileAsset("model_database")>> \o c \o m
   BY <2>1, <3>1, Zenon
  <3>3. <<FileAsset("model_database")>> \o c \o m \in FileAssets
   BY <3>2, FilesMakeAPackage
  <3>4. QED
   BY <3>2, <3>3, Zenon
 <2>4. folder' \in 1 .. 3 /\ 1 .. folder' - 1 = {}
  BY <2>1, <2>2
 <2>5. listed' \in Seq(SidecarNumbers')
  BY <2>1, <2>2
 <2>6. ListInv'
  BY <2>1, <2>3, <2>4, <2>5 DEF ListInv
 <2>7. SidecarsInv' /\ ArchivesInv' /\ DoneInv'
  BY <2>1 DEF SidecarsInv, ArchivesInv, DoneInv
 <2>8. QED
  BY <2>6, <2>7 DEF PromisedInv
<1>3. QED
 BY <1>1, <1>2

LEMMA ListDirectoryKeepsPromise ==
  ASSUME PromisedInv, disk \in Disks, ListDirectory
  PROVE  PromisedInv'
<1>1. CASE pc' = "failed"
 BY <1>1, FailurePromisesNothing
<1>2. CASE pc' # "failed"
 <2> DEFINE found == {i \in DOMAIN disk.sidecars :
                        /\ disk.sidecars[i].content.folder = Folders[folder]
                        /\ <<"sidecar", i>> \notin gone}
            before == {listed[i] : i \in DOMAIN listed}
 <2>1. PICK order \in Orders(before \cup found) :
          /\ listed' = order /\ folder' = folder + 1
          /\ IF folder = Len(Folders) THEN InPathOrder(order) /\ pc' = "sidecars"
             ELSE UNCHANGED pc
  BY <1>2 DEF ListDirectory, Fail
 <2>2. pc = "list" /\ UNCHANGED <<disk, gone, package>>
  BY DEF ListDirectory, diskVars
 <2>3. /\ folder \in 1 .. 3 /\ package \in FileAssets /\ listed \in Seq(SidecarNumbers)
       /\ \A i \in StayingSidecars : \A f \in 1 .. folder - 1 :
             disk.sidecars[i].content.folder = Folders[f] => i \in Numbers(listed)
  BY <2>2 DEF PromisedInv, ListInv
 <2>4. Len(Folders) = 3
  BY DEF Folders
 <2>5. PICK n : n = Len(disk.sidecars)
  OBVIOUS
 <2>6. n \in Nat /\ DOMAIN disk.sidecars = 1 .. n /\ SidecarNumbers = 1 .. n
  BY <2>5, DiskHas DEF SidecarNumbers
 <2>7. before \subseteq 1 .. n
  BY <2>3, <2>6
 <2>8. before \cup found \in SUBSET (1 .. n)
  BY <2>6, <2>7
 <2>9. order \in Seq(1 .. n)
  BY <2>6, <2>8, OrdersAreSequences
 <2>10. Numbers(order) = before \cup found /\ before = Numbers(listed)
  BY OrdersHoldAll DEF Numbers
 <2>11. /\ StayingSidecars' = StayingSidecars /\ SidecarNumbers' = SidecarNumbers
  BY <2>2 DEF StayingSidecars, SidecarNumbers
 <2>12. \A i \in StayingSidecars : \A f \in 1 .. folder :
           disk.sidecars[i].content.folder = Folders[f] => i \in Numbers(order)
  <3> SUFFICES ASSUME NEW i \in StayingSidecars, NEW f \in 1 .. folder,
                      disk.sidecars[i].content.folder = Folders[f]
               PROVE  i \in Numbers(order)
   OBVIOUS
  <3>1. CASE f = folder
   <4>1. i \in found
    BY <2>6, <3>1 DEF StayingSidecars
   <4>2. QED
    BY <2>10, <4>1
  <3>2. CASE f # folder
   <4>1. f \in 1 .. folder - 1
    BY <2>3, <3>2
   <4>2. i \in Numbers(listed)
    BY <2>3, <4>1
   <4>3. QED
    BY <2>10, <4>2
  <3>3. QED
   BY <3>1, <3>2
 <2> HIDE DEF found, before
 <2>13. CASE folder # Len(Folders)
  <3>1. pc' = "list" /\ folder' \in 1 .. 3 /\ folder' - 1 = folder
   BY <2>1, <2>2, <2>3, <2>4, <2>13
  <3>2. \A i \in StayingSidecars' : \A f \in 1 .. folder' - 1 :
           disk'.sidecars[i].content.folder = Folders[f] => i \in Numbers(listed')
   BY <2>1, <2>2, <2>11, <2>12, <3>1
  <3>3. listed' \in Seq(SidecarNumbers')
   BY <2>1, <2>6, <2>9, <2>11
  <3>4. ListInv'
   BY <2>2, <2>3, <3>1, <3>2, <3>3, Zenon DEF ListInv
  <3>5. SidecarsInv' /\ ArchivesInv' /\ DoneInv'
   BY <3>1 DEF SidecarsInv, ArchivesInv, DoneInv
  <3>6. QED
   BY <3>4, <3>5 DEF PromisedInv
 <2>14. CASE folder = Len(Folders)
  <3>1. pc' = "sidecars" /\ InPathOrder(listed') /\ folder = 3 /\ listed' = order
   BY <2>1, <2>4, <2>14
  <3>2. \A i \in StayingSidecars : \E f \in 1 .. 3 : disk.sidecars[i].content.folder = Folders[f]
   <4>1. DOMAIN Folders = 1 .. 3
    BY DEF Folders
   <4>2. \A i \in DOMAIN disk.sidecars :
            \E f \in DOMAIN Folders : disk.sidecars[i].content.folder = Folders[f]
    BY DisksAreFiles
   <4>3. QED
    BY <2>6, <4>1, <4>2 DEF StayingSidecars
  <3>3. StayingSidecars \subseteq Numbers(order)
   BY <2>12, <3>1, <3>2
  <3>4. package = package \o <<>>
   <4>1. PICK F : package \in Seq(F)
    BY <2>3, FilesAreAssets
   <4>2. QED
    BY <4>1, ConcatEmptySeq
  <3>5. JoinOf(disk', {}, {}, 0, 0) = <<>>
   BY <2>2, NothingJoins
  <3>a. PICK files, none : files = package /\ none = {}
   OBVIOUS
  <3>6. SidecarsAre(files, none)'
   <4>1. Behind(none, listed')
    BY <3>a DEF Behind
   <4>2. StayingSidecars' \subseteq none \cup Numbers(listed')
    BY <2>11, <3>1, <3>3, <3>a
   <4>3. package' = files \o JoinOf(disk', none, {}, 0, 0)
    BY <2>2, <3>4, <3>5, <3>a, Zenon
   <4>4. QED
    BY <4>1, <4>2, <4>3 DEF SidecarsAre
  <3>7. SidecarsInv'
   <4>1. listed' \in Seq(SidecarNumbers')
    BY <2>1, <2>6, <2>9, <2>11
   <4>2. files \in FileAssets /\ none \in SUBSET SidecarNumbers'
    BY <2>3, <3>a
   <4>3. QED
    BY <3>1, <3>6, <4>1, <4>2 DEF SidecarsInv
  <3>8. ListInv' /\ ArchivesInv' /\ DoneInv'
   BY <3>1 DEF ListInv, ArchivesInv, DoneInv
  <3>9. QED
   BY <3>7, <3>8 DEF PromisedInv
 <2>15. QED
  BY <2>13, <2>14
<1>3. QED
 BY <1>1, <1>2

LEMMA MapSidecarKeepsPromise ==
  ASSUME PromisedInv, disk \in Disks, MapSidecar
  PROVE  PromisedInv'
<1>1. CASE pc' = "failed"
 BY <1>1, FailurePromisesNothing
<1>2. CASE pc' # "failed"
 <2> DEFINE k == Head(listed)
            x == Snapshot(disk.sidecars[k].content)
 <2>1. /\ pc = "sidecars" /\ listed # <<>> /\ pc' = "sidecars"
       /\ package' = Append(package, x) /\ listed' = Tail(listed)
       /\ UNCHANGED <<disk, gone>>
  BY <1>2 DEF MapSidecar, Fail, diskVars
 <2>2. listed \in Seq(SidecarNumbers) /\ InPathOrder(listed)
  BY <2>1 DEF PromisedInv, SidecarsInv
 <2>3. PICK files \in FileAssets, sidecars \in SUBSET SidecarNumbers : SidecarsAre(files, sidecars)
  BY <2>1 DEF PromisedInv, SidecarsInv
 <2>4. PICK n : n = Len(disk.sidecars)
  OBVIOUS
 <2>5. n \in Nat /\ SidecarNumbers = 1 .. n
  BY <2>4, DiskHas DEF SidecarNumbers
 <2>6. Behind(sidecars, listed)
  BY <2>3 DEF SidecarsAre
 <2>7. /\ k \in 1 .. n /\ Tail(listed) \in Seq(1 .. n)
       /\ InPathOrder(Tail(listed))
       /\ Numbers(listed) = {k} \cup Numbers(Tail(listed))
       /\ Behind(sidecars \cup {k}, Tail(listed))
       /\ \A s \in sidecars : s \in Nat /\ s < k
  BY <2>1, <2>2, <2>3, <2>5, <2>6, HeadIsBehind
 <2> HIDE DEF k
 <2>8. /\ JoinOf(disk, sidecars \cup {k}, {}, 0, 0) = Append(JoinOf(disk, sidecars, {}, 0, 0), x)
       /\ JoinOf(disk, sidecars, {}, 0, 0) \in Seq(AssetsOf(disk))
       /\ x \in AssetsOf(disk)
  BY <2>4, <2>7, SidecarJoins
 <2> HIDE DEF x
 <2>9. package' = files \o JoinOf(disk, sidecars \cup {k}, {}, 0, 0)
  <3>1. Append(files \o JoinOf(disk, sidecars, {}, 0, 0), x)
          = files \o Append(JoinOf(disk, sidecars, {}, 0, 0), x)
   BY <2>8, AppendsBehindFiles
  <3>2. package = files \o JoinOf(disk, sidecars, {}, 0, 0)
   BY <2>3 DEF SidecarsAre
  <3>3. QED
   BY <2>1, <2>8, <3>1, <3>2, Zenon
 <2>10. StayingSidecars \subseteq (sidecars \cup {k}) \cup Numbers(Tail(listed))
  BY <2>3, <2>7 DEF SidecarsAre
 <2>11. StayingSidecars' = StayingSidecars /\ SidecarNumbers' = SidecarNumbers
  BY <2>1 DEF StayingSidecars, SidecarNumbers
 <2>12. PICK more : more = sidecars \cup {k}
  OBVIOUS
 <2>13. SidecarsAre(files, more)'
  BY <2>1, <2>7, <2>9, <2>10, <2>11, <2>12 DEF SidecarsAre
 <2>14. SidecarsInv'
  <3>1. more \in SUBSET SidecarNumbers'
   BY <2>5, <2>7, <2>11, <2>12
  <3>2. listed' \in Seq(SidecarNumbers') /\ InPathOrder(listed')
   BY <2>1, <2>5, <2>7, <2>11
  <3>3. QED
   BY <2>13, <3>1, <3>2 DEF SidecarsInv
 <2>15. ListInv' /\ ArchivesInv' /\ DoneInv'
  BY <2>1 DEF ListInv, ArchivesInv, DoneInv
 <2>16. QED
  BY <2>14, <2>15 DEF PromisedInv
<1>3. QED
 BY <1>1, <1>2
\* What the archives are doing, given the facts of the disk.
LEMMA ArchivesStayInOrder ==
  ASSUME PackageIInv, PromisedInv, pc \in {"archives", "entries"}, listed # <<>>,
         NEW archives \in SUBSET ArchiveNumbers, Behind(archives, listed)
  PROVE  /\ Head(listed) \in ArchiveNumbers
         /\ InPathOrder(Tail(listed))
         /\ Numbers(listed) = {Head(listed)} \cup Numbers(Tail(listed))
         /\ Behind(archives \cup {Head(listed)}, Tail(listed))
         /\ Behind(archives, Tail(listed))
         /\ \A b \in archives : b \in Nat /\ b < Head(listed)
         /\ Head(listed) \notin archives
<1>1. PICK n : n = Len(disk.archives)
 OBVIOUS
<1>2. disk \in Disks
 BY DEF PackageIInv, PackageInv
<1>3. n \in Nat /\ ArchiveNumbers = 1 .. n
 BY <1>1, <1>2, DiskHas DEF ArchiveNumbers
<1>4. listed \in Seq(1 .. n)
 BY <1>3 DEF PackageIInv
<1>5. InPathOrder(listed)
 BY DEF PromisedInv, ArchivesInv
<1>6. /\ Head(listed) \in 1 .. n
      /\ InPathOrder(Tail(listed))
      /\ Numbers(listed) = {Head(listed)} \cup Numbers(Tail(listed))
      /\ Behind(archives \cup {Head(listed)}, Tail(listed))
      /\ \A b \in archives : b \in Nat /\ b < Head(listed)
      /\ Head(listed) \notin archives
 BY <1>3, <1>4, <1>5, HeadIsBehind
<1>7. Behind(archives, Tail(listed))
 BY <1>6 DEF Behind
<1>8. QED
 BY <1>3, <1>6, <1>7

\* The next archive: the one at hand is done, whatever it gave.
LEMMA NextArchiveKeepsPromise ==
  ASSUME PackageIInv, PromisedInv, pc \in {"archives", "entries"}, listed # <<>>,
         NEW files \in FileAssets, NEW sidecars \in SUBSET SidecarNumbers,
         NEW archives \in SUBSET ArchiveNumbers, NEW done \in SUBSET ArchiveNumbers,
         Behind(archives, listed), StayingSidecars \subseteq sidecars,
         StayingArchives \subseteq archives \cup Numbers(listed),
         done \in {archives, archives \cup {Head(listed)}},
         Head(listed) \in StayingArchives => Head(listed) \in done,
         package' = files \o JoinOf(disk, sidecars, done, 0, 0),
         NextArchive, UNCHANGED <<disk, gone>>
  PROVE  PromisedInv'
<1>1. /\ InPathOrder(Tail(listed))
      /\ Numbers(listed) = {Head(listed)} \cup Numbers(Tail(listed))
      /\ Behind(archives \cup {Head(listed)}, Tail(listed))
      /\ Behind(archives, Tail(listed))
 BY ArchivesStayInOrder
<1>2. listed' = Tail(listed) /\ pc' = "archives"
 BY DEF NextArchive
<1>3. StayingSidecars' = StayingSidecars /\ StayingArchives' = StayingArchives
        /\ SidecarNumbers' = SidecarNumbers /\ ArchiveNumbers' = ArchiveNumbers
 BY DEF StayingSidecars, StayingArchives, SidecarNumbers, ArchiveNumbers
<1>4. StayingArchives \subseteq done \cup Numbers(Tail(listed))
 BY <1>1
<1>5. Behind(done, Tail(listed))
 BY <1>1, Zenon
<1>6. ArchivesAre(files, sidecars, done)'
 BY <1>2, <1>3, <1>4, <1>5 DEF ArchivesAre
<1>7. ArchivesInv'
 BY <1>1, <1>2, <1>3, <1>6 DEF ArchivesInv
<1>8. ListInv' /\ SidecarsInv' /\ DoneInv'
 BY <1>2 DEF ListInv, SidecarsInv, DoneInv
<1>9. QED
 BY <1>7, <1>8 DEF PromisedInv

LEMMA ListArchivesKeepsPromise ==
  ASSUME PromisedInv, disk \in Disks, ListArchives
  PROVE  PromisedInv'
<1>1. CASE pc' = "failed"
 BY <1>1, FailurePromisesNothing
<1>2. CASE pc' # "failed"
 <2> DEFINE found == {i \in DOMAIN disk.archives : <<"archive", i>> \notin gone}
 <2>1. /\ pc = "sidecars" /\ listed = <<>> /\ pc' = "archives"
       /\ UNCHANGED <<disk, gone, package>>
  BY <1>2 DEF ListArchives, Fail, diskVars
 <2>2. PICK order \in Orders(found) : InPathOrder(order) /\ listed' = order
  BY <1>2 DEF ListArchives, Fail
 <2>3. PICK files \in FileAssets, sidecars \in SUBSET SidecarNumbers : SidecarsAre(files, sidecars)
  BY <2>1 DEF PromisedInv, SidecarsInv
 <2>4. Numbers(order) = found
  BY OrdersHoldAll
 <2>5. StayingArchives \subseteq found
  BY DiskHas DEF StayingArchives, ArchiveNumbers
 <2>6. StayingSidecars' = StayingSidecars /\ StayingArchives' = StayingArchives
         /\ SidecarNumbers' = SidecarNumbers /\ ArchiveNumbers' = ArchiveNumbers
  BY <2>1 DEF StayingSidecars, StayingArchives, SidecarNumbers, ArchiveNumbers
 <2>7. Numbers(listed) = {}
  BY <2>1 DEF Numbers
 <2>8. StayingSidecars \subseteq sidecars
  BY <2>3, <2>7 DEF SidecarsAre
 <2>9. PICK none : none = {}
  OBVIOUS
 <2>10. package' = files \o JoinOf(disk', sidecars, none, 0, 0)
  BY <2>1, <2>3, <2>9 DEF SidecarsAre
 <2> HIDE DEF found
 <2>11. ArchivesAre(files, sidecars, none)'
  <3>1. Behind(none, listed')
   BY <2>9 DEF Behind
  <3>2. StayingArchives' \subseteq none \cup Numbers(listed')
   BY <2>2, <2>4, <2>5, <2>6
  <3>3. QED
   BY <2>1, <2>6, <2>8, <2>10, <3>1, <3>2 DEF ArchivesAre
 <2>12. ArchivesInv'
  <3>1. sidecars \in SUBSET SidecarNumbers' /\ none \in SUBSET ArchiveNumbers'
   BY <2>6, <2>9
  <3>2. QED
   BY <2>1, <2>2, <2>11, <3>1 DEF ArchivesInv
 <2>13. ListInv' /\ SidecarsInv' /\ DoneInv'
  BY <2>1 DEF ListInv, SidecarsInv, DoneInv
 <2>14. QED
  BY <2>12, <2>13 DEF PromisedInv
<1>3. QED
 BY <1>1, <1>2

LEMMA OpenArchiveKeepsPromise ==
  ASSUME PackageIInv, PromisedInv, OpenArchive
  PROVE  PromisedInv'
<1>1. CASE pc' = "failed"
 BY <1>1, FailurePromisesNothing
<1>2. CASE pc' # "failed"
 <2> DEFINE a == Head(listed)
            archive == disk.archives[a]
 <2>1. pc = "archives" /\ listed # <<>> /\ UNCHANGED <<disk, gone, package>>
  BY DEF OpenArchive, diskVars
 <2>2. PICK files \in FileAssets, sidecars \in SUBSET SidecarNumbers,
            archives \in SUBSET ArchiveNumbers : ArchivesAre(files, sidecars, archives)
  BY <2>1 DEF PromisedInv, ArchivesInv
 <2>3. /\ Behind(archives, listed) /\ StayingSidecars \subseteq sidecars
       /\ StayingArchives \subseteq archives \cup Numbers(listed)
       /\ package = files \o JoinOf(disk, sidecars, archives, 0, 0)
  BY <2>1, <2>2 DEF ArchivesAre
 <2>4. a \in ArchiveNumbers /\ a \notin archives
  BY <2>1, <2>3, ArchivesStayInOrder
 <2>5. disk \in Disks
  BY DEF PackageIInv, PackageInv
 <2>6. \/ (~CanMap(<<"archive", a>>, archive) \/ ~archive.directory) /\ NextArchive
       \/ /\ CanMap(<<"archive", a>>, archive) /\ archive.directory
          /\ pc' = "entries" /\ UNCHANGED <<listed, entry>>
  BY <1>2 DEF OpenArchive, Fail
 <2>7. CASE ~archive.directory /\ NextArchive
  <3>1. PICK done : done = archives \cup {a}
   OBVIOUS
  <3>2. JoinOf(disk, sidecars, done, 0, 0) = JoinOf(disk, sidecars, archives, 0, 0)
   BY <2>4, <2>5, <2>7, <3>1, NoDirectoryGivesNothing DEF ArchiveNumbers
  <3>3. package' = files \o JoinOf(disk, sidecars, done, 0, 0)
   BY <2>1, <2>3, <3>2, Zenon
  <3>4. done \in SUBSET ArchiveNumbers /\ done \in {archives, archives \cup {Head(listed)}}
          /\ Head(listed) \in done
   BY <2>4, <3>1
  <3>5. QED
   BY <2>1, <2>3, <2>7, <3>3, <3>4, NextArchiveKeepsPromise
 <2>8. CASE ~CanMap(<<"archive", a>>, archive) /\ NextArchive
  <3>1. a \notin StayingArchives
   BY <2>8 DEF StayingArchives, CanMap
  <3>2. QED
   BY <2>1, <2>3, <2>8, <3>1, NextArchiveKeepsPromise
 <2>9. CASE archive.directory /\ pc' = "entries" /\ UNCHANGED <<listed, entry>>
  <3>1. entry = 1 /\ entry' = 1 /\ entry' - 1 = 0
   BY <2>1, <2>9 DEF PackageIInv
  <3>2. JoinOf(disk, sidecars, archives, a, 0) = JoinOf(disk, sidecars, archives, 0, 0)
   BY <2>4, <2>5, ArchiveStarts DEF ArchiveNumbers
  <3>3. StayingSidecars' = StayingSidecars /\ StayingArchives' = StayingArchives
          /\ SidecarNumbers' = SidecarNumbers /\ ArchiveNumbers' = ArchiveNumbers
   BY <2>1 DEF StayingSidecars, StayingArchives, SidecarNumbers, ArchiveNumbers
  <3>4. package' = files \o JoinOf(disk', sidecars, archives, Head(listed'), entry' - 1)
   BY <2>1, <2>3, <2>9, <3>1, <3>2, Zenon
  <3>5. ArchivesAre(files, sidecars, archives)'
   BY <2>3, <2>9, <3>3, <3>4 DEF ArchivesAre
  <3>6. InPathOrder(listed')
   BY <2>1, <2>9 DEF PromisedInv, ArchivesInv
  <3>7. Len(archive.entries) \in Nat
   BY <2>4, <2>5, DiskHas DEF ArchiveNumbers
  <3>8. /\ disk'.archives[Head(listed')].directory
        /\ entry' \in 1 .. Len(disk'.archives[Head(listed')].entries) + 1
        /\ 1 .. entry' - 1 = {}
   BY <2>1, <2>9, <3>1, <3>7
  <3>9. ArchivesInv'
   BY <2>9, <3>3, <3>5, <3>6, <3>8 DEF ArchivesInv
  <3>10. ListInv' /\ SidecarsInv' /\ DoneInv'
   BY <2>9 DEF ListInv, SidecarsInv, DoneInv
  <3>11. QED
   BY <3>9, <3>10 DEF PromisedInv
 <2>10. QED
  BY <2>6, <2>7, <2>8, <2>9
<1>3. QED
 BY <1>1, <1>2
LEMMA ReadEntryKeepsPromise ==
  ASSUME PackageIInv, PromisedInv, ReadEntry
  PROVE  PromisedInv'
<1>1. CASE pc' = "failed"
 BY <1>1, FailurePromisesNothing
<1>2. CASE pc' # "failed"
 <2> DEFINE a == Head(listed)
            archive == disk.archives[a]
            e == archive.entries[entry]
            n == Len(archive.entries)
 <2>1. pc = "entries" /\ listed # <<>> /\ UNCHANGED <<disk, gone>>
  BY DEF ReadEntry, PackageIInv, diskVars
 <2>2. PICK files \in FileAssets, sidecars \in SUBSET SidecarNumbers,
            archives \in SUBSET ArchiveNumbers : ArchivesAre(files, sidecars, archives)
  BY <2>1 DEF PromisedInv, ArchivesInv
 <2>3. /\ Behind(archives, listed) /\ StayingSidecars \subseteq sidecars
       /\ StayingArchives \subseteq archives \cup Numbers(listed)
       /\ package = files \o JoinOf(disk, sidecars, archives, a, entry - 1)
  BY <2>1, <2>2 DEF ArchivesAre
 <2>4. /\ a \in ArchiveNumbers /\ a \notin archives
       /\ \A b \in archives : b \in Nat /\ b < a
  BY <2>1, <2>3, ArchivesStayInOrder
 <2>5. disk \in Disks
  BY DEF PackageIInv, PackageInv
 <2>6. n \in Nat /\ Gives(archive, AssetsOf(disk)) /\ a \in 1 .. Len(disk.archives)
  BY <2>4, <2>5, DiskHas DEF ArchiveNumbers
 <2>7. /\ archive.directory /\ entry \in 1 .. n + 1
       /\ \A j \in 1 .. entry - 1 : archive.entries[j].record
  BY <2>1 DEF PromisedInv, ArchivesInv
 <2>8. \/ /\ entry > n \/ (entry <= n /\ ~e.record)
          /\ NextArchive /\ UNCHANGED package
       \/ /\ entry <= n /\ e.record /\ entry' = entry + 1 /\ UNCHANGED <<pc, listed>>
          /\ IF IsCatalog(e)
             THEN package' = IF Inflates(e) /\ e.intact
                             THEN Append(package, Snapshot(e.content)) ELSE package
             ELSE UNCHANGED package
  <3>1. entry > n \/ entry <= n
   BY <2>6, <2>7
  <3>2. QED
   BY <1>2, <3>1 DEF ReadEntry, Fail
 <2> HIDE DEF a, archive, e, n
 <2>9. CASE /\ entry > n \/ (entry <= n /\ ~e.record)
            /\ NextArchive /\ UNCHANGED package
  <3>1. Given(archive)[entry - 1] = Contribution(archive)
   <4>1. CASE entry > n
    <5>1. entry - 1 = n
     BY <2>6, <2>7, <4>1
    <5>2. QED
     BY <5>1 DEF Contribution, n
   <4>2. CASE entry <= n /\ ~e.record
    <5>1. entry \in 1 .. n
     BY <2>6, <2>7, <4>2
    <5>2. QED
     BY <2>6, <4>2, <5>1, Zenon DEF Gives, Contribution, e, n
   <4>3. QED
    BY <2>9, <4>1, <4>2
  <3>2. PICK done : done = archives \cup {a}
   OBVIOUS
  <3>3. JoinOf(disk, sidecars, archives, a, entry - 1) = JoinOf(disk, sidecars, done, 0, 0)
   BY <2>5, <2>6, <2>7, <3>1, <3>2, ArchiveEnds DEF archive
  <3>4. package' = files \o JoinOf(disk, sidecars, done, 0, 0)
   BY <2>3, <2>9, <3>3, Zenon
  <3>5. done \in SUBSET ArchiveNumbers /\ done \in {archives, archives \cup {Head(listed)}}
          /\ Head(listed) \in done
   BY <2>4, <3>2 DEF a
  <3>6. QED
   BY <2>1, <2>3, <2>9, <3>4, <3>5, NextArchiveKeepsPromise
 <2>10. CASE /\ entry <= n /\ e.record /\ entry' = entry + 1 /\ UNCHANGED <<pc, listed>>
             /\ IF IsCatalog(e)
                THEN package' = IF Inflates(e) /\ e.intact
                                THEN Append(package, Snapshot(e.content)) ELSE package
                ELSE UNCHANGED package
  <3>1. entry \in 1 .. n /\ entry' - 1 = entry
   BY <2>6, <2>7, <2>10
  <3>2. \A j \in 1 .. entry : archive.entries[j].record
   <4>1. \A j \in 1 .. entry : j = entry \/ j \in 1 .. entry - 1
    BY <3>1
   <4>2. QED
    BY <2>7, <2>10, <4>1 DEF e
  <3>3. IsGiven(archive, entry) <=> IsCatalog(e) /\ Inflates(e) /\ e.intact
   BY <3>2 DEF IsGiven, e
  <3>4. package' = files \o JoinOf(disk, sidecars, archives, a, entry)
   <4>1. CASE IsGiven(archive, entry)
    <5>1. package' = Append(package, Snapshot(e.content))
     BY <2>10, <3>3, <4>1
    <5>2. /\ JoinOf(disk, sidecars, archives, a, entry)
               = Append(JoinOf(disk, sidecars, archives, a, entry - 1), Snapshot(e.content))
          /\ JoinOf(disk, sidecars, archives, a, entry - 1) \in Seq(AssetsOf(disk))
          /\ Snapshot(e.content) \in AssetsOf(disk)
     BY <2>4, <2>5, <2>6, <3>1, <4>1, EntryJoins DEF archive, e, n
    <5>3. Append(files \o JoinOf(disk, sidecars, archives, a, entry - 1), Snapshot(e.content))
            = files \o Append(JoinOf(disk, sidecars, archives, a, entry - 1), Snapshot(e.content))
     BY <5>2, AppendsBehindFiles
    <5>4. QED
     BY <2>3, <5>1, <5>2, <5>3, Zenon
   <4>2. CASE ~IsGiven(archive, entry)
    <5>1. UNCHANGED package
     BY <2>10, <3>3, <4>2
    <5>2. JoinOf(disk, sidecars, archives, a, entry) = JoinOf(disk, sidecars, archives, a, entry - 1)
     BY <2>5, <2>6, <3>1, <4>2, EntryGivesNothing DEF archive, n
    <5>3. QED
     BY <2>3, <5>1, <5>2, Zenon
   <4>3. QED
    BY <4>1, <4>2
  <3>5. StayingSidecars' = StayingSidecars /\ StayingArchives' = StayingArchives
          /\ SidecarNumbers' = SidecarNumbers /\ ArchiveNumbers' = ArchiveNumbers
   BY <2>1 DEF StayingSidecars, StayingArchives, SidecarNumbers, ArchiveNumbers
  <3>6. package' = files \o JoinOf(disk', sidecars, archives, Head(listed'), entry' - 1)
   BY <2>1, <2>10, <3>1, <3>4, Zenon DEF a
  <3>7. pc' = "entries"
   BY <2>1, <2>10
  <3>8. ArchivesAre(files, sidecars, archives)'
   BY <2>3, <2>10, <3>5, <3>6, <3>7 DEF ArchivesAre
  <3>9. InPathOrder(listed')
   BY <2>1, <2>10 DEF PromisedInv, ArchivesInv
  <3>10. /\ disk'.archives[Head(listed')] = archive /\ archive.directory
         /\ entry' \in 1 .. n + 1
         /\ \A j \in 1 .. entry' - 1 : archive.entries[j].record
   <4>1. disk'.archives[Head(listed')] = archive
    BY <2>1, <2>10 DEF archive, a
   <4>2. entry' \in 1 .. n + 1
    BY <2>6, <2>10, <3>1
   <4>3. QED
    BY <2>7, <3>1, <3>2, <4>1, <4>2
  <3>11. ArchivesInv'
   BY <3>5, <3>7, <3>8, <3>9, <3>10 DEF ArchivesInv, n
  <3>12. ListInv' /\ SidecarsInv' /\ DoneInv'
   BY <3>7 DEF ListInv, SidecarsInv, DoneInv
  <3>13. QED
   BY <3>11, <3>12 DEF PromisedInv
 <2>11. QED
  BY <2>8, <2>9, <2>10
<1>3. QED
 BY <1>1, <1>2

LEMMA PackageDoneKeepsPromise ==
  ASSUME PromisedInv, PackageDone
  PROVE  PromisedInv'
<1>1. pc = "archives" /\ listed = <<>> /\ pc' = "open" /\ UNCHANGED <<disk, gone, package>>
 BY DEF PackageDone, diskVars
<1>2. PICK files \in FileAssets, sidecars \in SUBSET SidecarNumbers,
           archives \in SUBSET ArchiveNumbers : ArchivesAre(files, sidecars, archives)
 BY <1>1 DEF PromisedInv, ArchivesInv
<1>3. Numbers(listed) = {}
 BY <1>1 DEF Numbers
<1>4. StayingSidecars' = StayingSidecars /\ StayingArchives' = StayingArchives
        /\ SidecarNumbers' = SidecarNumbers /\ ArchiveNumbers' = ArchiveNumbers
 BY <1>1 DEF StayingSidecars, StayingArchives, SidecarNumbers, ArchiveNumbers
<1>5. DoneWith(files, sidecars, archives)'
 BY <1>1, <1>2, <1>3, <1>4 DEF ArchivesAre, DoneWith
<1>6. DoneInv'
 BY <1>4, <1>5 DEF DoneInv
<1>7. ListInv' /\ SidecarsInv' /\ ArchivesInv'
 BY <1>1 DEF ListInv, SidecarsInv, ArchivesInv
<1>8. QED
 BY <1>6, <1>7 DEF PromisedInv

LEMMA PromiseIsKept ==
  ASSUME PackageIInv, PromisedInv
  PROVE  PackageIsPromised
<1> SUFFICES ASSUME pc \in {"open", "decode", "inspect", "model"}
             PROVE  PackageIsPromised
 BY DEF PackageIsPromised
<1>1. PICK files \in FileAssets, sidecars \in SUBSET SidecarNumbers,
           archives \in SUBSET ArchiveNumbers : DoneWith(files, sidecars, archives)
 BY DEF PromisedInv, DoneInv
<1>2. disk \in Disks
 BY DEF PackageIInv, PackageInv
<1>3. /\ DOMAIN disk.sidecars = SidecarNumbers /\ DOMAIN disk.archives = ArchiveNumbers
      /\ Len(disk.sidecars) \in Nat
 BY <1>2, DiskHas DEF SidecarNumbers, ArchiveNumbers
<1>4. package = files \o Snapshots(sidecars, archives)
 BY <1>1, <1>3, SnapshotsAreJoined DEF DoneWith
<1>5. {i \in DOMAIN disk.sidecars : <<"sidecar", i>> \notin gone} \subseteq sidecars
 BY <1>1, <1>3 DEF DoneWith, StayingSidecars
<1>6. {i \in {j \in DOMAIN disk.archives : disk.archives[j].wrapper = "zip"} :
          <<"archive", i>> \notin gone} \subseteq archives
 BY <1>1, <1>3 DEF DoneWith, StayingArchives
<1>7. sidecars \in SUBSET DOMAIN disk.sidecars /\ archives \in SUBSET DOMAIN disk.archives
 BY <1>3
<1>8. QED
 BY <1>4, <1>5, <1>6, <1>7, Zenon DEF PackageIsPromised

\* A package holds the files and the snapshots of every file that has not
\* disappeared, in path order, whatever order the directories were listed in
\* (map_model_package).
THEOREM PackagesAreAsPromised == Spec => []PackageIsPromised
<1>1. PackageIInv /\ [Next]_packageVars => PackageIInv'
 BY OtherStepsKeep, ArchiveStepsKeep, PayloadStepsKeep DEF Next, MapPackage, OpenModel
<1>2. PackageIInv /\ PromisedInv /\ [Next]_packageVars => PromisedInv'
 <2> SUFFICES ASSUME PackageIInv, PromisedInv, [Next]_packageVars
              PROVE  PromisedInv'
  OBVIOUS
 <2>1. disk \in Disks
  BY DEF PackageIInv, PackageInv
 <2>2. CASE Vanish \/ UNCHANGED packageVars
  <3>1. UNCHANGED <<disk, pc, listed, folder, entry, package>> /\ gone \subseteq gone'
   BY <2>2 DEF Vanish, packageVars, diskVars, archiveVars
  <3>2. QED
   BY <3>1, QuietStepsKeepPromise
 <2>3. CASE MapPackage
  BY <2>1, <2>3, MapDatabaseKeepsPromise, ListDirectoryKeepsPromise, MapSidecarKeepsPromise,
     ListArchivesKeepsPromise, OpenArchiveKeepsPromise, ReadEntryKeepsPromise,
     PackageDoneKeepsPromise DEF MapPackage
 <2>4. CASE OpenModel \/ Ask
  BY <2>4, LaterStepsKeepPromise DEF OpenModel
 <2>5. QED
  BY <2>2, <2>3, <2>4 DEF Next
<1>3. QED
 BY <1>1, <1>2, PromiseIsKept, PackageIInvInitially, PromisedInitially, PTL DEF Spec
=============================================================================
