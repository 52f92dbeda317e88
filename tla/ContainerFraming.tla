---------------------------- MODULE ContainerFraming ----------------------------
(***************************************************************************)
(* How the tables of a database are found in its payload                   *)
(* (src/container.cpp, inspect_payload) and compared with the schema of    *)
(* its format (src/schema_validation.cpp, src/role_schema.cpp).            *)
(*                                                                         *)
(* Nothing in a table says how long it is.  Tables end with one byte       *)
(* pattern, which is looked for in the whole payload and may also occur in *)
(* a row; what stands between two of them is a section.  The length of its *)
(* footer is guessed from its last bytes, which may again be those of a    *)
(* row.  A section is here                                                 *)
(*   size         its bytes, footer included                               *)
(*   tuple        the size of a tuple, the first number of the header      *)
(*   descriptors  those the header announces, each any number              *)
(*   tails        the footers its last bytes look like                     *)
(*   key          the number in front of the end pattern                   *)
(***************************************************************************)
EXTENDS Integers, Sequences, FiniteSets

CONSTANTS
    Schemas,     \* generated schemas: [format, tables : Seq(tuple, descriptors, key, name)]
    NoKey        \* the key of a table without one

Footers == {"connected", "keyed", "plain", "final"}
Sections == [size : Nat, tuple : Nat, descriptors : Seq(Nat), tails : SUBSET Footers, key : Nat]

Delimited == <<"connected", "keyed", "plain">>
FooterSize == [connected |-> 13, keyed |-> 9, plain |-> 5, final |-> 5]

RecordSize(tuple) == 1 + tuple + 8
HeaderSize(descriptors) == 8 + 4 * Len(descriptors)
BodySize(section, footer) == section.size - FooterSize[footer] - HeaderSize(section.descriptors)

\* Faulty variant: bytes left behind the last whole record are ignored.
ParsesWithRemainder(section, footer) ==
    /\ BodySize(section, footer) >= 0
    /\ \A i \in DOMAIN section.descriptors : section.descriptors[i] <= 255

\* parse_table succeeds on a section whose footer is taken to be `footer`.
Parses(section, footer) ==
    /\ BodySize(section, footer) >= 0
    /\ BodySize(section, footer) % RecordSize(section.tuple) = 0
    /\ \A i \in DOMAIN section.descriptors : section.descriptors[i] <= 255

KeyOf(section, footer) == IF footer \in {"connected", "keyed"} THEN section.key ELSE NoKey

ParseTable(section, ordinal, footer) ==
    [ordinal |-> ordinal, tuple |-> section.tuple, descriptors |-> section.descriptors,
     rows |-> BodySize(section, footer) \div RecordSize(section.tuple),
     key |-> KeyOf(section, footer), footer |-> footer]

\* The footers a section can be read with, and the first of them in the order
\* parse_delimited_table tries them.
ReadableAs(section) == {i \in DOMAIN Delimited : /\ Delimited[i] \in section.tails
                                                 /\ Parses(section, Delimited[i])}
FooterOf(section) ==
    Delimited[CHOOSE i \in ReadableAs(section) : \A j \in ReadableAs(section) : i <= j]

DelimitersFound(payload) == payload.delimited
Failed == "invalid_container"

\* inspect_payload: the header, every section between two delimiters, and what
\* follows the last one, which has the footer of the last table.
InspectPayload(payload, validate) ==
    LET n == Len(payload.sections)
        readable == /\ DelimitersFound(payload)
                    /\ \A i \in 1 .. n : ReadableAs(payload.sections[i]) # {}
                    /\ "final" \in payload.trailing.tails
                    /\ Parses(payload.trailing, "final")
        table[i \in 1 .. n + 1] ==
            IF i <= n THEN ParseTable(payload.sections[i], i - 1, FooterOf(payload.sections[i]))
            ELSE ParseTable(payload.trailing, n, "final")
    IN  IF payload.header = "malformed" THEN [error |-> "unsupported_format"]
        ELSE IF ~validate
             THEN [error |-> "none", format |-> payload.format, uuid |-> payload.uuid,
                   tables |-> <<>>]
        ELSE IF ~readable THEN [error |-> Failed]
        ELSE [error |-> "none", format |-> payload.format, uuid |-> payload.uuid,
              tables |-> table]

---------------------------------------------------------------------------
(* Schemas.                                                               *)

HasSchema(format) == \E s \in Schemas : s.format = format
SchemaFor(format) == CHOOSE s \in Schemas : s.format = format

SameShape(physical, expected) ==
    physical.tuple = expected.tuple /\ physical.descriptors = expected.descriptors

\* validate_schema: "none", or the error.
ValidateSchema(layout) ==
    LET expected == SchemaFor(layout.format).tables
    IN  IF ~HasSchema(layout.format) THEN "unsupported_format"
        ELSE IF /\ Len(layout.tables) = Len(expected)
                /\ \A i \in DOMAIN layout.tables :
                      /\ layout.tables[i].ordinal = i - 1
                      /\ SameShape(layout.tables[i], expected[i])
                      /\ layout.tables[i].key # NoKey /\ expected[i].key # NoKey
                            => layout.tables[i].key = expected[i].key
             THEN "none" ELSE "schema_mismatch"

\* project_keyed_role_schema: the tables of an adjacent database are found by
\* their keys; each is given the place it has there.
Candidates(layout, i) ==
    LET expected == SchemaFor(layout.format).tables
    IN  {j \in DOMAIN expected : /\ layout.tables[i].key # NoKey
                                 /\ expected[j].key = layout.tables[i].key
                                 /\ SameShape(layout.tables[i], expected[j])}

ProjectKeyed(layout) ==
    LET expected == SchemaFor(layout.format).tables
        known == {i \in DOMAIN layout.tables : Candidates(layout, i) # {}}
        ambiguous == \E i \in known : Cardinality(Candidates(layout, i)) > 1
        place == [i \in known |-> expected[CHOOSE j \in Candidates(layout, i) : TRUE].name]
    IN  IF ~HasSchema(layout.format) THEN [error |-> "unsupported_format"]
        ELSE IF ambiguous \/ known = {} THEN [error |-> "schema_mismatch"]
        ELSE [error |-> "none", names |-> place]

---------------------------------------------------------------------------
(* What a program that writes such a database does: the reference.        *)

SizeOf(t) == HeaderSize(t.descriptors) + t.rows * RecordSize(t.tuple) + FooterSize[t.footer]

Tables == [tuple : Nat, descriptors : Seq(0 .. 255), rows : Nat, key : Nat \cup {NoKey},
           footer : Footers]

\* A written table as the reader finds it when no row holds the end pattern:
\* its own footer, whatever else its last bytes look like.
Written(t, section) ==
    /\ section.size = SizeOf(t)
    /\ section.tuple = t.tuple
    /\ section.descriptors = t.descriptors
    /\ t.footer \in section.tails
    /\ KeyOf(section, t.footer) = t.key

\* A payload whose tables are those of its schema, and that no row cuts, or
\* that rows cut into more sections than it has tables.
AsWritten(payload) ==
    LET n == Len(payload.tables)
        uncut == /\ Len(payload.sections) = n - 1
                 /\ \A i \in 1 .. n - 1 : /\ payload.tables[i].footer # "final"
                                         /\ Written(payload.tables[i], payload.sections[i])
                 /\ payload.tables[n].footer = "final"
                 /\ Written(payload.tables[n], payload.trailing)
    IN  /\ n > 0
        /\ HasSchema(payload.format) => n = Len(SchemaFor(payload.format).tables)
        /\ uncut \/ Len(payload.sections) >= n
=============================================================================
