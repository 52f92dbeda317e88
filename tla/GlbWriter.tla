------------------------------ MODULE GlbWriter ------------------------------
(* write_glb of the glTF adapter: the batches of a stream are read to their end,  *)
(* every mesh and curve is copied into one buffer, a slice of positions and one   *)
(* of indices each, and only then the file is written, a header and two chunks.   *)
(* Sizes are in bytes; the text of the file has a size that is not predicted.     *)
EXTENDS Integers, Sequences

CONSTANTS
    Streams,      \* what a reader may deliver
    JsonSizes,    \* how long the text may be
    SizeLimit     \* the largest size the format can state

Kinds == {"mesh", "curve", "other", "error"}

\* A mesh has points and indices, a curve points, some of them distinct from the
\* one before; it is sound when its numbers are; a thick curve is drawn as a tube.
Items == [kind : Kinds, points : Nat, distinct : Nat, indices : Nat, thick : BOOLEAN,
          sound : BOOLEAN]

ASSUME GlbAssumption ==
    SizeLimit \in Nat /\ JsonSizes \subseteq Nat /\ Streams \subseteq Seq(Items)

VARIABLES
    stream,      \* the items to come, and those that came
    taken,       \* how many came
    primitives,  \* what was copied: item, positions and indices as <<offset, size>>
    binary,      \* the size of the buffer
    json,        \* the size of the text
    chunks,      \* how many parts of the file are out
    written,     \* how many bytes
    report       \* "idle", "reading", "writing", "failed" or "written"

glbVars == <<stream, taken, primitives, binary, json, chunks, written, report>>

Aligned(n) == n + ((4 - (n % 4)) % 4)

Facets == 8
Drawn(item) == item.kind \in {"mesh", "curve"}

\* The vertices and the indices of an item as it is drawn.
Vertices(item) ==
    IF item.kind = "curve" /\ item.thick THEN Facets * item.distinct + 2 ELSE item.points
Indices(item) ==
    IF item.kind = "mesh" THEN item.indices
    ELSE IF item.thick THEN 6 * Facets * item.distinct ELSE 2 * (item.points - 1)

CannotBeCopied(item) ==
    \/ ~item.sound
    \/ /\ item.kind = "mesh"
       /\ item.points = 0 \/ item.indices = 0
          \/ item.points > SizeLimit \/ item.indices > SizeLimit
    \/ /\ item.kind = "curve"
       /\ \/ item.points < 2
          \/ item.thick /\ (6 * Facets * item.points > SizeLimit \/ item.distinct < 2)
          \/ ~item.thick /\ 2 * (item.points - 1) > SizeLimit

\* Three bytes are kept in hand for the alignment.
HasRoom(item) == 4 * Indices(item) + 3 <= SizeLimit - binary - 12 * Vertices(item)

IndicesAtPositions(item, base) == Aligned(base)   \* wrong: taken before the positions are in
IndicesAt(item, base) == Aligned(Aligned(base) + 12 * Vertices(item))
Packed(k, base) ==
    [item |-> k,
     positions |-> <<Aligned(base), 12 * Vertices(stream[k])>>,
     indices |-> <<IndicesAt(stream[k], base), 4 * Indices(stream[k])>>]

FileSize == 12 + 8 + json + 8 + binary

GlbInit ==
    /\ stream \in Streams
    /\ taken = 0 /\ primitives = <<>> /\ binary = 0 /\ json = 0
    /\ chunks = 0 /\ written = 0
    /\ report = "reading"

Reading == report = "reading" /\ taken < Len(stream)
GiveUp ==
    /\ report' = "failed"
    /\ UNCHANGED <<stream, taken, primitives, binary, json, chunks, written>>

Copy ==
    /\ Reading
    /\ Drawn(stream[taken + 1]) /\ ~CannotBeCopied(stream[taken + 1]) /\ HasRoom(stream[taken + 1])
    /\ taken' = taken + 1
    /\ primitives' = Append(primitives, Packed(taken + 1, binary))
    /\ binary' = IndicesAt(stream[taken + 1], binary) + 4 * Indices(stream[taken + 1])
    /\ UNCHANGED <<stream, json, chunks, written, report>>

\* The first item that cannot be copied ends it, as an error of the reader does.
Stop ==
    /\ Reading
    /\ \/ stream[taken + 1].kind = "error"
       \/ Drawn(stream[taken + 1])
          /\ (CannotBeCopied(stream[taken + 1]) \/ ~HasRoom(stream[taken + 1]))
    /\ GiveUp

\* Definitions, diagnostics and the other kinds are passed over.
PassOver ==
    /\ Reading /\ stream[taken + 1].kind = "other"
    /\ taken' = taken + 1
    /\ UNCHANGED <<stream, primitives, binary, json, chunks, written, report>>

StartFile ==
    /\ report = "reading" /\ taken = Len(stream)
    /\ \E size \in JsonSizes : json' = Aligned(size)
    /\ binary' = Aligned(binary)
    /\ report' = IF 12 + 8 + json' + 8 + binary' > SizeLimit THEN "failed" ELSE "writing"
    /\ UNCHANGED <<stream, taken, primitives, chunks, written>>

ChunkSize(k) == CASE k = 1 -> 12 [] k = 2 -> 8 + json [] k = 3 -> 8 + binary

WriteChunk ==
    /\ report = "writing" /\ chunks < 3
    /\ chunks' = chunks + 1
    /\ written' = written + ChunkSize(chunks + 1)
    /\ UNCHANGED <<stream, taken, primitives, binary, json, report>>

WriteFails == report = "writing" /\ GiveUp

FileDone ==
    /\ report = "writing" /\ chunks = 3
    /\ report' = "written"
    /\ UNCHANGED <<stream, taken, primitives, binary, json, chunks, written>>

GlbNext == Copy \/ Stop \/ PassOver \/ StartFile \/ WriteChunk \/ WriteFails \/ FileDone

GlbSpec == GlbInit /\ [][GlbNext]_glbVars
-----------------------------------------------------------------------------
(* Safety. *)

EndOf(slice) == slice[1] + slice[2]

\* Slices start at multiples of four, follow each other and lie in the buffer.
SlicesInOrder ==
    /\ \A k \in DOMAIN primitives :
          LET p == primitives[k] IN
          /\ p.positions[1] % 4 = 0 /\ p.indices[1] % 4 = 0
          /\ EndOf(p.positions) <= p.indices[1] /\ EndOf(p.indices) <= binary
    /\ \A j, k \in DOMAIN primitives :
          j < k => EndOf(primitives[j].indices) <= primitives[k].positions[1]

\* What has been taken and can be drawn is listed once, in its order.
EveryDrawingListed ==
    /\ \A k \in DOMAIN primitives :
          /\ primitives[k].item \in 1 .. taken
          /\ Drawn(stream[primitives[k].item])
          /\ primitives[k].positions[2] = 12 * Vertices(stream[primitives[k].item])
          /\ primitives[k].indices[2] = 4 * Indices(stream[primitives[k].item])
    /\ \A j, k \in DOMAIN primitives : j < k => primitives[j].item < primitives[k].item
    /\ \A i \in 1 .. taken : Drawn(stream[i]) => \E k \in DOMAIN primitives : primitives[k].item = i

\* What a file says of itself and of the stream: every mesh and curve is in it, in
\* the order of the stream, with slices of its own inside the buffer; nothing is
\* written before the whole stream was read and fits the format, and the bytes
\* written are as many as the header announced.
FileHoldsStream ==
    /\ SlicesInOrder
    /\ EveryDrawingListed
    /\ binary <= SizeLimit
    /\ written > 0 => taken = Len(stream) /\ FileSize <= SizeLimit
    /\ report = "written" => written = FileSize
=============================================================================
