-------------------------------- MODULE Wire --------------------------------
(***************************************************************************)
(* The bytes of a frame: its header, the headers of its strips and chunks, *)
(* the payloads of its codebook chunks.  What parses and writes each of    *)
(* them, and the order in which CinepakDecoder::decode_frame reads them    *)
(* all.                                                                    *)
(*                                                                         *)
(* A frame is a sequence of cells, which are numbers: one cell for a field *)
(* of a header or of a codebook entry, and for each bit of a flag word.    *)
(* Sizes count cells, as the fields that declare them do.                  *)
(***************************************************************************)
EXTENDS Integers, Sequences, FiniteSets

CONSTANTS
    GroupSlots,   \* the slots of a flag word: 32
    Slots,        \* the slots of a codebook: 256
    Quantum,      \* dimensions are multiples of it: 4
    MaxDimension  \* probe_cvid believes no more: 4096

ASSUME WireAssumption ==
    /\ GroupSlots \in Nat \ {0}
    /\ Slots \in Nat /\ Slots % GroupSlots = 0
    /\ Quantum \in Nat \ {0}
    /\ MaxDimension \in Nat

FrameHeaderSize == 5
StripHeaderSize == 6
ChunkHeaderSize == 2

\* The cell at an offset.
At(b, o) == b[o + 1]

Modes == {"Yuv12", "Gray8"}

-----------------------------------------------------------------------------
\* Headers.

FrameHeader(b) ==
    [flags |-> At(b, 0), frame_length |-> At(b, 1), width |-> At(b, 2),
     height |-> At(b, 3), strip_count |-> At(b, 4)]

Dimension(n) == n > 0 /\ n % Quantum = 0

FrameHeaderOK(b) ==
    /\ Len(b) >= FrameHeaderSize
    /\ LET h == FrameHeader(b) IN
         /\ h.strip_count > 0
         /\ Dimension(h.width) /\ Dimension(h.height)
         /\ h.frame_length >= FrameHeaderSize

FrameHeaderCells(h) == <<h.flags, h.frame_length, h.width, h.height, h.strip_count>>

Intra == \h1000
Inter == \h1100

RawStripHeader(b, o) ==
    [strip_id |-> At(b, o), strip_size |-> At(b, o + 1), y_top |-> At(b, o + 2),
     x_top |-> At(b, o + 3), y_bottom |-> At(b, o + 4), x_bottom |-> At(b, o + 5)]

RawStripHeaderOK(raw) ==
    /\ raw.strip_id \in {Intra, Inter}
    /\ raw.strip_size >= StripHeaderSize

RawStripHeaderCells(raw) ==
    <<raw.strip_id, raw.strip_size, raw.y_top, raw.x_top, raw.y_bottom, raw.x_bottom>>

\* A later strip whose top is zero continues below the strip before it, and
\* its bottom is its height.
Resolve(raw, isFirst, prevBottom) ==
    IF ~isFirst /\ raw.y_top = 0
    THEN [top |-> prevBottom, bottom |-> prevBottom + raw.y_bottom]
    ELSE [top |-> raw.y_top, bottom |-> raw.y_bottom]

-----------------------------------------------------------------------------
\* Chunk identifiers.

CodebookKind ==
    [which : {"V4", "V1"}, style : {"Full", "Selective"}, mode : Modes]

CodebookId(kind) ==
    \h2000 + (IF kind.mode = "Gray8" THEN \h400 ELSE 0)
           + (IF kind.which = "V1" THEN \h200 ELSE 0)
           + (IF kind.style = "Selective" THEN \h100 ELSE 0)

CodebookIds == {CodebookId(k) : k \in CodebookKind}

CodebookKindOf(id) == CHOOSE k \in CodebookKind : CodebookId(k) = id

InterVectors == \h3100

VectorIds == {\h3000, InterVectors, \h3200}

StripChunkIds == CodebookIds \cup VectorIds

-----------------------------------------------------------------------------
\* Codebook payloads.

EntrySize(mode) == IF mode = "Yuv12" THEN 2 ELSE 1

\* Gray entries have no chroma.
ReadEntry(mode, b, o) == IF mode = "Yuv12" THEN <<At(b, o), At(b, o + 1)>> ELSE <<At(b, o), 0>>

WriteEntry(mode, e) == IF mode = "Yuv12" THEN e ELSE <<e[1]>>

FlagWord(b, o) == SubSeq(b, o + 1, o + GroupSlots)

\* The bits of a flag word that are set, from a given one on; bit 0 is the most
\* significant.
SetBits(flag, from) == {i \in from .. GroupSlots - 1 : flag[i + 1] % 2 = 1}

Least(S) == CHOOSE x \in S : \A y \in S : x <= y

\* A full chunk whose payload is b from offset o up to end.
FullOK(mode, o, end) ==
    /\ (end - o) % EntrySize(mode) = 0
    /\ (end - o) \div EntrySize(mode) <= Slots

Install(kind, slot, entry) ==
    [what |-> "entry", which |-> kind.which, slot |-> slot, entry |-> entry]

ApplyFull(kind, b, o, end) ==
    IF ~FullOK(kind.mode, o, end) THEN [writes |-> <<>>, ok |-> FALSE]
    ELSE [ok |-> TRUE,
          writes |-> [i \in 1 .. (end - o) \div EntrySize(kind.mode) |->
                Install(kind, i - 1,
                        ReadEntry(kind.mode, b, o + (i - 1) * EntrySize(kind.mode)))]]

\* The entries of a group, one after the other, up to the one that is cut.
RECURSIVE ApplyGroup(_, _, _, _, _, _)
ApplyGroup(kind, b, p, end, base, bits) ==
    IF bits = {} THEN [writes |-> <<>>, ok |-> TRUE, p |-> p]
    ELSE IF end - p < EntrySize(kind.mode) THEN [writes |-> <<>>, ok |-> FALSE, p |-> p]
    ELSE LET bit == Least(bits)
             rest == ApplyGroup(kind, b, p + EntrySize(kind.mode), end, base, bits \ {bit})
         IN  [rest EXCEPT !.writes =
                <<Install(kind, base + bit, ReadEntry(kind.mode, b, p))>> \o @]

RECURSIVE ApplySelective(_, _, _, _, _)
ApplySelective(kind, b, p, end, base) ==
    IF p >= end THEN [writes |-> <<>>, ok |-> TRUE]
    ELSE IF base >= Slots \/ end - p < GroupSlots THEN [writes |-> <<>>, ok |-> FALSE]
    ELSE LET group == ApplyGroup(kind, b, p + GroupSlots, end, base,
                                 SetBits(FlagWord(b, p), 0))
             rest == ApplySelective(kind, b, group.p, end, base + GroupSlots)
         IN  IF ~group.ok THEN [writes |-> group.writes, ok |-> FALSE]
             ELSE [rest EXCEPT !.writes = group.writes \o @]

\* apply_codebook_chunk: what it installs, and whether it returns Ok.
ApplyCodebookChunk(kind, b, o, end) ==
    IF kind.style = "Full" THEN ApplyFull(kind, b, o, end)
    ELSE ApplySelective(kind, b, o, end, 0)

-----------------------------------------------------------------------------
\* What writes chunks.

Chunk(id, payload) == <<id, ChunkHeaderSize + Len(payload)>> \o payload

RECURSIVE Concat(_, _)
\* f[1] \o ... \o f[n]
Concat(f, n) == IF n = 0 THEN <<>> ELSE Concat(f, n - 1) \o f[n]

EncodeFullChunk(kind, book, n) ==
    Chunk(CodebookId(kind), Concat([i \in 1 .. n |-> WriteEntry(kind.mode, book[i - 1])], n))

GroupCells(kind, book, slots, g) ==
    [i \in 1 .. GroupSlots |-> IF g * GroupSlots + i - 1 \in slots THEN 1 ELSE 0]
    \o Concat([i \in 1 .. GroupSlots |->
                 IF g * GroupSlots + i - 1 \in slots
                 THEN WriteEntry(kind.mode, book[g * GroupSlots + i - 1]) ELSE <<>>],
              GroupSlots)

\* Mutant of LastGroup: a group for each that has a slot.
LastGroupCounted(slots) == Cardinality({s \div GroupSlots : s \in slots} \cup {0}) - 1

\* The last group that has a slot; the groups after it are not written.
LastGroup(slots) == CHOOSE g \in {s \div GroupSlots : s \in slots} \cup {0} :
                       \A s \in slots : s \div GroupSlots <= g

EncodeSelectiveChunk(kind, book, slots) ==
    LET n == LastGroup(slots) + 1
    IN  Chunk(CodebookId(kind),
              Concat([g \in 1 .. n |-> GroupCells(kind, book, slots, g - 1)], n))

=============================================================================
