----------------------------- MODULE Codebooks -----------------------------
(***************************************************************************)
(* The vocabulary that the decoder and the encoder share: codebook         *)
(* entries, the two codebooks of a strip, the codebook chunks that change  *)
(* them and the macroblock descriptors that read them.                     *)
(*                                                                         *)
(* An entry of the code holds four Y samples and one (U, V) pair.  Here    *)
(* `y' stands for the four samples together and `c' for the pair.  A       *)
(* Gray8 entry has no pair on the wire and is stored with U = V = 0.       *)
(***************************************************************************)
EXTENDS Naturals

CONSTANTS
    NumSlots,   \* slots of one codebook, 256 in the code
    Entry,      \* the values of an entry, records [y, c]
    Quads,      \* the 2x2 quadrants of a 4x4 macroblock, four in the code
    None        \* the absent value of an Option

Modes == {"Yuv12", "Gray8"}

Slots == 0 .. NumSlots - 1

Book == [Slots -> Entry]

ZeroEntry == [y |-> 0, c |-> 0]

\* Entries are closed under the loss of chroma, and the zero entry is one.
ASSUME CodebooksAssumption ==
    /\ NumSlots \in Nat \ {0}
    /\ Entry \subseteq [y : Nat, c : Nat]
    /\ ZeroEntry \in Entry
    /\ \A e \in Entry : [e EXCEPT !.c = 0] \in Entry
    /\ None \notin Modes \cup Book

\* The two codebook flavours of a strip.
Flavours == {"V4", "V1"}

Styles == {"Full", "Selective"}

ZeroBook == [s \in Slots |-> ZeroEntry]

\* What one entry of a chunk of the given mode can decode to.
EntriesOf(m) == {e \in Entry : m = "Gray8" => e.c = 0}

\* The slots a chunk may address: a full chunk a prefix of the book (an empty
\* one is the header-only chunk), a selective chunk any slots.
SlotSetsOf(style) ==
    IF style = "Full" THEN {0 .. n - 1 : n \in 0 .. NumSlots} ELSE SUBSET Slots

\* The well-formed codebook chunks; a payload maps the slots it carries to the
\* entries it carries for them.
PayloadsOf(st, m) == UNION {[S -> EntriesOf(m)] : S \in SlotSetsOf(st)}

ChunksOf(st, m) ==
    [flavour : Flavours, style : {st}, mode : {m}, payload : PayloadsOf(st, m)]

Chunk == UNION {ChunksOf(st, "Yuv12") \cup ChunksOf(st, "Gray8") : st \in Styles}

\* The entries a chunk carries replace those of its slots, and the rest of the
\* book stays as it was: true of both update styles.
Overwrite(b, payload) ==
    [s \in Slots |-> IF s \in DOMAIN payload THEN payload[s] ELSE b[s]]

ApplyChunk(books, k) ==
    [books EXCEPT ![k.flavour] = Overwrite(@, k.payload)]

\* A macroblock descriptor.  A V1 block reads one V1 entry for the whole block,
\* a V4 block one V4 entry for each quadrant, a Skip block reads no codebook.
V1Mb == [kind : {"V1"}, idx : {[q \in Quads |-> s] : s \in Slots}]

V4Mb == [kind : {"V4"}, idx : [Quads -> Slots]]

SkipMb == [kind |-> "Skip", idx |-> [q \in Quads |-> 0]]

Mb == V1Mb \cup V4Mb \cup {SkipMb}

\* The vector chunks: 0x3200, 0x3000 and 0x3100.
VectorIds == {"V1Only", "MixedIntra", "Inter"}

\* The blocks that the vector chunk of the given id can carry.
MbsOf(id) ==
    CASE id = "V1Only"     -> V1Mb
      [] id = "MixedIntra" -> V1Mb \cup V4Mb
      [] id = "Inter"      -> Mb

\* The pixels of a decoded block: a Gray8 picture keeps no chroma.
Pixel(m, e) == IF m = "Gray8" THEN [e EXCEPT !.c = 0] ELSE e

Black == [q \in Quads |-> ZeroEntry]

Paint(m, books, mb) == [q \in Quads |-> Pixel(m, books[mb.kind][mb.idx[q]])]

=============================================================================
