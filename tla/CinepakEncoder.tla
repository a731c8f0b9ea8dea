--------------------------- MODULE CinepakEncoder ---------------------------
(***************************************************************************)
(* The stateful encoder and the two decoders of what it emits: its own     *)
(* internal one, from which it takes the picture that the next inter frame *)
(* skips against, and the receiver's, which it never sees.  The encoder    *)
(* omits, shortens or sends a codebook chunk by what it believes the       *)
(* decoder holds, the rolling codebooks.                                   *)
(*                                                                         *)
(* One call of encode_intra or encode_inter is a sequence of steps: Begin, *)
(* one EncodeStrip for every strip of the plan, then Deliver, where the    *)
(* frame is assembled, decoded back and returned; the receiver decodes it  *)
(* in the same step.  The strips are decoded as they are encoded, into     *)
(* copies that only Deliver makes current, so that the wire need not be    *)
(* kept.  What the pixels would decide, the trained codebooks and the      *)
(* choice between V1, V4 and Skip, is left open.                           *)
(***************************************************************************)
EXTENDS Codebooks, Integers, FiniteSets, FiniteSetsExt

CONSTANTS
    Kinds,      \* the codebook flavours in use; the code treats both alike
    CallModes,  \* the pixel modes of the calls
    Heights,    \* the heights of the calls, in rows of macroblocks
    Columns,    \* the columns of macroblocks
    Requests    \* the values of opts.strip_count

Blocks(rows) == (0 .. rows - 1) \X Columns

Picture(rows) == [Blocks(rows) -> [Quads -> Entry]]

\* A reconstructed CinepakFrame.
PicturesOf(rows) == [rows : {rows}, fmt : Modes, px : Picture(rows)]

AnyPicture == UNION {PicturesOf(r) : r \in Heights}

\* What is recorded of a codebook: its entries and how many of them count.
Roll == [cb : Book, n : 1 .. NumSlots]

\* The arguments of a call.
Calls == [intra : BOOLEAN, mode : CallModes, rows : Heights,
          n : [Kinds -> 1 .. NumSlots], strips : Requests]

ASSUME EncoderAssumption ==
    /\ Kinds \subseteq Flavours
    /\ CallModes \subseteq Modes
    /\ Heights \subseteq Nat \ {0}
    /\ Requests \subseteq Nat \ {0}
    /\ None \notin AnyPicture
    /\ None \notin Roll \cup Calls

VARIABLES
    rolling,    \* self.rolling: a book and its entry count, by flavour
    prev,       \* self.prev_frame, also the picture the internal decoder holds
    decBooks,   \* the codebooks of the internal decoder
    recv,       \* the receiver's decoder: its codebooks and its picture
    pc,         \* "idle" or "strips"
    call,       \* the arguments of the running call
    index,      \* the strips of the plan that are encoded
    row,        \* y_mb of plan_strips: where the next strip begins
    decNext,    \* the internal decoder's books and output after those strips
    recvNext,   \* the receiver's
    want,       \* history: what the encoder meant its strips to show
    intact      \* history: no call has failed since the last keyframe

wireVars == <<index, row, decNext, recvNext, want>>
vars == <<rolling, prev, decBooks, recv, pc, call, wireVars, intact>>

Books == [Kinds -> Book]

Blank(rows) == [b \in Blocks(rows) |-> Black]

ZeroBooks == [f \in Kinds |-> ZeroBook]

NoDecode == [books |-> ZeroBooks, px |-> Blank(0)]

ClearWire ==
    /\ index' = 0
    /\ row' = 0
    /\ decNext' = NoDecode
    /\ recvNext' = NoDecode
    /\ want' = Blank(0)

\* A receiver may have decoded anything before it tunes in at a keyframe.
Init ==
    /\ rolling = [f \in Kinds |-> None]
    /\ prev = None
    /\ decBooks = ZeroBooks
    /\ recv \in [books : Books, pic : {None}]
    /\ pc = "idle"
    /\ call = None
    /\ index = 0
    /\ row = 0
    /\ decNext = NoDecode
    /\ recvNext = NoDecode
    /\ want = Blank(0)
    /\ intact = TRUE

-----------------------------------------------------------------------------
\* The strip plan.

StripCount == IF call.strips > call.rows THEN call.rows ELSE call.strips

\* plan_strips: the first rows % n strips are a row higher than the others.
StripHeight ==
    call.rows \div StripCount + (IF index < call.rows % StripCount THEN 1 ELSE 0)

StripBlocks == (row .. row + StripHeight - 1) \X Columns

-----------------------------------------------------------------------------
\* The codebook chunk of one flavour.

EntrySize == IF call.mode = "Yuv12" THEN 6 ELSE 4

ChunkHeaderSize == 4

FullSize(n) == ChunkHeaderSize + n * EntrySize

\* A flag word for each group of 32 slots up to the last one listed.
SelectiveSize(need) ==
    ChunkHeaderSize + 4 * (Max(need) \div 32 + 1) + Cardinality(need) * EntrySize

Payload(cb, S) == [s \in S |-> cb[s]]

\* The slots that the macroblocks of the strip refer to.
UsedSlots(f, mbs) ==
    {s \in Slots : \E b \in StripBlocks : mbs[b].kind = f /\ \E q \in Quads : mbs[b].idx[q] = s}

\* Mutant of PrevMatches: the entry count is not compared.
PrevMatchesAnyCount(f) == rolling[f] # None

\* prev_matches: the decoder's book is known at this entry count.
PrevMatches(f) == rolling[f] # None /\ rolling[f].n = call.n[f]

\* need_update: the referenced slots that the decoder does not hold as trained.
NeedUpdate(f, cb, used) ==
    {s \in used \cap (0 .. call.n[f] - 1) : PrevMatches(f) => rolling[f].cb[s] # cb[s]}

\* Mutant of Full: the chunk ends at the last referenced slot.
FullUpToLastUsed(f, cb, used) ==
    [payload |-> Payload(cb, {s \in 0 .. call.n[f] - 1 : \E u \in used : s <= u}),
     roll |-> [cb |-> cb, n |-> call.n[f]]]

Full(f, cb, used) ==
    [payload |-> Payload(cb, 0 .. call.n[f] - 1),
     roll |-> [cb |-> cb, n |-> call.n[f]]]

\* Mutant of Inherit: the trained book is recorded though it is not sent.
InheritTrained(f, cb) ==
    [payload |-> Payload(cb, {}), roll |-> [cb |-> cb, n |-> call.n[f]]]

\* No chunk, or with vintage_compat one that is only a header: both leave the
\* decoder's book alone, so it is the old book that is recorded.
Inherit(f, cb) ==
    [payload |-> Payload(cb, {}), roll |-> rolling[f]]

Selective(f, cb, need) ==
    [payload |-> Payload(cb, need),
     roll |-> [cb |-> Overwrite(rolling[f].cb, Payload(cb, need)), n |-> call.n[f]]]

\* emit_codebook_chunk_one; `force' when a stale slot was reclaimed.
EmitInter(f, cb, used, force) ==
    LET need == NeedUpdate(f, cb, used) IN
    IF force THEN Full(f, cb, used)
    ELSE IF PrevMatches(f) /\ need = {} THEN Inherit(f, cb)
    ELSE IF PrevMatches(f) /\ SelectiveSize(need) < FullSize(call.n[f])
         THEN Selective(f, cb, need)
    ELSE Full(f, cb, used)

Emit(f, cb, used, force) ==
    IF call.intra THEN Full(f, cb, used) ELSE EmitInter(f, cb, used, force)

-----------------------------------------------------------------------------
\* Decoding of a strip, by either decoder: the state `d' of the frame so far,
\* the chunks and macroblocks of the strip, and the picture that skips copy.
DecodeStrip(d, sent, mbs, pic) ==
    LET books == [f \in Kinds |-> Overwrite(d.books[f], sent[f].payload)] IN
    [books |-> books,
     px |-> [b \in DOMAIN d.px |->
                IF b \notin StripBlocks THEN d.px[b]
                ELSE IF mbs[b].kind = "Skip" THEN pic.px[b]
                ELSE Paint(call.mode, books, mbs[b])]]

-----------------------------------------------------------------------------

\* The start of a call: a frame of no strips on the given codebooks.
StartFrame(c, dbooks) ==
    /\ pc' = "strips"
    /\ call' = c
    /\ index' = 0
    /\ row' = 0
    /\ decNext' = [books |-> dbooks, px |-> Blank(c.rows)]
    /\ recvNext' = [books |-> recv.books, px |-> Blank(c.rows)]
    /\ want' = Blank(c.rows)
    /\ UNCHANGED <<prev, decBooks, recv, intact>>

\* encode_intra and encode_intra_gray8 forget the rolling books; the internal
\* decoder will be reset before it decodes the frame, the receiver's is not.
BeginIntra ==
    /\ pc = "idle"
    /\ \E c \in Calls : c.intra /\ StartFrame(c, ZeroBooks)
    /\ rolling' = [f \in Kinds |-> None]

\* encode_inter and encode_inter_gray8: refused without a previous frame of
\* the same size and, for Gray8, of the same format.  A colour call after a
\* gray frame is not refused but indexes the gray picture by three bytes a
\* pixel and panics; it is left out.
BeginInter ==
    /\ pc = "idle"
    /\ prev # None
    /\ \E c \in Calls :
         /\ ~c.intra
         /\ c.rows = prev.rows
         /\ c.mode = prev.fmt
         /\ StartFrame(c, decBooks)
    /\ UNCHANGED rolling

\* The macroblocks of a strip: indices below the entry count, skips only in
\* inter frames.
MbOfCall(mb) ==
    \/ mb.kind = "Skip" /\ ~call.intra
    \/ mb.kind \in Kinds /\ \A q \in Quads : mb.idx[q] < call.n[mb.kind]

StripMbs == [StripBlocks -> {mb \in Mb : MbOfCall(mb)}]

\* The books that a strip may be trained to: gray samples have no chroma.
TrainedBooks == [Kinds -> [Slots -> EntriesOf(call.mode)]]

\* The flavours in which a stale slot may have been reclaimed: the seed is the
\* rolling book at the same entry count.
Reclaimable == IF call.intra THEN {} ELSE {f \in Kinds : PrevMatches(f)}

\* The chunks of a strip with trained books `cb', and the records of them.
Sent(cb, mbs, reclaimed) ==
    [f \in Kinds |-> Emit(f, cb[f], UsedSlots(f, mbs), f \in reclaimed)]

\* The picture that the decisions for a strip mean.
Meant(cb, mbs) ==
    [b \in DOMAIN want |->
        IF b \notin StripBlocks THEN want[b]
        ELSE IF mbs[b].kind = "Skip" THEN prev.px[b]
        ELSE Paint(call.mode, cb, mbs[b])]

\* Training and classification are left open: any books, any macroblocks.
EncodeStrip ==
    /\ pc = "strips"
    /\ index < StripCount
    /\ \E cb \in TrainedBooks, mbs \in StripMbs, reclaimed \in SUBSET Reclaimable :
         LET sent == Sent(cb, mbs, reclaimed) IN
         /\ rolling' = [f \in Kinds |-> sent[f].roll]
         /\ decNext' = DecodeStrip(decNext, sent, mbs, prev)
         /\ recvNext' = DecodeStrip(recvNext, sent, mbs, recv.pic)
         /\ want' = Meant(cb, mbs)
    /\ index' = index + 1
    /\ row' = row + StripHeight
    /\ UNCHANGED <<prev, decBooks, recv, pc, call, intact>>

\* The call ends in an error: nothing is returned and nothing decoded, but the
\* rolling books stay as the strips left them.
Abandon ==
    /\ pc' = "idle"
    /\ call' = None
    /\ ClearWire
    /\ intact' = FALSE
    /\ UNCHANGED <<prev, decBooks, recv>>

\* finalise_strip finds the strip longer than 65535 bytes, after the rolling
\* books were set from it.
StripTooBig ==
    /\ pc = "strips"
    /\ index < StripCount
    /\ \E cb \in TrainedBooks, mbs \in StripMbs, reclaimed \in SUBSET Reclaimable :
         rolling' = [f \in Kinds |-> Sent(cb, mbs, reclaimed)[f].roll]
    /\ Abandon

\* assemble_frame finds the frame longer than 24 bits can say.
FrameTooBig ==
    /\ pc = "strips"
    /\ index = StripCount
    /\ UNCHANGED rolling
    /\ Abandon

\* The frame is assembled, decoded back and returned to the caller, and the
\* receiver decodes it.
Deliver ==
    /\ pc = "strips"
    /\ index = StripCount
    /\ prev' = [rows |-> call.rows, fmt |-> call.mode, px |-> decNext.px]
    /\ decBooks' = decNext.books
    /\ recv' = [books |-> recvNext.books,
                pic |-> [rows |-> call.rows, fmt |-> call.mode, px |-> recvNext.px]]
    /\ pc' = "idle"
    /\ call' = None
    /\ ClearWire
    /\ intact' = (intact \/ call.intra)
    /\ UNCHANGED rolling

\* reset(): the encoder and its decoder as new; the receiver knows nothing of it.
Reset ==
    /\ pc = "idle"
    /\ rolling' = [f \in Kinds |-> None]
    /\ prev' = None
    /\ decBooks' = ZeroBooks
    /\ intact' = TRUE
    /\ UNCHANGED <<recv, pc, call, wireVars>>

Next ==
    \/ BeginIntra
    \/ BeginInter
    \/ EncodeStrip
    \/ StripTooBig
    \/ FrameTooBig
    \/ Deliver
    \/ Reset

Spec == Init /\ [][Next]_vars

-----------------------------------------------------------------------------

\* A frame in the making: a decoder's books and its output buffer.
Decodes(rows) == [books : Books, px : Picture(rows)]

\* Every variable has its type, and the strip cursor stays within the plan of
\* at most one strip for each row (struct CinepakEncoder, plan_strips).
TypeOK ==
    /\ rolling \in [Kinds -> Roll \cup {None}]
    /\ prev \in AnyPicture \cup {None}
    /\ decBooks \in Books
    /\ recv \in [books : Books, pic : AnyPicture \cup {None}]
    /\ pc \in {"idle", "strips"}
    /\ call \in Calls \cup {None}
    /\ pc = "strips" <=> call # None
    /\ row \in Nat
    /\ LET rows == IF call = None THEN 0 ELSE call.rows IN
         /\ index \in 0 .. rows
         /\ decNext \in Decodes(rows)
         /\ recvNext \in Decodes(rows)
         /\ want \in Picture(rows)
    /\ intact \in BOOLEAN

\* The encoder can rely on its state: no call failed since the last keyframe,
\* or the running call is a keyframe.
Sound == intact \/ (pc = "strips" /\ call.intra)

\* The books that the two decoders hold where the encoder now is.
DecNow == IF pc = "strips" THEN decNext.books ELSE decBooks

RecvNow == IF pc = "strips" THEN recvNext.books ELSE recv.books

\* What the encoder records of a codebook is what both decoders hold, in every
\* slot it may refer to: across full, selective, header-only and omitted
\* chunks, changes of the entry count, reclaimed slots, keyframes that reset
\* the internal decoder only, and receivers that tune in at a keyframe
\* (emit_codebook_chunk_one and its roll.set).
RollingMatchesDecoders ==
    Sound => \A f \in Kinds :
        rolling[f] # None =>
            \A s \in 0 .. rolling[f].n - 1 :
                /\ rolling[f].cb[s] = DecNow[f][s]
                /\ rolling[f].cb[s] = RecvNow[f][s]

\* The picture an inter frame skips against is the one the receiver shows
\* (self.prev_frame and the receiver's previous frame).
SkipsAgainstShownPicture == (intact /\ prev # None) => recv.pic = prev

\* Every strip decodes, at the receiver, to the picture the encoder's decisions
\* meant: the trained entry of every coded macroblock and the previous picture
\* of every skipped one, whatever part of the codebooks was left out of the
\* chunks (encode_inter_strip_with_stats, encode_intra_strip).
ShowsWhatWasMeant ==
    (pc = "strips" /\ Sound) => (recvNext.px = want /\ decNext.px = want)

\* The strips of a plan tile the frame: each one begins inside it, none is
\* empty, so that no y_top past the first is the zero that the decoder takes
\* for "below the previous strip", and the last one ends at the bottom.
StripsTileTheFrame ==
    pc = "strips" =>
        /\ index < StripCount => (row + StripHeight <= call.rows /\ StripHeight > 0)
        /\ index > 0 => row > 0
        /\ index = StripCount => row = call.rows

\* "Tracks the V4 and V1 codebook the decoder will hold at the start of the
\* next strip" (RollingCodebooks), with nothing said of calls that fail: what
\* the next strip is coded against is what the receiver holds.
RollingTracksReceiver ==
    pc = "strips" => \A f \in Kinds :
        rolling[f] # None =>
            \A s \in 0 .. rolling[f].n - 1 : rolling[f].cb[s] = RecvNow[f][s]

=============================================================================
