--------------------------- MODULE CinepakDecoder ---------------------------
(***************************************************************************)
(* The stateful frame decoder.  One call of decode_frame is a sequence of  *)
(* steps: BeginFrame, then for every strip BeginStrip, the chunks of its   *)
(* payload in wire order and EndStrip, then EndFrame.  The bytes are the   *)
(* environment's: each step chooses the next header or chunk.  Every       *)
(* error return of the code is a step that ends the call with "err".       *)
(*                                                                         *)
(* Coordinates are in macroblocks (4 pixels).  Frame and strip sizes that  *)
(* are no multiples of 4 are among the malformed inputs; strips whose      *)
(* origin is not one are accepted by the code and left out here.           *)
(***************************************************************************)
EXTENDS Codebooks

CONSTANTS
    Dims,       \* the (width, height) pairs a frame header may carry
    MaxStrips,  \* the most strips a frame header may announce
    Coords      \* the values a coordinate of a strip header may take

Cells(w, h) == (0 .. w - 1) \X (0 .. h - 1)

Picture(w, h) == [Cells(w, h) -> [Quads -> Entry]]

\* A CinepakFrame, without its time stamp and stride.
FramesOf(d) == [w : {d[1]}, h : {d[2]}, fmt : Modes, px : Picture(d[1], d[2])]

Frame == UNION {FramesOf(d) : d \in Dims}

ASSUME DecoderAssumption ==
    /\ Dims \subseteq (Nat \ {0}) \X (Nat \ {0})
    /\ MaxStrips \in Nat \ {0}
    /\ Coords \subseteq Nat
    /\ None \notin Frame

VARIABLES
    prevBooks,  \* self.prev_v4 and self.prev_v1, by flavour
    prevFrame,  \* self.prev_frame
    pc,         \* where the running call is: "idle", "frame" or "strip"
    outcome,    \* what the last call that ended returned
    hdr,        \* the frame header: width, height and number of strips
    index,      \* strip_index
    yBottom,    \* prev_y_bottom
    books,      \* v4_state and v1_state
    frameMode,  \* frame_mode
    bufferMode, \* buffer_mode
    out,        \* out_pixels
    strip,      \* the strip being decoded: intra or not, and its rectangle
    mode,       \* the pixel mode pinned by the chunks of this strip
    mbs,        \* the decoded vector chunk of this strip
    covered     \* history: the cells that the strips of this call rendered

selfVars  == <<prevBooks, prevFrame>>
frameVars == <<hdr, index, yBottom, books, frameMode, bufferMode, out, covered>>
stripVars == <<strip, mode, mbs>>
vars      == <<selfVars, frameVars, stripVars, pc, outcome>>

Blank(w, h) == [c \in Cells(w, h) |-> Black]

NoBooks == [f \in Flavours |-> None]

NoHdr == [w |-> 0, h |-> 0, strips |-> 0]

NoStrip == [intra |-> FALSE, x0 |-> 0, x1 |-> 0, y0 |-> 0, y1 |-> 0]

\* The locals of a call that is not running.
ClearFrame ==
    /\ hdr' = NoHdr
    /\ index' = 0
    /\ yBottom' = 0
    /\ books' = [f \in Flavours |-> ZeroBook]
    /\ frameMode' = None
    /\ bufferMode' = None
    /\ out' = Blank(0, 0)
    /\ covered' = {}

ClearStrip ==
    /\ strip' = NoStrip
    /\ mode' = None
    /\ mbs' = None

Init ==
    /\ prevBooks = NoBooks
    /\ prevFrame = None
    /\ pc = "idle"
    /\ outcome = "none"
    /\ hdr = NoHdr
    /\ index = 0
    /\ yBottom = 0
    /\ books = [f \in Flavours |-> ZeroBook]
    /\ frameMode = None
    /\ bufferMode = None
    /\ out = Blank(0, 0)
    /\ covered = {}
    /\ strip = NoStrip
    /\ mode = None
    /\ mbs = None

\* Mutant of Fail: the codebooks go back into `self' on an error too.
FailKeepingBooks ==
    /\ pc' = "idle"
    /\ outcome' = "err"
    /\ ClearFrame
    /\ ClearStrip
    /\ prevBooks' = books
    /\ UNCHANGED prevFrame

\* An error return.  The locals are dropped; the codebooks were taken out of
\* `self' when the call began, so they are dropped with them.
Fail ==
    /\ pc' = "idle"
    /\ outcome' = "err"
    /\ ClearFrame
    /\ ClearStrip
    /\ UNCHANGED selfVars

-----------------------------------------------------------------------------

\* reset(): only between calls.
Reset ==
    /\ pc = "idle"
    /\ prevBooks' = NoBooks
    /\ prevFrame' = None
    /\ outcome' = "none"
    /\ UNCHANGED <<pc, frameVars, stripVars>>

\* FrameHeader::parse or the frame_length check refuses the input.
RefuseFrame ==
    /\ pc = "idle"
    /\ outcome' = "err"
    /\ UNCHANGED <<selfVars, frameVars, stripVars, pc>>

\* Mutant of SameSize: only the width is compared.
SameWidth(d) == prevFrame.w = d[1]

SameSize(d) == prevFrame.w = d[1] /\ prevFrame.h = d[2]

\* A previous frame of another size is dropped and the carried codebooks are
\* taken; those that are absent start as the default, all-zero book.
BeginFrameOf(d, n) ==
    /\ pc = "idle"
    /\ hdr' = [w |-> d[1], h |-> d[2], strips |-> n]
    /\ out' = Blank(d[1], d[2])
    /\ prevFrame' = IF prevFrame # None /\ ~SameSize(d) THEN None ELSE prevFrame
    /\ books' = [f \in Flavours |-> IF prevBooks[f] = None THEN ZeroBook ELSE prevBooks[f]]
    /\ prevBooks' = NoBooks
    /\ pc' = "frame"
    /\ outcome' = "none"
    /\ UNCHANGED <<index, yBottom, frameMode, bufferMode, covered, stripVars>>

BeginFrame == \E d \in Dims, n \in 1 .. MaxStrips : BeginFrameOf(d, n)

\* StripHeader::resolve: past the first strip a zero y_top means "below the
\* previous strip", and y_bottom is then a height.
Resolve(yt, yb) ==
    IF index > 0 /\ yt = 0
    THEN [top |-> yBottom, bottom |-> yBottom + yb]
    ELSE [top |-> yt, bottom |-> yb]

FitsFrame(xl, xr, y) ==
    /\ xr <= hdr.w
    /\ y.bottom <= hdr.h
    /\ xl <= xr
    /\ y.top <= y.bottom

\* A strip header: its rectangle is refused or becomes the strip's.
BeginStripOf(intra, xl, xr, yt, yb) ==
    /\ pc = "frame"
    /\ index < hdr.strips
    /\ LET y == Resolve(yt, yb) IN
       \/ /\ FitsFrame(xl, xr, y)
          /\ strip' = [intra |-> intra, x0 |-> xl, x1 |-> xr, y0 |-> y.top, y1 |-> y.bottom]
          /\ pc' = "strip"
          /\ UNCHANGED <<selfVars, frameVars, mode, mbs, outcome>>
       \/ /\ ~FitsFrame(xl, xr, y)
          /\ Fail

BeginStrip ==
    \E intra \in BOOLEAN, xl, xr, yt, yb \in Coords : BeginStripOf(intra, xl, xr, yt, yb)

\* A header or chunk that is truncated, overruns its container, has an unknown
\* id or a size that does not suit its content.
Malformed ==
    /\ \/ pc = "frame" /\ index < hdr.strips
       \/ pc = "strip"
    /\ Fail

\* Mutant of Unifies: a second mode is let through.
UnifiesAlways(pinned, m) == m \in Modes

\* PixelMode::unify with a mode that may not be pinned yet.
Unifies(pinned, m) == pinned \in {None, m}

\* A codebook chunk: refused when it is selective on an intra strip or of a
\* second mode, else applied in place.
CodebookChunkOf(k) ==
    /\ pc = "strip"
    /\ LET legal == /\ ~(strip.intra /\ k.style = "Selective")
                    /\ Unifies(mode, k.mode)
       IN
       \/ /\ legal
          /\ mode' = k.mode
          /\ books' = ApplyChunk(books, k)
          /\ UNCHANGED <<selfVars, hdr, index, yBottom, frameMode, bufferMode, out,
                         covered, strip, mbs, pc, outcome>>
       \/ /\ ~legal
          /\ Fail

CodebookChunk == \E k \in Chunk : CodebookChunkOf(k)

StripCells == (strip.x0 .. strip.x1 - 1) \X (strip.y0 .. strip.y1 - 1)

\* The vector chunk: one in a strip, and 0x3100 on inter strips only.
VectorChunkOf(id, v) ==
    /\ pc = "strip"
    /\ LET legal == mbs = None /\ ~(strip.intra /\ id = "Inter") IN
       \/ /\ legal
          /\ mbs' = v
          /\ UNCHANGED <<selfVars, frameVars, strip, mode, pc, outcome>>
       \/ /\ ~legal
          /\ Fail

VectorChunk == \E id \in VectorIds : \E v \in [StripCells -> MbsOf(id)] : VectorChunkOf(id, v)

\* prev_mode_hint: the mode of this frame's earlier strips, else that of the
\* previous frame.
ModeHint ==
    IF frameMode # None THEN frameMode
    ELSE IF prevFrame # None THEN prevFrame.fmt ELSE None

\* The strip's mode: pinned by its chunks, else hinted, else the default.
StripMode ==
    IF mode # None THEN mode ELSE IF ModeHint # None THEN ModeHint ELSE "Yuv12"

Skips == {c \in StripCells : mbs[c].kind = "Skip"}

\* copy_mb_from_prev: a block of a previous frame of the other format is
\* filled with zeros.
SkipSource(c) == IF prevFrame.fmt = StripMode THEN prevFrame.px[c] ELSE Black

\* Mutant of RenderStrip: what no strip covers keeps the previous picture.
RenderOverPrevious ==
    [c \in Cells(hdr.w, hdr.h) |->
        IF c \in StripCells
        THEN IF c \in Skips THEN SkipSource(c) ELSE Paint(StripMode, books, mbs[c])
        ELSE IF index = 0 /\ prevFrame # None THEN prevFrame.px[c] ELSE out[c]]

RenderStrip ==
    [c \in Cells(hdr.w, hdr.h) |->
        IF c \notin StripCells THEN out[c]
        ELSE IF c \in Skips THEN SkipSource(c)
        ELSE Paint(StripMode, books, mbs[c])]

\* Mutant of CarryBooks: the books are put back at the end of every strip.
CarryBooksEachStrip == prevBooks' = books /\ UNCHANGED prevFrame

\* Within a frame the books move from strip to strip in the locals only.
CarryBooks == UNCHANGED selfVars

\* The payload is consumed: the strip must have carried a vector chunk, its
\* mode must agree with the frame's, and a skip needs a previous frame.
EndStrip ==
    /\ pc = "strip"
    /\ LET legal == /\ mbs # None
                    /\ Unifies(frameMode, StripMode)
                    /\ Skips # {} => prevFrame # None
       IN
       \/ /\ legal
          /\ out' = RenderStrip
          /\ frameMode' = StripMode
          /\ bufferMode' = IF bufferMode = None THEN StripMode ELSE bufferMode
          /\ covered' = covered \cup StripCells
          /\ yBottom' = strip.y1
          /\ index' = index + 1
          /\ pc' = "frame"
          /\ ClearStrip
          /\ CarryBooks
          /\ UNCHANGED <<hdr, books, outcome>>
       \/ /\ ~legal
          /\ Fail

\* The carried state is put back and the frame is returned.
EndFrame ==
    /\ pc = "frame"
    /\ index = hdr.strips
    /\ prevBooks' = books
    /\ prevFrame' = [w |-> hdr.w, h |-> hdr.h, fmt |-> frameMode, px |-> out]
    /\ pc' = "idle"
    /\ outcome' = "ok"
    /\ ClearFrame
    /\ ClearStrip

Next ==
    \/ Reset
    \/ RefuseFrame
    \/ BeginFrame
    \/ BeginStrip
    \/ Malformed
    \/ CodebookChunk
    \/ VectorChunk
    \/ EndStrip
    \/ EndFrame

Spec == Init /\ [][Next]_vars

-----------------------------------------------------------------------------

\* Every variable has its type; the locals have theirs relative to the header
\* of the running call (decoder.rs, struct CinepakDecoder and the locals of
\* decode_frame_inner and decode_strip_chunks).
TypeOK ==
    /\ prevBooks \in [Flavours -> Book \cup {None}]
    /\ prevFrame \in Frame \cup {None}
    /\ pc \in {"idle", "frame", "strip"}
    /\ outcome \in {"none", "ok", "err"}
    /\ hdr \in [w : Nat, h : Nat, strips : 0 .. MaxStrips]
    /\ pc # "idle" => <<hdr.w, hdr.h>> \in Dims
    /\ index \in 0 .. hdr.strips
    /\ yBottom \in Nat
    /\ books \in [Flavours -> Book]
    /\ frameMode \in Modes \cup {None}
    /\ bufferMode \in Modes \cup {None}
    /\ out \in Picture(hdr.w, hdr.h)
    /\ covered \subseteq Cells(hdr.w, hdr.h)
    /\ strip \in [intra : BOOLEAN, x0 : Nat, x1 : Nat, y0 : Nat, y1 : Nat]
    /\ mode \in Modes \cup {None}
    /\ mbs \in [StripCells -> Mb] \cup {None}

\* Whatever coordinates the strip headers carry, absolute or relative, and
\* however the size changes between frames, a strip that is being decoded lies
\* inside the output buffer and, when there is one, inside the previous frame
\* its skips copy from: neither the drawing nor the copying indexes outside its
\* buffer (render_strip, copy_mb_from_prev_rgb, copy_mb_from_prev_gray).
RenderInBounds ==
    pc = "strip" =>
        /\ StripCells \subseteq DOMAIN out
        /\ prevFrame # None => StripCells \subseteq DOMAIN prevFrame.px

\* The decoder carries codebooks only together with the picture of the call
\* that left them: after a call that failed, at whatever chunk, no codebook
\* that the failed call touched is left for the next frame to inherit.
RestingBooksHaveTheirFrame ==
    \A f \in Flavours :
        prevBooks[f] # None =>
            /\ pc = "idle"
            /\ prevFrame # None
            /\ \A g \in Flavours : prevBooks[g] # None

\* All strips of a frame are drawn in one pixel mode, the one the buffer was
\* shaped for, and a gray buffer never receives chroma, even when the books or
\* the previous frame come from colour strips (PixelMode::unify, buffer_mode).
FrameIsUniform ==
    /\ bufferMode = frameMode
    /\ pc # "idle" => (frameMode = None <=> index = 0)
    /\ frameMode = "Gray8" =>
           \A c \in DOMAIN out : \A q \in Quads : out[c][q].c = 0
    /\ (prevFrame # None /\ prevFrame.fmt = "Gray8") =>
           \A c \in DOMAIN prevFrame.px : \A q \in Quads : prevFrame.px[c][q].c = 0

\* What no strip of the frame has rendered is black: a frame whose strips leave
\* gaps never shows the picture of an earlier frame in them.
GapsAreBlack == \A c \in DOMAIN out \ covered : out[c] = Black

\* Codebooks and picture become visible to the next call in one step, that of
\* the successful return, and the picture is the one just rendered: no state is
\* carried out of a call that a later strip or chunk can still make fail.
CommitTogether ==
    [][\A f \in Flavours :
          prevBooks'[f] \notin {prevBooks[f], None} =>
              /\ outcome' = "ok"
              /\ index = hdr.strips
              /\ prevFrame' = [w |-> hdr.w, h |-> hdr.h, fmt |-> bufferMode, px |-> out]]_vars

\* "Previous frame must also be RGB-shaped (mode unification guarantees this)"
\* and "should never happen", say the comments of copy_mb_from_prev_rgb: a
\* strip that skips is of the mode of the previous frame.
SkipSourceHasStripMode ==
    (pc = "strip" /\ mbs # None /\ prevFrame # None /\ Skips # {})
        => prevFrame.fmt = StripMode

=============================================================================
