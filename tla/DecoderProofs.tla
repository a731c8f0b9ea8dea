---------------------------- MODULE DecoderProofs -----------------------------
(***************************************************************************)
(* Proofs about the decoder, its type invariant and its safety invariants, *)
(* and about the lint and the decoder side by side, for every size of      *)
(* codebook, frame and strip list.                                         *)
(***************************************************************************)
EXTENDS Lint, TLAPS

\* The default book is a book.
LEMMA ZeroBookType == ZeroBook \in Book
BY CodebooksAssumption DEF ZeroBook, Book

\* A book overwritten in any slots with entries is a book.
LEMMA OverwriteIsTyped ==
    ASSUME NEW b \in Book, NEW payload,
           \A s \in DOMAIN payload : payload[s] \in Entry
    PROVE  Overwrite(b, payload) \in Book
BY DEF Overwrite, Book

\* A chunk applied to a pair of codebooks gives a pair of codebooks.
LEMMA ApplyChunkType ==
    ASSUME NEW bs \in [Flavours -> Book], NEW k \in Chunk
    PROVE  ApplyChunk(bs, k) \in [Flavours -> Book] /\ k.mode \in Modes
<1>1. PICK st \in Styles, m \in Modes :
        k \in ChunksOf(st, m)
  BY DEF Chunk, Modes
<1>2. k.flavour \in Flavours /\ k.mode = m /\ k.payload \in PayloadsOf(st, m)
  BY <1>1 DEF ChunksOf
<1>3. PICK S \in SlotSetsOf(st) : k.payload \in [S -> EntriesOf(m)]
  BY <1>2 DEF PayloadsOf
<1>4. \A s \in DOMAIN k.payload : k.payload[s] \in Entry
  BY <1>3 DEF EntriesOf
<1>5. Overwrite(bs[k.flavour], k.payload) \in Book
  BY <1>2, <1>4, OverwriteIsTyped
<1>6. QED
  BY <1>2, <1>5 DEF ApplyChunk

\* Painting a block in a mode gives a block of entries, without chroma in Gray8.
LEMMA PaintType ==
    ASSUME NEW bs \in [Flavours -> Book], NEW m \in Modes, NEW b \in V1Mb \cup V4Mb
    PROVE  /\ Paint(m, bs, b) \in [Quads -> Entry]
           /\ m = "Gray8" => \A q \in Quads : Paint(m, bs, b)[q].c = 0
<1>1. b.kind \in Flavours /\ \A q \in Quads : b.idx[q] \in Slots
  BY DEF V1Mb, V4Mb, Flavours
<1>2. \A q \in Quads : bs[b.kind][b.idx[q]] \in Entry
  BY <1>1 DEF Book
<1>3. \A e \in Entry : Pixel(m, e) \in Entry /\ (m = "Gray8" => Pixel(m, e).c = 0)
  <2>1. \A e \in Entry : e \in [y : Nat, c : Nat]
    BY CodebooksAssumption
  <2>2. QED
    BY <2>1, CodebooksAssumption DEF Pixel
<1>4. QED
  BY <1>2, <1>3 DEF Paint

\* A black block is a block of entries without chroma.
LEMMA BlackType == Black \in [Quads -> Entry] /\ \A q \in Quads : Black[q].c = 0
BY CodebooksAssumption DEF Black, ZeroEntry

-----------------------------------------------------------------------------

(***************************************************************************)
(* The inductive invariant.  The safety invariants relate the retained     *)
(* state to the locals of the running call, so it also says what those     *)
(* locals are at each stage of the call: cleared at rest, a strip inside   *)
(* the frame while one is decoded, and a previous frame of the size of the *)
(* current one during the whole call.                                      *)
(***************************************************************************)
AtRest ==
    pc = "idle" =>
        /\ hdr = NoHdr
        /\ index = 0
        /\ frameMode = None
        /\ bufferMode = None
        /\ covered = {}

NoOpenStrip ==
    pc # "strip" => strip = NoStrip /\ mode = None /\ mbs = None

InCall ==
    pc # "idle" =>
        /\ prevBooks = NoBooks
        /\ hdr.strips # 0
        /\ prevFrame # None => prevFrame.w = hdr.w /\ prevFrame.h = hdr.h
        /\ index = 0 => covered = {}

StripInside ==
    pc = "strip" => index < hdr.strips /\ strip.x1 <= hdr.w /\ strip.y1 <= hdr.h

DecInv ==
    /\ TypeOK
    /\ AtRest
    /\ NoOpenStrip
    /\ InCall
    /\ StripInside
    /\ RestingBooksHaveTheirFrame
    /\ FrameIsUniform
    /\ GapsAreBlack

\* A frame has the picture of its own size.
LEMMA FrameShape ==
    ASSUME NEW f \in Frame
    PROVE  /\ f.px \in Picture(f.w, f.h)
           /\ f.w \in Nat /\ f.h \in Nat /\ f.fmt \in Modes
           /\ DOMAIN f.px = Cells(f.w, f.h)
<1>1. PICK d \in Dims : f \in FramesOf(d)
  BY DEF Frame
<1>2. d[1] \in Nat /\ d[2] \in Nat
  BY DecoderAssumption
<1>3. QED
  BY <1>1, <1>2 DEF FramesOf, Picture

\* At rest the cells of the locals are none at all.
LEMMA NoCells == Cells(0, 0) = {}
BY DEF Cells

\* The strip that is being decoded lies inside the picture.
LEMMA StripCellsInside ==
    ASSUME TypeOK, StripInside, pc = "strip"
    PROVE  StripCells \subseteq Cells(hdr.w, hdr.h)
<1>1. /\ strip.x0 \in Nat /\ strip.x1 \in Nat /\ strip.y0 \in Nat /\ strip.y1 \in Nat
      /\ hdr.w \in Nat /\ hdr.h \in Nat
  BY DEF TypeOK
<1>2. (strip.x0 .. strip.x1 - 1) \subseteq (0 .. hdr.w - 1)
  BY <1>1 DEF StripInside
<1>3. (strip.y0 .. strip.y1 - 1) \subseteq (0 .. hdr.h - 1)
  BY <1>1 DEF StripInside
<1>4. QED
  BY <1>2, <1>3 DEF StripCells, Cells

\* Every error return leaves a resting decoder.
LEMMA FailPreserves ==
    ASSUME DecInv, pc # "idle", Fail
    PROVE  DecInv'
<1> USE DEF Fail, ClearFrame, ClearStrip, selfVars, NoHdr, NoStrip
<1>1. out' \in Picture(0, 0) /\ DOMAIN out' = {}
  BY NoCells DEF Picture, Blank
<1>2. TypeOK'
  <2>1. books' \in [Flavours -> Book]
    BY ZeroBookType
  <2>2. out' \in Picture(hdr'.w, hdr'.h) /\ covered' \subseteq Cells(hdr'.w, hdr'.h)
    BY <1>1
  <2>3. hdr' \in [w : Nat, h : Nat, strips : 0 .. MaxStrips]
    BY DecoderAssumption
  <2>4. QED
    BY <2>1, <2>2, <2>3 DEF DecInv, TypeOK
<1>3. AtRest' /\ NoOpenStrip' /\ InCall' /\ StripInside'
  BY DEF AtRest, NoOpenStrip, InCall, StripInside
<1>4. RestingBooksHaveTheirFrame'
  BY DEF DecInv, InCall, NoBooks, RestingBooksHaveTheirFrame
<1>5. FrameIsUniform'
  BY <1>1 DEF DecInv, FrameIsUniform, Modes
<1>6. GapsAreBlack'
  BY <1>1 DEF GapsAreBlack
<1>7. QED
  BY <1>2, <1>3, <1>4, <1>5, <1>6 DEF DecInv

\* A call that begins drops a previous frame of another size and takes the
\* codebooks.
LEMMA BeginFramePreserves ==
    ASSUME DecInv, BeginFrame
    PROVE  DecInv'
<1>1. PICK d \in Dims, n \in 1 .. MaxStrips :
        /\ hdr' = [w |-> d[1], h |-> d[2], strips |-> n]
        /\ out' = Blank(d[1], d[2])
        /\ prevFrame' = IF prevFrame # None /\ ~SameSize(d) THEN None ELSE prevFrame
  BY DEF BeginFrame, BeginFrameOf
<1>2. /\ d[1] \in Nat /\ d[2] \in Nat /\ d = <<d[1], d[2]>>
      /\ n \in Nat /\ n # 0 /\ MaxStrips \in Nat
  BY DecoderAssumption
<1>3. /\ pc = "idle" /\ pc' = "frame" /\ prevBooks' = NoBooks /\ outcome' = "none"
      /\ index' = index /\ yBottom' = yBottom /\ covered' = covered
      /\ frameMode' = frameMode /\ bufferMode' = bufferMode
      /\ strip' = strip /\ mode' = mode /\ mbs' = mbs
  BY DEF BeginFrame, BeginFrameOf, stripVars
<1>4. /\ strip = NoStrip /\ mode = None /\ mbs = None
      /\ index = 0 /\ covered = {} /\ frameMode = None /\ bufferMode = None
  BY <1>3 DEF DecInv, AtRest, NoOpenStrip
<1>5. out' \in Picture(d[1], d[2]) /\ \A c \in DOMAIN out' : out'[c] = Black
  BY <1>1, BlackType DEF Blank, Picture
<1>6. prevFrame' \in {None, prevFrame}
  BY <1>1
<1>7. TypeOK'
  <2>1. books' \in [Flavours -> Book]
    BY ZeroBookType DEF DecInv, TypeOK, BeginFrame, BeginFrameOf
  <2>2. prevBooks' \in [Flavours -> Book \cup {None}]
    BY <1>3 DEF NoBooks
  <2>3. hdr' \in [w : Nat, h : Nat, strips : 0 .. MaxStrips] /\ <<hdr'.w, hdr'.h>> \in Dims
    BY <1>1, <1>2
  <2>4. out' \in Picture(hdr'.w, hdr'.h) /\ index' \in 0 .. hdr'.strips
    BY <1>1, <1>2, <1>3, <1>4, <1>5
  <2>5. QED
    BY <2>1, <2>2, <2>3, <2>4, <1>3, <1>4, <1>6 DEF DecInv, TypeOK, NoStrip
<1>8. AtRest' /\ NoOpenStrip' /\ StripInside'
  BY <1>3, <1>4 DEF AtRest, NoOpenStrip, StripInside
<1>9. InCall'
  BY <1>1, <1>2, <1>3, <1>4 DEF InCall, SameSize
<1>10. RestingBooksHaveTheirFrame'
  BY <1>3 DEF RestingBooksHaveTheirFrame, NoBooks
<1>11. FrameIsUniform'
  BY <1>3, <1>4, <1>6, CodebooksAssumption DEF DecInv, FrameIsUniform, Modes
<1>12. GapsAreBlack'
  BY <1>5 DEF GapsAreBlack
<1>13. QED
  BY <1>7, <1>8, <1>9, <1>10, <1>11, <1>12 DEF DecInv

\* A strip header is refused or gives a strip inside the frame.
LEMMA BeginStripPreserves ==
    ASSUME DecInv, BeginStrip
    PROVE  DecInv'
<1>1. pc = "frame" /\ index < hdr.strips
  BY DEF BeginStrip, BeginStripOf
<1>2. CASE Fail
  BY <1>1, <1>2, FailPreserves
<1>3. CASE ~Fail
  <2>1. PICK intra \in BOOLEAN, xl \in Coords, xr \in Coords, yt \in Coords, yb \in Coords :
          /\ FitsFrame(xl, xr, Resolve(yt, yb))
          /\ strip' = [intra |-> intra, x0 |-> xl, x1 |-> xr,
                       y0 |-> Resolve(yt, yb).top, y1 |-> Resolve(yt, yb).bottom]
          /\ pc' = "strip"
          /\ UNCHANGED <<selfVars, frameVars, mode, mbs, outcome>>
    BY <1>3 DEF BeginStrip, BeginStripOf
  <2>2. xl \in Nat /\ xr \in Nat /\ yt \in Nat /\ yb \in Nat /\ yBottom \in Nat
    BY DecoderAssumption DEF DecInv, TypeOK
  <2>3. Resolve(yt, yb).top \in Nat /\ Resolve(yt, yb).bottom \in Nat
    BY <2>2 DEF Resolve
  <2>4. strip' \in [intra : BOOLEAN, x0 : Nat, x1 : Nat, y0 : Nat, y1 : Nat]
    BY <2>1, <2>2, <2>3
  <2>5. strip'.x1 <= hdr'.w /\ strip'.y1 <= hdr'.h
    BY <2>1 DEF FitsFrame, frameVars
  <2>6. mbs' = None /\ mode' = None
    BY <1>1, <2>1 DEF DecInv, NoOpenStrip
  <2>7. TypeOK'
    BY <2>1, <2>4, <2>6, <1>1 DEF DecInv, TypeOK, selfVars, frameVars
  <2>8. AtRest' /\ NoOpenStrip' /\ InCall' /\ StripInside'
    BY <1>1, <2>1, <2>5
    DEF DecInv, AtRest, NoOpenStrip, InCall, StripInside, selfVars, frameVars
  <2>9. RestingBooksHaveTheirFrame' /\ FrameIsUniform' /\ GapsAreBlack'
    <3>1. prevBooks' = NoBooks
      BY <1>1, <2>1 DEF DecInv, InCall, selfVars
    <3>2. RestingBooksHaveTheirFrame'
      BY <3>1 DEF RestingBooksHaveTheirFrame, NoBooks
    <3>3. FrameIsUniform' /\ GapsAreBlack'
      BY <1>1, <2>1 DEF DecInv, FrameIsUniform, GapsAreBlack, selfVars, frameVars
    <3>4. QED
      BY <3>2, <3>3
  <2>10. QED
    BY <2>7, <2>8, <2>9 DEF DecInv
<1>4. QED
  BY <1>2, <1>3

\* A codebook chunk is refused or leaves books of entries.
LEMMA CodebookChunkPreserves ==
    ASSUME DecInv, CodebookChunk
    PROVE  DecInv'
<1>1. pc = "strip"
  BY DEF CodebookChunk, CodebookChunkOf
<1>2. CASE Fail
  BY <1>1, <1>2, FailPreserves
<1>3. CASE ~Fail
  <2>1. PICK k \in Chunk :
          /\ mode' = k.mode
          /\ books' = ApplyChunk(books, k)
          /\ UNCHANGED <<selfVars, hdr, index, yBottom, frameMode, bufferMode, out,
                         covered, strip, mbs, pc, outcome>>
    BY <1>3 DEF CodebookChunk, CodebookChunkOf
  <2>2. books' \in [Flavours -> Book] /\ mode' \in Modes
    BY <2>1, ApplyChunkType DEF DecInv, TypeOK
  <2>3. TypeOK'
    BY <2>1, <2>2 DEF DecInv, TypeOK, selfVars, StripCells
  <2>4. AtRest' /\ NoOpenStrip' /\ InCall' /\ StripInside'
    BY <1>1, <2>1 DEF DecInv, AtRest, NoOpenStrip, InCall, StripInside, selfVars
  <2>5. RestingBooksHaveTheirFrame' /\ FrameIsUniform' /\ GapsAreBlack'
    BY <2>1 DEF DecInv, RestingBooksHaveTheirFrame, FrameIsUniform, GapsAreBlack, selfVars
  <2>6. QED
    BY <2>3, <2>4, <2>5 DEF DecInv
<1>4. QED
  BY <1>2, <1>3

\* A vector chunk is refused or describes the cells of the strip.
LEMMA VectorChunkPreserves ==
    ASSUME DecInv, VectorChunk
    PROVE  DecInv'
<1>1. pc = "strip"
  BY DEF VectorChunk, VectorChunkOf
<1>2. CASE Fail
  BY <1>1, <1>2, FailPreserves
<1>3. CASE ~Fail
  <2>1. PICK id \in VectorIds : \E v \in [StripCells -> MbsOf(id)] : mbs' = v
    BY <1>3 DEF VectorChunk, VectorChunkOf
  <2>2. UNCHANGED <<selfVars, frameVars, strip, mode, pc, outcome>>
    BY <1>3 DEF VectorChunk, VectorChunkOf
  <2>3. mbs' \in [StripCells -> Mb]
    BY <2>1 DEF VectorIds, MbsOf, Mb
  <2>4. StripCells' = StripCells
    BY <2>2 DEF StripCells
  <2>5. TypeOK'
    BY <2>2, <2>3, <2>4 DEF DecInv, TypeOK, selfVars, frameVars
  <2>6. AtRest' /\ NoOpenStrip' /\ InCall' /\ StripInside'
    BY <1>1, <2>2
    DEF DecInv, AtRest, NoOpenStrip, InCall, StripInside, selfVars, frameVars
  <2>7. RestingBooksHaveTheirFrame' /\ FrameIsUniform' /\ GapsAreBlack'
    BY <2>2
    DEF DecInv, RestingBooksHaveTheirFrame, FrameIsUniform, GapsAreBlack, selfVars, frameVars
  <2>8. QED
    BY <2>5, <2>6, <2>7 DEF DecInv
<1>4. QED
  BY <1>2, <1>3

\* What a strip of a legal frame draws: a block of entries in every cell, without
\* chroma when the strip is gray.
LEMMA RenderType ==
    ASSUME DecInv, pc = "strip", mbs # None, StripMode \in Modes,
           Skips # {} => prevFrame # None,
           frameMode \in {None, StripMode}
    PROVE  /\ RenderStrip \in Picture(hdr.w, hdr.h)
           /\ StripMode = "Gray8" =>
                \A c \in Cells(hdr.w, hdr.h) : \A q \in Quads : RenderStrip[c][q].c = 0
<1> DEFINE new(c) == IF c \in Skips THEN SkipSource(c) ELSE Paint(StripMode, books, mbs[c])
<1>1. mbs \in [StripCells -> Mb] /\ books \in [Flavours -> Book] /\ out \in Picture(hdr.w, hdr.h)
  BY DEF DecInv, TypeOK
<1>2. StripCells \subseteq Cells(hdr.w, hdr.h)
  BY StripCellsInside DEF DecInv
<1>3. ASSUME NEW c \in StripCells
      PROVE  /\ new(c) \in [Quads -> Entry]
             /\ StripMode = "Gray8" => \A q \in Quads : new(c)[q].c = 0
  <2>1. CASE c \in Skips
    <3>1. prevFrame \in Frame /\ prevFrame.w = hdr.w /\ prevFrame.h = hdr.h
      BY <2>1 DEF DecInv, TypeOK, InCall
    <3>2. prevFrame.px \in Picture(hdr.w, hdr.h) /\ DOMAIN prevFrame.px = Cells(hdr.w, hdr.h)
      BY <3>1, FrameShape
    <3>3. prevFrame.px[c] \in [Quads -> Entry]
      BY <3>2, <1>2 DEF Picture
    <3>4. prevFrame.fmt = "Gray8" => \A q \in Quads : prevFrame.px[c][q].c = 0
      BY <2>1, <3>2, <1>2 DEF DecInv, FrameIsUniform
    <3>5. QED
      BY <2>1, <3>3, <3>4, BlackType DEF SkipSource
  <2>2. CASE c \notin Skips
    <3>1. mbs[c] \in V1Mb \cup V4Mb
      BY <1>1, <2>2 DEF Skips, Mb, SkipMb
    <3>2. QED
      BY <2>2, <3>1, <1>1, PaintType
  <2>3. QED
    BY <2>1, <2>2
<1>4. \A c \in Cells(hdr.w, hdr.h) : out[c] \in [Quads -> Entry]
  BY <1>1 DEF Picture
<1>5. \A c \in Cells(hdr.w, hdr.h) :
        RenderStrip[c] = IF c \in StripCells THEN new(c) ELSE out[c]
  BY DEF RenderStrip
<1>6. \A c \in Cells(hdr.w, hdr.h) : RenderStrip[c] \in [Quads -> Entry]
  BY <1>3, <1>4, <1>5
<1>7. RenderStrip \in Picture(hdr.w, hdr.h)
  BY <1>6 DEF RenderStrip, Picture
<1>8. ASSUME StripMode = "Gray8", NEW c \in Cells(hdr.w, hdr.h), NEW q \in Quads
      PROVE  RenderStrip[c][q].c = 0
  <2>1. CASE c \in StripCells
    BY <1>3, <1>5, <1>8, <2>1
  <2>2. CASE c \notin StripCells
    <3>1. CASE frameMode = None
      <4>1. index = 0 /\ covered = {}
        BY <3>1 DEF DecInv, FrameIsUniform, InCall
      <4>2. out[c] = Black
        BY <4>1, <1>1 DEF DecInv, GapsAreBlack, Picture
      <4>3. QED
        BY <4>2, <2>2, <1>5, BlackType
    <3>2. CASE frameMode = "Gray8"
      BY <3>2, <2>2, <1>1, <1>5 DEF DecInv, FrameIsUniform, Picture
    <3>3. QED
      BY <3>1, <3>2, <1>8
  <2>3. QED
    BY <2>1, <2>2
<1>9. QED
  BY <1>7, <1>8

\* A strip that ends is refused or drawn in the mode of the frame.
LEMMA EndStripPreserves ==
    ASSUME DecInv, EndStrip
    PROVE  DecInv'
<1>1. pc = "strip"
  BY DEF EndStrip
<1>2. CASE Fail
  BY <1>1, <1>2, FailPreserves
<1>3. CASE ~Fail
  <2>1. /\ mbs # None
        /\ Unifies(frameMode, StripMode)
        /\ Skips # {} => prevFrame # None
        /\ out' = RenderStrip
        /\ frameMode' = StripMode
        /\ bufferMode' = IF bufferMode = None THEN StripMode ELSE bufferMode
        /\ covered' = covered \cup StripCells
        /\ yBottom' = strip.y1
        /\ index' = index + 1
        /\ pc' = "frame"
        /\ ClearStrip
        /\ CarryBooks
        /\ UNCHANGED <<hdr, books, outcome>>
    BY <1>3 DEF EndStrip
  <2>2. StripMode \in Modes
    <3>1. mode \in Modes \cup {None} /\ frameMode \in Modes \cup {None}
      BY DEF DecInv, TypeOK
    <3>2. prevFrame # None => prevFrame.fmt \in Modes
      BY FrameShape DEF DecInv, TypeOK
    <3>3. "Yuv12" \in Modes
      BY DEF Modes
    <3>4. QED
      BY <3>1, <3>2, <3>3 DEF StripMode, ModeHint
  <2>3. StripMode # None
    BY <2>2, CodebooksAssumption
  <2>4. /\ out' \in Picture(hdr.w, hdr.h)
        /\ StripMode = "Gray8" =>
             \A c \in Cells(hdr.w, hdr.h) : \A q \in Quads : out'[c][q].c = 0
    BY <1>1, <2>1, <2>2, RenderType DEF Unifies
  <2>5. DOMAIN out' = Cells(hdr.w, hdr.h)
    BY <2>4 DEF Picture
  <2>6. /\ index \in Nat /\ hdr.strips \in Nat /\ index < hdr.strips
        /\ strip.y1 \in Nat /\ hdr' = hdr /\ DOMAIN out = Cells(hdr.w, hdr.h)
    BY <1>1, <2>1 DEF DecInv, TypeOK, StripInside, Picture
  <2>7. TypeOK'
    <3>1. index' \in 0 .. hdr'.strips /\ yBottom' \in Nat
      BY <2>1, <2>6
    <3>2. covered' \subseteq Cells(hdr'.w, hdr'.h)
      BY <1>1, <2>1, <2>6, StripCellsInside DEF DecInv, TypeOK
    <3>3. frameMode' \in Modes \cup {None} /\ bufferMode' \in Modes \cup {None}
      BY <2>1, <2>2 DEF DecInv, TypeOK
    <3>4. /\ strip' \in [intra : BOOLEAN, x0 : Nat, x1 : Nat, y0 : Nat, y1 : Nat]
          /\ mode' = None /\ mbs' = None
      BY <2>1 DEF ClearStrip, NoStrip
    <3>5. QED
      BY <1>1, <2>1, <2>4, <3>1, <3>2, <3>3, <3>4 DEF DecInv, TypeOK, CarryBooks, selfVars
  <2>8. AtRest' /\ NoOpenStrip' /\ InCall' /\ StripInside'
    BY <1>1, <2>1, <2>6
    DEF DecInv, AtRest, NoOpenStrip, InCall, StripInside, ClearStrip, CarryBooks, selfVars
  <2>9. RestingBooksHaveTheirFrame'
    BY <1>1, <2>1
    DEF DecInv, InCall, RestingBooksHaveTheirFrame, NoBooks, CarryBooks, selfVars
  <2>10. FrameIsUniform'
    <3>1. bufferMode' = frameMode'
      BY <2>1, <2>3 DEF DecInv, FrameIsUniform, Unifies
    <3>2. frameMode' # None /\ index' # 0
      BY <2>1, <2>3, <2>6
    <3>3. prevFrame' = prevFrame
      BY <2>1 DEF CarryBooks, selfVars
    <3>4. QED
      BY <2>1, <2>4, <2>5, <3>1, <3>2, <3>3 DEF DecInv, FrameIsUniform
  <2>11. GapsAreBlack'
    <3>1. \A c \in Cells(hdr.w, hdr.h) \ StripCells : out'[c] = out[c]
      BY <2>1 DEF RenderStrip
    <3>2. QED
      BY <2>1, <2>5, <2>6, <3>1 DEF DecInv, GapsAreBlack
  <2>12. QED
    BY <2>7, <2>8, <2>9, <2>10, <2>11 DEF DecInv
<1>4. QED
  BY <1>2, <1>3

\* The frame that is returned becomes the previous one.
LEMMA EndFramePreserves ==
    ASSUME DecInv, EndFrame
    PROVE  DecInv'
<1> DEFINE f == [w |-> hdr.w, h |-> hdr.h, fmt |-> frameMode, px |-> out]
<1>1. /\ pc = "frame" /\ index = hdr.strips
      /\ prevBooks' = books /\ prevFrame' = f
      /\ pc' = "idle" /\ outcome' = "ok"
      /\ ClearFrame /\ ClearStrip
  BY DEF EndFrame
<1>2. frameMode \in Modes
  BY <1>1 DEF DecInv, TypeOK, InCall, FrameIsUniform
<1>3. f \in Frame
  <2>1. <<hdr.w, hdr.h>> \in Dims /\ out \in Picture(hdr.w, hdr.h)
    BY <1>1 DEF DecInv, TypeOK
  <2>2. f \in FramesOf(<<hdr.w, hdr.h>>)
    BY <2>1, <1>2 DEF FramesOf
  <2>3. QED
    BY <2>1, <2>2 DEF Frame
<1>4. f # None /\ \A g \in Flavours : books[g] # None
  BY <1>3, DecoderAssumption, CodebooksAssumption DEF DecInv, TypeOK
<1>5. out' \in Picture(0, 0) /\ DOMAIN out' = {}
  BY <1>1, NoCells DEF Picture, Blank, ClearFrame
<1>6. TypeOK'
  <2>1. prevBooks' \in [Flavours -> Book \cup {None}] /\ books' \in [Flavours -> Book]
    BY <1>1, ZeroBookType DEF DecInv, TypeOK, ClearFrame
  <2>2. hdr' \in [w : Nat, h : Nat, strips : 0 .. MaxStrips]
    BY <1>1, DecoderAssumption DEF ClearFrame, NoHdr
  <2>3. /\ out' \in Picture(hdr'.w, hdr'.h) /\ covered' \subseteq Cells(hdr'.w, hdr'.h)
        /\ index' \in 0 .. hdr'.strips /\ yBottom' \in Nat
    BY <1>1, <1>5 DEF ClearFrame, NoHdr
  <2>4. /\ strip' \in [intra : BOOLEAN, x0 : Nat, x1 : Nat, y0 : Nat, y1 : Nat]
        /\ mode' = None /\ mbs' = None /\ frameMode' = None /\ bufferMode' = None
    BY <1>1 DEF ClearFrame, ClearStrip, NoStrip
  <2>5. QED
    BY <2>1, <2>2, <2>3, <2>4, <1>1, <1>3 DEF TypeOK
<1>7. AtRest' /\ NoOpenStrip' /\ InCall' /\ StripInside'
  BY <1>1 DEF AtRest, NoOpenStrip, InCall, StripInside, ClearFrame, ClearStrip
<1>8. RestingBooksHaveTheirFrame'
  BY <1>1, <1>4 DEF RestingBooksHaveTheirFrame
<1>9. FrameIsUniform'
  <2>1. frameMode' = None /\ bufferMode' = None
    BY <1>1 DEF ClearFrame
  <2>2. frameMode = "Gray8" => \A c \in DOMAIN out : \A q \in Quads : out[c][q].c = 0
    BY DEF DecInv, FrameIsUniform
  <2>3. prevFrame'.fmt = frameMode /\ prevFrame'.px = out
    BY <1>1
  <2>4. QED
    BY <1>1, <2>1, <2>2, <2>3, CodebooksAssumption DEF FrameIsUniform, Modes
<1>10. GapsAreBlack'
  BY <1>5 DEF GapsAreBlack
<1>11. QED
  BY <1>6, <1>7, <1>8, <1>9, <1>10 DEF DecInv

\* A reset leaves nothing that could break the invariant.
LEMMA ResetPreserves ==
    ASSUME DecInv, Reset
    PROVE  DecInv'
<1>1. /\ pc = "idle" /\ pc' = "idle" /\ outcome' = "none"
      /\ prevBooks' = NoBooks /\ prevFrame' = None
      /\ UNCHANGED <<frameVars, stripVars>>
  BY DEF Reset
<1>2. prevBooks' \in [Flavours -> Book \cup {None}] /\ \A f \in Flavours : prevBooks'[f] = None
  BY <1>1 DEF NoBooks
<1>3. TypeOK'
  BY <1>1, <1>2 DEF DecInv, TypeOK, frameVars, stripVars, StripCells
<1>4. AtRest' /\ NoOpenStrip' /\ InCall' /\ StripInside'
  BY <1>1 DEF DecInv, AtRest, NoOpenStrip, InCall, StripInside, frameVars, stripVars
<1>5. RestingBooksHaveTheirFrame' /\ FrameIsUniform' /\ GapsAreBlack'
  BY <1>1, <1>2
  DEF DecInv, RestingBooksHaveTheirFrame, FrameIsUniform, GapsAreBlack, frameVars, stripVars
<1>6. QED
  BY <1>3, <1>4, <1>5 DEF DecInv

\* A refused frame and a step that changes nothing leave every variable that the
\* invariant reads.
LEMMA QuietPreserves ==
    ASSUME DecInv, UNCHANGED <<selfVars, frameVars, stripVars, pc>>,
           outcome' \in {outcome, "err"}
    PROVE  DecInv'
<1> USE DEF selfVars, frameVars, stripVars
<1>1. TypeOK'
  BY DEF DecInv, TypeOK, StripCells
<1>2. AtRest' /\ NoOpenStrip' /\ InCall' /\ StripInside'
  BY DEF DecInv, AtRest, NoOpenStrip, InCall, StripInside
<1>3. RestingBooksHaveTheirFrame' /\ FrameIsUniform' /\ GapsAreBlack'
  BY DEF DecInv, RestingBooksHaveTheirFrame, FrameIsUniform, GapsAreBlack
<1>4. QED
  BY <1>1, <1>2, <1>3 DEF DecInv

-----------------------------------------------------------------------------

\* A new decoder satisfies the invariant.
LEMMA InitDecInv == Init => DecInv
<1> SUFFICES ASSUME Init PROVE DecInv
  OBVIOUS
<1> USE DEF Init, NoHdr, NoStrip
<1>1. out \in Picture(0, 0) /\ DOMAIN out = {}
  BY NoCells DEF Picture, Blank
<1>2. TypeOK
  <2>1. books \in [Flavours -> Book] /\ prevBooks \in [Flavours -> Book \cup {None}]
    BY ZeroBookType DEF NoBooks
  <2>2. hdr \in [w : Nat, h : Nat, strips : 0 .. MaxStrips]
    BY DecoderAssumption
  <2>3. QED
    BY <1>1, <2>1, <2>2 DEF TypeOK
<1>3. AtRest /\ NoOpenStrip /\ InCall /\ StripInside
  BY DEF AtRest, NoOpenStrip, InCall, StripInside
<1>4. RestingBooksHaveTheirFrame
  BY DEF RestingBooksHaveTheirFrame, NoBooks
<1>5. FrameIsUniform /\ GapsAreBlack
  BY <1>1, CodebooksAssumption DEF FrameIsUniform, GapsAreBlack, Modes
<1>6. QED
  BY <1>2, <1>3, <1>4, <1>5 DEF DecInv

\* Every step preserves the invariant: one step of the proof per action.
LEMMA StepDecInv == DecInv /\ [Next]_vars => DecInv'
<1> SUFFICES ASSUME DecInv, [Next]_vars PROVE DecInv'
  OBVIOUS
<1>1. CASE Reset
  BY <1>1, ResetPreserves
<1>2. CASE RefuseFrame
  BY <1>2, QuietPreserves DEF RefuseFrame
<1>3. CASE BeginFrame
  BY <1>3, BeginFramePreserves
<1>4. CASE BeginStrip
  BY <1>4, BeginStripPreserves
<1>5. CASE Malformed
  BY <1>5, FailPreserves DEF Malformed
<1>6. CASE CodebookChunk
  BY <1>6, CodebookChunkPreserves
<1>7. CASE VectorChunk
  BY <1>7, VectorChunkPreserves
<1>8. CASE EndStrip
  BY <1>8, EndStripPreserves
<1>9. CASE EndFrame
  BY <1>9, EndFramePreserves
<1>10. CASE UNCHANGED vars
  BY <1>10, QuietPreserves DEF vars
<1>11. QED
  BY <1>1, <1>2, <1>3, <1>4, <1>5, <1>6, <1>7, <1>8, <1>9, <1>10 DEF Next

\* The inductive invariant holds of every behaviour.
THEOREM DecoderInvariant == Spec => []DecInv
BY InitDecInv, StepDecInv, PTL DEF Spec

\* The type invariant of the decoder (decoder.rs, decode_frame_inner).
THEOREM DecoderTypeCorrect == Spec => []TypeOK
<1>1. DecInv => TypeOK
  BY DEF DecInv
<1>2. QED
  BY <1>1, DecoderInvariant, PTL

\* No strip a header can describe makes the renderer leave the output buffer or
\* the previous frame (decoder.rs, the bounds checks and render_strip).
THEOREM DecoderRendersInBounds == Spec => []RenderInBounds
<1>1. DecInv => RenderInBounds
  <2> SUFFICES ASSUME DecInv, pc = "strip"
               PROVE  /\ StripCells \subseteq DOMAIN out
                      /\ prevFrame # None => StripCells \subseteq DOMAIN prevFrame.px
    BY DEF RenderInBounds
  <2>1. StripCells \subseteq Cells(hdr.w, hdr.h)
    BY StripCellsInside DEF DecInv
  <2>2. DOMAIN out = Cells(hdr.w, hdr.h)
    BY DEF DecInv, TypeOK, Picture
  <2>3. prevFrame # None => DOMAIN prevFrame.px = Cells(hdr.w, hdr.h)
    BY FrameShape DEF DecInv, TypeOK, InCall
  <2>4. QED
    BY <2>1, <2>2, <2>3
<1>2. QED
  BY <1>1, DecoderInvariant, PTL

\* A failed call leaves no codebook behind that the next frame could inherit
\* (decoder.rs, the take and the put-back of prev_v4 and prev_v1).
THEOREM DecoderKeepsNoTornBooks == Spec => []RestingBooksHaveTheirFrame
<1>1. DecInv => RestingBooksHaveTheirFrame
  BY DEF DecInv
<1>2. QED
  BY <1>1, DecoderInvariant, PTL

\* A frame is drawn in one mode, that of its buffer (decoder.rs,
\* PixelMode::unify, buffer_mode).
THEOREM DecoderFramesAreUniform == Spec => []FrameIsUniform
<1>1. DecInv => FrameIsUniform
  BY DEF DecInv
<1>2. QED
  BY <1>1, DecoderInvariant, PTL

\* What no strip has rendered is black, whatever the frames before showed
\* (decoder.rs, the zeroed output buffer).
THEOREM DecoderGapsAreBlack == Spec => []GapsAreBlack
<1>1. DecInv => GapsAreBlack
  BY DEF DecInv
<1>2. QED
  BY <1>1, DecoderInvariant, PTL

\* Only the successful return makes codebooks visible to the next call, and with
\* them the picture just rendered (decoder.rs, the end of decode_frame_inner).
THEOREM DecoderCommitsTogether == Spec => CommitTogether
<1> DEFINE A == \A f \in Flavours :
          prevBooks'[f] \notin {prevBooks[f], None} =>
              /\ outcome' = "ok"
              /\ index = hdr.strips
              /\ prevFrame' = [w |-> hdr.w, h |-> hdr.h, fmt |-> bufferMode, px |-> out]
<1>1. ASSUME DecInv, [Next]_vars PROVE [A]_vars
  <2>1. CASE EndFrame
    BY <1>1, <2>1 DEF EndFrame, DecInv, FrameIsUniform
  <2>2. CASE Reset \/ BeginFrame
    BY <2>2 DEF Reset, BeginFrame, BeginFrameOf, NoBooks
  <2>3. CASE UNCHANGED prevBooks
    BY <2>3
  <2>4. CASE RefuseFrame \/ BeginStrip \/ Malformed \/ CodebookChunk \/ VectorChunk
             \/ EndStrip \/ UNCHANGED vars
    <3>1. UNCHANGED prevBooks
      BY <2>4
      DEF RefuseFrame, BeginStrip, BeginStripOf, Malformed, CodebookChunk,
          CodebookChunkOf, VectorChunk, VectorChunkOf, EndStrip,
          CarryBooks, Fail, selfVars, vars
    <3>2. QED
      BY <2>3, <3>1
  <2>5. QED
    BY <1>1, <2>1, <2>2, <2>4 DEF Next
<1>2. QED
  BY <1>1, DecoderInvariant, PTL DEF Spec, CommitTogether

-----------------------------------------------------------------------------
\* The lint beside the decoder.

\* What a codebook chunk is; the slots of a full one are those below its count.
LEMMA ChunkShape ==
    ASSUME NEW k \in Chunk
    PROVE  /\ k.flavour \in Flavours /\ k.style \in Styles /\ k.mode \in Modes
           /\ DOMAIN k.payload \subseteq Slots
           /\ k.style = "Full" =>
                EntryCount(k) \in Nat /\ DOMAIN k.payload = 0 .. EntryCount(k) - 1
<1>1. PICK st \in Styles, m \in Modes : k \in ChunksOf(st, m)
  BY DEF Chunk, Modes
<1>2. k.flavour \in Flavours /\ k.style = st /\ k.mode = m /\ k.payload \in PayloadsOf(st, m)
  BY <1>1 DEF ChunksOf
<1>3. PICK S \in SlotSetsOf(st) : k.payload \in [S -> EntriesOf(m)]
  BY <1>2 DEF PayloadsOf
<1>4. NumSlots \in Nat
  BY CodebooksAssumption
<1>5. S \subseteq Slots
  BY <1>3, <1>4 DEF SlotSetsOf, Slots
<1>6. ASSUME k.style = "Full"
      PROVE  EntryCount(k) \in Nat /\ DOMAIN k.payload = 0 .. EntryCount(k) - 1
  <2>1. \E n \in 0 .. NumSlots : DOMAIN k.payload = 0 .. n - 1
    BY <1>2, <1>3, <1>6 DEF SlotSetsOf
  <2>2. EntryCount(k) \in 0 .. NumSlots /\ DOMAIN k.payload = 0 .. EntryCount(k) - 1
    BY <2>1 DEF EntryCount
  <2> QED
    BY <2>2, <1>4
<1> QED
  BY <1>2, <1>3, <1>5, <1>6

-----------------------------------------------------------------------------

\* Every step of the lint is the decoder's step on the same element.
LEMMA LintStepsAreTheDecoders == [LintNext]_lintVars => [Next]_vars
<1> SUFFICES ASSUME LintNext PROVE Next
  BY DEF lintVars
<1> QED
  BY DEF LintNext, Next, LintReset, LintRefuseFrame, LintBeginFrame, BeginFrame,
         LintBeginStrip, BeginStrip, LintMalformed, LintCodebookChunk, CodebookChunk,
         LintVectorChunk, VectorChunk, LintEndStrip, LintEndFrame

\* The decoder beside the lint is the decoder: what the lint knows and reports
\* has no influence on it (lint_frame_with against decode_frame_inner).
THEOREM LintImplementsDecoder == LintSpec => Spec
<1>1. LintInit => Init
  BY DEF LintInit
<1> QED
  BY <1>1, LintStepsAreTheDecoders, PTL DEF LintSpec, Spec

-----------------------------------------------------------------------------

(***************************************************************************)
(* The inductive invariant, on top of that of the decoder.  It says what   *)
(* the lint's locals tell of the decoder's for as long as nothing has been *)
(* found: the mode of the frame, and within a strip the vector chunk and   *)
(* the slots that its own chunks define.                                   *)
(***************************************************************************)
LintTypeOK ==
    /\ start \in BOOLEAN
    /\ errors \in BOOLEAN
    /\ firstMode \in [mode : Modes, strip : Nat] \cup {None}
    /\ defined \in [Flavours -> Nat]
    /\ occupancyKnown \in BOOLEAN
    /\ own \in [Flavours -> SUBSET Nat]

CallHasNoOutcome == pc # "idle" => outcome = "none"

\* The mode of the lint was pinned by an earlier strip, or by this one.
ModeIsTracked ==
    (pc # "idle" /\ ~errors) =>
        /\ firstMode = None => mode = None
        /\ firstMode # None =>
             /\ mode \in {firstMode.mode, None}
             /\ firstMode.strip <= index
             /\ firstMode.strip = index => pc = "strip" /\ mode # None
             /\ firstMode.strip < index => frameMode = firstMode.mode

StripIsTracked ==
    (pc = "strip" /\ ~errors) =>
        /\ strip.x0 < strip.x1 /\ strip.y0 < strip.y1
        /\ vectorOcc = mbs
        /\ strip.intra => occupancyKnown
        /\ mbs # None =>
             /\ start => Skips = {}
             /\ strip.intra => \A c \in StripCells : mbs[c].kind \in Flavours
        /\ \A f \in Flavours :
             /\ 0 .. defined[f] - 1 \subseteq own[f]
             /\ defined[f] # 0 => mode # None

LintInv ==
    /\ LintTypeOK
    /\ CallHasNoOutcome
    /\ ModeIsTracked
    /\ StripIsTracked

\* An error return ends the call: nothing is left to be tracked.
LEMMA EndedCallTracksNothing ==
    ASSUME pc' = "idle", LintTypeOK'
    PROVE  LintInv'
BY DEF LintInv, CallHasNoOutcome, ModeIsTracked, StripIsTracked

\* The locals of a strip that begins.
LEMMA FreshStripType ==
    ASSUME NEW intra \in BOOLEAN, FreshStrip(intra)
    PROVE  /\ defined' \in [Flavours -> Nat] /\ own' \in [Flavours -> SUBSET Nat]
           /\ occupancyKnown' \in BOOLEAN
           /\ \A f \in Flavours : defined'[f] = 0
           /\ occupancyKnown' = intra /\ vectorOcc' = None
BY DEF FreshStrip

\* A frame header: the lint starts with nothing known of the frame.
LEMMA LintBeginFramePreserves ==
    ASSUME DecInv, LintInv, LintBeginFrame
    PROVE  LintInv'
<1>1. /\ pc = "idle" /\ pc' = "frame" /\ outcome' = "none" /\ index' = index
      /\ start' \in BOOLEAN /\ errors' = FALSE /\ firstMode' = None /\ mode' = mode
  BY DEF LintBeginFrame, BeginFrameOf, stripVars
<1>2. FreshStrip(FALSE)
  BY DEF LintBeginFrame
<1>3. mode = None
  BY <1>1 DEF DecInv, NoOpenStrip
<1>4. LintTypeOK'
  BY <1>1, <1>2, FreshStripType DEF LintTypeOK
<1>5. CallHasNoOutcome' /\ ModeIsTracked' /\ StripIsTracked'
  BY <1>1, <1>3 DEF CallHasNoOutcome, ModeIsTracked, StripIsTracked
<1> QED
  BY <1>4, <1>5 DEF LintInv

\* A strip header: the mode of the frame stays what the strips before made it.
LEMMA LintBeginStripPreserves ==
    ASSUME DecInv, LintInv, LintBeginStrip
    PROVE  LintInv'
<1>1. PICK intra \in BOOLEAN, xl \in Coords, xr \in Coords, yt \in Coords, yb \in Coords :
        /\ BeginStripOf(intra, xl, xr, yt, yb)
        /\ Report(BadRect(xl, xr, Resolve(yt, yb)))
        /\ FreshStrip(intra)
  BY DEF LintBeginStrip
<1>2. UNCHANGED <<first, start, firstMode>>
  BY DEF LintBeginStrip
<1>3. errors' = (errors \/ BadRect(xl, xr, Resolve(yt, yb)))
  BY <1>1 DEF Report
<1>4. LintTypeOK'
  <2>1. errors' \in BOOLEAN
    BY <1>3
  <2>2. /\ defined' \in [Flavours -> Nat] /\ own' \in [Flavours -> SUBSET Nat]
        /\ occupancyKnown' \in BOOLEAN
    BY <1>1, FreshStripType
  <2> QED
    BY <1>2, <2>1, <2>2 DEF LintInv, LintTypeOK
<1>5. CASE Fail
  BY <1>4, <1>5, EndedCallTracksNothing DEF Fail
<1>6. CASE ~Fail
  <2> DEFINE y == Resolve(yt, yb)
  <2>1. /\ pc = "frame" /\ pc' = "strip"
        /\ strip' = [intra |-> intra, x0 |-> xl, x1 |-> xr, y0 |-> y.top, y1 |-> y.bottom]
        /\ UNCHANGED <<frameVars, mode, mbs, outcome>>
    BY <1>1, <1>6 DEF BeginStripOf
  <2>2. mode = None /\ mbs = None
    BY <2>1 DEF DecInv, NoOpenStrip
  <2>3. CallHasNoOutcome'
    BY <2>1 DEF LintInv, CallHasNoOutcome
  <2>4. ModeIsTracked'
    BY <1>2, <1>3, <2>1, <2>2 DEF LintInv, ModeIsTracked, frameVars
  <2>5. StripIsTracked'
    <3> SUFFICES ASSUME ~errors'
                 PROVE  /\ strip'.x0 < strip'.x1 /\ strip'.y0 < strip'.y1
                        /\ vectorOcc' = mbs'
                        /\ strip'.intra => occupancyKnown'
                        /\ mbs' = None
                        /\ \A f \in Flavours : defined'[f] = 0
      BY DEF StripIsTracked
    <3>1. ~BadRect(xl, xr, y)
      BY <1>3
    <3>2. xl \in Nat /\ xr \in Nat /\ yt \in Nat /\ yb \in Nat /\ yBottom \in Nat
      BY DecoderAssumption DEF DecInv, TypeOK
    <3>3. y.top \in Nat /\ y.bottom \in Nat
      BY <3>2 DEF Resolve
    <3>4. xl < xr /\ y.top < y.bottom
      BY <3>1, <3>2, <3>3 DEF BadRect
    <3> QED
      BY <1>1, <2>1, <2>2, <3>4, FreshStripType
  <2> QED
    BY <1>4, <2>3, <2>4, <2>5 DEF LintInv
<1> QED
  BY <1>5, <1>6

\* A codebook chunk pins the mode and defines slots.
LEMMA LintCodebookChunkPreserves ==
    ASSUME DecInv, LintInv, LintCodebookChunk
    PROVE  LintInv'
<1>1. PICK k \in Chunk :
        /\ CodebookChunkOf(k)
        /\ Report(BadCodebookChunk(k))
        /\ firstMode' = IF firstMode = None THEN [mode |-> k.mode, strip |-> index] ELSE firstMode
        /\ defined' = IF k.style = "Full" THEN [defined EXCEPT ![k.flavour] = Defines(k)] ELSE defined
        /\ occupancyKnown' = (occupancyKnown /\ k.style = "Full")
        /\ own' = [own EXCEPT ![k.flavour] = @ \cup DOMAIN k.payload]
  BY DEF LintCodebookChunk
<1>2. UNCHANGED <<first, start, vectorOcc>>
  BY DEF LintCodebookChunk
<1>3. errors' = (errors \/ BadCodebookChunk(k))
  BY <1>1 DEF Report
<1>4. /\ k.flavour \in Flavours /\ k.style \in Styles /\ k.mode \in Modes
      /\ DOMAIN k.payload \subseteq Slots
      /\ k.style = "Full" =>
           EntryCount(k) \in Nat /\ DOMAIN k.payload = 0 .. EntryCount(k) - 1
  BY ChunkShape
<1>5. k.mode # None
  BY <1>4, CodebooksAssumption
<1>6. index \in Nat
  BY DEF DecInv, TypeOK
<1>7. Slots \subseteq Nat
  BY CodebooksAssumption DEF Slots
<1>8. LintTypeOK'
  <2>1. start' \in BOOLEAN /\ errors' \in BOOLEAN /\ occupancyKnown' \in BOOLEAN
    BY <1>1, <1>2, <1>3 DEF LintInv, LintTypeOK
  <2>2. firstMode' \in [mode : Modes, strip : Nat] \cup {None}
    BY <1>1, <1>4, <1>6 DEF LintInv, LintTypeOK
  <2>3. defined' \in [Flavours -> Nat]
    BY <1>1, <1>4 DEF LintInv, LintTypeOK, Defines
  <2>4. own' \in [Flavours -> SUBSET Nat]
    BY <1>1, <1>4, <1>7 DEF LintInv, LintTypeOK
  <2> QED
    BY <2>1, <2>2, <2>3, <2>4 DEF LintTypeOK
<1>9. CASE Fail
  BY <1>8, <1>9, EndedCallTracksNothing DEF Fail
<1>10. CASE ~Fail
  <2>1. /\ pc = "strip" /\ mode' = k.mode
        /\ UNCHANGED <<index, frameMode, strip, mbs, pc, outcome>>
    BY <1>1, <1>10 DEF CodebookChunkOf
  <2>2. CallHasNoOutcome'
    BY <2>1 DEF LintInv, CallHasNoOutcome
  <2>3. ModeIsTracked'
    <3> SUFFICES ASSUME ~errors' PROVE ModeIsTracked'
      BY DEF ModeIsTracked
    <3>1. ~errors /\ ~MixesModes(k.mode)
      BY <1>3 DEF BadCodebookChunk
    <3>2. CASE firstMode = None
      <4>1. firstMode' = [mode |-> k.mode, strip |-> index]
        BY <1>1, <3>2
      <4>2. firstMode'.mode = k.mode /\ firstMode'.strip = index /\ firstMode' # None
        BY <4>1, <1>4, <1>6, LintAssumption
      <4> QED
        BY <1>5, <1>6, <2>1, <4>2 DEF ModeIsTracked
    <3>3. CASE firstMode # None
      <4>1. firstMode' = firstMode /\ firstMode.mode = k.mode
        BY <1>1, <3>1, <3>3 DEF MixesModes
      <4> QED
        BY <1>5, <2>1, <3>1, <3>3, <4>1 DEF LintInv, ModeIsTracked
    <3> QED
      BY <3>2, <3>3
  <2>4. StripIsTracked'
    <3> SUFFICES ASSUME ~errors' PROVE StripIsTracked'
      BY DEF StripIsTracked
    <3>1. ~errors /\ vectorOcc = None /\ (strip.intra => k.style # "Selective")
      BY <1>3 DEF BadCodebookChunk
    <3>2. mbs' = None /\ vectorOcc' = None
      BY <1>2, <2>1, <3>1 DEF LintInv, StripIsTracked
    <3>3. strip'.intra => occupancyKnown'
      BY <1>1, <1>4, <2>1, <3>1 DEF LintInv, StripIsTracked, Styles
    <3>4. \A f \in Flavours : 0 .. defined'[f] - 1 \subseteq own'[f]
      <4> SUFFICES ASSUME NEW f \in Flavours, NEW i \in 0 .. defined'[f] - 1
                   PROVE  i \in own'[f]
        OBVIOUS
      <4>1. defined[f] \in Nat /\ own[f] \subseteq own'[f]
        BY <1>1, <1>4 DEF LintInv, LintTypeOK
      <4>2. 0 .. defined[f] - 1 \subseteq own[f]
        BY <2>1, <3>1 DEF LintInv, StripIsTracked
      <4>3. CASE i \in 0 .. defined[f] - 1
        BY <4>1, <4>2, <4>3
      <4>4. CASE i \notin 0 .. defined[f] - 1
        <5>1. f = k.flavour /\ k.style = "Full" /\ defined'[f] = EntryCount(k)
          BY <1>1, <1>4, <4>1, <4>4 DEF LintInv, LintTypeOK, Defines
        <5>2. i \in DOMAIN k.payload
          BY <1>4, <5>1
        <5> QED
          BY <1>1, <5>1, <5>2 DEF LintInv, LintTypeOK
      <4> QED
        BY <4>3, <4>4
    <3> QED
      BY <1>5, <2>1, <3>1, <3>2, <3>3, <3>4 DEF LintInv, StripIsTracked
  <2> QED
    BY <1>8, <2>2, <2>3, <2>4 DEF LintInv
<1> QED
  BY <1>9, <1>10

\* What kinds of block a vector chunk carries.
LEMMA IntraBlocksReadBooks ==
    ASSUME NEW id \in VectorIds, id # "Inter", NEW b \in MbsOf(id)
    PROVE  b.kind \in Flavours
<1>1. b \in V1Mb \cup V4Mb
  BY DEF MbsOf, VectorIds
<1> QED
  BY <1>1 DEF V1Mb, V4Mb, Flavours

\* The vector chunk: the lint keeps the first one, and there is only one.
LEMMA LintVectorChunkPreserves ==
    ASSUME DecInv, LintInv, LintVectorChunk
    PROVE  LintInv'
<1>1. PICK id \in VectorIds, trailing \in BOOLEAN : \E v \in [StripCells -> MbsOf(id)] :
        /\ VectorChunkOf(id, v)
        /\ Report(BadVectorChunk(id, v, trailing))
        /\ vectorOcc' = IF vectorOcc = None THEN v ELSE vectorOcc
  BY DEF LintVectorChunk
<1>2. PICK v \in [StripCells -> MbsOf(id)] :
        /\ VectorChunkOf(id, v)
        /\ Report(BadVectorChunk(id, v, trailing))
        /\ vectorOcc' = IF vectorOcc = None THEN v ELSE vectorOcc
  BY <1>1
<1>3. UNCHANGED <<first, start, firstMode, defined, occupancyKnown, own>>
  BY DEF LintVectorChunk
<1>4. errors' = (errors \/ BadVectorChunk(id, v, trailing))
  BY <1>2 DEF Report
<1>5. LintTypeOK'
  BY <1>3, <1>4 DEF LintInv, LintTypeOK
<1>6. CASE Fail
  BY <1>5, <1>6, EndedCallTracksNothing DEF Fail
<1>7. CASE ~Fail
  <2>1. /\ pc = "strip" /\ mbs' = v
        /\ UNCHANGED <<index, frameMode, strip, mode, pc, outcome>>
    BY <1>2, <1>7 DEF VectorChunkOf, frameVars
  <2>2. CallHasNoOutcome' /\ ModeIsTracked'
    BY <1>3, <1>4, <2>1 DEF LintInv, CallHasNoOutcome, ModeIsTracked
  <2>3. StripIsTracked'
    <3> SUFFICES ASSUME ~errors' PROVE StripIsTracked'
      BY DEF StripIsTracked
    <3>1. ~errors /\ ~BadVectorChunk(id, v, trailing)
      BY <1>4
    <3>2. vectorOcc' = v
      BY <1>2, <3>1 DEF BadVectorChunk
    <3>3. StripCells' = StripCells
      BY <2>1 DEF StripCells
    <3>4. start' => Skips' = {}
      BY <1>3, <2>1, <3>1, <3>3 DEF BadVectorChunk, Skips
    <3>5. strip.intra => \A c \in StripCells : v[c].kind \in Flavours
      BY <3>1, IntraBlocksReadBooks DEF BadVectorChunk
    <3> QED
      BY <1>3, <2>1, <3>1, <3>2, <3>3, <3>4, <3>5 DEF LintInv, StripIsTracked
  <2> QED
    BY <1>5, <2>2, <2>3 DEF LintInv
<1> QED
  BY <1>6, <1>7

\* The mode that a conformant strip is drawn in, once the lint has one.
LEMMA TrackedStripMode ==
    ASSUME DecInv, LintInv, pc = "strip", ~errors, firstMode # None
    PROVE  StripMode = firstMode.mode /\ firstMode.strip <= index
<1>1. /\ mode \in {firstMode.mode, None}
      /\ firstMode.strip <= index
      /\ firstMode.strip = index => mode # None
      /\ firstMode.strip < index => frameMode = firstMode.mode
  BY DEF LintInv, ModeIsTracked
<1>2. firstMode.mode # None /\ firstMode.strip \in Nat /\ index \in Nat
  BY CodebooksAssumption DEF LintInv, LintTypeOK, DecInv, TypeOK
<1>3. CASE mode # None
  BY <1>1, <1>3 DEF StripMode
<1>4. CASE mode = None
  BY <1>1, <1>2, <1>4 DEF StripMode, ModeHint
<1> QED
  BY <1>1, <1>3, <1>4

\* The end of a strip: what it pinned is now the mode of the frame.
LEMMA LintEndStripPreserves ==
    ASSUME DecInv, LintInv, LintEndStrip
    PROVE  LintInv'
<1>1. EndStrip /\ FreshStrip(FALSE) /\ UNCHANGED <<first, start, firstMode>>
  BY DEF LintEndStrip
<1>2. errors' = (errors \/ vectorOcc = None \/ ReadsUndefined)
  BY DEF LintEndStrip, Report
<1>3. LintTypeOK'
  <2>1. errors' \in BOOLEAN
    BY <1>2 DEF LintInv, LintTypeOK, ReadsUndefined
  <2> QED
    BY <1>1, <2>1, FreshStripType DEF LintInv, LintTypeOK
<1>4. CASE Fail
  BY <1>3, <1>4, EndedCallTracksNothing DEF Fail
<1>5. CASE ~Fail
  <2>1. /\ pc = "strip" /\ pc' = "frame" /\ outcome' = outcome
        /\ frameMode' = StripMode /\ index' = index + 1 /\ mode' = None
    BY <1>1, <1>5 DEF EndStrip, ClearStrip
  <2>2. CallHasNoOutcome' /\ StripIsTracked'
    BY <2>1 DEF LintInv, CallHasNoOutcome, StripIsTracked
  <2>3. ModeIsTracked'
    <3> SUFFICES ASSUME ~errors', firstMode # None PROVE ModeIsTracked'
      BY <1>1, <2>1 DEF ModeIsTracked
    <3>1. StripMode = firstMode.mode /\ firstMode.strip <= index
      BY <1>2, <2>1, TrackedStripMode
    <3>2. firstMode.strip \in Nat /\ index \in Nat
      BY DEF LintInv, LintTypeOK, DecInv, TypeOK
    <3>3. firstMode.strip < index'
      BY <2>1, <3>1, <3>2
    <3> QED
      BY <1>1, <2>1, <3>1, <3>2, <3>3 DEF ModeIsTracked
  <2> QED
    BY <1>3, <2>2, <2>3 DEF LintInv
<1> QED
  BY <1>4, <1>5

\* The steps that end a call or happen between two.
LEMMA LintRestPreserves ==
    ASSUME LintInv, LintReset \/ LintRefuseFrame \/ LintMalformed \/ LintEndFrame
    PROVE  LintInv'
<1>1. pc' = "idle"
  BY DEF LintReset, Reset, LintRefuseFrame, RefuseFrame, LintMalformed, Malformed,
         LintEndFrame, EndFrame, Fail
<1>2. UNCHANGED <<start, firstMode, stripLint>> /\ errors' \in BOOLEAN
  BY DEF LintReset, LintRefuseFrame, LintMalformed, LintEndFrame, Report, LintInv, LintTypeOK
<1>3. LintTypeOK'
  BY <1>2 DEF LintInv, LintTypeOK, stripLint
<1> QED
  BY <1>1, <1>3, EndedCallTracksNothing

\* The lint's locals before the first frame.
LEMMA InitLintInv == LintInit => LintInv
<1> SUFFICES ASSUME LintInit PROVE LintInv
  OBVIOUS
<1>1. pc = "idle"
  BY DEF LintInit, Init
<1>2. LintTypeOK
  BY DEF LintInit, LintTypeOK
<1> QED
  BY <1>1, <1>2 DEF LintInv, CallHasNoOutcome, ModeIsTracked, StripIsTracked

\* Every step of the lint keeps what it knows true.
LEMMA StepLintInv == DecInv /\ LintInv /\ [LintNext]_lintVars => LintInv'
<1> SUFFICES ASSUME DecInv, LintInv, [LintNext]_lintVars PROVE LintInv'
  OBVIOUS
<1>1. CASE UNCHANGED lintVars
  BY <1>1 DEF lintVars, vars, selfVars, frameVars, stripVars, stripLint, LintInv, LintTypeOK,
              CallHasNoOutcome, ModeIsTracked, StripIsTracked, Skips, StripCells
<1>2. CASE LintNext
  BY <1>2, LintBeginFramePreserves, LintBeginStripPreserves, LintCodebookChunkPreserves,
     LintVectorChunkPreserves, LintEndStripPreserves, LintRestPreserves DEF LintNext
<1> QED
  BY <1>1, <1>2

\* The lint's locals and the decoder's stand in the relation LintInv after any
\* sequence of frames (lint_frame_with, lint_strip_chunks).
THEOREM LintInvariant == LintSpec => [](DecInv /\ LintInv)
<1>1. LintInit => LintInv
  BY InitLintInv
<1>2. LintSpec => []DecInv
  BY LintImplementsDecoder, DecoderInvariant, PTL
<1>3. DecInv /\ LintInv /\ [LintNext]_lintVars => LintInv'
  BY StepLintInv
<1> QED
  BY <1>1, <1>2, <1>3, PTL DEF LintSpec

\* The mode that the lint took from the first codebook chunk is the one that
\* the decoder draws in (FrameChunkState.mode against frame_mode).
THEOREM LintTracksTheMode == LintSpec => []LintKnowsTheMode
<1>1. DecInv /\ LintInv => LintKnowsTheMode
  BY DEF LintInv, ModeIsTracked, LintKnowsTheMode, LintTypeOK, DecInv, TypeOK
<1> QED
  BY <1>1, LintInvariant, PTL

-----------------------------------------------------------------------------

\* A strip header that the lint finds nothing in is one the decoder accepts.
LEMMA ConformantRectFits ==
    ASSUME DecInv, NEW xl \in Coords, NEW xr \in Coords, NEW yt \in Coords, NEW yb \in Coords,
           ~BadRect(xl, xr, Resolve(yt, yb))
    PROVE  FitsFrame(xl, xr, Resolve(yt, yb))
<1> DEFINE y == Resolve(yt, yb)
<1>1. /\ xl \in Nat /\ xr \in Nat /\ yt \in Nat /\ yb \in Nat /\ yBottom \in Nat
      /\ hdr.w \in Nat /\ hdr.h \in Nat
  BY DecoderAssumption DEF DecInv, TypeOK
<1>2. y.top \in Nat /\ y.bottom \in Nat
  BY <1>1 DEF Resolve
<1> HIDE DEF y
<1> QED
  BY <1>1, <1>2 DEF BadRect, FitsFrame, y

\* The decoder does not refuse a codebook chunk that breaks no rule.
LEMMA ConformantChunkUnifies ==
    ASSUME LintInv, pc = "strip", ~errors, NEW k \in Chunk, ~BadCodebookChunk(k)
    PROVE  Unifies(mode, k.mode)
<1>1. firstMode # None => firstMode.mode = k.mode
  BY DEF BadCodebookChunk, MixesModes
<1>2. IF firstMode = None THEN mode = None ELSE mode \in {firstMode.mode, None}
  BY DEF LintInv, ModeIsTracked
<1> QED
  BY <1>1, <1>2 DEF Unifies

\* The one disagreement about modes: the strip took over another mode than the
\* one its frame had, by its own chunks.
LEMMA StripContradictsFrame ==
    ASSUME DecInv, LintInv, pc = "strip", ~errors, ~Unifies(frameMode, StripMode)
    PROVE  index > 0 /\ firstMode # None /\ firstMode.strip = index
<1>1. frameMode # None /\ frameMode # StripMode
  BY DEF Unifies
<1>2. index \in Nat /\ index # 0
  BY <1>1 DEF DecInv, TypeOK, FrameIsUniform
<1>3. firstMode # None
  BY <1>1 DEF LintInv, ModeIsTracked, StripMode, ModeHint
<1>4. StripMode = firstMode.mode /\ firstMode.strip <= index
  BY <1>3, TrackedStripMode
<1>5. ~(firstMode.strip < index)
  BY <1>1, <1>3, <1>4 DEF LintInv, ModeIsTracked
<1>6. firstMode.strip \in Nat
  BY <1>3 DEF LintInv, LintTypeOK
<1> QED
  BY <1>2, <1>3, <1>4, <1>5, <1>6

\* The lint stands for the decoder: of a frame it has found conformant so far
\* the decoder refuses nothing but a skip without a picture to copy and a mode
\* that contradicts one taken over from the previous frame (lint_frame_with
\* against decode_frame_inner and decode_strip_chunks).
THEOREM ConformantFramesDecode == LintSpec => ConformantDecodes
<1> DEFINE Excused ==
        /\ pc = "strip"
        /\ mbs # None
        /\ \/ Skips # {} /\ prevFrame = None /\ ~start
           \/ index > 0 /\ firstMode # None /\ firstMode.strip = index
<1>1. ASSUME DecInv, LintInv, LintNext, outcome' = "err", ~errors'
      PROVE  Excused
  <2>1. CASE LintReset \/ LintRefuseFrame \/ LintBeginFrame \/ LintMalformed \/ LintEndFrame
    BY <1>1, <2>1 DEF LintReset, Reset, LintRefuseFrame, LintBeginFrame, BeginFrameOf,
                      LintMalformed, LintEndFrame, EndFrame
  <2>2. CASE LintBeginStrip
    <3>1. PICK intra \in BOOLEAN, xl \in Coords, xr \in Coords, yt \in Coords, yb \in Coords :
            /\ BeginStripOf(intra, xl, xr, yt, yb)
            /\ Report(BadRect(xl, xr, Resolve(yt, yb)))
      BY <2>2 DEF LintBeginStrip
    <3>2. ~BadRect(xl, xr, Resolve(yt, yb))
      BY <1>1, <3>1 DEF Report
    <3>3. FitsFrame(xl, xr, Resolve(yt, yb))
      BY <1>1, <3>2, ConformantRectFits
    <3>4. pc = "frame" /\ outcome' = outcome
      BY <3>1, <3>3 DEF BeginStripOf
    <3> QED
      BY <1>1, <3>4 DEF LintInv, CallHasNoOutcome
  <2>3. CASE LintCodebookChunk
    <3>1. PICK k \in Chunk : CodebookChunkOf(k) /\ Report(BadCodebookChunk(k))
      BY <2>3 DEF LintCodebookChunk
    <3>2. pc = "strip" /\ ~errors /\ ~BadCodebookChunk(k)
      BY <1>1, <3>1 DEF Report, CodebookChunkOf
    <3>3. Unifies(mode, k.mode) /\ ~(strip.intra /\ k.style = "Selective")
      BY <1>1, <3>2, ConformantChunkUnifies DEF BadCodebookChunk
    <3>4. outcome' = outcome
      BY <3>1, <3>3 DEF CodebookChunkOf
    <3> QED
      BY <1>1, <3>2, <3>4 DEF LintInv, CallHasNoOutcome
  <2>4. CASE LintVectorChunk
    <3>1. PICK id \in VectorIds, trailing \in BOOLEAN : \E v \in [StripCells -> MbsOf(id)] :
            VectorChunkOf(id, v) /\ Report(BadVectorChunk(id, v, trailing))
      BY <2>4 DEF LintVectorChunk
    <3>2. PICK v \in [StripCells -> MbsOf(id)] :
            VectorChunkOf(id, v) /\ Report(BadVectorChunk(id, v, trailing))
      BY <3>1
    <3>3. /\ pc = "strip" /\ ~errors /\ vectorOcc = None
          /\ ~(strip.intra /\ id = "Inter")
      BY <1>1, <3>2 DEF Report, VectorChunkOf, BadVectorChunk
    <3>4. mbs = None
      BY <1>1, <3>3 DEF LintInv, StripIsTracked
    <3>5. outcome' = outcome
      BY <3>2, <3>3, <3>4 DEF VectorChunkOf
    <3> QED
      BY <1>1, <3>3, <3>5 DEF LintInv, CallHasNoOutcome
  <2>5. CASE LintEndStrip
    <3>1. EndStrip /\ pc = "strip" /\ ~errors /\ vectorOcc # None
      BY <1>1, <2>5 DEF LintEndStrip, EndStrip, Report
    <3>2. mbs # None /\ (start => Skips = {})
      BY <1>1, <3>1 DEF LintInv, StripIsTracked
    <3>3. ~(Unifies(frameMode, StripMode) /\ (Skips # {} => prevFrame # None))
      BY <1>1, <3>1, <3>2 DEF EndStrip, LintInv, CallHasNoOutcome
    <3> QED
      BY <1>1, <3>1, <3>2, <3>3, StripContradictsFrame
  <2> QED
    BY <1>1, <2>1, <2>2, <2>3, <2>4, <2>5 DEF LintNext
<1>2. DecInv /\ LintInv /\ [LintNext]_lintVars
        => [outcome' = "err" /\ ~errors' => Excused]_lintVars
  BY <1>1
<1> QED
  BY <1>2, LintInvariant, PTL DEF LintSpec, ConformantDecodes

\* A conformant intra strip stands alone: every block of it is drawn from slots
\* that its own chunks have written, in the mode that they have pinned
\* (VectorIndexOutOfRange and the rules on intra strips).
THEOREM ConformantIntraStripsStandAlone == LintSpec => IntraStandsAlone
<1> DEFINE Alone ==
        /\ mode # None
        /\ \A c \in StripCells, q \in Quads :
              /\ mbs[c].kind # "Skip"
              /\ mbs[c].idx[q] \in own[mbs[c].kind]
<1>1. ASSUME DecInv, LintInv, LintNext, pc = "strip", pc' = "frame", strip.intra, ~errors'
      PROVE  Alone
  <2>1. LintEndStrip
    BY <1>1 DEF LintNext, LintReset, Reset, LintRefuseFrame, RefuseFrame, LintBeginFrame,
                BeginFrameOf, LintBeginStrip, BeginStripOf, LintMalformed, Malformed,
                LintCodebookChunk, CodebookChunkOf, LintVectorChunk, VectorChunkOf,
                LintEndFrame, EndFrame, Fail
  <2>2. ~errors /\ vectorOcc # None /\ ~ReadsUndefined
    BY <1>1, <2>1 DEF LintEndStrip, Report
  <2>3. /\ strip.x0 < strip.x1 /\ strip.y0 < strip.y1
        /\ vectorOcc = mbs /\ mbs # None /\ occupancyKnown
        /\ \A c \in StripCells : mbs[c].kind \in Flavours
        /\ \A f \in Flavours :
             /\ 0 .. defined[f] - 1 \subseteq own[f]
             /\ defined[f] # 0 => mode # None
    BY <1>1, <2>2 DEF LintInv, StripIsTracked
  <2>4. mbs \in [StripCells -> Mb]
    BY <1>1, <2>3 DEF DecInv, TypeOK
  <2>5. ASSUME NEW c \in StripCells, NEW q \in Quads
        PROVE  /\ mbs[c].kind \in Flavours
               /\ mbs[c].idx[q] \in own[mbs[c].kind]
               /\ mode # None
    <3>1. mbs[c].kind \in Flavours /\ mbs[c] \in Mb
      BY <2>3, <2>4
    <3>2. mbs[c].idx[q] \in Nat
      BY <3>1, CodebooksAssumption DEF Mb, V1Mb, V4Mb, SkipMb, Slots
    <3>3. defined[mbs[c].kind] \in Nat
      BY <1>1, <3>1 DEF LintInv, LintTypeOK
    <3>4. mbs[c].idx[q] < defined[mbs[c].kind]
      BY <2>2, <2>3, <2>4, <3>1, <3>2, <3>3 DEF ReadsUndefined
    <3> QED
      BY <2>3, <3>1, <3>2, <3>3, <3>4
  <2>6. PICK c \in StripCells, q \in Quads : TRUE
    <3>1. strip.x0 \in Nat /\ strip.x1 \in Nat /\ strip.y0 \in Nat /\ strip.y1 \in Nat
      BY <1>1 DEF DecInv, TypeOK
    <3>2. <<strip.x0, strip.y0>> \in StripCells
      BY <2>3, <3>1 DEF StripCells
    <3> QED
      BY <3>2, LintAssumption
  <2>7. mode # None
    BY <2>5, <2>6
  <2> QED
    BY <2>5, <2>7 DEF Flavours
<1>2. DecInv /\ LintInv /\ [LintNext]_lintVars
        => [pc = "strip" /\ pc' = "frame" /\ strip.intra /\ ~errors' => Alone]_lintVars
  BY <1>1
<1> QED
  BY <1>2, LintInvariant, PTL DEF LintSpec, IntraStandsAlone

=============================================================================
