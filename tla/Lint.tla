-------------------------------- MODULE Lint --------------------------------
(***************************************************************************)
(* The conformance lint next to the decoder: both read the same headers    *)
(* and chunks, and each lint action is the decoder's step on a wire        *)
(* element together with what lint_frame_with and lint_strip_chunks do     *)
(* with that element.  The lint decides from the element and from its own  *)
(* locals only; width, height and prev_y_bottom have the same values on    *)
(* both sides and are not kept twice.                                      *)
(*                                                                         *)
(* Only findings of severity Error are modelled, as whether there has been *)
(* one, which is what is_conformant() tells.  The vintage profile is left  *)
(* out.  The lint goes on after an element the decoder refuses; the model  *)
(* ends the call there.                                                    *)
(***************************************************************************)
EXTENDS CinepakDecoder

\* A macroblock has quadrants; a mode with its strip is not the absent value.
ASSUME LintAssumption ==
    /\ Quads # {}
    /\ None \notin [mode : Modes, strip : Nat]

VARIABLES
    first,          \* lint_sequence: the next frame is number 0
    start,          \* opts.sequence_start of the frame
    errors,         \* error_count() > 0
    firstMode,      \* FrameChunkState.mode: a pixel mode and the strip that set it
    defined,        \* v4_defined and v1_defined
    occupancyKnown, \* occupancy_known
    vectorOcc,      \* vector_occ: the strip's first vector chunk
    own             \* history: the slots the chunks of this strip have written

stripLint == <<defined, occupancyKnown, vectorOcc, own>>
lintVars  == <<vars, first, start, errors, firstMode, stripLint>>

\* The lint's locals at the start of a strip: occupancy is tracked on intra
\* strips only.
FreshStrip(intra) ==
    /\ defined' = [f \in Flavours |-> 0]
    /\ occupancyKnown' = intra
    /\ vectorOcc' = None
    /\ own' = [f \in Flavours |-> {}]

LintInit ==
    /\ Init
    /\ first = TRUE
    /\ start = FALSE
    /\ errors = FALSE
    /\ firstMode = None
    /\ defined = [f \in Flavours |-> 0]
    /\ occupancyKnown = FALSE
    /\ vectorOcc = None
    /\ own = [f \in Flavours |-> {}]

\* rep.push of an Error when `found' holds.
Report(found) == errors' = (errors \/ found)

-----------------------------------------------------------------------------

\* A new sequence: the decoder is reset and lint_sequence called anew.
LintReset ==
    /\ Reset
    /\ first' = TRUE
    /\ errors' = FALSE
    /\ UNCHANGED <<start, firstMode, stripLint>>

\* A frame header that the decoder refuses breaks a rule of the frame layer.
LintRefuseFrame ==
    /\ RefuseFrame
    /\ first' = FALSE
    /\ errors' = TRUE
    /\ UNCHANGED <<start, firstMode, stripLint>>

\* lint_sequence forces sequence_start on the first frame; for a later one the
\* caller may set it, as for the target of a seek.
LintBeginFrame ==
    /\ \E d \in Dims, n \in 1 .. MaxStrips : BeginFrameOf(d, n)
    /\ start' \in {s \in BOOLEAN : first => s}
    /\ first' = FALSE
    /\ errors' = FALSE
    /\ firstMode' = None
    /\ FreshStrip(FALSE)

\* StripEmptyRect or StripOutsideFrame.  A rectangle of no cells breaks the
\* first rule, though the decoder accepts it.
BadRect(xl, xr, y) ==
    \/ y.bottom <= y.top
    \/ xr <= xl
    \/ y.bottom > hdr.h
    \/ xr > hdr.w

LintBeginStrip ==
    /\ \E intra \in BOOLEAN, xl, xr, yt, yb \in Coords :
         /\ BeginStripOf(intra, xl, xr, yt, yb)
         /\ Report(BadRect(xl, xr, Resolve(yt, yb)))
         /\ FreshStrip(intra)
    /\ UNCHANGED <<first, start, firstMode>>

\* Every malformed header or chunk breaks a rule of its layer.
LintMalformed ==
    /\ Malformed
    /\ errors' = TRUE
    /\ UNCHANGED <<first, start, firstMode, stripLint>>

\* Mutant of MixesModes: the mode of the frame is checked inside a strip only.
MixesModesInStrip(m) == firstMode # None /\ firstMode.strip = index /\ firstMode.mode # m

\* MixedPixelModes, over the whole frame.
MixesModes(m) == firstMode # None /\ firstMode.mode # m

\* ChunkAfterVectorChunk, SelectiveUpdateOnIntraStrip, MixedPixelModes or
\* PrevFrameDependencyAtSequenceStart.
BadCodebookChunk(k) ==
    \/ vectorOcc # None
    \/ k.style = "Selective" /\ (strip.intra \/ start)
    \/ MixesModes(k.mode)

\* The number of entries of a full chunk, whose slots are a prefix of the book.
EntryCount(k) == CHOOSE n \in 0 .. NumSlots : DOMAIN k.payload = 0 .. n - 1

\* Mutant of Defines: the counts of several chunks are added up.
DefinesInTotal(k) == defined[k.flavour] + EntryCount(k)

\* A full chunk of n entries defines the slots below n, beside those that an
\* earlier chunk of the strip defined.
Defines(k) == IF EntryCount(k) > defined[k.flavour] THEN EntryCount(k) ELSE defined[k.flavour]

LintCodebookChunk ==
    /\ \E k \in Chunk :
         /\ CodebookChunkOf(k)
         /\ Report(BadCodebookChunk(k))
         /\ firstMode' = IF firstMode = None THEN [mode |-> k.mode, strip |-> index] ELSE firstMode
         /\ defined' = IF k.style = "Full" THEN [defined EXCEPT ![k.flavour] = Defines(k)] ELSE defined
         /\ occupancyKnown' = (occupancyKnown /\ k.style = "Full")
         /\ own' = [own EXCEPT ![k.flavour] = @ \cup DOMAIN k.payload]
    /\ UNCHANGED <<first, start, vectorOcc>>

\* Mutant of BadVectorChunk: a second vector chunk is not looked for.
BadVectorChunkAlone(id, v, trailing) ==
    \/ strip.intra /\ id = "Inter"
    \/ trailing
    \/ start /\ \E c \in StripCells : v[c].kind = "Skip"

\* ChunkAfterVectorChunk, InterVectorChunkOnIntraStrip, VectorPayloadTrailingBytes
\* or PrevFrameDependencyAtSequenceStart.
BadVectorChunk(id, v, trailing) ==
    \/ vectorOcc # None
    \/ strip.intra /\ id = "Inter"
    \/ trailing
    \/ start /\ \E c \in StripCells : v[c].kind = "Skip"

\* The decoder does not look at what follows the last block of a 0x3000 or
\* 0x3100 chunk; a 0x3200 chunk of another length is malformed for both.
LintVectorChunk ==
    /\ \E id \in VectorIds, trailing \in BOOLEAN : \E v \in [StripCells -> MbsOf(id)] :
         /\ trailing => id # "V1Only"
         /\ VectorChunkOf(id, v)
         /\ Report(BadVectorChunk(id, v, trailing))
         /\ vectorOcc' = IF vectorOcc = None THEN v ELSE vectorOcc
    /\ UNCHANGED <<first, start, firstMode, defined, occupancyKnown, own>>

\* VectorIndexOutOfRange, against what the strip's own full chunks define.
ReadsUndefined ==
    /\ occupancyKnown
    /\ vectorOcc # None
    /\ \E c \in DOMAIN vectorOcc, q \in Quads :
         /\ vectorOcc[c].kind \in Flavours
         /\ vectorOcc[c].idx[q] >= defined[vectorOcc[c].kind]

\* The end of the chunk stream: MissingVectorChunk and the deferred check of
\* the indices.
LintEndStrip ==
    /\ EndStrip
    /\ Report(vectorOcc = None \/ ReadsUndefined)
    /\ FreshStrip(FALSE)
    /\ UNCHANGED <<first, start, firstMode>>

\* FrameLengthAccounting: bytes after the last strip are an error, though the
\* decoder ignores them.
LintEndFrame ==
    /\ EndFrame
    /\ \E exact \in BOOLEAN : Report(~exact)
    /\ UNCHANGED <<first, start, firstMode, stripLint>>

LintNext ==
    \/ LintReset
    \/ LintRefuseFrame
    \/ LintBeginFrame
    \/ LintBeginStrip
    \/ LintMalformed
    \/ LintCodebookChunk
    \/ LintVectorChunk
    \/ LintEndStrip
    \/ LintEndFrame

LintSpec == LintInit /\ [][LintNext]_lintVars

-----------------------------------------------------------------------------

\* The lint stands for the decoder: what it has found conformant so far the
\* decoder accepts, but for the two things that a view of one frame cannot see.
\* They are a skip when there is no previous picture of this size, and a mode
\* that a strip without codebook chunks took over and a later strip contradicts;
\* no refusal of a header or of a chunk is among them (lint_frame_with against
\* decode_frame_inner and decode_strip_chunks).
ConformantDecodes ==
    [][(outcome' = "err" /\ ~errors') =>
          /\ pc = "strip"
          /\ mbs # None
          /\ \/ Skips # {} /\ prevFrame = None /\ ~start
             \/ index > 0 /\ firstMode # None /\ firstMode.strip = index]_lintVars

\* A conformant intra strip stands alone: its mode is pinned by its own chunks,
\* no block of it is skipped and every entry it reads was written by its own
\* chunks, so that what it draws does not depend on anything decoded before
\* (VectorIndexOutOfRange and the rules on intra strips).
IntraStandsAlone ==
    [][(pc = "strip" /\ pc' = "frame" /\ strip.intra /\ ~errors') =>
          /\ mode # None
          /\ \A c \in StripCells, q \in Quads :
                /\ mbs[c].kind # "Skip"
                /\ mbs[c].idx[q] \in own[mbs[c].kind]]_lintVars

\* The mode that the lint takes from the first codebook chunk of a conformant
\* frame is the one the decoder draws the frame in, from the strip of that
\* chunk on (FrameChunkState.mode against frame_mode).
LintKnowsTheMode ==
    (pc # "idle" /\ ~errors /\ firstMode # None) =>
        /\ index > firstMode.strip => frameMode = firstMode.mode
        /\ mode \in {firstMode.mode, None}

=============================================================================
