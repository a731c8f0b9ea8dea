---------------------------- MODULE WireDecoder ----------------------------
(***************************************************************************)
(* CinepakDecoder::decode_frame as a reader of bytes: which strips, chunks *)
(* and codebook entries it takes from a buffer, in which order, and where  *)
(* it stops.  What becomes of them is in CinepakDecoder.                   *)
(*                                                                         *)
(* The verdict is "ok", "structure" when a header or a codebook payload    *)
(* does not parse, or "content" for what only a decoder can refuse.  Of    *)
(* the payload of vector chunks, only whether decode_vector_chunk takes    *)
(* it; VectorPayload models what that reads.                               *)
(***************************************************************************)
EXTENDS Wire

StripItem(strip) == [what |-> "strip", top |-> strip.top, bottom |-> strip.bottom]
ChunkItem(id) == [what |-> "chunk", id |-> id]

\* No mode is pinned yet.
Unpinned == "unpinned"

Unify(pinned, mode) == IF pinned = Unpinned \/ pinned = mode THEN {mode} ELSE {}

Refused(verdict) == [items |-> <<>>, verdict |-> verdict, mode |-> Unpinned]

Then(items, rest) == [rest EXCEPT !.items = items \o @]

RECURSIVE DecodeStripChunks(_, _, _, _, _, _, _)
\* The chunks of b from p up to end, in a strip that is intra or not; mode is
\* what its chunks pinned so far, seen whether one had vectors.
DecodeStripChunks(b, p, end, intra, mode, seen, vectors) ==
    IF p >= end
    THEN [items |-> <<>>, mode |-> mode,
          verdict |-> IF seen THEN "ok" ELSE "content"]
    ELSE IF end - p < ChunkHeaderSize THEN Refused("structure")
    ELSE
    LET id == At(b, p)
        size == At(b, p + 1)
        from == p + ChunkHeaderSize
        to == p + size
    IN  IF size < ChunkHeaderSize \/ end - p < size THEN Refused("structure")
        ELSE IF id \in CodebookIds
        THEN LET kind == CodebookKindOf(id)
                 applied == ApplyCodebookChunk(kind, b, from, to)
                 items == <<ChunkItem(id)>> \o applied.writes
             IN  IF (intra /\ kind.style = "Selective") \/ Unify(mode, kind.mode) = {}
                 THEN Refused("content")
                 ELSE IF ~applied.ok THEN Then(items, Refused("structure"))
                 ELSE Then(items, DecodeStripChunks(b, to, end, intra, kind.mode, seen, vectors))
        ELSE IF id \in VectorIds
        THEN IF seen \/ (id = InterVectors /\ intra) \/ ~vectors THEN Refused("content")
             ELSE Then(<<ChunkItem(id)>>,
                       DecodeStripChunks(b, to, end, intra, mode, TRUE, vectors))
        ELSE Refused("structure")

\* The strip lies in the frame, and its dimensions can be cut into blocks.
StripBoundsOK(h, raw, strip) ==
    /\ raw.x_bottom <= h.width /\ strip.bottom <= h.height
    /\ raw.x_top <= raw.x_bottom /\ strip.top <= strip.bottom
    /\ (raw.x_bottom - raw.x_top) % Quantum = 0
    /\ (strip.bottom - strip.top) % Quantum = 0

RECURSIVE DecodeStrips(_, _, _, _, _, _, _)
\* The strips of b from the i-th on, which is at the cursor.
DecodeStrips(b, h, i, cursor, prevBottom, mode, vectors) ==
    IF i = h.strip_count THEN [items |-> <<>>, verdict |-> "ok", mode |-> mode]
    ELSE IF cursor + StripHeaderSize > h.frame_length THEN Refused("structure")
    ELSE
    LET raw == RawStripHeader(b, cursor)
        end == cursor + raw.strip_size
        strip == Resolve(raw, i = 0, prevBottom)
        chunks == DecodeStripChunks(b, cursor + StripHeaderSize, end,
                                    raw.strip_id = Intra, Unpinned, FALSE, vectors)
        stripMode == IF chunks.mode # Unpinned THEN chunks.mode
                     ELSE IF mode # Unpinned THEN mode ELSE "Yuv12"
        items == <<StripItem(strip)>> \o chunks.items
    IN  IF ~RawStripHeaderOK(raw) \/ end > h.frame_length THEN Refused("structure")
        ELSE IF ~StripBoundsOK(h, raw, strip) THEN Refused("content")
        ELSE IF chunks.verdict # "ok" THEN Then(items, Refused(chunks.verdict))
        ELSE IF Unify(mode, stripMode) = {} THEN Then(items, Refused("content"))
        ELSE Then(items, DecodeStrips(b, h, i + 1, end, strip.bottom, stripMode, vectors))

DecodeFrame(b, vectors) ==
    IF ~FrameHeaderOK(b) \/ FrameHeader(b).frame_length > Len(b) THEN Refused("structure")
    ELSE DecodeStrips(b, FrameHeader(b), 0, FrameHeaderSize, 0, Unpinned, vectors)

=============================================================================
