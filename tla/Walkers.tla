------------------------------ MODULE Walkers ------------------------------
(***************************************************************************)
(* The iterators over a frame: FrameStrips hands out its strips,           *)
(* StripChunks the chunks of a strip, CodebookEntries the entries of a     *)
(* codebook chunk.  They re-implement, one item a call, the loops of the   *)
(* decoder, and each is to end: with nothing left, or one error and then   *)
(* nothing.                                                                *)
(*                                                                         *)
(* A caller walks a buffer with the three nested, as three for loops.  It  *)
(* carries on after an error.  The buffer holds a frame of the encoder, or *)
(* one with a wrong cell, or the beginning of one.                         *)
(***************************************************************************)
EXTENDS WireDecoder

CONSTANTS
    Frames,     \* frames: [cells, entries], and what their codebooks install
    Cells,      \* what a wrong cell may hold
    MaxItems    \* bound: the items that the caller takes before it gives up

ASSUME WalkAssumption ==
    /\ \A f \in Frames : f.cells \in Seq(Nat)
    /\ Cells \subseteq Nat
    /\ MaxItems \in Nat

VARIABLES
    buffer,     \* bytes
    written,    \* history: the entries that the encoder wrote there, <<>> if damaged
    vectors,    \* input: decode_vector_chunk takes the payloads of this frame
    level,      \* caller: the loop it is in
    strips,     \* FrameStrips: cursor, next_index, prev_y_bottom, fused
    chunks,     \* StripChunks: end of the payload, cursor, fused
    entries,    \* CodebookEntries: kind, end, cursor, next_slot, group, fused
    items,      \* history: what was handed out
    good        \* history: how much of it before the first error, or -1

walk == <<level, strips, chunks, entries, items, good>>
walkVars == <<buffer, written, vectors, walk>>

\* Nothing is being walked on this level.
Off == [end |-> 0, cursor |-> 0, fused |-> FALSE]
OffEntries == [kind |-> CodebookKindOf(\h2000), end |-> 0, cursor |-> 0,
               next_slot |-> 0, group |-> <<>>, fused |-> FALSE]

\* One cell is wrong, or the end is missing.
Damaged(b) ==
    {[b EXCEPT ![i] = c] : i \in 1 .. Len(b), c \in Cells}
    \cup {SubSeq(b, 1, n) : n \in 0 .. Len(b) - 1}

WalkInit ==
    /\ \E f \in Frames :
         \/ buffer = f.cells /\ written = f.entries
         \/ buffer \in Damaged(f.cells) \ {f.cells} /\ written = <<>>
    /\ vectors \in BOOLEAN
    /\ level = "open"
    /\ strips = [cursor |-> FrameHeaderSize, next_index |-> 0, prev_y_bottom |-> 0,
                 fused |-> FALSE]
    /\ chunks = Off /\ entries = OffEntries
    /\ items = <<>> /\ good = -1

Yield(item) ==
    /\ Len(items) < MaxItems
    /\ items' = Append(items, item)
    /\ UNCHANGED good

Fail == 
    /\ good' = IF good = -1 THEN Len(items) ELSE good
    /\ UNCHANGED items

Leave(to) == level' = to /\ UNCHANGED <<items, good>>

frame == <<buffer, written, vectors>>

-----------------------------------------------------------------------------
\* FrameStrips

Header == FrameHeader(buffer)

NewStrips ==
    /\ level = "open"
    /\ IF FrameHeaderOK(buffer) /\ Header.frame_length <= Len(buffer)
       THEN Leave("strips")
       ELSE level' = "done" /\ Fail
    /\ UNCHANGED <<frame, strips, chunks, entries>>

NextStrip ==
    /\ level = "strips"
    /\ ~strips.fused /\ strips.next_index < Header.strip_count
    /\ LET raw == RawStripHeader(buffer, strips.cursor)
           end == strips.cursor + raw.strip_size
           strip == Resolve(raw, strips.next_index = 0, strips.prev_y_bottom)
       IN  IF /\ strips.cursor + StripHeaderSize <= Header.frame_length
              /\ RawStripHeaderOK(raw)
              /\ end <= Header.frame_length
           THEN /\ strips' = [cursor |-> end, next_index |-> strips.next_index + 1,
                              prev_y_bottom |-> strip.bottom, fused |-> FALSE]
                /\ chunks' = [end |-> end, cursor |-> strips.cursor + StripHeaderSize,
                              fused |-> FALSE]
                /\ level' = "chunks"
                /\ Yield(StripItem(strip))
           ELSE /\ strips' = [strips EXCEPT !.fused = TRUE]
                /\ Fail
                /\ UNCHANGED <<level, chunks>>
    /\ UNCHANGED <<frame, entries>>

NoStrip ==
    /\ level = "strips"
    /\ strips.fused \/ strips.next_index >= Header.strip_count
    /\ Leave("done")
    /\ UNCHANGED <<frame, strips, chunks, entries>>

-----------------------------------------------------------------------------
\* StripChunks

\* Mutant of ChunkFits: a chunk may be shorter than its header.
ChunkFitsShort(p, end) == end - p >= At(buffer, p + 1)

ChunkFits(p, end) ==
    /\ At(buffer, p + 1) >= ChunkHeaderSize
    /\ end - p >= At(buffer, p + 1)

\* The caller walks the entries of a codebook chunk, which CodebookEntries::new
\* may refuse.
NextChunk ==
    /\ level = "chunks"
    /\ ~chunks.fused /\ chunks.cursor < chunks.end
    /\ LET p == chunks.cursor
           id == At(buffer, p)
           to == p + At(buffer, p + 1)
       IN  IF /\ chunks.end - p >= ChunkHeaderSize
              /\ ChunkFits(p, chunks.end)
              /\ id \in StripChunkIds
           THEN /\ chunks' = [chunks EXCEPT !.cursor = to]
                /\ IF id \in CodebookIds
                   THEN /\ entries' = [OffEntries EXCEPT !.kind = CodebookKindOf(id),
                                             !.end = to, !.cursor = p + ChunkHeaderSize]
                        /\ level' = "new"
                   ELSE UNCHANGED <<entries, level>>
                /\ Yield(ChunkItem(id))
           ELSE /\ chunks' = [chunks EXCEPT !.fused = TRUE]
                /\ Fail
                /\ UNCHANGED <<entries, level>>
    /\ UNCHANGED <<frame, strips>>

NoChunk ==
    /\ level = "chunks"
    /\ chunks.fused \/ chunks.cursor >= chunks.end
    /\ Leave("strips")
    /\ UNCHANGED <<frame, strips, chunks, entries>>

-----------------------------------------------------------------------------
\* CodebookEntries

NewEntries ==
    /\ level = "new"
    /\ IF entries.kind.style = "Full" => FullOK(entries.kind.mode, entries.cursor, entries.end)
       THEN Leave("entries")
       ELSE level' = "chunks" /\ Fail
    /\ UNCHANGED <<frame, strips, chunks, entries>>

\* An entry is read, or it is cut and the walk of this chunk is over.
YieldEntry(slot, nextSlot, group) ==
    LET kind == entries.kind
        end == entries.cursor + EntrySize(kind.mode)
    IN  IF end <= entries.end
        THEN /\ entries' = [entries EXCEPT !.cursor = end, !.next_slot = nextSlot,
                                           !.group = group]
             /\ Yield(Install(kind, slot, ReadEntry(kind.mode, buffer, entries.cursor)))
        ELSE /\ entries' = [entries EXCEPT !.fused = TRUE, !.next_slot = nextSlot]
             /\ Fail

NextFull ==
    /\ level = "entries" /\ entries.kind.style = "Full"
    /\ entries.cursor + EntrySize(entries.kind.mode) <= entries.end
    /\ YieldEntry(entries.next_slot, entries.next_slot + 1, <<>>)
    /\ UNCHANGED <<frame, level, strips, chunks>>

Selecting == level = "entries" /\ entries.kind.style = "Selective" /\ ~entries.fused

\* The group that the iterator is in: its flag word, and the bits scanned.
LoadGroup ==
    /\ Selecting /\ entries.group = <<>>
    /\ entries.cursor < entries.end
    /\ IF entries.next_slot < Slots /\ entries.end - entries.cursor >= GroupSlots
       THEN /\ entries' = [entries EXCEPT !.cursor = @ + GroupSlots,
                                  !.group = <<FlagWord(buffer, entries.cursor), 0>>]
            /\ UNCHANGED <<items, good>>
       ELSE entries' = [entries EXCEPT !.fused = TRUE] /\ Fail
    /\ UNCHANGED <<frame, level, strips, chunks>>

\* Mutant of Scanned: the slots after the last entry of a group are not passed.
ScannedUpToEntry(bit) == entries.next_slot

\* next_slot when the bits of a group from the given one on are passed.
Scanned(bit) == entries.next_slot + (GroupSlots - bit)

\* The guard of 256 slots inside a group is left out: groups divide them.
ScanGroup ==
    /\ Selecting /\ entries.group # <<>>
    /\ LET bit == entries.group[2]
           set == SetBits(entries.group[1], bit)
           slot == entries.next_slot + (Least(set) - bit)
       IN  IF set = {}
           THEN /\ entries' = [entries EXCEPT !.next_slot = Scanned(bit), !.group = <<>>]
                /\ UNCHANGED <<items, good>>
           ELSE YieldEntry(slot, slot + 1, <<entries.group[1], Least(set) + 1>>)
    /\ UNCHANGED <<frame, level, strips, chunks>>

NoEntry ==
    /\ level = "entries"
    /\ \/ entries.fused
       \/ entries.kind.style = "Full"
          /\ entries.cursor + EntrySize(entries.kind.mode) > entries.end
       \/ entries.kind.style = "Selective"
          /\ entries.group = <<>> /\ entries.cursor >= entries.end
    /\ Leave("chunks")
    /\ UNCHANGED <<frame, strips, chunks, entries>>

-----------------------------------------------------------------------------

WalkNext ==
    \/ NewStrips
    \/ NextStrip
    \/ NoStrip
    \/ NextChunk
    \/ NoChunk
    \/ NewEntries
    \/ NextFull
    \/ LoadGroup
    \/ ScanGroup
    \/ NoEntry

WalkSpec == WalkInit /\ [][WalkNext]_walkVars /\ WF_walkVars(WalkNext)

-----------------------------------------------------------------------------
\* probe_cvid, with a packet: whether it answers 1.0.

\* Mutant of Probe: the strip may overrun the frame.
ProbeHeaders(b) ==
    /\ Len(b) >= FrameHeaderSize + StripHeaderSize
    /\ FrameHeaderOK(b)
    /\ FrameHeader(b).flags \in {0, 1}
    /\ FrameHeader(b).frame_length >= FrameHeaderSize + StripHeaderSize
    /\ FrameHeader(b).width <= MaxDimension /\ FrameHeader(b).height <= MaxDimension
    /\ RawStripHeaderOK(RawStripHeader(b, FrameHeaderSize))

Probe(b) ==
    /\ ProbeHeaders(b)
    /\ FrameHeaderSize + RawStripHeader(b, FrameHeaderSize).strip_size
         <= FrameHeader(b).frame_length

-----------------------------------------------------------------------------

\* What is handed out before the first error.
BeforeError == SubSeq(items, 1, IF good = -1 THEN Len(items) ELSE good)

IsPrefixOfItems(s, t) == Len(s) <= Len(t) /\ s = SubSeq(t, 1, Len(s))

\* The three iterators, nested, hand out the strips, chunks and codebook
\* entries that decode_frame takes, in its order and with the rows and slots it
\* computes, up to the one place where both find that the bytes do not parse;
\* the decoder may stop before that for a reason of its own, and a frame it
\* accepts is walked to the end without an error (FrameStrips, StripChunks and
\* CodebookEntries against decode_frame_inner, decode_strip_chunks and
\* apply_codebook_chunk).
WalkersAgree ==
    level = "done" =>
        LET decoded == DecodeFrame(buffer, vectors)
        IN  /\ IsPrefixOfItems(decoded.items, BeforeError)
            /\ decoded.verdict = "ok" => good = -1 /\ decoded.items = items
            /\ decoded.verdict = "structure" => good # -1 /\ decoded.items = BeforeError

\* What encode_full_chunk and encode_selective_chunk write is read back: the
\* same entries into the same slots, and no others.
ReadsWhatWasEncoded ==
    (level = "done" /\ written # <<>>) =>
        SelectSeq(items, LAMBDA item : item.what = "entry") = written

\* With the whole frame in the packet, the probe is sure of exactly the packets
\* whose first strip FrameStrips hands out, as long as the flags are known ones
\* and the picture is not too large (probe_cvid against FrameStrips).
ProbeSeesTheFirstStrip ==
    (level = "done" /\ Len(buffer) >= FrameHeaderSize
                    /\ Header.frame_length <= Len(buffer)) =>
        (Probe(buffer) <=> /\ items # <<>>
                           /\ Header.flags \in {0, 1}
                           /\ Header.width <= MaxDimension /\ Header.height <= MaxDimension)

\* Whatever the bytes, the loops of the caller end (the cursor of each iterator
\* moves with every item, and an error fuses it).
WalkEnds == <>(level = "done")

=============================================================================
