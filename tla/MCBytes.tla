------------------------------- MODULE MCBytes -------------------------------
(***************************************************************************)
(* The readers of a frame's bytes, side by side: one behaviour either      *)
(* writes and reads the payload of a vector chunk (VectorPayload), or      *)
(* walks a buffer (Walkers).                                               *)
(*                                                                         *)
(* Vector payloads: flag words of three bits and V4 blocks of two indices. *)
(* The encoder is given blocks whose indices look like flag words that say *)
(* "skip" or "V4" throughout.  The foreign payloads are all those of up to *)
(* four words.                                                             *)
(*                                                                         *)
(* Buffers: codebooks of six slots in groups of two.  The frames have one  *)
(* or two strips, whole and selective codebooks of both modes, and vector  *)
(* chunks.  A wrong cell holds a small number or an identifier.            *)
(***************************************************************************)
EXTENDS VectorPayload, Walkers

Zeros == [i \in 1 .. WordBits |-> 0]
Ones == [i \in 1 .. WordBits |-> 1]

MCBlocks == UNION {[kind : {k}, idx : [1 .. Cost(k) -> {Zeros, Ones}]] : k \in Kinds}

MCForeign == UNION {[1 .. n -> Word] : n \in 0 .. 4}

Book == [s \in 0 .. Slots - 1 |-> <<s + 20, s + 30>>]

Kind(id) == CodebookKindOf(id)

Seen(id, s) == IF Kind(id).mode = "Yuv12" THEN Book[s] ELSE <<Book[s][1], 0>>

\* A codebook chunk, and what it installs.
Whole(id, n) ==
    [cells |-> EncodeFullChunk(Kind(id), Book, n),
     entries |-> [i \in 1 .. n |-> Install(Kind(id), i - 1, Seen(id, i - 1))]]

Some(id, slots) ==
    [cells |-> EncodeSelectiveChunk(Kind(id), Book, slots),
     entries |-> [i \in 1 .. Cardinality(slots) |->
                     LET s == CHOOSE s \in slots : Cardinality({t \in slots : t < s}) = i - 1
                     IN  Install(Kind(id), s, Seen(id, s))]]

Vectors(id, n) == [cells |-> Chunk(id, [i \in 1 .. n |-> 0]), entries |-> <<>>]

\* A strip of one column of blocks, over the given rows, with these chunks.
Strip(id, top, bottom, parts) ==
    LET body == Concat([i \in 1 .. Len(parts) |-> parts[i].cells], Len(parts))
    IN  [cells |-> RawStripHeaderCells(
                       [strip_id |-> id, strip_size |-> StripHeaderSize + Len(body),
                        y_top |-> top, x_top |-> 0, y_bottom |-> bottom, x_bottom |-> 4])
                   \o body,
         entries |-> Concat([i \in 1 .. Len(parts) |-> parts[i].entries], Len(parts))]

Frame(flags, height, parts) ==
    LET body == Concat([i \in 1 .. Len(parts) |-> parts[i].cells], Len(parts))
    IN  [cells |-> FrameHeaderCells(
                       [flags |-> flags, frame_length |-> FrameHeaderSize + Len(body),
                        width |-> 4, height |-> height, strip_count |-> Len(parts)])
                   \o body,
         entries |-> Concat([i \in 1 .. Len(parts) |-> parts[i].entries], Len(parts))]

Key == Strip(Intra, 0, 4, <<Whole(\h2000, 2), Whole(\h2200, 1), Vectors(\h3200, 1)>>)

Gap == Strip(Inter, 0, 4, <<Some(\h2100, {0, 5}), Vectors(\h3100, 1)>>)

GrayTop == Strip(Intra, 0, 4, <<Whole(\h2400, 2), Vectors(\h3000, 1)>>)

GrayBelow == Strip(Inter, 0, 4, <<Some(\h2700, {1, 2, 3}), Vectors(\h3000, 1)>>)

MCFrames ==
    {Frame(0, 4, <<Key>>), Frame(1, 4, <<Gap>>), Frame(0, 8, <<GrayTop, GrayBelow>>),
     Frame(0, 8, <<GrayTop, Strip(Inter, 4, 8, <<Some(\h2500, {}), Vectors(\h3200, 1)>>)>>)}

MCCells ==
    (0 .. 9) \cup {12, 21, 40} \cup {Intra, Inter, \h2000, \h2100, \h2400, \h2700, \h3000, \h3100}

-----------------------------------------------------------------------------

NoWalk == 
    /\ buffer = <<>> /\ written = <<>> /\ vectors = FALSE /\ level = "done"
    /\ strips = [cursor |-> FrameHeaderSize, next_index |-> 0, prev_y_bottom |-> 0,
                 fused |-> TRUE]
    /\ chunks = Off /\ entries = OffEntries
    /\ items = <<>> /\ good = 0

\* An empty chunk of no blocks, read and walked.
NoPayload ==
    /\ form = "Inter" /\ stage = "walk" /\ foreign = TRUE
    /\ payload = <<>> /\ count = 0
    /\ meant = <<>> /\ bits = <<>> /\ group = <<>>
    /\ phase = "done" /\ ok = TRUE /\ p = 1 /\ flag = <<>> /\ bit = 1
    /\ pending = FALSE /\ next = 1 /\ out = <<>>
    /\ cursor = 1 /\ buf = <<>> /\ cut = FALSE /\ fused = FALSE
    /\ yielded = <<>> /\ errors = 0

BytesInit == (Init /\ NoWalk) \/ (NoPayload /\ WalkInit)

BytesNext ==
    \/ Next /\ UNCHANGED walkVars
    \/ WalkNext /\ UNCHANGED vars

BytesSpec ==
    BytesInit /\ [][BytesNext]_<<vars, walkVars>> /\ WF_walkVars(WalkNext /\ UNCHANGED vars)

=============================================================================
