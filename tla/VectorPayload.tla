---------------------------- MODULE VectorPayload ----------------------------
(***************************************************************************)
(* The payload of the vector chunks 0x3000 and 0x3100, where a code of one *)
(* or two bits says how each block is coded.  The codes are packed into    *)
(* flag words, each followed by the indices of its group of blocks.  A     *)
(* two-bit code may be cut by the end of a flag word: its second bit opens *)
(* the next word and the indices of its block go with that word.           *)
(*                                                                         *)
(* Three programs have to agree on this: encode_inter_payload (and the     *)
(* mixed form), decode_vector_chunk, and the walkers InterMacroblocks and  *)
(* MixedIntraMacroblocks, which hand out one block a call.  Here a payload *)
(* is written block by block, or is any payload at all; the decoder then   *)
(* reads it, and a walker reads it again.                                  *)
(*                                                                         *)
(* A payload is a sequence of words.  A flag word and an index are both    *)
(* one word, so that a reader that loses its place takes one for the other.*)
(***************************************************************************)
EXTENDS Integers, Sequences

CONSTANTS
    WordBits,   \* the bits of a flag word: 32
    V4Words,    \* the indices of a V4 block: 4
    Blocks,     \* the blocks that an encoder is given
    Foreign,    \* payloads from elsewhere
    MaxBlocks   \* bound: the blocks of a strip

Word == [1 .. WordBits -> {0, 1}]

Forms == {"MixedIntra", "Inter"}

Kinds == {"Skip", "V1", "V4"}

\* The index words that a block brings.
Cost(kind) == CASE kind = "Skip" -> 0 [] kind = "V1" -> 1 [] kind = "V4" -> V4Words

Block == UNION {[kind : {k}, idx : [1 .. Cost(k) -> Word]] : k \in Kinds}

ASSUME VectorAssumption ==
    /\ WordBits \in Nat \ {0, 1}
    /\ V4Words \in Nat \ {0}
    /\ Blocks \subseteq Block
    /\ Foreign \subseteq Seq(Word)
    /\ MaxBlocks \in Nat

VARIABLES
    form,     \* the chunk id
    stage,    \* which program runs: "encode", "decode" or "walk"
    foreign,  \* history: the payload was not written by the encoder
    meant,    \* history: the blocks given to the encoder
    bits,     \* encoder: bit_buffer, bit_count
    group,    \* encoder: group_indices
    payload,
    count,    \* mb_count
    phase,    \* decoder: between groups, in a group, or returned
    ok,       \* decoder: returned Ok
    p,        \* decoder: the next word to read
    flag,     \* decoder: the flag word of the group
    bit,      \* decoder: the next bit of it
    pending,  \* decoder: pending_selector
    next,     \* decoder: the first block of the group without its indices
    out,      \* decoder: the blocks so far
    cursor,   \* walker: the next word to read
    buf,      \* walker: group_buf, the blocks of the group not handed out yet
    cut,      \* walker: pending_set
    fused,    \* walker: fused
    yielded,  \* history: the blocks that next() returned
    errors    \* history: the errors that next() returned

encoder == <<meant, bits, group>>
chunk == <<form, foreign, payload, count>>
decoder == <<phase, ok, p, flag, bit, pending, next, out>>
walker == <<cursor, buf, cut, fused, yielded, errors>>
vars == <<stage, encoder, chunk, decoder, walker>>

Init ==
    /\ form \in Forms
    /\ \/ /\ stage = "encode"
          /\ foreign = FALSE
          /\ payload = <<>>
          /\ count = 0
       \/ /\ stage = "decode"
          /\ foreign = TRUE
          /\ payload \in Foreign
          /\ count \in 0 .. MaxBlocks
    /\ meant = <<>> /\ bits = <<>> /\ group = <<>>
    /\ phase = "group" /\ ok = FALSE /\ p = 1 /\ flag = <<>> /\ bit = 1
    /\ pending = FALSE /\ next = 1 /\ out = <<>>
    /\ cursor = 1 /\ buf = <<>> /\ cut = FALSE /\ fused = FALSE
    /\ yielded = <<>> /\ errors = 0

-----------------------------------------------------------------------------
\* The encoder.

Code(kind) ==
    IF form = "MixedIntra" THEN IF kind = "V4" THEN <<1>> ELSE <<0>>
    ELSE CASE kind = "Skip" -> <<0>> [] kind = "V1" -> <<1, 0>> [] kind = "V4" -> <<1, 1>>

Full(all) == Len(all) >= WordBits

\* Mutant of Straddles: the indices go with the word of the first bit.
StraddlesNever(all) == FALSE

\* The code has just overrun the word.
Straddles(all) == Len(all) > WordBits

\* The next block is coded; a word that is full is flushed with its group.
Put(b) ==
    /\ stage = "encode"
    /\ Len(meant) < MaxBlocks
    /\ b.kind = "Skip" => form = "Inter"
    /\ meant' = Append(meant, b)
    /\ LET all == bits \o Code(b.kind) IN
         IF ~Full(all)
         THEN /\ bits' = all
              /\ group' = group \o b.idx
              /\ UNCHANGED payload
         ELSE /\ bits' = SubSeq(all, WordBits + 1, Len(all))
              /\ group' = IF Straddles(all) THEN b.idx ELSE <<>>
              /\ payload' = payload \o <<SubSeq(all, 1, WordBits)>> \o group
                            \o IF Straddles(all) THEN <<>> ELSE b.idx
    /\ UNCHANGED <<stage, form, foreign, count, decoder, walker>>

Padded(some) == some \o [i \in 1 .. WordBits - Len(some) |-> 0]

\* The last word is padded with zeros.
Close ==
    /\ stage = "encode"
    /\ payload' = IF bits = <<>> /\ group = <<>> THEN payload
                  ELSE payload \o <<Padded(bits)>> \o group
    /\ count' = Len(meant)
    /\ stage' = "decode"
    /\ UNCHANGED <<form, foreign, encoder, decoder, walker>>

-----------------------------------------------------------------------------
\* decode_mixed_intra and decode_inter.

Coded(b) == IF b = 1 THEN "V4" ELSE "V1"

\* A block whose indices are still to be read.
Blank(kind) == [kind |-> kind, idx |-> <<>>]

Blanks == {Blank(k) : k \in Kinds}

ReadWord ==
    /\ stage = "decode" /\ phase = "group"
    /\ Len(out) < count
    /\ p <= Len(payload)
    /\ flag' = payload[p]
    /\ p' = p + 1
    /\ next' = Len(out) + 1
    /\ IF pending
       THEN /\ out' = Append(out, Blank(Coded(payload[p][1])))
            /\ bit' = 2
       ELSE /\ bit' = 1
            /\ UNCHANGED out
    /\ pending' = FALSE
    /\ phase' = "codes"
    /\ UNCHANGED <<stage, encoder, chunk, ok, walker>>

CodesLeft == Len(out) < count /\ bit <= WordBits

\* The bit says that another follows, and the word ends here.
Cut(w, b) == form = "Inter" /\ w[b] = 1 /\ b = WordBits

\* The block whose code starts at bit b of word w, and the bits of its code.
CodeAt(w, b) ==
    IF form = "MixedIntra" THEN [kind |-> Coded(w[b]), len |-> 1]
    ELSE IF w[b] = 0 THEN [kind |-> "Skip", len |-> 1]
    ELSE [kind |-> Coded(w[IF b < WordBits THEN b + 1 ELSE b]), len |-> 2]

ReadCode ==
    /\ stage = "decode" /\ phase = "codes"
    /\ CodesLeft
    /\ IF Cut(flag, bit)
       THEN /\ pending' = TRUE
            /\ bit' = bit + 1
            /\ UNCHANGED out
       ELSE /\ out' = Append(out, Blank(CodeAt(flag, bit).kind))
            /\ bit' = bit + CodeAt(flag, bit).len
            /\ UNCHANGED pending
    /\ UNCHANGED <<stage, encoder, chunk, phase, ok, p, flag, next, walker>>

\* The indices of the next block of the group.
ReadIndex ==
    /\ stage = "decode" /\ phase = "codes"
    /\ ~CodesLeft /\ next <= Len(out)
    /\ LET end == p + Cost(out[next].kind) IN
         /\ end <= Len(payload) + 1
         /\ out' = [out EXCEPT ![next].idx = SubSeq(payload, p, end - 1)]
         /\ p' = end
    /\ next' = next + 1
    /\ UNCHANGED <<stage, encoder, chunk, phase, ok, flag, bit, pending, walker>>

EndGroup ==
    /\ stage = "decode" /\ phase = "codes"
    /\ ~CodesLeft /\ next > Len(out)
    /\ phase' = "group"
    /\ UNCHANGED <<stage, encoder, chunk, ok, p, flag, bit, pending, next, out, walker>>

\* The payload ends before a flag word or inside the indices.
Truncated ==
    /\ stage = "decode"
    /\ \/ phase = "group" /\ Len(out) < count /\ p > Len(payload)
       \/ /\ phase = "codes" /\ ~CodesLeft /\ next <= Len(out)
          /\ p + Cost(out[next].kind) > Len(payload) + 1
    /\ phase' = "done"
    /\ stage' = "walk"
    /\ UNCHANGED <<encoder, chunk, ok, p, flag, bit, pending, next, out, walker>>

\* All blocks are read; a selector that is still pending is refused.
Return ==
    /\ stage = "decode" /\ phase = "group"
    /\ Len(out) = count
    /\ phase' = "done"
    /\ ok' = ~pending
    /\ stage' = "walk"
    /\ UNCHANGED <<encoder, chunk, p, flag, bit, pending, next, out, walker>>

-----------------------------------------------------------------------------
\* The walkers.  An action is a call of next() that returns something.

\* Before the first code of a group: a selector that was cut off makes a block.
Opening(w, split) ==
    IF split THEN [blocks |-> <<Blank(Coded(w[1]))>>, bit |-> 2, cut |-> FALSE]
    ELSE [blocks |-> <<>>, bit |-> 1, cut |-> FALSE]

\* One code more, if the group has room for a block and the word has a bit left.
Further(w, room, s) ==
    IF s.bit > WordBits \/ Len(s.blocks) >= room THEN s
    ELSE IF Cut(w, s.bit) THEN [s EXCEPT !.bit = @ + 1, !.cut = TRUE]
    ELSE [s EXCEPT !.blocks = Append(@, Blank(CodeAt(w, s.bit).kind)),
                   !.bit = @ + CodeAt(w, s.bit).len]

\* The blocks, at most room of them, whose codes follow in word w, and whether
\* the last code is cut.
Classified(w, s, room) ==
    LET f[i \in 0 .. room] == IF i = 0 THEN s ELSE Further(w, room, f[i - 1])
    IN  f[room]

\* Mutant of Group: the first bit of the word is not taken for the selector.
GroupAnew ==
    Classified(payload[cursor], Opening(payload[cursor], FALSE), count - Len(yielded))

\* load_next_group up to the indices.
Group == Classified(payload[cursor], Opening(payload[cursor], cut), count - Len(yielded))

\* Where the indices of the first i of the given blocks end, which follow the
\* word at q.
Ends(q, blocks) ==
    LET f[i \in 0 .. Len(blocks)] ==
            IF i = 0 THEN q + 1 ELSE f[i - 1] + Cost(blocks[i].kind)
    IN  f

WalkOn == stage = "walk" /\ ~fused /\ Len(yielded) < count

Error ==
    /\ fused' = TRUE
    /\ errors' = errors + 1

NoWord ==
    /\ WalkOn /\ buf = <<>> /\ cursor > Len(payload)
    /\ Error
    /\ UNCHANGED <<stage, encoder, chunk, decoder, cursor, buf, cut, yielded>>

\* InterMacroblocks reads the indices of a group before its first block is
\* handed out.
NextInter ==
    /\ WalkOn /\ form = "Inter" /\ buf = <<>> /\ cursor <= Len(payload)
    /\ LET blanks == Group.blocks
           ends == Ends(cursor, blanks)
           blocks == [i \in 1 .. Len(blanks) |->
                         [blanks[i] EXCEPT !.idx = SubSeq(payload, ends[i - 1], ends[i] - 1)]]
           read == CHOOSE i \in 0 .. Len(blanks) :
                         /\ ends[i] <= Len(payload) + 1
                         /\ i < Len(blanks) => ends[i + 1] > Len(payload) + 1
       IN  /\ cursor' = ends[read]
           /\ cut' = Group.cut
           /\ IF read = Len(blanks)
              THEN /\ yielded' = Append(yielded, Head(blocks))
                   /\ buf' = Tail(blocks)
                   /\ UNCHANGED <<fused, errors>>
              ELSE Error /\ UNCHANGED <<yielded, buf>>
    /\ UNCHANGED <<stage, encoder, chunk, decoder>>

NextBuffered ==
    /\ WalkOn /\ form = "Inter" /\ buf # <<>>
    /\ yielded' = Append(yielded, Head(buf))
    /\ buf' = Tail(buf)
    /\ UNCHANGED <<stage, encoder, chunk, decoder, cursor, cut, fused, errors>>

\* MixedIntraMacroblocks reads the indices of a block when it hands it out.
NextMixed ==
    /\ WalkOn /\ form = "MixedIntra" /\ (buf = <<>> => cursor <= Len(payload))
    /\ LET blanks == IF buf = <<>> THEN Group.blocks ELSE buf
           at == IF buf = <<>> THEN cursor + 1 ELSE cursor
           end == at + Cost(Head(blanks).kind)
       IN  /\ buf' = Tail(blanks)
           /\ IF end <= Len(payload) + 1
              THEN /\ yielded' = Append(yielded,
                          [Head(blanks) EXCEPT !.idx = SubSeq(payload, at, end - 1)])
                   /\ cursor' = end
                   /\ UNCHANGED <<fused, errors>>
              ELSE Error /\ cursor' = at /\ UNCHANGED yielded
    /\ UNCHANGED <<stage, encoder, chunk, decoder, cut>>

Next ==
    \/ \E b \in Blocks : Put(b)
    \/ Close
    \/ ReadWord
    \/ ReadCode
    \/ ReadIndex
    \/ EndGroup
    \/ Truncated
    \/ Return
    \/ NoWord
    \/ NextInter
    \/ NextBuffered
    \/ NextMixed

Spec == Init /\ [][Next]_vars

-----------------------------------------------------------------------------

\* What the encoder writes, the decoder reads: all of it, with every block and
\* its indices in their places, wherever codes are cut (encode_inter_payload
\* against decode_inter, encode_mixed_intra_payload against
\* decode_mixed_intra).
ReadsWhatWasWritten ==
    (phase = "done" /\ ~foreign) => ok /\ out = meant /\ p = Len(payload) + 1

IsPrefixOf(s, t) == Len(s) <= Len(t) /\ s = SubSeq(t, 1, Len(s))

\* On every payload a walker hands out the blocks that the decoder decodes, up
\* to the one place where both fail, and reports that once.  With all blocks
\* handed out the decoder has succeeded and no selector is pending, so that the
\* walker's own refusal of one, which is left out here, is never due
\* (InterMacroblocks, MixedIntraMacroblocks against decode_vector_chunk).
WalkerAgrees ==
    stage = "walk" =>
        /\ IsPrefixOf(yielded, out)
        /\ fused => ~ok /\ cursor = p /\ errors = 1
        /\ ~fused => errors = 0
        /\ Len(yielded) = count => ok /\ cursor = p /\ ~cut

=============================================================================
