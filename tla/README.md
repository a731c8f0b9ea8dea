# Verification of oxideav-cinepak

TLA+ models of the Cinepak codec in `src/`, checked with TLC on small
instances, and theorems about them proved with TLAPS for all values of their
constants. Paths below are those of the repository; "lines" without a file are
lines of `src/encoder.rs`.

The library is sequential: no threads, no callbacks, no persistence. What is
hard to test in it is state carried from one call to the next (codebooks,
pictures, counters, accounts), calls that fail half way through, long sequences
of legal calls in unusual orders, searches whose parts must fit together, and
several programs that must agree with each other on one format: encoder, its
internal decoder, the receiver, the walkers, the lint, the two FILM parsers.

## 1. Inventory

| Component | State it keeps | Operations | Correct when |
|---|---|---|---|
| Frame decoder (`decoder.rs`) | `prev_v4`, `prev_v1`, `prev_frame` | `decode_frame`, `decode_deviant_frame`, `reset` | no drawing or copying out of bounds; one pixel mode a frame; a failed call leaves no torn state; the carried books and picture belong together |
| Headers (`header.rs`) | the cursor of `FrameStrips` | `parse`, `encode`, `resolve`, `next` | absolute and relative strip coordinates end up where the format says; the walker hands out the decoder's strips |
| Codebook chunks (`codebook.rs`) | the book that a chunk updates; cursors of `StripChunks`, `CodebookEntries` | full, selective and header-only chunks; `next` | what is written is read back into the same slots; the walkers read what the decoder applies, and end |
| Vector chunks (`vector.rs`) | flag word, bit position, pending selector | `decode_vector_chunk`, `InterMacroblocks`, `MixedIntraMacroblocks` | what the encoder packs is what decoder and walkers unpack, wherever a code is cut |
| Stateful encoder (`encoder.rs`) | `rolling` codebooks, `prev_frame`, an internal decoder | `encode_intra`, `encode_inter`, their Gray8 forms, `reset` | the receiver shows what the encoder meant, whatever is left out of the chunks |
| Keyframe routing (`encoder.rs`) | `keyframe_interval`, `gop_pos`, `force_keyframe` | `encode_frame`, `encode_frame_gray8`, setters | seek distance kept, promised keyframes come, numbers are distances |
| Slot staleness (`encoder.rs`) | a counter for each slot | `reclaim_stale_*`, `update_staleness`, `reset_staleness` | only idle slots are recycled; a recycled slot is sent again |
| Bitrate budget (`encoder.rs`) | target, cap, two byte accounts, last statistics | `encode_budget_frame`, setters, resets | the best trial is returned, its state is the one carried on, the accounts converge |
| Two-pass control (`encoder.rs`) | none between calls; window, quality, search bounds in one | `encode_at_target_bytes`, the two window methods | the best quality that fits; the frames form one sequence |
| Training and decisions (`encoder.rs`) | none between calls; clusters, distances, assignments in one | median cut, k-means++, Lloyd, LBG, classification, polish | what is carried from pass to pass is up to date; no step makes the book worse; decisions fit the books sent |
| Stateless encoders and pickers (`encoder.rs`) | none between calls; the best frame so far | `encode_*_best_*`, `encode_rgb24_per_strip_rd`, `encode_*_round*` | the cheapest frame of the grid is returned, ranked by the cost it has |
| Lint (`lint.rs`) | the locals of a frame and of a strip | `lint_sequence`, `lint_frame_with` | its verdict agrees with what the decoder does |
| Registry, packet handle (`registry.rs`, `lib.rs`) | one pending packet, end of stream | `probe_cvid`, `send_packet`, `receive_frame`, `flush`, `reset` | each packet answered once, in order; the probe agrees with the parser |
| FILM demuxer (`film.rs`) | sample table, cursor of `Samples` | two parsers, row accessors, seek, duration, PCM helpers | the parsers agree; the seek finds the latest keyframe at or before the target; channels are not mixed |
| Colour conversion, errors (`yuv.rs`, `error.rs`) | none | per-pixel arithmetic | - |

How they interact: the encoder decodes each frame it emits with a
`CinepakDecoder` of its own and skips against that picture; it decides which
codebook entries to send from `rolling`, its record of what the receiver holds.
`encode_frame` routes to the same intra and inter workers a caller can also
call directly; keyframes reset the slot counters. With a target set, those
workers go through `encode_budget_frame`, which encodes several candidates from
a snapshot of the encoder's state. The second pass encodes with fresh encoders,
the pickers with one for each trial. Every strip is trained by
`build_codebooks_and_decisions`. The lint and the walkers read the headers and
chunks that the decoder reads, with their own code. A player reads a FILM file
with the demuxer and feeds its video samples to the packet handle, which holds
a decoder.

`PROJECT.json` lists the hazards line by line, each with the properties that
would notice it going wrong, or why there are none.

## 2. Modules

| Module | Models | Composed with |
|---|---|---|
| `Codebooks` | entries, books, codebook chunks, macroblock descriptors, painting of a block | extended by decoder and encoder |
| `CinepakDecoder` | a call of `decode_frame`, header by header and chunk by chunk, with every error return, and `reset` | `Codebooks` |
| `CinepakEncoder` | a call of `encode_intra`/`encode_inter`, strip by strip, the internal decoder and a receiver | `Codebooks` |
| `GopRouter` | keyframe scheduling, mixed with direct calls and failures | - |
| `Staleness` | the slot counters and the reclaiming of slots | extends `GopRouter` |
| `RateControl` | the budgeted frame: sweep, snapshots, second encode, accounts | - |
| `TwoPass` | grid, fixed window and adaptive window of the second pass | - |
| `Pickers` | uniform grid pickers, per-strip picker, round 8 | - |
| `Vectors` | distances, scans, centroids and scores of codebook entries | - |
| `Training` | the codebooks and decisions of one strip, pass by pass | extends `Vectors` |
| `VectorPayload` | packing and unpacking of flag words, by encoder, decoder and walkers | - |
| `Wire` | headers and codebook chunks as cells, parsed and written | - |
| `WireDecoder` | `decode_frame` as a reader of cells, recursive | extends `Wire` |
| `Walkers` | `FrameStrips`, `StripChunks`, `CodebookEntries`, nested by a caller; the probe | extends `WireDecoder` |
| `Lint` | the lint's verdict, element by element with the decoder's steps | extends `CinepakDecoder` |
| `PacketChannel` | abstract: what a decoder behind packets promises its caller | - |
| `PacketHandle` | the packet handle | implements `PacketChannel` (`INSTANCE ... WITH`) |
| `Film` | header chain and sample table, seek, duration, variant | - |
| `FilmAudio` | audio format and PCM chunks | extends `Film` |
| `Playback` | both parsers over a file, and a player that seeks | extends `FilmAudio`, `PacketHandle` |
| `CinepakEncoderProofs`, `RateControlProofs`, `VectorPayloadProofs` | their theorems | extend the module they are about |
| `DecoderProofs` | theorems about `CinepakDecoder` and `Lint` | extends `Lint` |
| `CodebookProofs` | theorems about how a codebook comes to be: `GopRouter`, `Staleness`, `Vectors` and `Training` | extends `Staleness`, `Training`, `RecursionLemmas` |
| `SearchesProofs` | theorems about `TwoPass` and `Pickers` | extends both, and `RecursionLemmas` |
| `PlaybackProofs` | theorems about `Film`, `FilmAudio`, `PacketHandle` and `Playback` | extends `Playback`, `RecursionLemmas` |
| `RecursionLemmas` | induction and definition by recursion, for sets and functions | - |
| `MC*` | small instances; `MCBytes` and `MCSearches` put several machines side by side | extend the modules they instantiate |

**Correspondence.** The variables carry, in comments, the names of the fields
and locals they stand for, and `PROJECT.json` maps each definition to its lines.
An action is a whole handler, or one turn of a handler's loop where something
else could happen between two turns (an error, another chunk, the next item of
an iterator). Variables called "history" in a comment are not in the code;
properties use them, guards never do.

*Decoder.* `BeginFrame` takes the carried books out of `self`, as the code does
(`decoder.rs:206`), drops a previous frame of another size and allocates a black
buffer. `BeginStrip` resolves and checks the rectangle. `CodebookChunk` and
`VectorChunk` take any chunk in any order, `EndStrip` checks what the whole strip
must have, unifies the mode and renders, `EndFrame` puts the state back. An
illegal element, or `Malformed`, is an error return: `Fail`. The bytes are the
environment's, so each step picks an element. An entry is reduced to a luma and
a chroma value and coordinates count macroblocks: the sizes of strips that are
no multiple of 4 are refused by the code and fall under `Malformed`; strips
whose origin is not a multiple of 4 are accepted by the code and left out.

*Encoder.* `EncodeStrip` chooses any trained books, macroblocks and reclaimed
slots that the types of the code allow, then models what the code decides from
them: full, selective, header-only or no chunk (`emit_codebook_chunk_one`), the
record made of it (`roll.set`), and the strip plan (`plan_strips`). Because
training is a free choice, the properties hold whatever it computes. A strip is
decoded by both decoders in the step that encodes it, into copies that only
`Deliver` makes current, so no wire need be kept. The receiver starts with
arbitrary codebooks: one that tunes in at a keyframe. `StripTooBig` and
`FrameTooBig` are the two errors after the rolling books have moved.

*Router and staleness.* One action for each method that touches the interval,
the position or the request. `RouteFails` is possible at any time. `Staleness`
joins each of them with what the call does to the counters: an inter frame
reclaims strip by strip, each from the counters the strip before left, and then
counts once; a call that fails in a strip has reset the slots of its strips and
counts nothing; a keyframe starts from `RollingCodebooks::default()`.

*Budget.* A candidate is its place in the grid; an encode of it yields any
outcome, but the same one when it is encoded again from the same state
(`Replay`). `carry` counts the encodes since the call began, so "restored" and
"not restored" can be told apart. `Trial`, `Commit` and `Fallback` are the sweep,
the second encode and the path where no candidate could be encoded.

*Two-pass.* A frame's length as a function of quality is any of a set of curves,
among them curves that are not monotone. An encode records its quality and those
of the frames before it, which is what makes a sequence decodable.

*Pickers.* What an option makes of a strip (its distortion and length, or a
failure) is any function, chosen at the start: an intra strip is trained on its
own rows, so its encode does not depend on the frame around it. `TryWhole` is a
turn of the uniform loops, `PickStrip` all trials of one strip and the second
search, `FallBack` and `AbandonCount` the two error paths, `AssembleFrame` and
`ReturnWhole` the comparisons. Costs are integers, the code's are `f64`.

*Training.* An entry is a vector of two luma dimensions and one chroma
dimension instead of four and two, with the code's integer arithmetic: division
towards zero, weights, saturating perturbation, the stable sort, and the order
in which ties are broken. One action is one pass of a loop: `Cut` one bisection,
`AddCentroid` one draw, `Lloyd`, `Refine` and `Polish` one iteration. What the
random generator yields is a free choice.

*Vector payload.* Flag words and indices are both words, so a reader that loses
its place reads one for the other. The encoder writes block by block; or the
payload is any sequence of words. The decoder reads it, then a walker.

*Wire and walkers.* A frame is a sequence of numbers, one for each header field
or entry component and one for each bit of a flag word; sizes count these
cells. `DecodeFrame` is the decoder's nest of loops as a recursive operator that
returns the items it takes and a verdict; `Walkers` has the iterators with one
action for each branch of `next`, and a caller who nests them and goes on after
an error. The buffer is a frame of the encoder, the same with one wrong cell, or
a beginning of it.

*Lint.* Each lint action is the conjunction of a decoder action and of what the
lint does with the same element. Only findings of severity error count, since
they decide `is_conformant()`.

*Handle.* Of the decoder inside, `inner` keeps the packets that its state is the
decode of; a packet that fails leaves it alone (a bad frame header) or empty.

*FILM and player.* A file is the fields the parsers look at and the number of
its bytes. `Open` is `FilmDemuxer::parse`, `WalkRow` one `Samples::next`. The
player is not in the library and marked external: it sends video samples in the
order of the table, polls, flushes and resets in any order, and restarts at the
row that `seek_keyframe_for_tick` returns.

## 3. Runs

| Run | Question | Result |
|---|---|---|
| `decoder` | does any sequence of headers, chunks, errors, size changes and resets break bounds, uniformity or the carried state? | no |
| `decoder_skip_mode` | is "should never happen" at `decoder.rs:747` so? | violated |
| `encoder` | does leaving out what the receiver should hold ever change the picture? | no, up to a failed call |
| `encoder_failed_call` | do the rolling books track the receiver after a failed call? | violated |
| `gop_router` | is the schedule kept, and are only idle slots recycled, over failures, requests, direct calls? | yes |
| `rate_control` | is the best trial returned with its own state, and do accounts converge? | yes |
| `rate_control_vintage` | does `vintage_compat` bound the strips of a budgeted frame? | violated |
| `vector_payload` | do the writer and all readers of a frame's bytes agree, and do the iterators end? | yes |
| `two_pass` | do the searches (second pass, pickers, training) find what they are meant to find? | yes; on curves that are not monotone the second pass finds a fitting quality |
| `two_pass_hold` | is a window on target held? | violated |
| `lint` | does the decoder accept what the lint passes? | yes, but for two cases the property names |
| `playback` | is a FILM file read alike by both parsers, seeked and played to its end through the handle? | yes |

`vector_payload` and `two_pass` each run several machines that share nothing;
one behaviour runs one of them.

### Properties

Decoder. `RenderInBounds`: drawing and copying stay inside both buffers.
`RestingBooksHaveTheirFrame`, `CommitTogether`: carried state is all or nothing.
`FrameIsUniform`: one mode a frame, no chroma in gray. `GapsAreBlack`: nothing of
an older picture shows in gaps between strips.

Encoder. `RollingMatchesDecoders`: the record of a book is what both decoders
hold in every slot the encoder may refer to. `SkipsAgainstShownPicture`: the
reference is what the receiver shows. `ShowsWhatWasMeant`: each strip decodes to
the trained entries and copied blocks its decisions meant. They are about
encoders no call of which has failed since the last keyframe;
`encoder_failed_call` shows why.

Router. `SeekIntervalIsKept`, `PromisedKeyframeComesFirst`. `NumberIsDistance`: a
routed frame is numbered by the frames that the router returned since its last
keyframe, over failing calls, changes of the interval and direct encodes.
Staleness. `ReclaimsIdleSlots`: a slot is recycled only after more inter frames
in a row than the threshold left it alone. `ShortGroupsReclaimNothing`: routed
groups of up to threshold + 2 frames recycle nothing, which is what the default
of 8 is for.

Budget. `ReturnedFrameIsCarried`, `BestThatFits`, `FittingFrameLeavesNoDeficit`.

Two-pass. `FramesFollowEachOther`, `HighestThatFits`, `FitsIfLowestFits`.

Pickers. `RankedByItsOwnCost`: the frame assembled strip by strip has the cost it
is ranked by, although measured on trials and encoded again with options found
by a second search. `NoWorseThanUniform`: greedy choices are as good as any
uniform frame, and the strip whose distortion is left out never reaches the
result of round 8.

Training. `CarriedIsFresh`: cached scores, distances, assignments and errors are
those of the state they belong to, after every pass and after a reverted split.
`NeverWorseThanTheCut`, `FewVectorsAreExact`, `DecisionsFitTheBooks`.

Payload. `ReadsWhatWasWritten`, `WalkerAgrees`: on cut codes and on any payload.

Bytes. `WalkersAgree`: the iterators hand out the items that the decoder takes,
up to the place where both find that the bytes do not parse. `ReadsWhatWasEncoded`,
`ProbeSeesTheFirstStrip`, and the liveness property `WalkEnds`.

Lint. `ConformantDecodes` names the only two refusals of a conformant frame: a
skip without a previous picture, and a mode that a strip without codebook chunks
took over and a later strip contradicts. `IntraStandsAlone`: a conformant intra
strip reads only entries its own chunks wrote. `LintKnowsTheMode`.

Playback. `ParsersAgree`; `SeekLandsOnLatest` compares the scan with its
definition and with the duration, in tables out of order; `ShowsItsChain`: a
frame returned after any seeks is the decode of exactly the samples from its
keyframe on; `StereoIsTwoMonos`; `ChannelSpec`, the abstract specification; and
the liveness property `PlaybackEnds`.

### Bounds

* `decoder`: frames of 1x1 and 1x2 macroblocks, so a frame can grow and shrink
  between calls; up to 2 strips, which is what relative coordinates, inherited
  books and modes need; coordinates 0 to 2, so rectangles can be empty,
  inverted, overlapping, gapped or outside; books of one slot, since slots are
  independent in every property here; three entries, one of them with chroma.
* `encoder`: one flavour of two slots, so a selective chunk of one slot is
  shorter than a full one and one of two is not; heights 1 and 3 with two strips
  requested, so the request exceeds the rows or leaves a remainder; colour and
  gray calls, and two entries that differ in chroma, which a gray call cannot
  train. The other flavour is treated alike by the same code.
* `gop_router`: intervals 0 (clamped to 1) to 4; the history counter is bounded
  by the interval. Two slots, calls for one or two of them, two strips a frame,
  a threshold of one and counters that saturate at two, so that a group of four
  frames may recycle, one of three may not, and a counter reaches its limit.
* `rate_control`: a grid of the three strip counts with one quality, frames of
  length 1 and 4 against budgets of 2, which only the short one fits, and 9, the
  largest count; accounts that saturate at 9, which three frames reach; caps of
  0 and 3, and no cap.
* `vector_payload`: flag words of 3 bits, so a two-bit code is cut in every
  second word; V4 blocks of 2 indices; up to 4 blocks and all payloads of up to
  4 words, whose words include ones that look like flags of all skips and all V4.
  Books of six slots in three groups of two, so that a group in the middle can be
  empty; four frames with whole and selective chunks of both modes, one and two
  strips; each of their cells replaced by small numbers and identifiers, and each
  of their beginnings. `MaxItems` is 40, more than any of these buffers gives
  (else `WalkEnds` would fail). `CHECK_DEADLOCK FALSE`: the programs end.
* `two_pass`: seven qualities with at most three trials (the code: 101 and
  eight; in both cases the trials suffice to exhaust the range), six curves, two
  of them not monotone, windows of 1 and 2 and up to 4 frames, hence frames
  before, at and past the point where the window is full. One and two strips,
  two options, and three outcomes or a failure for each strip and option, two of
  the outcomes of equal cost, in all combinations. Strips of one to four
  macroblocks, some of them skipped, books of two to four entries with the early
  exit from three on, with and without seeds, four settings of the options;
  some of the strips are such that the polish changes what is decided.
  `CHECK_DEADLOCK FALSE`: the searches end.
* `lint`: two slots, so a block can read past what a strip's own chunks define;
  two strips one above the other; one entry value, since the lint never looks at
  entries.
* `playback`: all tables of up to three rows out of five, so in any order and
  with equal time stamps; one table behind headers with each field wrong in turn
  and the file cut at and just before every boundary; all audio formats that the
  code tells apart; info words of three bits, so that time stamps run from 0 to 3
  and an inter frame at 3 reads as audio; two seeks, after which the player
  plays on. `CHECK_DEADLOCK FALSE`: the player stops.

The named bounds are `NumSlots`, `Slots`, `MaxStrips`, `Coords`, `MaxBlocks`,
`MaxFrames`, `MaxCount`, `MaxStale`, `MaxItems`, `MaxSeeks`, and the sets of
arguments; all are constants of the modules.

### Fairness

A library call runs to its end, and whether a caller ever calls again is not
for the code to say; most modules therefore assume no fairness and state no
liveness. Two do:

* `Walkers` (and `BytesSpec` around it) assumes weak fairness of `WalkNext`. The
  caller is a `for` loop over each iterator, which goes on as long as the
  iterator yields; what must end the loop is the iterator alone. `WalkEnds` is
  about a chunk size, cursor or fuse that would let it run for ever.
* `Playback` assumes that a call returns (`Open`, `WalkRow`, `WalkEnds`), and
  that a player who plays goes on: he sends what comes next, receives what is
  pending, flushes at the end of the table and asks for the rest after the flush.
  He is not assumed to seek, to send too early or to ask when nothing is there.
  `PlaybackEnds` then depends on the handle alone: on a pending packet that is
  taken whether or not it decodes, and on an end that is told after a flush.

### Refinement

`PacketHandle` implements `PacketChannel` with `accepted <- log`, `answered` the
length of the log less a pending packet, `ended <- eof`. The channel says that
packets are answered once each, in order, by a frame or an error of that very
packet, that nothing of before a reset is answered after it, and that the end is
told only after a flush. The run `playback` checks it under the player, and
`HandleImplementsChannel` proves it for every caller.

### Findings

1. `decoder.rs:747`: the comments say that a skip from a frame of the other mode
   cannot happen. A colour frame followed by an inter strip with a gray codebook
   chunk and a skip does it; the block is filled with zeros.
2. 4497: after an error in `finalise_strip` or `assemble_frame` the rolling books
   describe entries that were never sent; the next inter frame omits them.
3. 2583: the budget's candidate grid tries four strips also for options with
   `vintage_compat`, which promises at most three.
4. 2946: once the window is full, the projected sum covers one frame more than the
   target it is compared with; a window exactly on target is bisected with no
   budget left and gets the lowest quality.

Disagreements seen while modelling that no run states.

* Router and budget. `gop_position` is documented to be the number of inter
  frames since the keyframe, or 0 when a keyframe is due; it is 1 right after a
  keyframe, also when an interval of 1 makes the next frame one (1868-1873
  against 2014). The effective budget's doc says nothing of the deficits that
  lines 2367-2381 subtract (1511-1512). A frame that leaves by the fallback of
  `encode_budget_frame` is not put on the accounts that are said to hold every
  frame (1773-1775 against 2446-2456), and `FittingFrameLeavesNoDeficit` is about
  the frames on the accounts.
* Searches. `bisect_q_for_window` promises the largest quality that fits, which
  needs monotone lengths (3193-3196). The comment at 1189-1195 allows for a
  per-strip frame that loses to a uniform one; in exact arithmetic it cannot. The
  fallback strip is called a dummy that will not win (1056), but counts as no
  distortion at all; `NoWorseThanUniform` shows why that does no harm in round 8.
  Rounds 6 to 8 try four strips and so always fail for options in vintage mode
  (`TryWhole`), while the per-strip picker ignores that limit.
* Router. The doc of `encode_frame_gray8` (1946-1948) asks for a `reset` or a
  forced keyframe when the pixel mode changes; `encode_frame_mode` makes the
  keyframe by itself (1981-1989). The doc of `frame_number_in_gop` (1452-1454) counts from
  the most recent keyframe, the code from the most recent one that it routed, so a
  direct `encode_intra` inside a group does not start the count again.
* Staleness. The comment at 3840-3842 says a slot is recycled at the threshold,
  the comparison is strict. The doc of `RollingCodebooks` (4512-4515) counts inter
  strips, the code frames. A slot that the first strip of a frame refers to may
  be recycled by the second, since counters move at the end of the frame; a frame
  that `assemble_frame` refuses has moved them all the same.
* Training. The doc of LBG leaves the splitter's entry in place, the code moves
  both; that of `median_cut_seeded` lets idle slots keep the seed, but LBG takes
  idle slots as donors. The comment at 4127 says that unused slots stay as LBG
  left them, which holds for one pass of the polish, not for two, since a slot
  used in the first may be unused in the second.
* FILM. `variant` never returns `Standard`. The handle calls `decode_frame`
  although FILM frames are documented to be deviant. An inter frame with the
  largest time stamp reads as audio. `FilmDemuxer::parse` multiplies the number
  of rows unchecked (`film.rs:1154`) where the other parser checks (765). The split
  of a stereo chunk takes an empty chunk, which its doc (559) excludes.
* `lint_sequence` is said to report what depends on an earlier frame at the start
  of a sequence, but an inter strip without codebook chunks passes there
  (`lint.rs:456-464`). `FrameStrips::next` has a comment about a saturating
  addition (`header.rs:370-375`) that the code does not make.

## 4. Proofs

TLAPS proves, for all values of the constants under the named assumptions:

* `DecoderProofs`: of the decoder `DecoderTypeCorrect`, `DecoderRendersInBounds`,
  `DecoderKeepsNoTornBooks`, `DecoderFramesAreUniform`, `DecoderGapsAreBlack`,
  `DecoderCommitsTogether`; of the lint `LintImplementsDecoder`,
  `LintTracksTheMode`, `ConformantFramesDecode`, `ConformantIntraStripsStandAlone`.
* `CinepakEncoderProofs`: `EncoderTypeCorrect`, `EncoderKnowsTheDecoders`,
  `EncoderSkipsAgainstShownPicture`, `ReceiverShowsWhatWasMeant`,
  `EncoderStripsTileTheFrame` (no empty strip, whose `y_top` of zero the decoder
  would read as relative, no overlap, no rest).
* `CodebookProofs`: of the router `RouterTypeCorrect`, `RouterKeepsSeekInterval`,
  `RouterKeepsPromises`, `RouterNumbersFrames`; of the
  counters `EncoderReclaimsIdleSlots`, `ShortGroupsKeepTheirSlots`, and
  `StalenessImplementsRouter`, which carries the router's theorems over to them;
  of training `TrainingKeepsItsBooks`, `WhatIsCarriedIsFresh`, `NeverWorse`,
  `FewVectorsStayExact`, `BooksHoldEntries` (no centroid and no perturbed entry
  leaves the u8 and i8 ranges), `DecisionsFit`.
* `RateControlProofs`: `RateTypeCorrect`, `RateCarriesReturnedFrame`,
  `RateReturnsBest`, `RateConverges`.
* `SearchesProofs`: of the second pass `TwoPassTypeCorrect`, `TwoPassSequence`,
  `TwoPassFits`, `TwoPassFindsHighest`; of the pickers
  `StripFramesRankedByTheirCost`, `PickersBeatUniformFrames`.
* `PlaybackProofs`: `HandleImplementsChannel`, `PlaybackImplementsChannel`,
  `ParsersAlwaysAgree`, `SeeksLandOnLatest`, `FramesShowTheirChain`,
  `StereoIsAlwaysTwoMonos`.
* `VectorPayloadProofs`: `ReadsWhatIsWritten`, `WalkersReadAlike`, `WalkerInvariant`.

The type invariants, the tiling of the frame by strips and the numbers of the
frames in their groups are proved and no longer run: the proofs cover every
instance a run could.

Assumptions. `CodebooksAssumption`: at least one slot; entries closed under the
loss of chroma. `DecoderAssumption`, `EncoderAssumption`, `RouterAssumption`,
`RateAssumption`, `TwoPassAssumption`, `PickerAssumption`, `HandleAssumption`:
sizes and requests are positive, lists of candidates are not empty, and `None` or
`NoFrame` is no value of another type; for the two-pass control also that the
grid ascends from 0 (as that of `encode_at_target_bytes` does) and that halving
the number of qualities `Trials` times leaves none undecided (`Undecided`; the
code: 101 qualities and 8 trials). `LintAssumption`: a block has quadrants, and
`None` is no pinned mode. `StalenessAssumption`: counters saturate above the
threshold. `VectorAssumption` in `VectorPayload`: a flag word has two bits at
least and a V4 block one index; in `Vectors`: there is a luma dimension, and the
i8 range lies on both sides of zero. `TrainingAssumption`: the vectors of a strip and the books of the frame
before are entries of its pixel mode, a book has the size asked for, of one slot
at least. `validate_opts` refuses other sizes (4649-4656); gray blocks are sampled
without chroma, and a gray strip is never given a book of colours: a gray inter
frame needs a gray picture before it, and a gray intra frame drops the books
(2080, 2184-2210). `FilmAssumption`, `FilmNoneAssumption`,
`PlaybackAssumption`, `PlaybackNoneAssumption`: info words have two bits at
least; a file has the rows that its bytes have room for. TLC evaluates all of
them in the runs, and those of the modules that are only model-checked.

Induction over data. The provers cannot instantiate the library's induction
theorems, whose parameter is an operator. `RecursionLemmas` states induction for
a set of numbers and recursion for a step that is a function, and derives both
from the well-foundedness of the naturals. With them the proofs about sums
(`TotalsCompare`), the halving of a range (`Undecided`) and the scans of a table
(`LatestIsLatest`) are for every length. A
scan that a pass of training makes (`Nearest`, `Scan`, `Recentred`, `TotalSse`) is
shown equal to a closed form once (`NearestIsFirst`, `ScanIs`, `RecentredIs`, `TotalIs`).

Inductive invariants, and why the properties are not inductive alone:

* `DecInv` adds `AtRest`, `NoOpenStrip`, `InCall` and `StripInside`. That a
  skip copies in bounds follows only from a previous frame having the size of
  the current one for the whole call, which `InCall` says; that a failed call
  leaves no torn state, only from the carried books being absent during a call.
* `EncInv` adds `InterHasPrev` and `ReceiverFollows`: an inter frame in the
  making has a reference of its own size and mode, and the receiver one of that
  size. Its core is the lemma `EmitSound`, that each of the four ways to
  send a codebook leaves the record, the book decoded and, in every slot used,
  the trained book in agreement, and `StripDecodes`, which lifts this to a strip.
  `PlanInv` gives the strip cursor in closed form (`Below`), from the theorem
  of division.
* `RouterInv` adds `Schedule`: a position past zero is one more than the frames
  routed since the keyframe, and a promise is still pending in the state.
* `RateInv` is the loop invariant of the sweep: `smallest` is a shortest
  success, `bestFit` a best fitting one (`SmallestIsShortest`, `BestFitIsBest`),
  all trials started from the snapshot (`TrialsStartAlike`), and the budget is
  still that of the accounts (`SweepScope`).
* `TwoPassInv` says that the best trial so far is an encode of this frame after
  the frames chosen (`BestIsATrial`), and that the qualities told are those
  chosen (`QualitiesTold`).
* `TrainInv` says of each loop that what it carries is what it would be anew
  (`CutLoop`, `SpreadLoop`, `RefineLoop`, `PolishLoop`), and of each book done that
  it holds entries (`BooksFit`), is no worse than the one of median cut and, when
  there is room, exact (`BooksAreGood`). None of it stands alone. That the
  distances of k-means++ are fresh needs that a new centroid can only shorten
  them; that an exact book stays exact, that no draw repeats a vector (`Drawing`),
  that a draw is possible as long as some vector is no centroid, and that a pass
  of Lloyd leaves an exact book where it is, since the centroid of equal vectors
  is that vector (`LloydLoop`); that LBG makes nothing worse, that the scan
  reverted to is the one of the book reverted to. A bisection keeps all vectors
  of a cluster (`CountIn`) because a stable sort is a permutation.
* `SearchInv` is the invariant of bisection: what is at or below the best trial
  fits where lengths are monotone, what lies above `hi` does not, and the width
  of the range left is at most `Undecided[tries]`, so that the trials suffice.
* `PickInv` has, for the strips chosen so far, that each is the cheapest of the
  options that work (`ChosenSoFar`) and that what was measured is their
  distortion; for each count done, that the frame kept is ranked no higher than
  any uniform frame (`StripsBeat`, `WholeBeats`); and, what makes the fallback
  harmless, that where a strip fell back no uniform frame of that count can be
  encoded (`FallbackFails`). `TotalsCompare` turns cheapest strips into a
  cheapest frame; it is here that the header of each trial, which a frame has
  only once, must cancel.
* `StaleInv` says that a counter never exceeds the number of inter frames since
  its slot was last referred to, nor, without direct calls, the length of the
  group of pictures (`CountersLag`).
* `LintInv` relates the locals of the lint to those of the decoder, as long as it
  has found nothing: the mode it has pinned (`ModeIsTracked`), and the vector
  chunk and the slots that the strip's own chunks define (`StripIsTracked`).
* `PayloadInv` is a layout (`Layouts`): for each number of blocks, where the open
  flag word is, how many of its bits are used, and where the next index goes. What
  the encoder has written, with the open word and its group put at the end
  (`Image`), holds the code and the indices of each block at its places
  (`Encodes`); a word that is still open is not taken for an index, since all of
  it must be there to be one (`Grows`). The decoder is at the place of the layout
  that its own counters say, with a code cut or not (`BetweenGroups`, `InGroup`),
  and what it has read is a beginning of the blocks (`OutSoFar`).
* `WalkerInv` is for payloads that nobody laid out. A stop (`Stops`) is what the
  decoder knows between two groups: the next word, the blocks so far, and whether
  a code is cut. The stops follow one another as the words and indices between
  them say (`Follows`), and the decoder is at the end of their trail: at the last
  stop, inside the group after it, or returned or failed there (`Decoding`). The
  walker classifies a whole group at once and the decoder code by code; both go
  through the states of one classification (`Progress`). So the walker is at a
  stop of the trail, or, for mixed intra blocks, inside the group after one, and
  has failed only where the decoder has (`Walking`). That the payload of an
  encoder consists of words comes from `PayloadInv`.
* `WalkInv` has the demuxer and the slice as functions of the file and the
  entries walked as the first rows of the table. `PlayInv` says what the decoder
  in the handle holds: the rows from the last keyframe to the last one decoded,
  a packet that waits coming next (`RowsBehind`, `StartsAnew`, `InnerIsChain`).
* The refinement of the channel needs `HandleTypeOK` and `PendingIsLast`: a
  packet that waits is the last one accepted. Each action of the handle then maps
  to one of the channel.

Only model-checked: the properties of `Wire`, `WireDecoder` and `Walkers`
(`WalkersAgree`, `ReadsWhatWasEncoded`, `ProbeSeesTheFirstStrip`); and the four
findings, which are counterexamples. These three modules use recursive operators
(`DecodeStrips`, `ApplyGroup` and others), of which the provers cannot
reason. Liveness (`WalkEnds`, `PlaybackEnds`) is out of their reach, too.

## 5. Not modelled

* Pixels: sampling of vectors, the skip decision, the variance that moves the
  adaptive tolerance, colour conversion; inputs or free choices where a model
  needs them. Floating point: costs and the lambda's scaling are exact integers.
* The generator that seeds k-means++, whose draws are a free choice.
* `decode_deviant_frame`: the same decoder after another header. Time stamps and
  strides.
* The 0x3200 payload, which has one index for each block and no flags, and the
  iterators that resolve blocks to RGB.
* Widths of the wire's fields: values above 16 or 24 bits are cut or refused.
* `stats_pass`: fills a list for the caller.
* The lint's warnings, messages, offsets and vintage profile.
* Of FILM: bytes of the header fields, the duration in seconds, the offset of a
  sample in the file, a sum.
* Registration, the probe's answer without a packet, errors.
* A direct colour `encode_inter` after a gray frame, which is not refused but
  panics at a slice bound (4872).
* The order of the two flavours' reclaims, which touch different counters, and
  what a recycled slot's new centroid is.

## 6. Plan

Done, in this order: vocabulary, decoder, encoder, router, budget, payload,
two-pass, lint, and the proofs of the first three, the budget and the two-pass;
then FILM and its player, packet handle with channel and proof, wire and
walkers, staleness, pickers, training; then the proofs about staleness, lint,
the bisection, the FILM file and its player, the pickers, the payload of
vector chunks with its walkers, and training.

Left, in order of weight:

1. An abstract specification of the encoder, a channel that shows what was
   meant, which `CinepakEncoder` implements by a refinement mapping, and the
   deviant frame path of the decoder.
2. That every call of the two-pass control ends, under fairness of the steps
   within a call.
