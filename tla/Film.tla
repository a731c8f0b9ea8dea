--------------------------------- MODULE Film ---------------------------------
(***************************************************************************)
(* The Sega FILM container: the header chain FILM, FDSC, STAB, the sample  *)
(* table that follows it, and what is read off the table: seeking, the     *)
(* duration, the variant of the codec.  Pure operators; Playback uses them.*)
(*                                                                         *)
(* A file is abstracted to the fields the parsers look at and the number   *)
(* of its bytes that are there.  A row of the table has its offset and     *)
(* length in the sample data, its first info word, of InfoBits bits (the   *)
(* code: 32), and its second one.                                          *)
(***************************************************************************)
EXTENDS Integers, Sequences, SequencesExt, FiniteSets

CONSTANTS
    None,
    InfoBits    \* the width of the info words of a row

ASSUME FilmAssumption == InfoBits \in Nat /\ InfoBits > 1

-----------------------------------------------------------------------------
\* One row of the table (SampleRecord, SampleKind).

\* Two to the power of n.
Power[n \in 0 .. InfoBits] == IF n = 0 THEN 1 ELSE 2 * Power[n - 1]

\* The info word of audio, and the top bit that marks an inter frame.
AudioMark == Power[InfoBits] - 1

InterBit == Power[InfoBits - 1]

Rows == [offset : Nat, length : Nat, info1 : 0 .. AudioMark, info2 : 0 .. AudioMark]

IsAudio(r) == r.info1 = AudioMark

IsKeyframe(r) == ~IsAudio(r) /\ r.info1 < InterBit

Ticks(r) == r.info1 % InterBit

\* SampleRecord::is_well_formed_audio
IsWellFormedAudio(r) == IsAudio(r) /\ r.info2 = 1

\* SampleKind::from_record: the same rows, classified by a second piece of code.
Kind(r) ==
    IF IsAudio(r) THEN [kind |-> "Audio", wellFormed |-> IsWellFormedAudio(r)]
    ELSE [kind |-> IF r.info1 < InterBit THEN "VideoKeyframe" ELSE "VideoInter",
          ts |-> r.info1 % InterBit, next |-> r.info2]

-----------------------------------------------------------------------------
\* The header chain.

\* What the parsers look at in a file.
File ==
    [film : BOOLEAN, headerLength : Nat, version : STRING,
     fdsc : BOOLEAN, fdscLength : Nat, codec : STRING,
     channels : Nat, bits : Nat, compression : Nat, rate : Nat,
     stab : BOOLEAN, stabLength : Nat, base : Nat, entries : Nat,
     rows : Seq(Rows), size : Nat]

\* The parsed FDSC chunk, the demuxer, and the slice of rows found by offset.
FdscFields == [codec : STRING, channels : Nat, bits : Nat, compression : Nat, rate : Nat]

Demuxer ==
    [headerLength : Nat, version : STRING, fdsc : FdscFields, base : Nat, samples : Seq(Rows)]

SliceOfRows == [base : Nat, bytes : Nat]

ASSUME FilmNoneAssumption == None \notin Nat \cup Demuxer \cup SliceOfRows

HeaderSize == 16

FullFdsc == 32

ShortFdsc == 20

RowSize == 16

\* The bytes of the file before the rows.
RowsAt(f) == HeaderSize + f.fdscLength + HeaderSize

\* FilmHeader::parse accepts.
FilmHeaderOK(f) == f.size >= HeaderSize /\ f.film /\ f.headerLength >= HeaderSize

\* Fdsc::parse accepts, given the bytes that are left.
FdscOK(f, left) ==
    /\ left >= 8
    /\ f.fdsc
    /\ f.fdscLength \in {ShortFdsc, FullFdsc}
    /\ left >= f.fdscLength

\* The abbreviated chunk has no audio fields; they read as zero.
Fdsc(f) ==
    LET Audio(x) == IF f.fdscLength = ShortFdsc THEN 0 ELSE x IN
    [codec |-> f.codec, channels |-> Audio(f.channels), bits |-> Audio(f.bits),
     compression |-> Audio(f.compression), rate |-> Audio(f.rate)]

\* FilmDemuxer::parse; None stands for the error.  The lengths that the FILM
\* and STAB headers state are not used to find anything.
Parse(f) ==
    IF /\ FilmHeaderOK(f)
       /\ FdscOK(f, f.size - HeaderSize)
       /\ f.size >= RowsAt(f)
       /\ f.stab
       /\ f.size >= RowsAt(f) + f.entries * RowSize
    THEN [headerLength |-> f.headerLength, version |-> f.version, fdsc |-> Fdsc(f),
          base |-> f.base, samples |-> SubSeq(f.rows, 1, f.entries)]
    ELSE None

\* Mutant of ParseChunk: the stated length of the chunk bounds the rows.
ParseChunkByLength(f, left) ==
    IF left >= HeaderSize /\ f.stab /\ f.stabLength >= HeaderSize + f.entries * RowSize
    THEN [base |-> f.base, bytes |-> f.entries * RowSize] ELSE None

\* StabHeader::parse_chunk on the bytes left after the FDSC chunk: the size of
\* the slice of rows it returns, or None.
ParseChunk(f, left) ==
    IF left >= HeaderSize /\ f.stab /\ left >= HeaderSize + f.entries * RowSize
    THEN [base |-> f.base, bytes |-> f.entries * RowSize] ELSE None

-----------------------------------------------------------------------------
\* What is read off the table.  Indices count from one.

VideoSamples(t) == {i \in DOMAIN t : ~IsAudio(t[i])}

AudioSamples(t) == {i \in DOMAIN t : IsAudio(t[i])}

Keyframes(t) == {i \in VideoSamples(t) : IsKeyframe(t[i])}

\* first_malformed_audio_sample
FirstMalformedAudio(t) ==
    LET bad == {i \in AudioSamples(t) : ~IsWellFormedAudio(t[i])} IN
    IF bad = {} THEN None ELSE Min(bad)

\* One scan of the table, in its order, for the candidate with the highest time
\* stamp: the first of them among equals.
Latest(t, candidates) ==
    LET best[i \in 0 .. Len(t)] ==
            IF i = 0 THEN None
            ELSE IF /\ i \in candidates
                    /\ best[i - 1] = None \/ Ticks(t[i]) > Ticks(t[best[i - 1]])
            THEN i ELSE best[i - 1]
    IN best[Len(t)]

\* Mutant of SeekKeyframe: inter frames are candidates, too.
SeekAnySample(t, target) == Latest(t, {i \in VideoSamples(t) : Ticks(t[i]) <= target})

\* Mutant of SeekKeyframe: the scan ends at the first keyframe past the target,
\* as if the table were sorted.
SeekSorted(t, target) ==
    LET past == {i \in Keyframes(t) : Ticks(t[i]) > target}
        scanned == {i \in Keyframes(t) : \A p \in past : i < p}
    IN IF scanned = {} THEN None ELSE Max(scanned)

\* seek_keyframe_for_tick
SeekKeyframe(t, target) == Latest(t, {i \in Keyframes(t) : Ticks(t[i]) <= target})

SaturatingAdd(a, b) == IF a + b <= AudioMark THEN a + b ELSE AudioMark

\* duration_ticks: the end of the video sample with the highest time stamp.
DurationTicks(t) ==
    LET last == Latest(t, VideoSamples(t)) IN
    IF last = None THEN None ELSE SaturatingAdd(Ticks(t[last]), t[last].info2)

\* FilmDemuxer::variant; no file is "Standard".
Variant(d) ==
    IF d.fdsc.codec # "cvid" THEN "OutOfScope"
    ELSE IF d.version = "null" THEN "DeviantLemmings3do" ELSE "DeviantSaturn"

=============================================================================
