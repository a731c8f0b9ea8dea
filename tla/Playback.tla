------------------------------- MODULE Playback -------------------------------
(***************************************************************************)
(* A FILM file played through the packet handle.  The header is parsed,    *)
(* the sample table is read a second time by the Samples walker, and then  *)
(* the video samples go to the handle in the order of the table, with      *)
(* seeks in between.                                                       *)
(*                                                                         *)
(* The player itself is not in the library: it follows what the comment of *)
(* seek_keyframe_for_tick asks of a caller (restart at the keyframe that   *)
(* is returned, decode what follows), sends and receives in any order, and *)
(* resets the handle when it seeks.                                        *)
(***************************************************************************)
EXTENDS FilmAudio, PacketHandle

CONSTANTS
    Files,      \* the files to play
    Targets,    \* the ticks to seek to
    MaxSeeks,   \* how often the player may seek
    Chunks      \* the audio chunks that a file may hold

\* The rows of a file are those that its bytes have room for, and a row that is
\* there can be a packet.
ASSUME PlaybackAssumption ==
    /\ Files \subseteq File
    /\ \A f \in Files :
         /\ f.size >= RowsAt(f) + f.entries * RowSize => f.entries <= Len(f.rows)
         /\ DOMAIN f.rows \subseteq PacketIds
    /\ Targets \subseteq Nat
    /\ MaxSeeks \in Nat
    /\ Chunks \subseteq Seq(Bytes)

ASSUME PlaybackNoneAssumption == None \notin Seq(Int)

VARIABLES
    file,       \* the file
    phase,      \* "open", "closed" (not played), "walk", "play", "done"
    demuxer,    \* the FilmDemuxer
    walked,     \* the entries the Samples walker has returned
    pos,        \* the player: the next row of the table
    seeks,      \* the player: the seeks so far
    failed      \* history: a packet has failed since the last keyframe

filmVars == <<file, demuxer, walked>>
playVars == <<pos, seeks, failed>>
vars == <<filmVars, phase, playVars, handleVars>>

Table == demuxer.samples

Init ==
    /\ file \in Files
    /\ phase = "open"
    /\ demuxer = None
    /\ walked = <<>>
    /\ pos = 1
    /\ seeks = 0
    /\ failed = FALSE
    /\ HandleInit

-----------------------------------------------------------------------------
\* Opening: the parser, then the walker.

\* What StabHeader::parse_chunk makes of the same file.
Slice ==
    IF FilmHeaderOK(file) /\ FdscOK(file, file.size - HeaderSize)
    THEN ParseChunk(file, file.size - HeaderSize - file.fdscLength)
    ELSE None

\* A file that does not parse is not played, nor one of another codec.
Open ==
    /\ phase = "open"
    /\ demuxer' = Parse(file)
    /\ phase' = IF demuxer' = None THEN "closed"
                ELSE IF Variant(demuxer') = "OutOfScope" THEN "closed" ELSE "walk"
    /\ UNCHANGED <<file, walked, playVars, handleVars>>

\* The byte offset of the walker in its slice.
Cursor == RowSize * Len(walked)

\* Samples::next
WalkRow ==
    /\ phase = "walk"
    /\ Slice # None
    /\ Cursor + RowSize <= Slice.bytes
    /\ LET r == file.rows[Cursor \div RowSize + 1] IN
         walked' = Append(walked, [index |-> Len(walked), record |-> r, kind |-> Kind(r)])
    /\ UNCHANGED <<file, demuxer, phase, playVars, handleVars>>

WalkEnds ==
    /\ phase = "walk"
    /\ Slice # None
    /\ Cursor + RowSize > Slice.bytes
    /\ phase' = "play"
    /\ UNCHANGED <<filmVars, playVars, handleVars>>

-----------------------------------------------------------------------------
\* Playing.

PacketAt(i) == [id |-> i, key |-> IsKeyframe(Table[i])]

VideoIsNext == pos \in VideoSamples(Table)

SendNext ==
    /\ phase = "play"
    /\ VideoIsNext
    /\ SendPacket(PacketAt(pos))
    /\ pos' = pos + 1
    /\ UNCHANGED <<filmVars, phase, seeks, failed>>

\* The player sends too early; it will send the same packet again.
SendTooEarly ==
    /\ phase = "play"
    /\ VideoIsNext
    /\ RefusePacket
    /\ UNCHANGED <<filmVars, phase, playVars>>

\* Audio rows go elsewhere.
SkipAudio ==
    /\ phase = "play"
    /\ pos \in AudioSamples(Table)
    /\ pos' = pos + 1
    /\ UNCHANGED <<filmVars, phase, seeks, failed, handleVars>>

GetFrame ==
    /\ phase = "play"
    /\ ReceiveFrame
    /\ failed' = (failed /\ ~pending.key)
    /\ UNCHANGED <<filmVars, phase, pos, seeks>>

GetError ==
    /\ phase = "play"
    /\ ReceiveError
    /\ failed' = TRUE
    /\ UNCHANGED <<filmVars, phase, pos, seeks>>

GetNothing ==
    /\ phase = "play"
    /\ ReceiveNothing
    /\ phase' = IF reply'.kind = "eof" THEN "done" ELSE phase
    /\ UNCHANGED <<filmVars, playVars>>

FlushAtEnd ==
    /\ phase = "play"
    /\ pos > Len(Table)
    /\ ~eof
    /\ Flush
    /\ UNCHANGED <<filmVars, phase, playVars>>

Seek ==
    /\ phase \in {"play", "done"}
    /\ seeks < MaxSeeks
    /\ \E target \in Targets :
         /\ SeekKeyframe(Table, target) # None
         /\ pos' = SeekKeyframe(Table, target)
    /\ seeks' = seeks + 1
    /\ phase' = "play"
    /\ failed' = FALSE
    /\ Reset
    /\ UNCHANGED filmVars

Next ==
    \/ Open
    \/ WalkRow
    \/ WalkEnds
    \/ SendNext
    \/ SendTooEarly
    \/ SkipAudio
    \/ GetFrame
    \/ GetError
    \/ GetNothing
    \/ FlushAtEnd
    \/ Seek

\* A call returns, and a player that plays goes on: it sends what comes next,
\* receives what is pending, flushes at the end and asks for the rest.  It
\* need not seek, nor ask when nothing is there.
Fairness ==
    /\ WF_vars(Open \/ WalkRow \/ WalkEnds)
    /\ WF_vars(SendNext \/ SkipAudio \/ FlushAtEnd)
    /\ WF_vars(GetFrame \/ GetError)
    /\ WF_vars(eof /\ GetNothing)

Spec == Init /\ [][Next]_vars /\ Fairness

-----------------------------------------------------------------------------
\* Properties.

\* The first entry of the walker that is audio and not well formed.
FirstBadEntry ==
    LET bad == {i \in AudioSamples(Table) : ~walked[i].kind.wellFormed} IN
    IF bad = {} THEN None ELSE Min(bad)

\* FilmDemuxer::parse and the walk with StabHeader::parse_chunk and Samples,
\* two readings of one file, agree: either both refuse it or they give the same
\* base and rows, the kind of each row being what the row's methods say of it,
\* and the same first row of bad audio.
ParsersAgree ==
    /\ phase \in {"closed", "walk"} => (demuxer = None <=> Slice = None)
    /\ phase = "play" =>
         /\ demuxer.base = Slice.base
         /\ Table = [i \in DOMAIN walked |-> walked[i].record]
         /\ \A i \in DOMAIN walked :
              LET e == walked[i] IN
              /\ e.index = i - 1
              /\ e.kind.kind = "Audio" <=> i \in AudioSamples(Table)
              /\ e.kind.kind = "VideoKeyframe" <=> i \in Keyframes(Table)
              /\ i \in VideoSamples(Table) =>
                   e.kind.ts = Ticks(Table[i]) /\ e.kind.next = Table[i].info2
         /\ FirstMalformedAudio(Table) = FirstBadEntry

\* A seek lands on a keyframe at or before its target that no other one at or
\* before it follows in time, however the table is ordered, and finds one
\* whenever there is one; a later target never gives an earlier keyframe, and
\* no keyframe lies past the end that the duration tells, which is that of the
\* highest time stamp (seek_keyframe_for_tick, duration_ticks).
SeekLandsOnLatest ==
    (phase = "play" /\ log = <<>>) =>
        \A target \in Targets :
            LET k == SeekKeyframe(Table, target)
                before == {i \in Keyframes(Table) : Ticks(Table[i]) <= target}
            IN /\ k = None <=> before = {}
               /\ k # None =>
                    /\ k \in before
                    /\ \A i \in before : Ticks(Table[i]) <= Ticks(Table[k])
                    /\ \A i \in before : i < k => Ticks(Table[i]) < Ticks(Table[k])
                    /\ Ticks(Table[k]) <= DurationTicks(Table)
                    /\ \A later \in Targets : later >= target =>
                         Ticks(Table[SeekKeyframe(Table, later)]) >= Ticks(Table[k])

\* The samples that the picture of row i is made of: from the last keyframe on.
Chain(t, i) ==
    {j \in VideoSamples(t) :
        /\ j <= i
        /\ \E k \in Keyframes(t) : k <= i
        /\ \A k \in Keyframes(t) : k <= i => k <= j}

\* A picture is the decode of these samples, in this order.
Shows(p, rows) ==
    /\ {p[n] : n \in DOMAIN p} = rows
    /\ \A m, n \in DOMAIN p : m < n => p[m] < p[n]

\* A frame that is returned shows the decode of exactly the samples from its
\* keyframe on, in order, whatever was played, refused, reset or left pending
\* before, unless a packet since that keyframe has failed
\* (seek_keyframe_for_tick, CinepakDecoderHandle).
ShowsItsChain ==
    (reply.kind = "frame" /\ ~failed) => Shows(picture, Chain(Table, reply.of.id))

\* Two channels are two times one: a stereo chunk decodes to the samples of its
\* halves, one after the other, and not at all when the halves do not decode;
\* the helper that interleaves bytes and the decoding of bytes commute; and the
\* duration told from the table is that of the samples (decode_chunk_to_i16, the
\* pcm_ helpers, audio_duration_seconds).
StereoIsTwoMonos ==
    (phase = "walk" /\ walked = <<>> /\ AudioFormat(demuxer).kind = "LinearPcm") =>
        LET fmt == AudioFormat(demuxer)
            Mono(s) == DecodeChunk([fmt EXCEPT !.channels = 1], s)
        IN \A chunk \in Chunks :
            LET out == DecodeChunk(fmt, chunk) IN
            /\ (fmt.channels = 2 /\ fmt.bits \in {8, 16}) =>
                 LET left == Mono(Half(chunk, 1))
                     right == Mono(Half(chunk, 2))
                 IN out = IF left = None \/ right = None \/ Len(chunk) % 2 # 0 THEN None
                          ELSE Alternate(left, right)
            /\ (fmt.channels = 2 /\ fmt.bits = 8 /\ out # None) =>
                 out = Decode8(Stereo8(chunk, Len(chunk)), fmt.sign, Len(chunk))
            /\ (out # None /\ chunk # <<>> /\ Len(chunk) = AudioBytes(Table) /\ fmt.rate # 0) =>
                 LET seconds == AudioSeconds(demuxer) IN
                 Len(out) * seconds[2] = seconds[1] * fmt.channels * fmt.rate

\* A player that goes on reaches the end of the file, although packets fail,
\* are refused when sent too early, and seeks lead back: the handle keeps no
\* packet that it cannot decode (receive_frame, flush).
PlaybackEnds == phase = "play" ~> phase = "done"

=============================================================================
