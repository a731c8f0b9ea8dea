---------------------------- MODULE PlaybackProofs ----------------------------
(***************************************************************************)
(* Proofs about the packet handle, for any set of packets and whatever the *)
(* decoder inside makes of them, and about a FILM file played through it,  *)
(* for every set of files, targets and widths of the info words.           *)
(***************************************************************************)
EXTENDS Playback, RecursionLemmas

-----------------------------------------------------------------------------
\* The packet handle.

HandleInv == HandleTypeOK /\ PendingIsLast

\* The handle's state is well formed and the packet that waits is the last one
\* accepted (CinepakDecoderHandle).
LEMMA HandleInvariant == HandleSpec => []HandleInv
<1>0. <<>> \in Seq(PacketIds) /\ <<>> \in Seq(Packet)
  OBVIOUS
<1>1. HandleInit => HandleInv
  BY <1>0 DEF HandleInit, HandleInv, HandleTypeOK, PendingIsLast
<1>2. HandleInv /\ [HandleNext]_handleVars => HandleInv'
  <2> SUFFICES ASSUME HandleInv, [HandleNext]_handleVars PROVE HandleInv'
    OBVIOUS
  <2> USE DEF HandleInv, HandleTypeOK, PendingIsLast
  <2>1. ASSUME NEW p \in Packet, SendPacket(p) PROVE HandleInv'
    BY <2>1 DEF SendPacket
  <2>2. CASE RefusePacket
    BY <2>2 DEF RefusePacket
  <2>3. CASE ReceiveFrame
    <3>1. pending \in Packet
      BY <2>3 DEF ReceiveFrame
    <3>2. pending.id \in PacketIds
      BY <3>1 DEF Packet
    <3>3. inner' \in Seq(PacketIds)
      BY <2>3, <3>2 DEF ReceiveFrame, Decoded
    <3> QED
      BY <2>3, <3>3 DEF ReceiveFrame, Taken
  <2>4. CASE ReceiveError
    BY <1>0, <2>4 DEF ReceiveError, Taken
  <2>5. CASE ReceiveNothing
    BY <2>5 DEF ReceiveNothing
  <2>6. CASE Flush
    BY <2>6 DEF Flush
  <2>7. CASE Reset
    BY <1>0, <2>7 DEF Reset, AfterReset
  <2>8. CASE UNCHANGED handleVars
    BY <2>8 DEF handleVars
  <2> QED
    BY <2>1, <2>2, <2>3, <2>4, <2>5, <2>6, <2>7, <2>8 DEF HandleNext
<1> QED
  BY <1>1, <1>2, PTL DEF HandleSpec

\* Every step of the handle is a step of the channel or leaves it alone.
LEMMA HandleSteps ==
    ASSUME HandleInv, HandleInv', [HandleNext]_handleVars
    PROVE  [Channel!Next]_(Channel!vars)
<1> USE HandleAssumption DEF HandleInv, HandleTypeOK, PendingIsLast
<1> USE DEF Channel!vars, Channel!Next, Channel!Reply, Reply
<1>1. NoPacket \notin Packet
  BY DEF Packet
<1>2. ASSUME NEW p \in Packet, SendPacket(p) PROVE Channel!Accept
  <2>1. log' = Append(log, p) /\ Len(log') = Len(log) + 1
    BY <1>2 DEF SendPacket
  <2>2. pending = NoPacket /\ pending' # NoPacket /\ eof' = eof
    BY <1>2, <1>1 DEF SendPacket
  <2>3. reply' = Reply("ok", NoPacket)
    BY <1>2 DEF SendPacket
  <2> QED
    BY <2>1, <2>2, <2>3 DEF Channel!Accept
<1>3. ASSUME RefusePacket PROVE Channel!Refuse
  BY <1>3 DEF RefusePacket, Channel!Refuse
<1>4. ASSUME pending # NoPacket, pending' = NoPacket, log' = log, eof' = eof,
             NEW kind \in Channel!Answers, reply' = Reply(kind, pending)
      PROVE  Channel!Answer
  <2>1. Len(log) > 0 /\ Len(log) \in Nat
    BY <1>4
  <2>2. log[(Len(log) - 1) + 1] = pending
    BY <1>4, <2>1
  <2> QED
    BY <1>4, <2>1, <2>2 DEF Channel!Answer
<1>5. ASSUME ReceiveFrame PROVE Channel!Answer
  <2>1. "frame" \in Channel!Answers
    BY DEF Channel!Answers
  <2> QED
    BY <1>4, <1>5, <2>1 DEF ReceiveFrame, Taken
<1>6. ASSUME ReceiveError PROVE Channel!Answer
  <2>1. "error" \in Channel!Answers
    BY DEF Channel!Answers
  <2> QED
    BY <1>4, <1>6, <2>1 DEF ReceiveError, Taken
<1>7. ASSUME ReceiveNothing PROVE Channel!Starve
  BY <1>7 DEF ReceiveNothing, Channel!Starve
<1>8. ASSUME Flush PROVE Channel!End
  BY <1>8 DEF Flush, Channel!End
<1>9. ASSUME Reset PROVE Channel!Restart
  BY <1>9 DEF Reset, AfterReset, Channel!Restart
<1>10. ASSUME UNCHANGED handleVars PROVE UNCHANGED Channel!vars
  BY <1>10 DEF handleVars
<1> QED
  BY <1>2, <1>3, <1>5, <1>6, <1>7, <1>8, <1>9, <1>10 DEF HandleNext

\* The handle implements the packet channel: each accepted packet is answered
\* once and in order, by its own frame or error, the end is told after a flush
\* only, and nothing survives a reset (send_packet, receive_frame, flush, reset).
THEOREM HandleImplementsChannel == HandleSpec => ChannelSpec
<1>1. HandleInit => Channel!Init
  BY DEF HandleInit, Channel!Init, Channel!Reply, Reply
<1>2. HandleInv /\ HandleInv' /\ [HandleNext]_handleVars => [Channel!Next]_(Channel!vars)
  BY HandleSteps
<1> QED
  BY <1>1, <1>2, HandleInvariant, PTL DEF HandleSpec, ChannelSpec, Channel!Spec

-----------------------------------------------------------------------------
\* The parser and the walker.

\* What the Samples walker returns of row i.
Entry(i) == [index |-> i - 1, record |-> file.rows[i], kind |-> Kind(file.rows[i])]

\* The demuxer is what the parser made of the file, and the walker has returned
\* the rows of the table up to a point.
WalkInv ==
    /\ file \in Files
    /\ phase \in {"open", "closed", "walk", "play", "done"}
    /\ phase # "open" => demuxer = Parse(file)
    /\ phase \in {"open", "closed"} => walked = <<>>
    /\ phase \in {"walk", "play", "done"} => demuxer # None
    /\ walked = [i \in 1 .. Len(walked) |-> Entry(i)]
    /\ Len(walked) \in 0 .. file.entries
    /\ phase \in {"play", "done"} => Len(walked) = file.entries

\* The fields that tell how many rows there are.
LEMMA FileType ==
    ASSUME NEW f \in Files
    PROVE  /\ f.size \in Nat /\ f.fdscLength \in Nat /\ f.entries \in Nat /\ f.base \in Nat
           /\ f.headerLength \in Nat /\ f.version \in STRING /\ f.rows \in Seq(Rows)
           /\ Fdsc(f) \in FdscFields
<1>1. f \in File
    BY PlaybackAssumption
<1> QED
    BY <1>1 DEF File, Fdsc, FdscFields

\* What the parser makes of a file that it accepts.
LEMMA ParsedType ==
    ASSUME NEW f \in Files, Parse(f) # None
    PROVE  /\ Parse(f) \in Demuxer
           /\ Parse(f).base = f.base
           /\ f.entries <= Len(f.rows)
           /\ Parse(f).samples \in Seq(Rows)
           /\ Len(Parse(f).samples) = f.entries
           /\ \A i \in 1 .. f.entries : Parse(f).samples[i] = f.rows[i]
<1>1. f.entries <= Len(f.rows)
    BY PlaybackAssumption DEF Parse
<1>2. SubSeq(f.rows, 1, f.entries) \in Seq(Rows)
      /\ Len(SubSeq(f.rows, 1, f.entries)) = f.entries
      /\ \A i \in 1 .. f.entries : SubSeq(f.rows, 1, f.entries)[i] = f.rows[i]
    BY <1>1, FileType
<1>3. Parse(f) = [headerLength |-> f.headerLength, version |-> f.version, fdsc |-> Fdsc(f),
                  base |-> f.base, samples |-> SubSeq(f.rows, 1, f.entries)]
    BY DEF Parse
<1> QED
    BY <1>1, <1>2, <1>3, FileType DEF Demuxer

\* The two parsers refuse the same files, and find the same base and as many
\* rows in the others.
LEMMA SliceIsTable ==
    ASSUME file \in Files
    PROVE  /\ Parse(file) = None <=> Slice = None
           /\ Slice # None => Slice.base = file.base /\ Slice.bytes = RowSize * file.entries
<1> DEFINE left == file.size - HeaderSize - file.fdscLength
<1> DEFINE rows == [base |-> file.base, bytes |-> file.entries * RowSize]
<1>1. left >= HeaderSize <=> file.size >= RowsAt(file)
    BY FileType DEF RowsAt, HeaderSize
<1>2. left >= HeaderSize + file.entries * RowSize
        <=> file.size >= RowsAt(file) + file.entries * RowSize
    BY SMTT(30), FileType DEF RowsAt, HeaderSize, RowSize
<1>3. file.entries * RowSize \in Nat /\ file.entries * RowSize = RowSize * file.entries
    BY FileType DEF RowSize
<1>4. rows \in SliceOfRows /\ rows # None
    BY <1>3, FileType, FilmNoneAssumption DEF SliceOfRows
<1> DEFINE there == /\ FilmHeaderOK(file)
                    /\ FdscOK(file, file.size - HeaderSize)
                    /\ file.size >= RowsAt(file)
                    /\ file.stab
                    /\ file.size >= RowsAt(file) + file.entries * RowSize
<1>5. Slice = IF there THEN rows ELSE None
    BY <1>1, <1>2 DEF Slice, ParseChunk
<1>6. there => Parse(file) # None
  <2>1. SUFFICES ASSUME there, Parse(file) = None PROVE FALSE
      OBVIOUS
  <2>2. file.entries <= Len(file.rows)
      BY <2>1, PlaybackAssumption
  <2>3. SubSeq(file.rows, 1, file.entries) \in Seq(Rows)
      BY <2>2, FileType
  <2>4. Parse(file) \in Demuxer
      BY <2>1, <2>3, FileType DEF Parse, Demuxer
  <2> QED
      BY <2>1, <2>4, FilmNoneAssumption
<1>7. ~there => Parse(file) = None
    BY DEF Parse
<1> HIDE DEF there, rows
<1> QED
    BY <1>3, <1>4, <1>5, <1>6, <1>7 DEF rows

\* The walker gives back the table row by row.
LEMMA WalkInvariant == Spec => []WalkInv
<1>1. Init => WalkInv
  <2> SUFFICES ASSUME Init PROVE WalkInv
      OBVIOUS
  <2>1. file.entries \in Nat
      BY FileType DEF Init
  <2> QED
      BY <2>1 DEF Init, WalkInv
<1>2. WalkInv /\ [Next]_vars => WalkInv'
  <2> SUFFICES ASSUME WalkInv, [Next]_vars PROVE WalkInv'
      OBVIOUS
  <2> USE DEF WalkInv
  <2>0. file' = file /\ file.entries \in Nat
      BY FileType DEF Next, Open, WalkRow, WalkEnds, SendNext, SendTooEarly, SkipAudio, GetFrame,
             GetError, GetNothing, FlushAtEnd, Seek, vars, filmVars
  <2>1. CASE Open
      BY <2>0, <2>1 DEF Open, Entry
  <2>2. CASE WalkRow
    <3>1. Slice # None /\ Slice.bytes = RowSize * file.entries /\ phase = "walk"
        BY <2>2, SliceIsTable DEF WalkRow
    <3>2. Len(walked) + 1 <= file.entries /\ Cursor \div RowSize = Len(walked)
      <4>1. \A n, m \in Nat : 16 * n + 16 <= 16 * m => n + 1 <= m /\ (16 * n) \div 16 = n
          OBVIOUS
      <4>2. 16 * Len(walked) + 16 <= 16 * file.entries
          BY <3>1, <2>2 DEF WalkRow, Cursor, RowSize
      <4>3. Len(walked) \in Nat /\ Cursor = 16 * Len(walked) /\ RowSize = 16
          BY DEF Cursor, RowSize
      <4> QED
          BY <4>1, <4>2, <4>3, <2>0
    <3>3. walked' = Append(walked, Entry(Len(walked) + 1))
        BY <3>2, <2>2 DEF WalkRow, Entry
    <3>4. walked' = [i \in 1 .. Len(walked) + 1 |-> Entry(i)] /\ Len(walked') = Len(walked) + 1
      <4> DEFINE n == Len(walked)
      <4> DEFINE w == [i \in 1 .. n |-> Entry(i)]
      <4>1. Append(w, Entry(n + 1)) = [i \in 1 .. n + 1 |-> Entry(i)] /\ n \in Nat
        <5> HIDE DEF n
        <5> QED
          BY <2>0 DEF n
      <4> QED
        BY <3>3, <4>1
    <3> QED
        BY <2>0, <2>2, <3>1, <3>2, <3>4 DEF WalkRow, Entry
  <2>3. CASE WalkEnds
    <3>1. Len(walked) = file.entries
        BY <2>0, <2>3, SliceIsTable DEF WalkEnds, Cursor, RowSize
    <3> QED
        BY <2>0, <2>3, <3>1 DEF WalkEnds, Entry, filmVars
  <2>4. CASE SendNext \/ SendTooEarly \/ SkipAudio \/ GetFrame \/ GetError \/ GetNothing
             \/ FlushAtEnd \/ Seek
    <3>1. phase \in {"play", "done"} /\ phase' \in {"play", "done"} /\ UNCHANGED filmVars
        BY <2>4 DEF SendNext, SendTooEarly, SkipAudio, GetFrame, GetError, GetNothing,
               FlushAtEnd, Seek
    <3> QED
        BY <2>0, <3>1 DEF filmVars, Entry
  <2>5. CASE UNCHANGED vars
      BY <2>0, <2>5 DEF vars, filmVars, Entry
  <2> QED
      BY <2>1, <2>2, <2>3, <2>4, <2>5 DEF Next
<1> QED
    BY <1>1, <1>2, PTL DEF Spec

\* FilmDemuxer::parse and the two-step walk of StabHeader::parse_chunk and
\* Samples read the same rows of every file (ParsersAgree).
THEOREM ParsersAlwaysAgree == Spec => []ParsersAgree
<1>1. WalkInv => ParsersAgree
  <2> SUFFICES ASSUME WalkInv PROVE ParsersAgree
      OBVIOUS
  <2>1. ASSUME phase \in {"closed", "walk"} PROVE demuxer = None <=> Slice = None
      BY <2>1, SliceIsTable DEF WalkInv
  <2>2. ASSUME phase = "play"
        PROVE  /\ demuxer.base = Slice.base
               /\ Table = [i \in DOMAIN walked |-> walked[i].record]
               /\ \A i \in DOMAIN walked :
                    LET e == walked[i] IN
                    /\ e.index = i - 1
                    /\ e.kind.kind = "Audio" <=> i \in AudioSamples(Table)
                    /\ e.kind.kind = "VideoKeyframe" <=> i \in Keyframes(Table)
                    /\ i \in VideoSamples(Table) =>
                         e.kind.ts = Ticks(Table[i]) /\ e.kind.next = Table[i].info2
               /\ FirstMalformedAudio(Table) = FirstBadEntry
    <3>1. demuxer # None /\ demuxer = Parse(file) /\ file \in Files /\ Len(walked) = file.entries
        BY <2>2 DEF WalkInv
    <3>2. demuxer.base = Slice.base
        BY <3>1, SliceIsTable, ParsedType
    <3>3. DOMAIN walked = 1 .. file.entries /\ file.entries \in Nat
        BY <3>1, FileType DEF WalkInv
    <3>4. \A i \in 1 .. file.entries : walked[i] = Entry(i)
        BY <3>1 DEF WalkInv
    <3>5. /\ Table \in Seq(Rows) /\ Len(Table) = file.entries
          /\ DOMAIN Table = 1 .. file.entries
          /\ \A i \in 1 .. file.entries : Table[i] = file.rows[i]
        BY <3>1, <3>3, ParsedType DEF Table
    <3>6. Table = [i \in DOMAIN walked |-> walked[i].record]
      <4>1. Table = [i \in 1 .. file.entries |-> Table[i]]
          BY <3>5
      <4>2. ASSUME NEW i \in 1 .. file.entries PROVE walked[i].record = Table[i]
        <5>1. walked[i] = Entry(i) /\ file.rows[i] = Table[i]
            BY <3>4, <3>5
        <5> QED
            BY <5>1 DEF Entry
      <4> QED
          BY <4>1, <4>2, <3>3
    <3>7. ASSUME NEW i \in DOMAIN walked
          PROVE  /\ walked[i].index = i - 1
                 /\ walked[i].kind.kind = "Audio" <=> IsAudio(Table[i])
                 /\ walked[i].kind.kind = "VideoKeyframe" <=> IsKeyframe(Table[i])
                 /\ ~IsAudio(Table[i]) =>
                      walked[i].kind.ts = Ticks(Table[i]) /\ walked[i].kind.next = Table[i].info2
                 /\ IsAudio(Table[i]) =>
                      (walked[i].kind.wellFormed <=> IsWellFormedAudio(Table[i]))
      <4>1. walked[i].index = i - 1 /\ walked[i].kind = Kind(Table[i])
        <5>1. walked[i] = Entry(i) /\ file.rows[i] = Table[i]
            BY <3>3, <3>4, <3>5
        <5> QED
            BY <5>1 DEF Entry
      <4>2. CASE IsAudio(Table[i])
        <5>1. Kind(Table[i]) = [kind |-> "Audio", wellFormed |-> IsWellFormedAudio(Table[i])]
            BY <4>2 DEF Kind
        <5>2. Kind(Table[i]).kind = "Audio"
            BY <5>1
        <5>3. Kind(Table[i]).wellFormed <=> IsWellFormedAudio(Table[i])
          <6>1. \A x : [kind |-> "Audio", wellFormed |-> x].wellFormed = x
              OBVIOUS
          <6>2. Kind(Table[i]).wellFormed = IsWellFormedAudio(Table[i])
              BY <5>1, <6>1, Zenon
          <6> QED
              BY <6>2, Zenon
        <5> QED
            BY <4>1, <4>2, <5>2, <5>3 DEF IsKeyframe
      <4>3. CASE ~IsAudio(Table[i])
          BY <4>1, <4>3 DEF Kind, IsKeyframe, Ticks
      <4> QED
          BY <4>2, <4>3
    <3>8. FirstMalformedAudio(Table) = FirstBadEntry
      <4>1. {i \in AudioSamples(Table) : ~IsWellFormedAudio(Table[i])}
              = {i \in AudioSamples(Table) : ~walked[i].kind.wellFormed}
        <5>1. \A i \in AudioSamples(Table) : i \in DOMAIN walked /\ IsAudio(Table[i])
            BY <3>3, <3>5 DEF AudioSamples
        <5>2. \A i \in AudioSamples(Table) :
                 walked[i].kind.wellFormed <=> IsWellFormedAudio(Table[i])
            BY <5>1, <3>7, Zenon
        <5> QED
            BY <5>2, Zenon
      <4> QED
          BY <4>1, Zenon DEF FirstMalformedAudio, FirstBadEntry
    <3> QED
        BY <3>2, <3>3, <3>5, <3>6, <3>7, <3>8 DEF AudioSamples, VideoSamples, Keyframes
  <2> QED
      BY <2>1, <2>2 DEF ParsersAgree
<1> QED
    BY <1>1, WalkInvariant, PTL

-----------------------------------------------------------------------------
\* Seeking.

\* The powers of two are positive.
LEMMA PowerType ==
    /\ \A n \in 0 .. InfoBits : Power[n] \in Nat \ {0}
    /\ Power[InfoBits] = 2 * Power[InfoBits - 1]
<1> DEFINE V == Nat \ {0}
<1> DEFINE step == [p \in V \X (1 .. InfoBits) |-> 2 * p[1]]
<1>1. InfoBits \in Nat /\ InfoBits > 1 /\ 1 \in V /\ step \in [V \X (1 .. InfoBits) -> V]
    BY FilmAssumption
<1>2. \E g : g = [n \in 0 .. InfoBits |-> IF n = 0 THEN 1 ELSE 2 * g[n - 1]]
  <2>1. PICK g \in Recursion(InfoBits, V, 1, step) : TRUE
    <3> HIDE DEF step, V
    <3> QED
        BY <1>1, RecursionIsDefined
  <2>2. g \in [0 .. InfoBits -> V] /\ g[0] = 1
      BY DEF Recursion
  <2>3. ASSUME NEW n \in 1 .. InfoBits
        PROVE  g[n] = 2 * g[n - 1]
    <3>1. g[n] = step[<<g[n - 1], n>>]
        BY DEF Recursion
    <3>2. <<g[n - 1], n>> \in V \X (1 .. InfoBits)
        BY <1>1, <2>2
    <3> QED
        BY <3>1, <3>2
  <2>4. g = [n \in 0 .. InfoBits |-> IF n = 0 THEN 1 ELSE 2 * g[n - 1]]
      BY <2>2, <2>3
  <2> QED
      BY <2>4
<1>3. Power = [n \in 0 .. InfoBits |-> IF n = 0 THEN 1 ELSE 2 * Power[n - 1]]
    BY <1>2 DEF Power
<1>4. \A n \in 1 .. InfoBits : Power[n - 1] \in V => Power[n] = step[<<Power[n - 1], n>>]
    BY <1>1, <1>3
<1>5. Power[0] \in V
    BY <1>1, <1>3
<1>6. \A n \in 0 .. InfoBits : Power[n] \in V
  <2> HIDE DEF step, V
  <2> QED
      BY <1>1, <1>4, <1>5, RecursionStays
<1>7. Power[InfoBits] = 2 * Power[InfoBits - 1]
    BY <1>1, <1>3
<1> QED
    BY <1>6, <1>7

\* A time stamp is a number below the inter bit.
LEMMA TicksType ==
    /\ InterBit \in Nat \ {0}
    /\ AudioMark = 2 * InterBit - 1
    /\ \A r \in Rows : Ticks(r) \in 0 .. InterBit - 1 /\ r.info2 \in 0 .. AudioMark
<1>1. InterBit \in Nat \ {0} /\ AudioMark = 2 * InterBit - 1
    BY PowerType, FilmAssumption DEF InterBit, AudioMark
<1>2. ASSUME NEW r \in Rows PROVE Ticks(r) \in 0 .. InterBit - 1 /\ r.info2 \in 0 .. AudioMark
  <2>1. r.info1 \in Int /\ r.info2 \in 0 .. AudioMark
      BY <1>1 DEF Rows
  <2>2. \A n \in Int, b \in Nat \ {0} : n % b \in 0 .. b - 1
      BY Z3
  <2> QED
      BY <1>1, <2>1, <2>2 DEF Ticks
<1> QED
    BY <1>1, <1>2

\* What a scan has found when it has looked at the first n rows.
BestUpTo(t, candidates, n, k) ==
    LET seen == {i \in candidates : i <= n} IN
    /\ k = None <=> seen = {}
    /\ k # None =>
         /\ k \in seen
         /\ \A i \in seen : Ticks(t[i]) <= Ticks(t[k])
         /\ \A i \in seen : i < k => Ticks(t[i]) < Ticks(t[k])

\* A scan finds the first of the latest candidates, if there is one.
LEMMA LatestIsLatest ==
    ASSUME NEW t \in Seq(Rows), NEW candidates, candidates \subseteq DOMAIN t
    PROVE  BestUpTo(t, candidates, Len(t), Latest(t, candidates))
<1> DEFINE n == Len(t)
<1> DEFINE V == (0 .. n) \cup {None}
<1> DEFINE Next1(b, i) == IF /\ i \in candidates
                             /\ b = None \/ Ticks(t[i]) > Ticks(t[b])
                          THEN i ELSE b
<1> DEFINE step == [p \in V \X (1 .. n) |-> Next1(p[1], p[2])]
<1> DEFINE best == CHOOSE g : g = [i \in 0 .. n |->
                       IF i = 0 THEN None
                       ELSE IF /\ i \in candidates
                               /\ g[i - 1] = None \/ Ticks(t[i]) > Ticks(t[g[i - 1]])
                       THEN i ELSE g[i - 1]]
<1>1. n \in Nat /\ None \in V /\ step \in [V \X (1 .. n) -> V]
    OBVIOUS
<1>2. DOMAIN t = 1 .. n /\ \A i \in DOMAIN t : Ticks(t[i]) \in Nat
    BY TicksType
<1>3. None \notin Nat
    BY FilmNoneAssumption
<1>4. Latest(t, candidates) = best[n]
    BY DEF Latest
<1> HIDE DEF n
<1>5. \E g : g = [i \in 0 .. n |->
                IF i = 0 THEN None
                ELSE IF /\ i \in candidates
                        /\ g[i - 1] = None \/ Ticks(t[i]) > Ticks(t[g[i - 1]])
                THEN i ELSE g[i - 1]]
  <2>1. PICK g \in Recursion(n, V, None, step) : TRUE
    <3> HIDE DEF step, V
    <3> QED
        BY <1>1, RecursionIsDefined
  <2>2. g \in [0 .. n -> V] /\ g[0] = None
      BY DEF Recursion
  <2>3. ASSUME NEW i \in 1 .. n
        PROVE  g[i] = Next1(g[i - 1], i)
    <3>1. g[i] = step[<<g[i - 1], i>>]
        BY DEF Recursion
    <3>2. <<g[i - 1], i>> \in V \X (1 .. n)
        BY <1>1, <2>2
    <3> QED
        BY <3>1, <3>2
  <2>4. g = [i \in 0 .. n |-> IF i = 0 THEN None ELSE Next1(g[i - 1], i)]
      BY <2>2, <2>3
  <2> QED
      BY <2>4
<1>6. best = [i \in 0 .. n |->
                IF i = 0 THEN None
                ELSE IF /\ i \in candidates
                        /\ best[i - 1] = None \/ Ticks(t[i]) > Ticks(t[best[i - 1]])
                THEN i ELSE best[i - 1]]
    BY <1>5
<1> HIDE DEF best
<1>7. best[0] = None /\ \A i \in 1 .. n : best[i] = Next1(best[i - 1], i)
    BY <1>1, <1>6
<1> DEFINE T == {i \in 0 .. n : BestUpTo(t, candidates, i, best[i])}
<1>8. 0 \in T
    BY <1>1, <1>2, <1>7 DEF BestUpTo
<1>9. ASSUME NEW i \in 1 .. n, i - 1 \in T PROVE i \in T
  <2>1. BestUpTo(t, candidates, i - 1, best[i - 1])
      BY <1>9
  <2>2. best[i] = Next1(best[i - 1], i)
      BY <1>7
  <2>3. \A j \in candidates : j \in Int /\ Ticks(t[j]) \in Nat
      BY <1>1, <1>2
  <2>4. \A j \in candidates : j <= i <=> j = i \/ j <= i - 1
      BY <1>1, <2>3
  <2>5. CASE i \notin candidates
      BY <2>1, <2>2, <2>4, <2>5 DEF BestUpTo
  <2>6. CASE i \in candidates /\ best[i - 1] = None
      BY <2>1, <2>2, <2>3, <2>4, <2>6, <1>1, <1>3 DEF BestUpTo
  <2>7. CASE i \in candidates /\ best[i - 1] # None /\ Ticks(t[i]) > Ticks(t[best[i - 1]])
      BY SMTT(30), <2>1, <2>2, <2>3, <2>4, <2>7, <1>1, <1>3 DEF BestUpTo
  <2>8. CASE i \in candidates /\ best[i - 1] # None /\ ~(Ticks(t[i]) > Ticks(t[best[i - 1]]))
      BY <2>1, <2>2, <2>3, <2>4, <2>8, <1>1, <1>3 DEF BestUpTo
  <2>9. BestUpTo(t, candidates, i, best[i])
      BY <2>5, <2>6, <2>7, <2>8
  <2> QED
      BY <2>9, <1>1
<1>10. \A i \in 0 .. n : i \in T
  <2> HIDE DEF T
  <2> QED
      BY <1>1, <1>8, <1>9, InductionUpTo
<1> QED
    BY <1>1, <1>4, <1>10 DEF n

\* What the keyframe that a seek finds is, in a table of rows: the latest at or
\* before the target.
LEMMA SeekFindsLatest ==
    ASSUME NEW t \in Seq(Rows), NEW target
    PROVE  LET k == SeekKeyframe(t, target)
               before == {i \in Keyframes(t) : Ticks(t[i]) <= target}
           IN /\ k = None <=> before = {}
              /\ k # None => /\ k \in before
                             /\ \A i \in before : Ticks(t[i]) <= Ticks(t[k])
                             /\ \A i \in before : i < k => Ticks(t[i]) < Ticks(t[k])
<1> DEFINE before == {i \in Keyframes(t) : Ticks(t[i]) <= target}
<1>1. before \subseteq DOMAIN t
    BY DEF Keyframes, VideoSamples
<1>2. BestUpTo(t, before, Len(t), Latest(t, before))
    BY <1>1, LatestIsLatest
<1>3. {i \in before : i <= Len(t)} = before
    BY <1>1
<1> HIDE DEF before
<1> QED
    BY <1>2, <1>3 DEF SeekKeyframe, BestUpTo, before

\* No video sample lies past the duration.
LEMMA DurationCoversAll ==
    ASSUME NEW t \in Seq(Rows), NEW i \in VideoSamples(t)
    PROVE  Ticks(t[i]) <= DurationTicks(t)
<1> DEFINE last == Latest(t, VideoSamples(t))
<1>1. VideoSamples(t) \subseteq DOMAIN t
    BY DEF VideoSamples
<1>2. BestUpTo(t, VideoSamples(t), Len(t), last)
    BY <1>1, LatestIsLatest
<1>3. last # None /\ last \in VideoSamples(t) /\ Ticks(t[i]) <= Ticks(t[last])
    BY <1>1, <1>2 DEF BestUpTo
<1> HIDE DEF last
<1>4. t[last] \in Rows /\ t[i] \in Rows
    BY <1>1, <1>3
<1>5. DurationTicks(t) = SaturatingAdd(Ticks(t[last]), t[last].info2)
    BY <1>3 DEF DurationTicks, last
<1>6. Ticks(t[last]) <= SaturatingAdd(Ticks(t[last]), t[last].info2)
    BY <1>4, TicksType DEF SaturatingAdd
<1>7. SaturatingAdd(Ticks(t[last]), t[last].info2) \in Nat
    BY <1>4, TicksType DEF SaturatingAdd
<1> QED
    BY <1>3, <1>4, <1>5, <1>6, <1>7, TicksType

\* A seek lands on the latest keyframe at or before its target, in any table
\* (SeekLandsOnLatest).
THEOREM SeeksLandOnLatest == Spec => []SeekLandsOnLatest
<1>1. WalkInv => SeekLandsOnLatest
  <2> SUFFICES ASSUME WalkInv, phase = "play", NEW target \in Targets
               PROVE  LET k == SeekKeyframe(Table, target)
                          before == {i \in Keyframes(Table) : Ticks(Table[i]) <= target}
                      IN /\ k = None <=> before = {}
                         /\ k # None =>
                              /\ k \in before
                              /\ \A i \in before : Ticks(Table[i]) <= Ticks(Table[k])
                              /\ \A i \in before : i < k => Ticks(Table[i]) < Ticks(Table[k])
                              /\ Ticks(Table[k]) <= DurationTicks(Table)
                              /\ \A later \in Targets : later >= target =>
                                   Ticks(Table[SeekKeyframe(Table, later)]) >= Ticks(Table[k])
      BY DEF SeekLandsOnLatest
  <2>1. Table \in Seq(Rows)
      BY ParsedType DEF Table, WalkInv
  <2> DEFINE k == SeekKeyframe(Table, target)
  <2> DEFINE Before(x) == {i \in Keyframes(Table) : Ticks(Table[i]) <= x}
  <2>2. /\ k = None <=> Before(target) = {}
        /\ k # None => /\ k \in Before(target)
                       /\ \A i \in Before(target) : Ticks(Table[i]) <= Ticks(Table[k])
                       /\ \A i \in Before(target) : i < k => Ticks(Table[i]) < Ticks(Table[k])
      BY <2>1, SeekFindsLatest
  <2>3. ASSUME k # None PROVE Ticks(Table[k]) <= DurationTicks(Table)
    <3>1. k \in VideoSamples(Table)
        BY <2>2, <2>3 DEF Keyframes
    <3> QED
        BY <2>1, <3>1, DurationCoversAll
  <2>4. ASSUME k # None, NEW later \in Targets, later >= target
        PROVE  Ticks(Table[SeekKeyframe(Table, later)]) >= Ticks(Table[k])
    <3> DEFINE m == SeekKeyframe(Table, later)
    <3>0. k \in Keyframes(Table) /\ Ticks(Table[k]) <= target
        BY <2>2, <2>4
    <3>1. later \in Nat /\ target \in Nat /\ \A i \in Keyframes(Table) : Ticks(Table[i]) \in Nat
        BY <2>1, TicksType, PlaybackAssumption DEF Keyframes, VideoSamples
    <3>2. k \in Before(later)
        BY <3>0, <3>1, <2>4
    <3>3. m # None /\ m \in Before(later) /\ \A i \in Before(later) : Ticks(Table[i]) <= Ticks(Table[m])
        BY <2>1, <3>2, SeekFindsLatest
    <3> HIDE DEF m
    <3>4. Ticks(Table[k]) <= Ticks(Table[m]) /\ m \in Keyframes(Table)
        BY <3>2, <3>3
    <3> QED
        BY <3>0, <3>1, <3>4 DEF m
  <2> QED
      BY <2>2, <2>3, <2>4
<1> QED
    BY <1>1, WalkInvariant, PTL

-----------------------------------------------------------------------------
\* Playing.

\* A row that is played is a packet.
LEMMA RowIsPacket ==
    ASSUME WalkInv, phase = "play", NEW i \in DOMAIN Table
    PROVE  PacketAt(i) \in Packet
<1>1. i \in 1 .. file.entries /\ file.entries <= Len(file.rows) /\ file \in Files
    BY ParsedType DEF WalkInv, Table
<1>2. i \in DOMAIN file.rows
    BY <1>1, FileType
<1>3. i \in PacketIds
    BY <1>1, <1>2, PlaybackAssumption
<1>4. IsKeyframe(Table[i]) \in BOOLEAN
    BY DEF IsKeyframe
<1> QED
    BY <1>3, <1>4 DEF PacketAt, Packet

\* Each step of a player is a step of the handle or leaves it alone.
LEMMA PlayerSteps ==
    ASSUME WalkInv, [Next]_vars
    PROVE  [HandleNext]_handleVars
<1>1. CASE SendNext
  <2>1. PacketAt(pos) \in Packet
      BY <1>1, RowIsPacket DEF SendNext, VideoIsNext, VideoSamples
  <2> QED
      BY <1>1, <2>1 DEF SendNext, HandleNext
<1>2. CASE Open \/ WalkRow \/ WalkEnds \/ SkipAudio \/ UNCHANGED vars
    BY <1>2 DEF Open, WalkRow, WalkEnds, SkipAudio, vars
<1>3. CASE SendTooEarly \/ GetFrame \/ GetError \/ GetNothing \/ FlushAtEnd \/ Seek
    BY <1>3 DEF SendTooEarly, GetFrame, GetError, GetNothing, FlushAtEnd, Seek, HandleNext
<1> QED
    BY <1>1, <1>2, <1>3 DEF Next

\* A player uses the handle as the handle allows, in whatever order it sends,
\* receives, flushes and seeks.
LEMMA PlayerDrivesHandle == Spec => HandleSpec
<1>1. Init => HandleInit
    BY DEF Init
<1>2. WalkInv /\ [Next]_vars => [HandleNext]_handleVars
    BY PlayerSteps
<1> QED
    BY <1>1, <1>2, WalkInvariant, PTL DEF Spec, HandleSpec

\* What a player sees of the handle is a packet channel (ChannelSpec).
THEOREM PlaybackImplementsChannel == Spec => ChannelSpec
    BY PlayerDrivesHandle, HandleImplementsChannel, PTL

-----------------------------------------------------------------------------
\* What a player sees.

\* The last row before the packet that waits, or before the next row.
RowsBehind == IF pending = NoPacket THEN pos - 1 ELSE pending.id - 1

\* The packet that waits is the last video row before the next row.
WaitingIsLast ==
    pending # NoPacket =>
        /\ pending = PacketAt(pending.id)
        /\ pending.id \in VideoSamples(Table) /\ pending.id < pos
        /\ \A i \in VideoSamples(Table) : i < pos => i <= pending.id

\* The decoder starts anew, at a keyframe.
StartsAnew ==
    /\ inner = <<>>
    /\ IF pending = NoPacket THEN pos \in Keyframes(Table) ELSE pending.key

\* As long as no packet fails, the decoder holds the chain of the rows behind it.
InnerIsChain == ~failed => StartsAnew \/ Shows(inner, Chain(Table, RowsBehind))

PlayInv ==
    /\ phase \in {"open", "closed", "walk"} =>
         /\ pos = 1 /\ pending = NoPacket /\ inner = <<>> /\ reply.kind = "ok"
    /\ phase \in {"play", "done"} =>
         /\ pos \in 1 .. Len(Table) + 1
         /\ WaitingIsLast
         /\ InnerIsChain
    /\ ShowsItsChain

\* A keyframe is a chain by itself.
LEMMA KeyframeIsChain ==
    ASSUME NEW t \in Seq(Rows), NEW i \in Keyframes(t)
    PROVE  Chain(t, i) = {i}
<1>1. \A j \in VideoSamples(t) : j \in Int
    BY DEF VideoSamples
<1>2. i \in VideoSamples(t) /\ \A k \in Keyframes(t) : k \in Int
    BY DEF Keyframes, VideoSamples
<1> QED
    BY <1>1, <1>2 DEF Chain

\* Rows without video do not change the chain.
LEMMA ChainStays ==
    ASSUME NEW t \in Seq(Rows), NEW i \in Int, NEW j \in Int, i <= j,
           \A k \in VideoSamples(t) : k <= j => k <= i
    PROVE  Chain(t, j) = Chain(t, i)
<1>1. \A k \in VideoSamples(t) : k \in Int
    BY DEF VideoSamples
<1>2. \A k \in Keyframes(t) : k \in VideoSamples(t)
    BY DEF Keyframes
<1>3. \A k \in VideoSamples(t) : k <= j <=> k <= i
    BY <1>1
<1> QED
    BY <1>2, <1>3 DEF Chain

\* A picture of no samples.
LEMMA EmptyShowsNothing ==
    ASSUME NEW rows
    PROVE  Shows(<<>>, rows) <=> rows = {}
    BY DEF Shows

\* A keyframe shows itself.
LEMMA KeyframeShowsItself ==
    ASSUME NEW i
    PROVE  Shows(<<i>>, {i})
    BY DEF Shows

\* An inter frame goes on with the chain of the rows before it.
LEMMA InterFrameGoesOn ==
    ASSUME NEW t \in Seq(Rows), NEW i \in VideoSamples(t), i \notin Keyframes(t),
           NEW S, NEW p \in Seq(S), Shows(p, Chain(t, i - 1))
    PROVE  Shows(IF p = <<>> THEN <<>> ELSE Append(p, i), Chain(t, i))
<1>0. i \in Int /\ \A j \in VideoSamples(t) : j \in Int
    BY DEF VideoSamples
<1>1. \A k \in Keyframes(t) : k \in VideoSamples(t) /\ (k <= i <=> k <= i - 1)
    BY <1>0 DEF Keyframes
<1>2. \A j \in VideoSamples(t) : j <= i <=> j = i \/ j <= i - 1
    BY <1>0
<1>3. CASE p = <<>>
  <2>1. Chain(t, i - 1) = {}
      BY <1>3, EmptyShowsNothing
  <2>2. ~\E k \in Keyframes(t) : k <= i - 1
    <3>1. SUFFICES ASSUME NEW k \in Keyframes(t), k <= i - 1 PROVE FALSE
        OBVIOUS
    <3> DEFINE T == {n \in Keyframes(t) : n <= i - 1}
    <3>2. \A n \in Keyframes(t) : n \in Nat
        BY DEF Keyframes, VideoSamples
    <3>3. i - 1 \in Nat /\ T \subseteq 0 .. i - 1 /\ T # {}
        BY <1>0, <3>1, <3>2
    <3>4. PICK top \in T : \A n \in T : n <= top
      <4> HIDE DEF T
      <4> QED
          BY <3>3, GreatestNatural
    <3>5. top \in Chain(t, i - 1)
        BY <1>1, <3>4 DEF Chain
    <3> QED
        BY <2>1, <3>5
  <2>3. Chain(t, i) = {}
      BY <1>1, <2>2 DEF Chain
  <2> QED
      BY <1>3, <2>3, EmptyShowsNothing
<1>4. CASE p # <<>>
  <2>1. p[1] \in Chain(t, i - 1)
      BY <1>4 DEF Shows
  <2>2. PICK k \in Keyframes(t) : k <= i - 1
      BY <2>1 DEF Chain
  <2>3. Chain(t, i) = Chain(t, i - 1) \cup {i}
    <3>1. \A j \in VideoSamples(t) : j \in Chain(t, i) <=> j = i \/ j \in Chain(t, i - 1)
        BY <1>0, <1>1, <1>2, <2>2 DEF Chain
    <3>2. Chain(t, i) \subseteq VideoSamples(t) /\ Chain(t, i - 1) \subseteq VideoSamples(t)
        BY DEF Chain
    <3> QED
        BY <3>1, <3>2
  <2> DEFINE n == Len(p)
  <2> DEFINE q == Append(p, i)
  <2>4. n \in Nat /\ DOMAIN p = 1 .. n /\ DOMAIN q = 1 .. n + 1 /\ q[n + 1] = i
        /\ \A m \in 1 .. n : q[m] = p[m]
      OBVIOUS
  <2>5. \A m \in 1 .. n : p[m] \in Chain(t, i - 1)
      BY <2>4 DEF Shows
  <2>6. \A m \in 1 .. n : p[m] \in Int /\ p[m] < i
    <3>1. \A j \in Chain(t, i - 1) : j \in Int /\ j < i
        BY <1>0 DEF Chain
    <3> QED
        BY <2>5, <3>1
  <2> HIDE DEF n, q
  <2>7. {q[m] : m \in DOMAIN q} = Chain(t, i)
    <3>1. Chain(t, i - 1) = {p[m] : m \in 1 .. n}
        BY <2>4 DEF Shows
    <3> QED
        BY <2>3, <2>4, <3>1
  <2>8. ASSUME NEW m \in DOMAIN q, NEW l \in DOMAIN q, m < l PROVE q[m] < q[l]
    <3>1. CASE l = n + 1
        BY <2>4, <2>6, <2>8, <3>1
    <3>2. CASE l # n + 1
        BY <2>4, <2>8, <3>2 DEF Shows
    <3> QED
        BY <3>1, <3>2
  <2>9. Shows(q, Chain(t, i))
      BY <2>7, <2>8 DEF Shows
  <2> QED
      BY <1>4, <2>9 DEF q
<1> QED
    BY <1>3, <1>4

\* The decoder holds the chain behind it, through every call of the player.
LEMMA PlayInvariant == Spec => []PlayInv
<1>1. Init => PlayInv
    BY DEF Init, HandleInit, Reply, PlayInv, ShowsItsChain
<1>2. WalkInv /\ HandleInv /\ PlayInv /\ [Next]_vars => PlayInv'
  <2> SUFFICES ASSUME WalkInv, HandleInv, PlayInv, [Next]_vars PROVE PlayInv'
      OBVIOUS
  <2>1. CASE Open \/ WalkRow
    <3>1. /\ phase' \in {"open", "closed", "walk"}
          /\ pos = 1 /\ pending = NoPacket /\ inner = <<>> /\ reply.kind = "ok"
          /\ UNCHANGED <<playVars, handleVars>>
        BY <2>1 DEF Open, WalkRow, PlayInv
    <3> QED
        BY <3>1 DEF PlayInv, ShowsItsChain, playVars, handleVars
  <2>2. CASE WalkEnds
    <3>1. /\ phase' = "play" /\ Table \in Seq(Rows) /\ UNCHANGED <<playVars, handleVars, demuxer>>
          /\ pos = 1 /\ pending = NoPacket /\ inner = <<>> /\ reply.kind = "ok"
        BY <2>2, ParsedType DEF WalkEnds, PlayInv, WalkInv, filmVars, Table
    <3>2. Shows(inner, Chain(Table, 0))
      <4>1. \A k \in Keyframes(Table) : ~(k <= 0)
          BY <3>1 DEF Keyframes, VideoSamples
      <4>2. Chain(Table, 0) = {}
          BY <4>1 DEF Chain
      <4> QED
          BY <3>1, <4>2, EmptyShowsNothing
    <3>3. Table' = Table /\ RowsBehind' = 0 /\ inner' = inner
        BY <3>1 DEF Table, RowsBehind, playVars, handleVars
    <3>4. InnerIsChain'
        BY <3>2, <3>3 DEF InnerIsChain
    <3>5. pos' = 1 /\ pos' \in 1 .. Len(Table') + 1
        BY <3>1, <3>3 DEF playVars
    <3> QED
        BY <3>1, <3>4, <3>5 DEF PlayInv, ShowsItsChain, WaitingIsLast, playVars, handleVars
  <2>3. ASSUME phase \in {"play", "done"}, phase' \in {"play", "done"}, UNCHANGED filmVars,
               pos' \in 1 .. Len(Table) + 1, WaitingIsLast', InnerIsChain', ShowsItsChain'
        PROVE  PlayInv'
      BY <2>3 DEF PlayInv, Table, filmVars
  <2>4. ASSUME phase \in {"play", "done"}
        PROVE  /\ Table \in Seq(Rows)
               /\ \A k \in VideoSamples(Table) : k \in 1 .. Len(Table) /\ k \notin AudioSamples(Table)
               /\ Keyframes(Table) \subseteq VideoSamples(Table)
               /\ AudioSamples(Table) \subseteq 1 .. Len(Table)
               /\ pos \in 1 .. Len(Table) + 1
               /\ WaitingIsLast /\ InnerIsChain /\ ShowsItsChain
    <3>1. Table \in Seq(Rows)
        BY <2>4, ParsedType DEF WalkInv, Table
    <3>2. DOMAIN Table = 1 .. Len(Table)
        BY <3>1
    <3> QED
        BY <2>4, <3>1, <3>2 DEF PlayInv, VideoSamples, AudioSamples, Keyframes
  <2>5. UNCHANGED filmVars => Table' = Table
      BY DEF Table, filmVars
  <2>6. CASE SendNext
    <3>1. /\ phase = "play" /\ phase' = "play" /\ UNCHANGED filmVars /\ Table' = Table
          /\ pos \in VideoSamples(Table) /\ pos' = pos + 1 /\ failed' = failed
          /\ pending = NoPacket /\ pending' = PacketAt(pos) /\ inner' = inner
          /\ reply'.kind = "ok"
        BY <2>5, <2>6 DEF SendNext, VideoIsNext, SendPacket, Reply
    <3>2. PacketAt(pos) # NoPacket /\ PacketAt(pos).id = pos
      <4>1. PacketAt(pos) \in Packet
          BY <3>1, RowIsPacket DEF VideoSamples
      <4> QED
          BY <4>1, HandleAssumption DEF Packet, PacketAt
    <3>3. WaitingIsLast'
        BY <2>4, <3>1, <3>2 DEF WaitingIsLast, PacketAt
    <3>4. RowsBehind' = RowsBehind /\ (StartsAnew => StartsAnew')
        BY <3>1, <3>2 DEF RowsBehind, StartsAnew, PacketAt, Keyframes
    <3>5. InnerIsChain'
        BY <2>4, <3>1, <3>4 DEF InnerIsChain
    <3> QED
        BY <2>3, <2>4, <3>1, <3>3, <3>5 DEF ShowsItsChain
  <2>7. CASE SkipAudio
    <3>1. /\ phase = "play" /\ phase' = "play" /\ UNCHANGED <<filmVars, handleVars>>
          /\ Table' = Table
          /\ pos \in AudioSamples(Table) /\ pos' = pos + 1 /\ failed' = failed
        BY <2>5, <2>7 DEF SkipAudio
    <3>2. \A i \in VideoSamples(Table) : i < pos + 1 => i < pos
        BY <2>4, <3>1
    <3>3. WaitingIsLast'
        BY <2>4, <3>1, <3>2 DEF WaitingIsLast, PacketAt, handleVars
    <3>4. Chain(Table, RowsBehind') = Chain(Table, RowsBehind)
      <4>1. CASE pending = NoPacket
        <5>1. RowsBehind = pos - 1 /\ RowsBehind' = pos
            BY <2>4, <3>1, <4>1 DEF RowsBehind, handleVars
        <5>2. \A k \in VideoSamples(Table) : k <= pos => k <= pos - 1
            BY <2>4, <3>1
        <5> QED
            BY <2>4, <3>1, <5>1, <5>2, ChainStays
      <4>2. CASE pending # NoPacket
          BY <3>1, <4>2 DEF RowsBehind, handleVars
      <4> QED
          BY <4>1, <4>2
    <3>5. StartsAnew => StartsAnew'
        BY <2>4, <3>1 DEF StartsAnew, handleVars
    <3>6. InnerIsChain'
        BY <2>4, <3>1, <3>4, <3>5 DEF InnerIsChain, handleVars
    <3> QED
        BY <2>3, <2>4, <3>1, <3>3, <3>6 DEF ShowsItsChain, handleVars
  <2>8. CASE GetFrame
    <3>1. /\ phase = "play" /\ phase' = "play" /\ UNCHANGED filmVars /\ Table' = Table
          /\ pos' = pos /\ failed' = (failed /\ ~pending.key)
          /\ pending # NoPacket /\ pending' = NoPacket
          /\ inner' = Decoded(pending) /\ picture' = inner'
          /\ reply' = Reply("frame", pending)
        BY <2>5, <2>8 DEF GetFrame, ReceiveFrame, Taken
    <3> DEFINE i == pending.id
    <3>2. /\ i \in VideoSamples(Table) /\ i < pos
          /\ pending.key <=> i \in Keyframes(Table)
          /\ \A k \in VideoSamples(Table) : k < pos => k <= i
      <4>1. pending = PacketAt(i) /\ i \in VideoSamples(Table)
          BY <2>4, <3>1 DEF WaitingIsLast
      <4>2. pending.key = IsKeyframe(Table[i])
          BY <4>1 DEF PacketAt
      <4> QED
          BY <2>4, <3>1, <4>1, <4>2 DEF WaitingIsLast, Keyframes
    <3> HIDE DEF i
    <3>3. ASSUME ~failed' PROVE Shows(inner', Chain(Table, i))
      <4>1. CASE pending.key
        <5>1. inner' = <<i>>
            BY <3>1, <4>1 DEF Decoded, i
        <5>2. Chain(Table, i) = {i}
            BY <2>4, <3>1, <3>2, <4>1, KeyframeIsChain
        <5> QED
            BY <5>1, <5>2, KeyframeShowsItself
      <4>2. CASE ~pending.key
        <5>1. ~failed /\ inner' = IF inner = <<>> THEN <<>> ELSE Append(inner, i)
            BY <3>1, <3>3, <4>2 DEF Decoded, i
        <5>2. Shows(inner, Chain(Table, i - 1))
            BY <2>4, <3>1, <4>2, <5>1 DEF InnerIsChain, StartsAnew, RowsBehind, i
        <5>3. inner \in Seq(PacketIds)
            BY DEF HandleInv, HandleTypeOK
        <5> QED
            BY <2>4, <3>1, <3>2, <4>2, <5>1, <5>2, <5>3, InterFrameGoesOn
      <4> QED
          BY <4>1, <4>2
    <3>4. Chain(Table, RowsBehind') = Chain(Table, i)
      <4>1. RowsBehind' = pos - 1 /\ i <= pos - 1 /\ i \in Int /\ pos - 1 \in Int
          BY <2>4, <3>1, <3>2 DEF RowsBehind
      <4>2. \A k \in VideoSamples(Table) : k <= pos - 1 => k <= i
          BY <2>4, <3>1, <3>2
      <4> QED
          BY <2>4, <3>1, <4>1, <4>2, ChainStays
    <3>5. InnerIsChain'
        BY <3>1, <3>3, <3>4 DEF InnerIsChain
    <3>6. ShowsItsChain'
        BY <3>1, <3>3 DEF ShowsItsChain, Reply, i
    <3> QED
        BY <2>3, <2>4, <3>1, <3>5, <3>6 DEF WaitingIsLast
  <2>9. CASE GetError
    <3>1. /\ phase = "play" /\ phase' = "play" /\ UNCHANGED filmVars
          /\ pos' = pos /\ failed' = TRUE /\ pending' = NoPacket
        BY <2>9 DEF GetError, ReceiveError, Taken
    <3> QED
        BY <2>3, <2>4, <3>1 DEF WaitingIsLast, InnerIsChain, ShowsItsChain
  <2>10. CASE SendTooEarly \/ GetNothing \/ FlushAtEnd
    <3>1. /\ phase = "play" /\ phase' \in {"play", "done"} /\ UNCHANGED filmVars
          /\ Table' = Table /\ reply'.kind # "frame"
          /\ UNCHANGED <<pos, failed, pending, inner>>
        BY <2>5, <2>10 DEF SendTooEarly, RefusePacket, GetNothing, ReceiveNothing, FlushAtEnd,
               Flush, Reply, playVars
    <3>2. RowsBehind' = RowsBehind /\ (StartsAnew => StartsAnew')
        BY <3>1 DEF RowsBehind, StartsAnew
    <3> QED
        BY <2>3, <2>4, <3>1, <3>2 DEF WaitingIsLast, InnerIsChain, ShowsItsChain, PacketAt
  <2>11. CASE Seek
    <3>1. PICK target \in Targets :
               SeekKeyframe(Table, target) # None /\ pos' = SeekKeyframe(Table, target)
        BY <2>11 DEF Seek
    <3>2. /\ phase \in {"play", "done"} /\ phase' = "play" /\ UNCHANGED filmVars /\ Table' = Table
          /\ inner' = <<>> /\ pending' = NoPacket /\ reply'.kind = "ok"
        BY <2>5, <2>11 DEF Seek, Reset, AfterReset, Reply
    <3>3. pos' \in Keyframes(Table)
        BY <2>4, <3>1, <3>2, SeekFindsLatest
    <3> QED
        BY <2>3, <2>4, <3>2, <3>3 DEF WaitingIsLast, InnerIsChain, StartsAnew, ShowsItsChain
  <2>12. CASE UNCHANGED vars
    <3>1. Table' = Table /\ RowsBehind' = RowsBehind
          /\ UNCHANGED <<phase, pos, failed, pending, inner, reply, picture>>
        BY <2>5, <2>12 DEF vars, handleVars, playVars, RowsBehind
    <3>2. StartsAnew' = StartsAnew /\ WaitingIsLast' = WaitingIsLast
        BY <3>1 DEF StartsAnew, WaitingIsLast, PacketAt
    <3> QED
        BY <3>1, <3>2 DEF PlayInv, InnerIsChain, ShowsItsChain
  <2> QED
      BY <2>1, <2>2, <2>6, <2>7, <2>8, <2>9, <2>10, <2>11, <2>12 DEF Next
<1>3. Spec => []HandleInv
    BY PlayerDrivesHandle, HandleInvariant, PTL
<1> QED
    BY <1>1, <1>2, <1>3, WalkInvariant, PTL DEF Spec

\* Every frame that is returned shows the decode of the samples from its
\* keyframe on, in any sequence of sends, receives, skips and seeks
\* (ShowsItsChain).
THEOREM FramesShowTheirChain == Spec => []ShowsItsChain
<1>1. PlayInv => ShowsItsChain
    BY DEF PlayInv
<1> QED
    BY <1>1, PlayInvariant, PTL

-----------------------------------------------------------------------------
\* Audio.

\* A number of bytes that is even, or a multiple of four.
LEMMA Parts ==
    ASSUME NEW n \in Nat
    PROVE  /\ n \div 2 \in Nat /\ n \div 4 \in Nat
           /\ n % 2 = 0 => n = 2 * (n \div 2)
           /\ n % 4 = 0 => n % 2 = 0 /\ n \div 2 = 2 * (n \div 4) /\ (n \div 2) % 2 = 0
                           /\ (n \div 2) \div 2 = n \div 4
           /\ n % 2 = 0 /\ (n \div 2) % 2 = 0 => n % 4 = 0
           /\ 2 * n % 2 = 0 /\ (2 * n) \div 2 = n
    OBVIOUS

\* The halves of a sequence of even length.
LEMMA HalfType ==
    ASSUME NEW S, NEW s \in Seq(S), NEW h \in Nat, Len(s) = 2 * h
    PROVE  /\ Half(s, 1) \in Seq(S) /\ Len(Half(s, 1)) = h
           /\ Half(s, 2) \in Seq(S) /\ Len(Half(s, 2)) = h
           /\ \A i \in 1 .. h : Half(s, 1)[i] = s[i] /\ Half(s, 2)[i] = s[h + i]
<1>1. Len(s) \div 2 = h
    BY Parts
<1>2. Half(s, 1) = SubSeq(s, 1, h) /\ Half(s, 2) = SubSeq(s, h + 1, 2 * h)
    BY <1>1 DEF Half
<1>3. /\ SubSeq(s, 1, h) \in Seq(S) /\ Len(SubSeq(s, 1, h)) = h
      /\ \A i \in 1 .. h : SubSeq(s, 1, h)[i] = s[i]
    OBVIOUS
<1>4. ASSUME NEW m \in Nat, m = 2 * h
      PROVE  SubSeq(s, h + 1, m) \in Seq(S) /\ Len(SubSeq(s, h + 1, m)) = h
    BY <1>4
<1>5. ASSUME NEW i \in 1 .. h
      PROVE  SubSeq(s, h + 1, 2 * h)[i] = s[h + i]
    OBVIOUS
<1>6. SubSeq(s, h + 1, 2 * h) \in Seq(S) /\ Len(SubSeq(s, h + 1, 2 * h)) = h
  <2>1. 2 * h \in Nat
      OBVIOUS
  <2> QED
      BY <1>4, <2>1, Zenon
<1>7. /\ Half(s, 1) \in Seq(S) /\ Len(Half(s, 1)) = h
      /\ \A i \in 1 .. h : Half(s, 1)[i] = s[i]
    BY <1>2, <1>3, Zenon
<1>8. /\ Half(s, 2) \in Seq(S) /\ Len(Half(s, 2)) = h
      /\ \A i \in 1 .. h : Half(s, 2)[i] = s[h + i]
    BY <1>2, <1>5, <1>6, Zenon
<1> QED
    BY <1>7, <1>8

\* A sample of eight bits.
Sample8(b, sign) == IF sign = "TwosComplement" THEN Signed(b, 128) ELSE SignMagnitude(b)

\* A chunk of eight bits decodes to a sample for each byte.
LEMMA Decode8Type ==
    ASSUME NEW src \in Seq(Bytes), NEW sign
    PROVE  /\ Decode8(src, sign, Len(src)) = [i \in 1 .. Len(src) |-> Sample8(src[i], sign)]
           /\ Decode8(src, sign, Len(src)) \in Seq(Int)
           /\ Len(Decode8(src, sign, Len(src))) = Len(src)
           /\ Decode8(src, sign, Len(src)) # None
<1>1. Decode8(src, sign, Len(src)) = [i \in 1 .. Len(src) |-> Sample8(src[i], sign)]
    BY DEF Decode8, Sample8
<1>2. \A i \in 1 .. Len(src) : Sample8(src[i], sign) \in Int
  <2>1. \A b \in Bytes : Sample8(b, sign) \in Int
      BY DEF Bytes, Sample8, Signed, SignMagnitude
  <2> QED
      BY <2>1
<1>3. [i \in 1 .. Len(src) |-> Sample8(src[i], sign)] \in Seq(Int)
    BY <1>2
<1> QED
    BY <1>1, <1>3, PlaybackNoneAssumption

\* A chunk of words decodes to a sample for each.
LEMMA Decode16Type ==
    ASSUME NEW src \in Seq(Bytes), NEW n \in Nat, Len(src) = 2 * n
    PROVE  /\ Decode16(src, Len(src) \div 2) = [i \in 1 .. n |-> Word16(src, i)]
           /\ Decode16(src, Len(src) \div 2) \in Seq(Int)
           /\ Len(Decode16(src, Len(src) \div 2)) = n
           /\ Decode16(src, Len(src) \div 2) # None
<1>1. Len(src) % 2 = 0 /\ Len(src) \div 2 = n
    BY Parts
<1>2. Decode16(src, Len(src) \div 2) = [i \in 1 .. n |-> Word16(src, i)]
    BY <1>1 DEF Decode16
<1>3. \A i \in 1 .. n : Word16(src, i) \in Int
  <2>1. ASSUME NEW i \in 1 .. n PROVE src[2 * i - 1] \in Int /\ src[2 * i] \in Int
    <3>1. 2 * i - 1 \in 1 .. Len(src) /\ 2 * i \in 1 .. Len(src)
        OBVIOUS
    <3>2. \A j \in 1 .. Len(src) : src[j] \in Int
      <4>1. \A b \in Bytes : b \in Int
          BY DEF Bytes
      <4>2. \A j \in 1 .. Len(src) : src[j] \in Bytes
          OBVIOUS
      <4> QED
          BY <4>1, <4>2
    <3> QED
        BY <3>1, <3>2
  <2> QED
      BY <2>1 DEF Word16, Signed
<1>4. [i \in 1 .. n |-> Word16(src, i)] \in Seq(Int)
    BY <1>3
<1> QED
    BY <1>2, <1>4, PlaybackNoneAssumption

\* Two sequences of the same length, sample by sample.
LEMMA AlternateType ==
    ASSUME NEW left \in Seq(Int), NEW right \in Seq(Int), Len(left) = Len(right)
    PROVE  /\ Alternate(left, right) \in Seq(Int)
           /\ Len(Alternate(left, right)) = 2 * Len(left)
           /\ Alternate(left, right) # None
<1>1. \A k \in 1 .. 2 * Len(left) :
         (IF k % 2 = 1 THEN left[(k + 1) \div 2] ELSE right[k \div 2]) \in Int
  <2> SUFFICES ASSUME NEW k \in 1 .. 2 * Len(left)
               PROVE  (IF k % 2 = 1 THEN left[(k + 1) \div 2] ELSE right[k \div 2]) \in Int
      OBVIOUS
  <2>1. k % 2 = 1 => (k + 1) \div 2 \in 1 .. Len(left)
      OBVIOUS
  <2>2. k % 2 # 1 => k \div 2 \in 1 .. Len(left)
      OBVIOUS
  <2> QED
      BY <2>1, <2>2
<1>2. Alternate(left, right) \in Seq(Int) /\ Len(Alternate(left, right)) = 2 * Len(left)
    BY <1>1 DEF Alternate
<1> QED
    BY <1>2, PlaybackNoneAssumption

\* The decode of one channel.
Mono(fmt, src) == DecodeChunk([fmt EXCEPT !.channels = 1], src)

\* Linear PCM, as the header tells it.
PcmFormats ==
    [kind : {"LinearPcm"}, channels : Nat, bits : Nat, rate : Nat,
     sign : {"TwosComplement", "SignMagnitude"}]

\* The decode of two channels of eight bits is that of its halves.
LEMMA StereoOf8 ==
    ASSUME NEW fmt \in PcmFormats, fmt.channels = 2, fmt.bits = 8,
           NEW src \in Seq(Bytes), NEW h \in Nat, Len(src) = 2 * h
    PROVE  LET left == Mono(fmt, Half(src, 1))
               right == Mono(fmt, Half(src, 2))
           IN /\ left # None /\ right # None
              /\ DecodeChunk(fmt, src) = Alternate(left, right)
              /\ DecodeChunk(fmt, src) = Decode8(Stereo8(src, Len(src)), fmt.sign, Len(src))
              /\ Len(DecodeChunk(fmt, src)) = Len(src)
<1> DEFINE Dec(s) == Decode8(s, fmt.sign, Len(s))
<1>1. /\ Half(src, 1) \in Seq(Bytes) /\ Len(Half(src, 1)) = h
      /\ Half(src, 2) \in Seq(Bytes) /\ Len(Half(src, 2)) = h
      /\ \A i \in 1 .. h : Half(src, 1)[i] = src[i] /\ Half(src, 2)[i] = src[h + i]
    BY HalfType
<1>2. Mono(fmt, Half(src, 1)) = Dec(Half(src, 1)) /\ Mono(fmt, Half(src, 2)) = Dec(Half(src, 2))
    BY DEF Mono, DecodeChunk, PcmFormats
<1>3. Len(src) % 2 = 0
    BY Parts
<1>4. DecodeChunk(fmt, src) = Alternate(Half(Dec(src), 1), Half(Dec(src), 2))
    BY <1>3 DEF DecodeChunk, PcmFormats
<1>5. /\ Dec(src) \in Seq(Int) /\ Len(Dec(src)) = 2 * h
      /\ \A i \in 1 .. 2 * h : Dec(src)[i] = Sample8(src[i], fmt.sign)
    BY Decode8Type
<1>6. ASSUME NEW s \in Seq(Bytes), Len(s) = h
      PROVE  /\ Dec(s) = [i \in 1 .. h |-> Sample8(s[i], fmt.sign)]
             /\ Dec(s) \in Seq(Int) /\ Len(Dec(s)) = h /\ Dec(s) # None
    BY <1>6, Decode8Type
<1> HIDE DEF Dec
<1>7. /\ Half(Dec(src), 1) \in Seq(Int) /\ Len(Half(Dec(src), 1)) = h
      /\ Half(Dec(src), 2) \in Seq(Int) /\ Len(Half(Dec(src), 2)) = h
      /\ \A i \in 1 .. h : Half(Dec(src), 1)[i] = Dec(src)[i] /\ Half(Dec(src), 2)[i] = Dec(src)[h + i]
    BY <1>5, HalfType
<1>8. Half(Dec(src), 1) = Dec(Half(src, 1))
  <2>1. \A i \in 1 .. h : Half(Dec(src), 1)[i] = Sample8(Half(src, 1)[i], fmt.sign)
      BY <1>1, <1>5, <1>7
  <2>2. Half(Dec(src), 1) = [i \in 1 .. h |-> Half(Dec(src), 1)[i]]
      BY <1>7
  <2> QED
      BY <2>1, <2>2, <1>1, <1>6
<1>9. Half(Dec(src), 2) = Dec(Half(src, 2))
  <2>1. ASSUME NEW i \in 1 .. h PROVE Half(Dec(src), 2)[i] = Sample8(Half(src, 2)[i], fmt.sign)
    <3>1. h + i \in 1 .. 2 * h
        OBVIOUS
    <3> QED
        BY <3>1, <1>1, <1>5, <1>7
  <2>2. Half(Dec(src), 2) = [i \in 1 .. h |-> Half(Dec(src), 2)[i]]
      BY <1>7
  <2> QED
      BY <2>1, <2>2, <1>1, <1>6
<1>10. DecodeChunk(fmt, src) = Alternate(Dec(Half(src, 1)), Dec(Half(src, 2)))
    BY <1>4, <1>8, <1>9
<1>11. DecodeChunk(fmt, src) = Decode8(Stereo8(src, Len(src)), fmt.sign, Len(src))
  <2> DEFINE bytes == [k \in 1 .. 2 * h |->
                          IF k % 2 = 1 THEN Half(src, 1)[(k + 1) \div 2] ELSE Half(src, 2)[k \div 2]]
  <2>1. Stereo8(src, Len(src)) = bytes
      BY <1>1, <1>3 DEF Stereo8, Alternate
  <2>2. Len(bytes) = Len(src) /\ DOMAIN bytes = 1 .. 2 * h
      OBVIOUS
  <2> DEFINE left == Half(src, 1)
  <2> DEFINE right == Half(src, 2)
  <2>3. Decode8(bytes, fmt.sign, Len(src)) = [k \in 1 .. 2 * h |-> Sample8(bytes[k], fmt.sign)]
    <3> HIDE DEF bytes
    <3> QED
        BY <2>2 DEF Decode8, Sample8
  <2>4. Alternate(Dec(left), Dec(right))
           = [k \in 1 .. 2 * h |-> IF k % 2 = 1 THEN Dec(left)[(k + 1) \div 2] ELSE Dec(right)[k \div 2]]
      BY <1>1, <1>6 DEF Alternate
  <2>5. ASSUME NEW k \in 1 .. 2 * h
        PROVE  (IF k % 2 = 1 THEN Dec(left)[(k + 1) \div 2] ELSE Dec(right)[k \div 2])
                  = Sample8(bytes[k], fmt.sign)
    <3>1. k % 2 = 1 => (k + 1) \div 2 \in 1 .. h
        OBVIOUS
    <3>2. k % 2 # 1 => k \div 2 \in 1 .. h
        OBVIOUS
    <3>3. bytes[k] = IF k % 2 = 1 THEN left[(k + 1) \div 2] ELSE right[k \div 2]
        OBVIOUS
    <3>4. \A i \in 1 .. h : Dec(left)[i] = Sample8(left[i], fmt.sign)
                            /\ Dec(right)[i] = Sample8(right[i], fmt.sign)
        BY <1>1, <1>6
    <3> HIDE DEF bytes, left, right
    <3> QED
        BY <3>1, <3>2, <3>3, <3>4
  <2> HIDE DEF bytes
  <2> QED
      BY <1>10, <2>1, <2>3, <2>4, <2>5
<1>12. Len(DecodeChunk(fmt, src)) = Len(src)
    BY <1>1, <1>6, <1>10, AlternateType
<1> QED
    BY <1>1, <1>2, <1>6, <1>10, <1>11, <1>12

\* So is that of two channels of sixteen bits, if each half is made of words.
LEMMA StereoOf16 ==
    ASSUME NEW fmt \in PcmFormats, fmt.channels = 2, fmt.bits = 16,
           NEW src \in Seq(Bytes), NEW n \in Nat, Len(src) = 2 * (2 * n)
    PROVE  LET left == Mono(fmt, Half(src, 1))
               right == Mono(fmt, Half(src, 2))
           IN /\ left # None /\ right # None
              /\ DecodeChunk(fmt, src) = Alternate(left, right)
              /\ Len(DecodeChunk(fmt, src)) = 2 * n
<1>1. Len(src) % 4 = 0 /\ Len(src) \div 4 = n /\ Len(src) \div 2 = 2 * n
    BY Parts
<1>2. Half(src, 1) = SubSeq(src, 1, 2 * n) /\ Half(src, 2) = SubSeq(src, 2 * n + 1, Len(src))
    BY <1>1 DEF Half
<1>3. /\ Half(src, 1) \in Seq(Bytes) /\ Len(Half(src, 1)) = 2 * n
      /\ Half(src, 2) \in Seq(Bytes) /\ Len(Half(src, 2)) = 2 * n
  <2>1. 2 * n \in Nat
      OBVIOUS
  <2> QED
      BY <2>1, HalfType
<1>4. Mono(fmt, Half(src, 1)) = Decode16(Half(src, 1), Len(Half(src, 1)) \div 2)
      /\ Mono(fmt, Half(src, 2)) = Decode16(Half(src, 2), Len(Half(src, 2)) \div 2)
    BY DEF Mono, DecodeChunk, PcmFormats
<1>5. ASSUME NEW s \in Seq(Bytes), Len(s) = 2 * n
      PROVE  /\ Decode16(s, Len(s) \div 2) = [i \in 1 .. n |-> Word16(s, i)]
             /\ Decode16(s, Len(s) \div 2) \in Seq(Int)
             /\ Len(Decode16(s, Len(s) \div 2)) = n
             /\ Decode16(s, Len(s) \div 2) # None
    BY <1>5, Decode16Type
<1>6. DecodeChunk(fmt, src)
        = Alternate([i \in 1 .. n |-> Word16(Half(src, 1), i)], [i \in 1 .. n |-> Word16(Half(src, 2), i)])
  <2>1. DecodeChunk(fmt, src) = Stereo16(src, Len(src) \div 2)
      BY DEF DecodeChunk, PcmFormats
  <2> DEFINE words(s) == [i \in 1 .. n |-> Word16(s, i)]
  <2>2. Stereo16(src, Len(src) \div 2)
          = Alternate(words(SubSeq(src, 1, 2 * n)), words(SubSeq(src, 2 * n + 1, Len(src))))
      BY <1>1, Zenon DEF Stereo16
  <2> QED
      BY <2>1, <2>2, <1>2, Zenon
<1>7. DecodeChunk(fmt, src) = Alternate(Mono(fmt, Half(src, 1)), Mono(fmt, Half(src, 2)))
    BY <1>3, <1>4, <1>5, <1>6
<1>8. /\ Mono(fmt, Half(src, 1)) \in Seq(Int) /\ Len(Mono(fmt, Half(src, 1))) = n
      /\ Mono(fmt, Half(src, 2)) \in Seq(Int) /\ Len(Mono(fmt, Half(src, 2))) = n
      /\ Mono(fmt, Half(src, 1)) # None /\ Mono(fmt, Half(src, 2)) # None
    BY <1>3, <1>4, <1>5
<1> QED
    BY <1>7, <1>8, AlternateType

\* Two channels are two times one, byte by byte or sample by sample, and the
\* duration told from the table is that of the samples (StereoIsTwoMonos).
THEOREM StereoIsAlwaysTwoMonos == Spec => []StereoIsTwoMonos
<1>1. WalkInv => StereoIsTwoMonos
  <2> DEFINE fmt == AudioFormat(demuxer)
  <2> SUFFICES ASSUME WalkInv, phase = "walk", fmt.kind = "LinearPcm", NEW chunk \in Chunks
               PROVE  LET out == DecodeChunk(fmt, chunk)
                          left == Mono(fmt, Half(chunk, 1))
                          right == Mono(fmt, Half(chunk, 2))
                      IN /\ (fmt.channels = 2 /\ fmt.bits \in {8, 16}) =>
                               out = IF left = None \/ right = None \/ Len(chunk) % 2 # 0 THEN None
                                     ELSE Alternate(left, right)
                         /\ (fmt.channels = 2 /\ fmt.bits = 8 /\ out # None) =>
                              out = Decode8(Stereo8(chunk, Len(chunk)), fmt.sign, Len(chunk))
                         /\ (/\ out # None /\ chunk # <<>>
                             /\ Len(chunk) = AudioBytes(Table) /\ fmt.rate # 0) =>
                              LET seconds == AudioSeconds(demuxer) IN
                              Len(out) * seconds[2] = seconds[1] * fmt.channels * fmt.rate
      BY DEF StereoIsTwoMonos, Mono
  <2> DEFINE out == DecodeChunk(fmt, chunk)
  <2> DEFINE left == Mono(fmt, Half(chunk, 1))
  <2> DEFINE right == Mono(fmt, Half(chunk, 2))
  <2>1. demuxer \in Demuxer
      BY ParsedType DEF WalkInv
  <2>2. fmt \in PcmFormats
    <3>1. demuxer.fdsc \in FdscFields
        BY <2>1 DEF Demuxer
    <3>2. SignConvention(demuxer.version) \in {"TwosComplement", "SignMagnitude"}
        BY DEF SignConvention
    <3>3. fmt = [kind |-> "LinearPcm", channels |-> demuxer.fdsc.channels,
                 bits |-> demuxer.fdsc.bits, rate |-> demuxer.fdsc.rate,
                 sign |-> SignConvention(demuxer.version)]
        BY DEF AudioFormat
    <3> HIDE DEF fmt
    <3> QED
        BY <3>1, <3>2, <3>3 DEF FdscFields, PcmFormats
  <2>3. chunk \in Seq(Bytes) /\ Len(chunk) \in Nat
      BY PlaybackAssumption
  <2>4. ByteRate(fmt) = IF fmt.channels # 0 /\ fmt.bits # 0 /\ fmt.rate # 0 /\ fmt.bits % 8 = 0
                        THEN fmt.channels * (fmt.bits \div 8) * fmt.rate ELSE None
      BY DEF ByteRate
  <2>5. AudioSeconds(demuxer) = IF ByteRate(fmt) = None \/ AudioBytes(Table) = 0 THEN None
                                ELSE <<AudioBytes(Table), ByteRate(fmt)>>
      BY DEF AudioSeconds, Table
  <2> HIDE DEF fmt
  <2>6. fmt.channels \in Nat /\ fmt.bits \in Nat /\ fmt.rate \in Nat
      BY <2>2 DEF PcmFormats
  <2>7. ASSUME fmt.channels = 2, fmt.bits \in {8, 16}
        PROVE  out = IF left = None \/ right = None \/ Len(chunk) % 2 # 0 THEN None
                     ELSE Alternate(left, right)
    <3>1. CASE Len(chunk) % 2 # 0
      <4>1. Len(chunk) % 4 # 0
          BY <2>3, <3>1, Parts
      <4> QED
          BY <2>2, <2>7, <3>1, <4>1 DEF DecodeChunk, Stereo16, PcmFormats
    <3>2. CASE Len(chunk) % 2 = 0 /\ fmt.bits = 8
        BY <2>2, <2>3, <2>7, <3>2, Parts, StereoOf8
    <3>3. CASE Len(chunk) % 4 = 0 /\ fmt.bits = 16
      <4>1. Len(chunk) = 2 * (2 * (Len(chunk) \div 4)) /\ Len(chunk) \div 4 \in Nat /\ Len(chunk) % 2 = 0
          BY <2>3, <3>3, Parts
      <4> QED
          BY <2>2, <2>3, <2>7, <3>3, <4>1, StereoOf16
    <3>4. CASE Len(chunk) % 2 = 0 /\ Len(chunk) % 4 # 0 /\ fmt.bits = 16
      <4>1. Len(Half(chunk, 1)) % 2 # 0
        <5>1. Len(chunk) = 2 * (Len(chunk) \div 2) /\ Len(chunk) \div 2 \in Nat
              /\ (Len(chunk) \div 2) % 2 # 0
            BY <2>3, <3>4, Parts
        <5> QED
            BY <2>3, <5>1, HalfType
      <4>2. left = None
          BY <2>2, <3>4, <4>1 DEF Mono, DecodeChunk, Decode16, PcmFormats
      <4>3. out = None
          BY <2>2, <2>7, <3>4 DEF DecodeChunk, Stereo16, PcmFormats
      <4> QED
          BY <4>2, <4>3
    <3> QED
        BY <2>7, <3>1, <3>2, <3>3, <3>4
  <2>8. ASSUME fmt.channels = 2, fmt.bits = 8, out # None
        PROVE  out = Decode8(Stereo8(chunk, Len(chunk)), fmt.sign, Len(chunk))
    <3>1. Len(chunk) % 2 = 0
        BY <2>2, <2>8 DEF DecodeChunk, PcmFormats
    <3> QED
        BY <2>2, <2>3, <2>8, <3>1, Parts, StereoOf8
  <2>9. ASSUME out # None, chunk # <<>>, Len(chunk) = AudioBytes(Table), fmt.rate # 0
        PROVE  LET seconds == AudioSeconds(demuxer) IN
               Len(out) * seconds[2] = seconds[1] * fmt.channels * fmt.rate
    <3>1. fmt.channels \in {1, 2} /\ fmt.bits \in {8, 16}
        BY <2>2, <2>9 DEF DecodeChunk, PcmFormats
    <3>2. Len(out) \in Nat /\ Len(out) * (fmt.bits \div 8) = Len(chunk)
      <4>1. CASE fmt.bits = 8 /\ fmt.channels = 1
        <5>1. out = Decode8(chunk, fmt.sign, Len(chunk))
            BY <2>2, <4>1 DEF DecodeChunk, PcmFormats
        <5> QED
            BY <2>3, <4>1, <5>1, Decode8Type
      <4>2. CASE fmt.bits = 8 /\ fmt.channels = 2
        <5>1. Len(chunk) % 2 = 0
            BY <2>2, <2>9, <4>2 DEF DecodeChunk, PcmFormats
        <5>2. Len(out) = Len(chunk)
            BY <2>2, <2>3, <4>2, <5>1, Parts, StereoOf8
        <5> QED
            BY <2>3, <4>2, <5>2
      <4>3. CASE fmt.bits = 16 /\ fmt.channels = 1
        <5>1. out = Decode16(chunk, Len(chunk) \div 2)
            BY <2>2, <4>3 DEF DecodeChunk, PcmFormats
        <5>2. Len(chunk) % 2 = 0
            BY <2>9, <5>1 DEF Decode16
        <5>3. Len(out) = Len(chunk) \div 2
          <6>1. Len(chunk) = 2 * (Len(chunk) \div 2) /\ Len(chunk) \div 2 \in Nat
              BY <2>3, <5>2, Parts
          <6> QED
              BY <2>3, <5>1, <6>1, Decode16Type
        <5> QED
            BY <2>3, <4>3, <5>2, <5>3
      <4>4. CASE fmt.bits = 16 /\ fmt.channels = 2
        <5>1. Len(chunk) % 4 = 0
            BY <2>2, <2>9, <4>4 DEF DecodeChunk, Stereo16, PcmFormats
        <5>2. Len(out) = 2 * (Len(chunk) \div 4)
          <6>1. Len(chunk) = 2 * (2 * (Len(chunk) \div 4)) /\ Len(chunk) \div 4 \in Nat
              BY <2>3, <5>1, Parts
          <6> QED
              BY <2>2, <2>3, <4>4, <6>1, StereoOf16
        <5> QED
            BY <2>3, <4>4, <5>1, <5>2
      <4> QED
          BY <3>1, <4>1, <4>2, <4>3, <4>4
    <3>3. ByteRate(fmt) = fmt.channels * (fmt.bits \div 8) * fmt.rate
        BY <2>4, <2>6, <2>9, <3>1
    <3>4. AudioSeconds(demuxer) = <<Len(chunk), ByteRate(fmt)>>
      <4>1. Len(chunk) # 0
          BY <2>3, <2>9
      <4>2. ByteRate(fmt) \in Nat
          BY <2>6, <3>1, <3>3
      <4> QED
          BY <2>5, <2>9, <4>1, <4>2, FilmNoneAssumption
    <3> QED
        BY SMTT(30), <2>3, <2>6, <3>1, <3>2, <3>3, <3>4
  <2> QED
      BY <2>7, <2>8, <2>9
<1> QED
    BY <1>1, WalkInvariant, PTL

=============================================================================
