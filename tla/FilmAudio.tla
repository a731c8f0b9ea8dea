------------------------------- MODULE FilmAudio -------------------------------
(***************************************************************************)
(* The audio of a FILM file: how its format is told from the header, and   *)
(* how a chunk of linear PCM becomes signed, interleaved samples.  Bytes   *)
(* are numbers from 0 to 255, signed samples are integers.  A helper that  *)
(* writes into a slice of the caller's gets its length; None is an error.  *)
(***************************************************************************)
EXTENDS Film

Bytes == 0 .. 255

\* pcm_sign_convention_for: only a version of letters, digits and dots is
\* Saturn's.
SignConvention(version) == IF version = "ascii" THEN "TwosComplement" ELSE "SignMagnitude"

HasAudio(fdsc) ==
    \/ fdsc.channels # 0
    \/ fdsc.bits # 0
    \/ fdsc.compression # 0
    \/ fdsc.rate # 0

\* Fdsc::audio_format, FilmDemuxer::audio_format
AudioFormat(d) ==
    IF ~HasAudio(d.fdsc) THEN [kind |-> "None"]
    ELSE IF d.fdsc.compression = 0
    THEN [kind |-> "LinearPcm", channels |-> d.fdsc.channels, bits |-> d.fdsc.bits,
          rate |-> d.fdsc.rate, sign |-> SignConvention(d.version)]
    ELSE [kind |-> IF d.fdsc.compression = 2 THEN "CriAdxAdpcm" ELSE "Unknown",
          channels |-> d.fdsc.channels, rate |-> d.fdsc.rate]

\* byte_rate_bps
ByteRate(fmt) ==
    IF /\ fmt.kind = "LinearPcm"
       /\ fmt.channels # 0
       /\ fmt.bits # 0
       /\ fmt.rate # 0
       /\ fmt.bits % 8 = 0
    THEN fmt.channels * (fmt.bits \div 8) * fmt.rate
    ELSE None

\* The bytes of all audio rows.
AudioBytes(t) == MapThenSumSet(LAMBDA i : t[i].length, AudioSamples(t))

\* audio_duration_seconds, as a fraction.
AudioSeconds(d) ==
    LET rate == ByteRate(AudioFormat(d))
        total == AudioBytes(d.samples)
    IN IF rate = None \/ total = 0 THEN None ELSE <<total, rate>>

-----------------------------------------------------------------------------
\* The samples of a chunk.

\* A word read as two's complement, given the value of its top bit.
Signed(x, top) == IF x >= top THEN x - 2 * top ELSE x

\* pcm_sign_magnitude_to_i8: negative zero is zero.
SignMagnitude(b) == IF b >= 128 THEN -(b % 128) ELSE b

Decode8(src, sign, len) ==
    IF len # Len(src) THEN None
    ELSE [i \in DOMAIN src |->
             IF sign = "TwosComplement" THEN Signed(src[i], 128) ELSE SignMagnitude(src[i])]

\* The big-endian word of the i-th pair of bytes.
Word16(src, i) == Signed(256 * src[2 * i - 1] + src[2 * i], 32768)

Decode16(src, len) ==
    IF Len(src) % 2 # 0 \/ len # Len(src) \div 2 THEN None
    ELSE [i \in 1 .. Len(src) \div 2 |-> Word16(src, i)]

\* The two halves of a chunk, sample by sample.
Alternate(left, right) ==
    [k \in 1 .. 2 * Len(left) |->
        IF k % 2 = 1 THEN left[(k + 1) \div 2] ELSE right[k \div 2]]

Half(s, n) == IF n = 1 THEN SubSeq(s, 1, Len(s) \div 2)
              ELSE SubSeq(s, Len(s) \div 2 + 1, Len(s))

\* pcm_deinterleave_stereo_8bit
Stereo8(src, len) ==
    IF Len(src) % 2 # 0 \/ len # Len(src) THEN None
    ELSE Alternate(Half(src, 1), Half(src, 2))

\* Mutant of Stereo16: the chunk is cut at the number of samples of a channel.
Stereo16CutAtSamples(src, len) ==
    IF Len(src) % 4 # 0 \/ len # Len(src) \div 2 THEN None
    ELSE LET n == Len(src) \div 4 IN
         Alternate([i \in 1 .. n |-> Word16(SubSeq(src, 1, 2 * n), i)],
                   [i \in 1 .. n |-> Word16(SubSeq(src, n + 1, Len(src)), i)])

\* pcm_deinterleave_stereo_16be: the chunk is cut in two halves of bytes, each
\* a multiple of two.
Stereo16(src, len) ==
    IF Len(src) % 4 # 0 \/ len # Len(src) \div 2 THEN None
    ELSE LET n == Len(src) \div 4 IN
         Alternate([i \in 1 .. n |-> Word16(SubSeq(src, 1, 2 * n), i)],
                   [i \in 1 .. n |-> Word16(SubSeq(src, 2 * n + 1, Len(src)), i)])

\* FilmAudioFormat::decode_chunk_to_i16; the eight-bit stereo case interleaves
\* by itself.
DecodeChunk(fmt, src) ==
    IF fmt.kind # "LinearPcm" THEN None
    ELSE IF fmt.bits = 8 /\ fmt.channels = 1 THEN Decode8(src, fmt.sign, Len(src))
    ELSE IF fmt.bits = 8 /\ fmt.channels = 2
    THEN IF Len(src) % 2 # 0 THEN None
         ELSE LET decoded == Decode8(src, fmt.sign, Len(src)) IN
              Alternate(Half(decoded, 1), Half(decoded, 2))
    ELSE IF fmt.bits = 16 /\ fmt.channels = 1 THEN Decode16(src, Len(src) \div 2)
    ELSE IF fmt.bits = 16 /\ fmt.channels = 2 THEN Stereo16(src, Len(src) \div 2)
    ELSE None

=============================================================================
