----------------------------- MODULE PacketHandle -----------------------------
(***************************************************************************)
(* CinepakDecoderHandle: the decoder behind the packet interface of the    *)
(* codec registry.  One packet waits in `pending'; receive_frame takes it  *)
(* out before it decodes it.                                               *)
(*                                                                         *)
(* Of the decoder inside, which CinepakDecoder models, only this is kept:  *)
(* the packets that its carried picture and codebooks are the decode of.   *)
(* A packet that fails leaves them alone when the frame header is at fault *)
(* and torn otherwise; an inter frame on torn or no state may fail, or     *)
(* give a picture that is not the decode of anything.                      *)
(***************************************************************************)
EXTENDS Integers, Sequences

CONSTANTS
    PacketIds,  \* the packets of the stream
    NoPacket

ASSUME HandleAssumption == NoPacket \notin [id : PacketIds, key : BOOLEAN]

Packet == [id : PacketIds, key : BOOLEAN]

VARIABLES
    pending,    \* self.pending
    eof,        \* self.eof
    inner,      \* self.inner: the packets its state is the decode of, or <<>>
    reply,      \* what the last call returned, and of which packet
    picture,    \* of the last frame returned: the packets it is the decode of
    log         \* history: the packets accepted since the last reset

handleVars == <<pending, eof, inner, reply, picture, log>>

Reply(kind, p) == [kind |-> kind, of |-> p]

\* make_decoder
HandleInit ==
    /\ pending = NoPacket
    /\ eof = FALSE
    /\ inner = <<>>
    /\ reply = Reply("ok", NoPacket)
    /\ picture = <<>>
    /\ log = <<>>

SendPacket(p) ==
    /\ pending = NoPacket
    /\ pending' = p
    /\ log' = Append(log, p)
    /\ reply' = Reply("ok", NoPacket)
    /\ UNCHANGED <<eof, inner, picture>>

\* send_packet before the pending packet was received.
RefusePacket ==
    /\ pending # NoPacket
    /\ reply' = Reply("refused", NoPacket)
    /\ UNCHANGED <<pending, eof, inner, picture, log>>

\* decode_frame: a keyframe depends on nothing before it.
Decoded(p) ==
    IF p.key THEN <<p.id>> ELSE IF inner = <<>> THEN <<>> ELSE Append(inner, p.id)

\* Mutant of Taken: a packet that fails stays for another try.
TakenIfDecoded(ok) == IF ok THEN NoPacket ELSE pending

\* self.pending.take() comes before the decoder is called.
Taken(ok) == NoPacket

\* receive_frame with a pending packet that decodes.
ReceiveFrame ==
    /\ pending # NoPacket
    /\ inner' = Decoded(pending)
    /\ picture' = inner'
    /\ reply' = Reply("frame", pending)
    /\ pending' = Taken(TRUE)
    /\ UNCHANGED <<eof, log>>

\* receive_frame with a pending packet that does not.
ReceiveError ==
    /\ pending # NoPacket
    /\ inner' \in {inner, <<>>}
    /\ reply' = Reply("error", pending)
    /\ pending' = Taken(FALSE)
    /\ UNCHANGED <<eof, picture, log>>

\* receive_frame with nothing pending.
ReceiveNothing ==
    /\ pending = NoPacket
    /\ reply' = Reply(IF eof THEN "eof" ELSE "needMore", NoPacket)
    /\ UNCHANGED <<pending, eof, inner, picture, log>>

Flush ==
    /\ eof' = TRUE
    /\ reply' = Reply("ok", NoPacket)
    /\ UNCHANGED <<pending, inner, picture, log>>

\* Mutant of AfterReset: the packet that waits survives the reset.
AfterResetPending == pending

\* reset() drops the packet that waits.
AfterReset == NoPacket

Reset ==
    /\ inner' = <<>>
    /\ pending' = AfterReset
    /\ eof' = FALSE
    /\ reply' = Reply("ok", NoPacket)
    /\ log' = <<>>
    /\ UNCHANGED picture

HandleNext ==
    \/ \E p \in Packet : SendPacket(p)
    \/ RefusePacket
    \/ ReceiveFrame
    \/ ReceiveError
    \/ ReceiveNothing
    \/ Flush
    \/ Reset

HandleSpec == HandleInit /\ [][HandleNext]_handleVars

-----------------------------------------------------------------------------

HandleTypeOK ==
    /\ pending \in Packet \cup {NoPacket}
    /\ eof \in BOOLEAN
    /\ inner \in Seq(PacketIds)
    /\ picture \in Seq(PacketIds)
    /\ log \in Seq(Packet)

\* The packet that waits is the last one accepted (self.pending and what
\* send_packet put there).
PendingIsLast == pending # NoPacket => log # <<>> /\ pending = log[Len(log)]

\* The handle implements the packet channel: accepted packets are answered
\* once, in order, none is answered after a reset, and the end is told after
\* a flush only (send_packet, receive_frame, flush, reset).
Channel == INSTANCE PacketChannel WITH
    accepted <- log,
    answered <- Len(log) - (IF pending = NoPacket THEN 0 ELSE 1),
    ended <- eof

ChannelSpec == Channel!Spec

=============================================================================
