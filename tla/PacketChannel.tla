---------------------------- MODULE PacketChannel ----------------------------
(***************************************************************************)
(* What a decoder behind send_packet and receive_frame promises a caller,  *)
(* whatever happens inside: packets are answered one by one, in the order  *)
(* in which they were accepted, each exactly once, by a frame of that very *)
(* packet or by its error.  The end is told only after a flush, when       *)
(* nothing is left to answer, and nothing from before a reset is answered  *)
(* after it.                                                               *)
(***************************************************************************)
EXTENDS Integers, Sequences

CONSTANTS Packet, NoPacket

VARIABLES
    accepted,   \* the packets taken since the last reset
    answered,   \* how many of them have been answered
    ended,      \* the caller has flushed
    reply       \* what the last call returned, and of which packet

vars == <<accepted, answered, ended, reply>>

Reply(kind, p) == [kind |-> kind, of |-> p]

Answers == {"frame", "error"}

Init ==
    /\ accepted = <<>>
    /\ answered = 0
    /\ ended = FALSE
    /\ reply = Reply("ok", NoPacket)

\* A packet is taken when all before it have been answered.
Accept ==
    /\ answered = Len(accepted)
    /\ \E p \in Packet : accepted' = Append(accepted, p)
    /\ reply' = Reply("ok", NoPacket)
    /\ UNCHANGED <<answered, ended>>

Refuse ==
    /\ answered < Len(accepted)
    /\ reply' = Reply("refused", NoPacket)
    /\ UNCHANGED <<accepted, answered, ended>>

Answer ==
    /\ answered < Len(accepted)
    /\ answered' = answered + 1
    /\ \E kind \in Answers : reply' = Reply(kind, accepted[answered + 1])
    /\ UNCHANGED <<accepted, ended>>

Starve ==
    /\ answered = Len(accepted)
    /\ reply' = Reply(IF ended THEN "eof" ELSE "needMore", NoPacket)
    /\ UNCHANGED <<accepted, answered, ended>>

End ==
    /\ ended' = TRUE
    /\ reply' = Reply("ok", NoPacket)
    /\ UNCHANGED <<accepted, answered>>

Restart ==
    /\ accepted' = <<>>
    /\ answered' = 0
    /\ ended' = FALSE
    /\ reply' = Reply("ok", NoPacket)

Next == Accept \/ Refuse \/ Answer \/ Starve \/ End \/ Restart

Spec == Init /\ [][Next]_vars

=============================================================================
