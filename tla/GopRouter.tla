----------------------------- MODULE GopRouter -----------------------------
(***************************************************************************)
(* The keyframe scheduling of the encoder: encode_frame decides between an *)
(* intra and an inter frame from the interval, the position in the group   *)
(* of pictures (GOP), a pending request and the previous frame, and a      *)
(* caller may mix it with direct calls of encode_intra and encode_inter.   *)
(* Whether an encode succeeds is the encoder's business: here it may fail. *)
(***************************************************************************)
EXTENDS Naturals

CONSTANTS
    Intervals,  \* arguments of set_keyframe_interval
    Sizes,      \* the (width, height) pairs of the calls
    None

Modes == {"Yuv12", "Gray8"}

FrameShape == [fmt : Modes, size : Sizes]

ASSUME RouterAssumption ==
    /\ Intervals \subseteq Nat
    /\ None \notin Nat \cup FrameShape

VARIABLES
    interval,   \* self.keyframe_interval
    gopPos,     \* self.gop_pos
    force,      \* self.force_keyframe
    prev,       \* self.prev_frame: its format and size
    last,       \* what the last call that encodes returned
    routed,     \* history: inter frames routed since the last routed keyframe
    due         \* history: a keyframe was promised and none routed since

vars == <<interval, gopPos, force, prev, last, routed, due>>

NoResult == [kind |-> "none", by |-> "router", number |-> 0]

Result(kind, by, number) == [kind |-> kind, by |-> by, number |-> number]

Results == [kind : {"none", "key", "inter", "err"}, by : {"router", "caller"}, number : Nat]

Init ==
    /\ interval = None
    /\ gopPos = 0
    /\ force = FALSE
    /\ prev = None
    /\ last = NoResult
    /\ routed = 0
    /\ due = TRUE

ModeMismatch(m) == prev # None /\ prev.fmt # m

\* The decision of encode_frame_mode.
Intra(m) ==
    \/ force
    \/ gopPos = 0
    \/ gopPos % interval = 0
    \/ prev = None
    \/ ModeMismatch(m)

\* Mutant of Advance: it wraps to the position that follows a keyframe.
AdvanceToOne == IF gopPos + 1 >= interval THEN 1 ELSE gopPos + 1

\* The position after an inter frame; zero when the interval is reached.
Advance == IF gopPos + 1 >= interval THEN 0 ELSE gopPos + 1

\* Mutant of NumberInGop: it is read after the position has moved on.
NumberInGopAfter == Advance

\* The number that an inter frame is returned with.
NumberInGop == gopPos

\* encode_frame and encode_frame_gray8 when they route to a keyframe.
RouteIntra ==
    /\ interval # None
    /\ \E m \in Modes, s \in Sizes :
         /\ Intra(m)
         /\ prev' = [fmt |-> m, size |-> s]
    /\ gopPos' = 1
    /\ force' = FALSE
    /\ last' = Result("key", "router", 0)
    /\ routed' = 0
    /\ due' = FALSE
    /\ UNCHANGED interval

\* ... and to an inter frame, which must be of the size of the previous one.
RouteInter ==
    /\ interval # None
    /\ \E m \in Modes :
         /\ ~Intra(m)
         /\ prev' = [fmt |-> m, size |-> prev.size]
    /\ gopPos' = Advance
    /\ last' = Result("inter", "router", NumberInGop)
    /\ routed' = routed + 1
    /\ UNCHANGED <<interval, force, due>>

\* Mutant of AfterError: the request is taken before the encode can fail.
AfterErrorTaken == force' = FALSE /\ UNCHANGED gopPos

\* The error is passed on before the position and the request are touched.
AfterError == UNCHANGED <<gopPos, force>>

\* encode_frame fails: no interval is set, the frame is inter and of another
\* size, or the worker it was routed to fails.
RouteFails ==
    /\ last' = Result("err", "router", 0)
    /\ AfterError
    /\ UNCHANGED <<interval, prev, routed, due>>

\* A direct encode_intra or encode_intra_gray8.
DirectIntra ==
    /\ prev' \in FrameShape
    /\ last' = Result("key", "caller", 0)
    /\ UNCHANGED <<interval, gopPos, force, routed, due>>

\* A direct encode_inter or encode_inter_gray8 in the mode of the previous
\* frame (see CinepakEncoder for a colour call after a gray frame).
DirectInter ==
    /\ prev # None
    /\ last' = Result("inter", "caller", 0)
    /\ UNCHANGED <<interval, gopPos, force, prev, routed, due>>

SetKeyframeInterval ==
    /\ \E n \in Intervals : interval' = IF n > 1 THEN n ELSE 1
    /\ gopPos' = 0
    /\ due' = TRUE
    /\ UNCHANGED <<force, prev, last, routed>>

ClearKeyframeInterval ==
    /\ interval' = None
    /\ gopPos' = 0
    /\ force' = FALSE
    /\ due' = TRUE
    /\ UNCHANGED <<prev, last, routed>>

ForceNextKeyframe ==
    /\ force' = TRUE
    /\ due' = TRUE
    /\ UNCHANGED <<interval, gopPos, prev, last, routed>>

\* reset() keeps the interval.
Reset ==
    /\ gopPos' = 0
    /\ force' = FALSE
    /\ prev' = None
    /\ last' = NoResult
    /\ routed' = 0
    /\ due' = TRUE
    /\ UNCHANGED interval

Next ==
    \/ RouteIntra
    \/ RouteInter
    \/ RouteFails
    \/ DirectIntra
    \/ DirectInter
    \/ SetKeyframeInterval
    \/ ClearKeyframeInterval
    \/ ForceNextKeyframe
    \/ Reset

Spec == Init /\ [][Next]_vars

-----------------------------------------------------------------------------

\* Every variable has its type, and the position is a residue of the interval
\* except right after a keyframe (struct CinepakEncoder, gop_pos).
TypeOK ==
    /\ interval \in (Nat \ {0}) \cup {None}
    /\ gopPos \in Nat
    /\ gopPos > 1 => (interval # None /\ gopPos < interval)
    /\ force \in BOOLEAN
    /\ prev \in FrameShape \cup {None}
    /\ last \in Results
    /\ routed \in Nat
    /\ due \in BOOLEAN

\* Between two routed keyframes lie at most interval - 1 routed inter frames,
\* however the calls fail, the interval changes, requests arrive or the caller
\* encodes on its own in between (encode_frame_mode).
SeekIntervalIsKept == [][RouteInter => routed' < interval]_vars

\* A keyframe that was promised, by construction, reset, set_keyframe_interval
\* or force_next_keyframe, is not forgotten over calls that fail: no inter
\* frame is routed before it.
PromisedKeyframeComesFirst == [][due => ~RouteInter]_vars

\* frame_number_in_gop of a routed frame is its distance from the last routed
\* keyframe: the frames that the router returned since, none counted twice or
\* left out over calls that fail, changes of the interval and pending requests.
\* Frames that the caller encodes on its own do not count.
NumberIsDistance == [][RouteIntra \/ RouteInter => last'.number = routed']_vars

=============================================================================
