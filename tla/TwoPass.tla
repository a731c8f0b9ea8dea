------------------------------- MODULE TwoPass -------------------------------
(***************************************************************************)
(* The second pass of TwoPassRateControl.  Each call picks the quality of  *)
(* one frame after the other: by trying a grid of qualities against a      *)
(* budget for the frame, or, under a budget for a window of frames, by     *)
(* keeping the quality of the frame before while the window is on target   *)
(* and by bisection otherwise.  Every trial encodes the sequence up to the *)
(* frame anew.                                                             *)
(*                                                                         *)
(* What length a frame has at which quality is left open; it depends on    *)
(* nothing but the qualities of the frames before, so that all trials of a *)
(* frame see the same curve.                                               *)
(***************************************************************************)
EXTENDS Integers, Sequences

CONSTANTS
    QMax,      \* the highest quality: 100
    Trials,    \* the most trials of a bisection: 8
    Grid,      \* the qualities of the grid, in ascending order
    Curves,    \* the lengths of a frame at each quality
    Targets,   \* the values of target_bytes and target_window_bytes
    Windows,   \* the values of window_size
    Tols,      \* the tolerances in per cent, and the bounds of adaptive ones
    MaxFrames, \* bound: the frames of a sequence
    None

Qs == 0 .. QMax

\* The qualities that are at most undecided after n trials: a trial decides one
\* and one half of the others.
Undecided[n \in 0 .. Trials] == IF n = 0 THEN QMax + 1 ELSE Undecided[n - 1] \div 2

\* There are enough trials: QMax + 1 < 2 ^ Trials.
ASSUME TwoPassAssumption ==
    /\ QMax \in Nat
    /\ Trials \in Nat /\ Undecided[Trials] = 0
    /\ Grid \in Seq(Qs) /\ Len(Grid) > 0 /\ Grid[1] = 0
    /\ \A i, j \in 1 .. Len(Grid) : i < j => Grid[i] < Grid[j]
    /\ Curves \subseteq [Qs -> Nat \ {0}]
    /\ Targets \subseteq Nat
    /\ Windows \subseteq Nat \ {0}
    /\ Tols \subseteq {t \in Nat \X Nat : t[1] <= t[2]}
    /\ MaxFrames \in Nat

Modes == {"grid", "fixed", "adaptive"}

\* An encode: its quality, those of the frames before it, and its length.
Enc == [q : Qs, from : Seq(Qs), len : Nat]

ASSUME NoneAssumption == None \notin Enc

VARIABLES
    phase,   \* no call, between frames, or in the search for one
    mode,    \* which of the three methods was called
    target,  \* target_bytes, target_window_bytes
    window,
    tol,     \* tolerance_pct, or its lower and upper bound
    qs,      \* chosen_qs
    sizes,   \* frame_sizes
    out,     \* the frames so far: the quality told and the encode
    curve,   \* the lengths of the current frame
    lo, hi,  \* of the bisection
    tries,   \* the trials so far, of a bisection or of the grid
    best

call == <<mode, target, window, tol>>
done == <<qs, sizes, out>>
search == <<lo, hi, tries, best>>
vars == <<phase, call, done, curve, search>>

ClearSearch == lo' = 0 /\ hi' = QMax /\ tries' = 0 /\ best' = None

Init ==
    /\ phase = "idle"
    /\ mode = "grid" /\ target = 0 /\ window = 1 /\ tol = <<0, 0>>
    /\ qs = <<>> /\ sizes = <<>> /\ out = <<>>
    /\ curve = None
    /\ lo = 0 /\ hi = QMax /\ tries = 0 /\ best = None

-----------------------------------------------------------------------------
\* The window of a frame: the frames before it, at most `window' of them.

InWindow == IF Len(sizes) < window THEN Len(sizes) ELSE window

WindowSum ==
    LET sum[i \in 0 .. InWindow] ==
            IF i = 0 THEN 0 ELSE sum[i - 1] + sizes[Len(sizes) - InWindow + i]
    IN  sum[InWindow]

PerFrame == target \div window

SatSub(a, b) == IF a > b THEN a - b ELSE 0

Deviation(a, b) == IF a > b THEN a - b ELSE b - a

\* The sum projected, with one more frame like those of the window, is within t
\* per cent of the part of the target that falls to that many frames.
Within(t) ==
    LET projected == WindowSum + WindowSum \div InWindow
        expected == SatSub(target, SatSub(window, InWindow + 1) * PerFrame)
    IN  expected > 0 /\ 100 * Deviation(projected, expected) <= t * expected

\* The tolerance grows from its lower to its upper bound with the variance of
\* the window, which is left open.
LowestTol == IF mode = "adaptive" /\ InWindow < 2 THEN tol[2] ELSE tol[1]
HighestTol == tol[2]

\* What a frame may cost.
Cap == IF mode = "grid" THEN target ELSE SatSub(target, WindowSum)

Fits(len) == len <= Cap

-----------------------------------------------------------------------------

\* Mutant of Encode: the frames before are encoded at the quality of the trial.
EncodeAllAt(q) == [q |-> q, from |-> [i \in 1 .. Len(qs) |-> q], len |-> curve[q]]

\* replay_to_frame_at_q: the frames before are encoded as chosen, then the frame.
Encode(q) == [q |-> q, from |-> qs, len |-> curve[q]]

Call ==
    /\ phase = "idle"
    /\ mode' \in Modes
    /\ target' \in Targets
    /\ window' \in Windows
    /\ tol' \in Tols
    /\ mode' = "fixed" => tol'[1] = tol'[2]
    /\ qs' = <<>> /\ sizes' = <<>> /\ out' = <<>>
    /\ phase' = "frames"
    /\ UNCHANGED <<curve, search>>

BeginFrame ==
    /\ phase = "frames"
    /\ Len(qs) < MaxFrames
    /\ curve' \in Curves
    /\ phase' = "decide"
    /\ UNCHANGED <<call, done, search>>

\* The frame gets quality q and the bytes of encode e.
Deliver(q, e) ==
    /\ qs' = Append(qs, q)
    /\ sizes' = Append(sizes, e.len)
    /\ out' = Append(out, [quality |-> q, enc |-> e])
    /\ phase' = "frames"
    /\ curve' = None
    /\ ClearSearch
    /\ UNCHANGED call

\* The window is on target: the quality is kept.
Hold ==
    /\ phase = "decide" /\ mode # "grid"
    /\ qs # <<>>
    /\ Within(HighestTol)
    /\ Deliver(qs[Len(qs)], Encode(qs[Len(qs)]))

Bisect ==
    /\ phase = "decide" /\ mode # "grid"
    /\ qs # <<>> => ~Within(LowestTol)
    /\ phase' = "bisect"
    /\ UNCHANGED <<call, done, curve, search>>

Mid == lo + (hi - lo) \div 2

AtFloor(q) == q = 0

\* Mutant of Stopped: the last quality is not tried.
StoppedEarly == lo >= hi \/ tries = Trials

Stopped == lo > hi \/ tries = Trials

\* Mutant of Kept: the trial is kept whether it fits or not.
KeptAlways(e) == e

Kept(e) == IF Fits(e.len) \/ (AtFloor(e.q) /\ best = None) THEN e ELSE best

\* bisect_q_for_window: one turn of the loop.  Its breaks leave lo above hi.
TryMid ==
    /\ phase = "bisect"
    /\ ~Stopped
    /\ tries' = tries + 1
    /\ best' = Kept(Encode(Mid))
    /\ \/ /\ Fits(curve[Mid])
          /\ lo' = Mid + 1
          /\ UNCHANGED hi
       \/ /\ ~Fits(curve[Mid]) /\ AtFloor(Mid)
          /\ lo' = hi + 1
          /\ UNCHANGED hi
       \/ /\ ~Fits(curve[Mid]) /\ ~AtFloor(Mid)
          /\ hi' = Mid - 1
          /\ UNCHANGED lo
    /\ UNCHANGED <<phase, call, done, curve>>

\* encode_at_target_bytes: the next quality of the grid.
TryGrid ==
    /\ phase = "decide" /\ mode = "grid"
    /\ tries < Len(Grid)
    /\ tries' = tries + 1
    /\ LET e == Encode(Grid[tries + 1]) IN
         best' = IF Fits(e.len) /\ (best = None \/ e.q > best.q) THEN e ELSE best
    /\ UNCHANGED <<phase, call, done, curve, lo, hi>>

\* The search is over; without a result the lowest quality is taken.
Choose ==
    /\ \/ phase = "bisect" /\ Stopped
       \/ phase = "decide" /\ mode = "grid" /\ tries = Len(Grid)
    /\ LET e == IF best = None THEN Encode(0) ELSE best IN Deliver(e.q, e)

\* A failing encode ends the call.
Fail ==
    /\ phase \in {"decide", "bisect"}
    /\ phase' = "idle"
    /\ qs' = <<>> /\ sizes' = <<>> /\ out' = <<>>
    /\ curve' = None
    /\ ClearSearch
    /\ UNCHANGED call

Return ==
    /\ phase = "frames"
    /\ phase' = "idle"
    /\ UNCHANGED <<call, done, curve, search>>

Next ==
    \/ Call
    \/ BeginFrame
    \/ Hold
    \/ Bisect
    \/ TryMid
    \/ TryGrid
    \/ Choose
    \/ Fail
    \/ Return

Spec == Init /\ [][Next]_vars

-----------------------------------------------------------------------------

\* Every variable has its type; lo and hi are u8 (the locals of
\* encode_at_target_window_bytes and bisect_q_for_window).
TypeOK ==
    /\ phase \in {"idle", "frames", "decide", "bisect"}
    /\ mode \in Modes
    /\ target \in Nat
    /\ window \in Nat \ {0}
    /\ tol \in Nat \X Nat
    /\ qs \in Seq(Qs)
    /\ sizes \in Seq(Nat)
    /\ out \in Seq([quality : Qs, enc : Enc])
    /\ Len(qs) = Len(out) /\ Len(sizes) = Len(out)
    /\ curve = None \/ curve \in Curves
    /\ lo \in 0 .. QMax + 1
    /\ hi \in Qs
    /\ tries \in Nat
    /\ best \in Enc \cup {None}

\* "Concatenating them in order produces a decodable Cinepak sequence": each
\* frame was encoded after exactly the frames returned before it, at the
\* qualities told (encode_at_target_bytes, replay_to_frame_at_q).
FramesFollowEachOther ==
    \A i \in 1 .. Len(out) :
        /\ out[i].enc.q = out[i].quality
        /\ out[i].enc.from = [j \in 1 .. i - 1 |-> out[j].quality]

\* The qualities that a search has to choose from.
Offered == IF mode = "grid" THEN {Grid[i] : i \in 1 .. Len(Grid)} ELSE Qs

Monotone == \A q, r \in Qs : q <= r => curve[q] <= curve[r]

\* A search ends with the highest quality that fits, and with the lowest if
\* none does: a grid for every frame, a bisection for frames that get no
\* shorter with quality (encode_at_target_bytes, bisect_q_for_window).
HighestThatFits ==
    [][(Choose /\ (mode = "grid" \/ Monotone)) =>
        LET q == qs'[Len(qs')]
            fitting == {r \in Offered : Fits(curve[r])}
        IN  IF fitting = {} THEN q = 0
            ELSE q \in fitting /\ \A r \in fitting : r <= q]_vars

\* Also where lengths go up and down, a bisection ends with a frame that fits
\* whenever the lowest quality does (bisect_q_for_window).
FitsIfLowestFits ==
    [][(Choose /\ Fits(curve[0])) => Fits(sizes'[Len(sizes')])]_vars

\* "The encoder holds quality ... while the rolling sum of the last window_size
\* frame sizes stays within tolerance_pct of target_window_bytes; when it
\* drifts outside, the encoder runs a binary search"
\* (encode_at_target_window_bytes).
HoldsWhileOnTarget ==
    [][(Bisect /\ InWindow = window) =>
            100 * Deviation(WindowSum, target) > LowestTol * target]_vars

=============================================================================
