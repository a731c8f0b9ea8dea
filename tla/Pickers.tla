------------------------------ MODULE Pickers ------------------------------
(***************************************************************************)
(* The stateless encoders that try a grid of options and keep the cheapest *)
(* frame.  A uniform picker encodes the whole frame once for every number  *)
(* of strips and every option; the picker of round 8 also builds a frame   *)
(* strip by strip, each with the option that is best for it, and returns   *)
(* the better of the two.                                                  *)
(*                                                                         *)
(* An option stands for a pair of lambda and luma weight.  What it makes   *)
(* of a strip, its distortion and length or a failure, is left open, but   *)
(* is the same in every trial: a strip of an intra frame is trained on its *)
(* own rows alone, so that a frame is no more than its strips behind a     *)
(* header.  Costs are multiplied out by the number of pixels and exact;    *)
(* the code computes them in f64.                                          *)
(***************************************************************************)
EXTENDS Integers, Sequences, Functions

CONSTANTS
    Counts,       \* strip_candidates, in order
    Lists,        \* the candidate lists: the options, in the order of the loops
    Options,
    Default,      \* the caller's own options
    Outcomes,     \* what an encode may yield: [sse, len]
    NoFrame,      \* no frame: a failure, or none yet
    Weights,      \* the scoring lambdas
    HeaderSize,   \* FRAME_HEADER_SIZE
    VintageStrips \* vintage_compat allows no more strips: 3

ASSUME PickerAssumption ==
    /\ Counts \in Seq(Nat \ {0}) /\ Counts # <<>>
    /\ Lists \subseteq Seq(Options) \ {<<>>}
    /\ Default \in Options
    /\ Outcomes \subseteq [sse : Nat, len : Nat]
    /\ NoFrame \notin Outcomes \cup [frame : Seq(Options), cost : Nat]
    /\ Weights \subseteq Nat
    /\ HeaderSize \in Nat /\ VintageStrips \in Nat

\* The i-th of c strips.
Parts == UNION {{c} \X (1 .. c) : c \in Range(Counts)}

VARIABLES
    method,   \* "uniform", "perStrip" or "round8"
    list,     \* lambda_candidates and luma_candidates
    weight,   \* scoring_lambda
    vintage,  \* opts.vintage_compat
    encode,   \* what encode_rgb24 makes of a strip with an option
    pc,
    nth,      \* the strip count that is tried: Counts[nth]
    kth,      \* the option that is tried: list[kth]
    chosen,   \* chosen_strip_bytes: the option of each strip
    measured, \* frame_y_sse
    bestStrips, \* best_frame: a frame of the per-strip picker
    bestWhole,  \* best: a frame of the uniform picker
    result,   \* the frame returned, or NoFrame
    fellBack  \* history: a strip was coded by the fallback

input == <<method, list, weight, vintage, encode>>
pickVars == <<input, pc, nth, kth, chosen, measured, bestStrips, bestWhole, result, fellBack>>

PickInit ==
    /\ method \in {"uniform", "perStrip", "round8"}
    /\ list \in Lists
    /\ weight \in Weights
    /\ vintage \in BOOLEAN
    /\ encode \in [Parts -> [Options -> Outcomes \cup {NoFrame}]]
    /\ pc = IF method = "uniform" THEN "whole" ELSE "strips"
    /\ nth = 1 /\ kth = 1
    /\ chosen = <<>> /\ measured = 0
    /\ bestStrips = NoFrame /\ bestWhole = NoFrame
    /\ result = NoFrame /\ fellBack = FALSE

-----------------------------------------------------------------------------

\* A frame is the options of its strips.
Part(f, i) == encode[<<Len(f), i>>][f[i]]
Fails(f) == \E i \in DOMAIN f : Part(f, i) = NoFrame

\* The sum of a sequence of numbers.
Total(s) ==
    LET sum[i \in 0 .. Len(s)] == IF i = 0 THEN 0 ELSE sum[i - 1] + s[i]
    IN  sum[Len(s)]

Distortion(f) == Total([i \in DOMAIN f |-> Part(f, i).sse])
Length(f) == HeaderSize + Total([i \in DOMAIN f |-> Part(f, i).len])

\* D + lambda R
CostOf(f) == Distortion(f) + weight * Length(f)

\* A frame and the cost it is ranked by.
Ranked(f, cost) == [frame |-> f, cost |-> cost]

\* The lower cost wins, then the smaller frame, then the earlier.
Better(new, old) ==
    \/ old = NoFrame
    \/ new.cost < old.cost
    \/ new.cost = old.cost /\ Length(new.frame) < Length(old.frame)

Keep(new, old) == IF Better(new, old) THEN new ELSE old

-----------------------------------------------------------------------------
\* The uniform pickers.

\* encode_rgb24 of the whole frame, which validates the options.
Uniform(c, o) == [i \in 1 .. c |-> o]
Invalid(f) == Fails(f) \/ (vintage /\ Len(f) > VintageStrips)

TryWhole ==
    /\ pc = "whole" /\ nth <= Len(Counts)
    /\ LET f == Uniform(Counts[nth], list[kth]) IN
         IF Invalid(f)
         THEN /\ result' = NoFrame
              /\ pc' = "done"
              /\ UNCHANGED <<nth, kth, bestWhole>>
         ELSE /\ bestWhole' = Keep(Ranked(f, CostOf(f)), bestWhole)
              /\ nth' = IF kth < Len(list) THEN nth ELSE nth + 1
              /\ kth' = IF kth < Len(list) THEN kth + 1 ELSE 1
              /\ UNCHANGED <<result, pc>>
    /\ UNCHANGED <<input, chosen, measured, bestStrips, fellBack>>

\* cost_of the two frames decides, then the smaller one, then the strips.
Preferred(strips, whole) ==
    IF \/ CostOf(strips) < CostOf(whole)
       \/ CostOf(strips) = CostOf(whole) /\ Length(strips) <= Length(whole)
    THEN strips ELSE whole

ReturnWhole ==
    /\ pc = "whole" /\ nth > Len(Counts)
    /\ result' = IF method = "round8"
                 THEN Preferred(bestStrips.frame, bestWhole.frame)
                 ELSE bestWhole.frame
    /\ pc' = "done"
    /\ UNCHANGED <<input, nth, kth, chosen, measured, bestStrips, bestWhole, fellBack>>

-----------------------------------------------------------------------------
\* The per-strip picker.

Strip == <<Counts[nth], Len(chosen) + 1>>

\* The options of the list that the strip can be encoded with, by position.
Works == {j \in 1 .. Len(list) : encode[Strip][list[j]] # NoFrame}

\* Mutant of StripCost: strips are ranked by their distortion.
StripCostOfDistortion(o) == encode[Strip][o].sse

\* A trial is a frame of one strip, header and all.
StripCost(o) == encode[Strip][o].sse + weight * (HeaderSize + encode[Strip][o].len)

CheapestFirst == CHOOSE j \in Works : \A i \in Works :
                    /\ StripCost(list[j]) <= StripCost(list[i])
                    /\ StripCost(list[j]) = StripCost(list[i]) => j <= i

\* Mutant of Winner: the replay of the search keeps the last of equals.
WinnerLast == CHOOSE j \in Works : \A i \in Works :
                    /\ StripCost(list[j]) <= StripCost(list[i])
                    /\ StripCost(list[j]) = StripCost(list[i]) => j >= i

\* find_winning_opts searches again for what the trials of the strip found.
Winner == CheapestFirst

PickStrip ==
    /\ pc = "strips" /\ nth <= Len(Counts)
    /\ Len(chosen) < Counts[nth]
    /\ Works # {}
    /\ chosen' = Append(chosen, list[Winner])
    /\ measured' = measured + encode[Strip][list[CheapestFirst]].sse
    /\ UNCHANGED <<input, pc, nth, kth, bestStrips, bestWhole, result, fellBack>>

\* No trial succeeded: the strip is encoded with the caller's options, and adds
\* nothing to the distortion of the frame.
FallBack ==
    /\ pc = "strips" /\ nth <= Len(Counts)
    /\ Len(chosen) < Counts[nth]
    /\ Works = {} /\ encode[Strip][Default] # NoFrame
    /\ chosen' = Append(chosen, Default)
    /\ fellBack' = TRUE
    /\ UNCHANGED <<input, pc, nth, kth, measured, bestStrips, bestWhole, result>>

NextCount == nth' = nth + 1 /\ chosen' = <<>> /\ measured' = 0

\* Nor does that: the strip count is given up.
AbandonCount ==
    /\ pc = "strips" /\ nth <= Len(Counts)
    /\ Len(chosen) < Counts[nth]
    /\ Works = {} /\ encode[Strip][Default] = NoFrame
    /\ NextCount
    /\ UNCHANGED <<input, pc, kth, bestStrips, bestWhole, result, fellBack>>

AssembleFrame ==
    /\ pc = "strips" /\ nth <= Len(Counts)
    /\ Len(chosen) = Counts[nth]
    /\ bestStrips' = Keep(Ranked(chosen, measured + weight * Length(chosen)), bestStrips)
    /\ NextCount
    /\ UNCHANGED <<input, pc, kth, bestWhole, result, fellBack>>

ReturnStrips ==
    /\ pc = "strips" /\ nth > Len(Counts)
    /\ IF method = "round8" /\ bestStrips # NoFrame
       THEN pc' = "whole" /\ nth' = 1 /\ UNCHANGED result
       ELSE /\ pc' = "done"
            /\ result' = IF bestStrips = NoFrame THEN NoFrame ELSE bestStrips.frame
            /\ UNCHANGED nth
    /\ UNCHANGED <<input, kth, chosen, measured, bestStrips, bestWhole, fellBack>>

PickNext ==
    \/ TryWhole
    \/ ReturnWhole
    \/ PickStrip
    \/ FallBack
    \/ AbandonCount
    \/ AssembleFrame
    \/ ReturnStrips

PickSpec == PickInit /\ [][PickNext]_pickVars

-----------------------------------------------------------------------------

\* The frames that a uniform picker may come to try.
UniformFrames ==
    {f \in {Uniform(c, o) : c \in Range(Counts), o \in Range(list)} : ~Invalid(f)}

\* Unless a strip fell back, the frame built strip by strip is ranked by the
\* cost it has, though its distortion was measured on the trials and its strips
\* are encoded once more, with options found by a second search
\* (encode_rgb24_per_strip_rd, find_winning_opts).
RankedByItsOwnCost ==
    (bestStrips # NoFrame /\ ~fellBack) => bestStrips.cost = CostOf(bestStrips.frame)

\* Unless a strip fell back, the frame built strip by strip costs no more than
\* any frame with one option throughout: the greedy choice in each strip is the
\* best for the frame, and a count of strips that was abandoned has no uniform
\* frame either.  What round 8 and the uniform pickers return costs no more than
\* any uniform frame, and holds no strip of the fallback, whose distortion the
\* ranking leaves out: such a strip fails in the uniform trials as well, and
\* with them the call (encode_rgb24_per_strip_rd,
\* encode_rgb24_best_rd_grid_3axis, encode_rgb24_round8).
NoWorseThanUniform ==
    /\ (method # "uniform" /\ pc \in {"whole", "done"} /\ ~fellBack) =>
         \A f \in UniformFrames :
            bestStrips # NoFrame /\ CostOf(bestStrips.frame) <= CostOf(f)
    /\ (method # "perStrip" /\ pc = "done" /\ result # NoFrame) =>
         ~fellBack /\ \A f \in UniformFrames : CostOf(result) <= CostOf(f)

=============================================================================
