----------------------------- MODULE MCSearches -----------------------------
(***************************************************************************)
(* The searches of the encoder, side by side: one behaviour either runs    *)
(* the second pass of the rate control (TwoPass), or picks among the       *)
(* frames of a grid of options (Pickers), or trains the codebooks of one   *)
(* strip (Training).                                                       *)
(*                                                                         *)
(* Second pass: as in MCTwoPass.                                           *)
(*                                                                         *)
(* Pickers: one or two strips, two options, whose outcomes differ or tie   *)
(* in cost, or fail.                                                       *)
(*                                                                         *)
(* Training: vectors of two luma dimensions and a chroma dimension, strips *)
(* of one to four macroblocks, of which some are skipped, books of two to  *)
(* four entries, with and without the books of a frame before.  A book of  *)
(* three entries is wide.  Two strips are such that a polish changes what  *)
(* is decided.                                                             *)
(***************************************************************************)
EXTENDS MCTwoPass, Pickers, Training

MCCounts == <<1, 2>>
MCLists == {<<"a", "b">>, <<"a">>}
MCOutcomes == {[sse |-> 0, len |-> 4], [sse |-> 1, len |-> 1], [sse |-> 2, len |-> 0]}

-----------------------------------------------------------------------------

Vec(y1, y2, u) == <<y1, y2, u>>

\* The V1 vector has the mean luma of each part.
Block(a, b, chroma) ==
    [v4 |-> <<a, b>>, skip |-> FALSE,
     v1 |-> Vec((a[1] + a[2]) \div 2, (b[1] + b[2]) \div 2, chroma)]

A == Vec(0, 0, 0)
B == Vec(3, 1, -2)
C == Vec(2, 5, 1)
D == Vec(1, 1, 1)
E == Vec(0, 4, -1)

Colours == {Block(A, B, -1), Block(A, D, 0), Block(C, E, 0)}
Skipped == [Block(A, B, -1) EXCEPT !.skip = TRUE]
NoChroma(v) == [v EXCEPT ![3] = 0]
Grays == {Block(NoChroma(b.v4[1]), NoChroma(b.v4[2]), 0) : b \in Colours}

Coded(blocks, pixels, luma, size, seed4, seed1) ==
    [mbs |-> blocks, metric |-> [mode |-> pixels, weight |-> luma],
     sizes |-> [V4 |-> size, V1 |-> 2], seed |-> [V4 |-> seed4, V1 |-> seed1]]

Settling ==
    {Coded(<<Block(Vec(3, 4, -1), Vec(4, 2, 1), 0), Block(Vec(2, 2, -1), Vec(5, 3, 2), -1),
             Block(Vec(5, 6, 2), Vec(1, 6, -2), 3), Block(Vec(1, 4, 1), Vec(1, 2, 1), -3)>>,
           "Yuv12", luma, 3, NoBook, NoBook) : luma \in {1, 2}}
    \cup
    {Coded(<<Block(Vec(3, 7, -1), Vec(1, 6, -2), 0), Block(Vec(2, 4, -1), Vec(3, 1, 3), -2),
             Block(Vec(1, 6, -3), Vec(5, 6, -3), 0), Block(Vec(2, 7, -1), Vec(2, 6, -2), 1)>>,
           "Yuv12", 2, 4, NoBook, NoBook)}

MCStrips ==
    {Coded(<<a, b, c>>, "Yuv12", 2, size, NoBook, NoBook) :
        a \in Colours, b \in Colours, c \in Colours \cup {Skipped}, size \in {2, 3}}
    \cup {Coded(<<a, b, b>>, "Gray8", 0, 2, NoBook, NoBook) : a \in Grays, b \in Grays}
    \cup {Coded(<<a, Skipped, b>>, "Yuv12", 1, 3, s, t) :
            a \in Colours, b \in Colours \cup {Skipped},
            s \in {NoBook, <<A, B, D>>}, t \in {NoBook, <<D, C>>}}
    \cup {Coded(<<Skipped>>, "Yuv12", 2, 2, NoBook, <<B, C>>)}
    \cup Settling

Tuning(kmeans, lloyd, pcl, allowance) ==
    [kmeans |-> kmeans, lloyd |-> lloyd, kmeansLloyd |-> 1, lbg |-> 2, pcl |-> pcl,
     eps |-> 0, allowance |-> allowance]

MCTunings ==
    {Tuning(TRUE, 2, 2, 8), Tuning(FALSE, 2, 1, 8), Tuning(FALSE, 2, 2, -1),
     Tuning(TRUE, 0, 1, 0)}

-----------------------------------------------------------------------------

NoPick ==
    /\ method = "uniform" /\ list = <<"a">> /\ weight = 0 /\ vintage = FALSE
    /\ encode = <<>> /\ pc = "done" /\ nth = 1 /\ kth = 1 /\ chosen = <<>> /\ measured = 0
    /\ bestStrips = NoFrame /\ bestWhole = NoFrame /\ result = NoFrame /\ fellBack = FALSE

NoTraining ==
    /\ strip = NoBook /\ opts = NoBook /\ vectors = Both(<<>>)
    /\ loop = "none" /\ which = "V4" /\ local = <<>>
    /\ cut = Both(NoBook) /\ books = Both(NoBook) /\ decisions = <<>>

SearchInit ==
    /\ Init
    /\ \/ PickInit /\ NoTraining
       \/ NoPick /\ TrainInit
       \/ NoPick /\ NoTraining

SearchNext ==
    \/ encode = <<>> /\ loop = "none" /\ Next /\ UNCHANGED <<pickVars, tVars>>
    \/ PickNext /\ UNCHANGED <<vars, tVars>>
    \/ loop # "none" /\ TrainNext /\ UNCHANGED <<vars, pickVars>>

SearchSpec == SearchInit /\ [][SearchNext]_<<vars, pickVars, tVars>>

=============================================================================
