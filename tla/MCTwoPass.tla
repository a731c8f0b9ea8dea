------------------------------ MODULE MCTwoPass ------------------------------
(***************************************************************************)
(* Seven qualities, which three trials search, a grid of three, a window   *)
(* of two frames.  Among the curves are flat and steep ones, and two that  *)
(* go up and down.                                                         *)
(***************************************************************************)
EXTENDS TwoPass

Curve(a, b, c, d, e, f, g) ==
    [q \in 0 .. 6 |-> <<a, b, c, d, e, f, g>>[q + 1]]

MCGrid == <<0, 2, 6>>

MCCurves == {
    Curve(1, 1, 2, 2, 3, 3, 5),
    Curve(2, 3, 3, 3, 3, 3, 3),
    Curve(4, 4, 4, 5, 5, 6, 7),
    Curve(1, 2, 3, 4, 5, 6, 7),
    Curve(3, 1, 4, 2, 6, 1, 2),
    Curve(2, 7, 7, 7, 1, 1, 1)}

MCTols == {<<10, 10>>, <<10, 60>>}

=============================================================================
