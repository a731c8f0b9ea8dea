------------------------------ MODULE MCDecoder ------------------------------
(***************************************************************************)
(* The decoder on frames of one and of two macroblocks, in up to two       *)
(* strips, with codebooks of one slot.                                     *)
(***************************************************************************)
EXTENDS CinepakDecoder

MCEntry == {[y |-> 0, c |-> 0], [y |-> 1, c |-> 0], [y |-> 1, c |-> 1]}

MCDims == {<<1, 1>>, <<1, 2>>}

=============================================================================
