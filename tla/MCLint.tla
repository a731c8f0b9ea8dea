------------------------------- MODULE MCLint -------------------------------
(***************************************************************************)
(* The lint next to the decoder on frames of two macroblocks, one above    *)
(* the other, in up to two strips of one macroblock each, with codebooks   *)
(* of two slots.  What the entries hold does not matter to the lint: one   *)
(* value is enough.                                                        *)
(***************************************************************************)
EXTENDS Lint

MCEntry == {ZeroEntry}

MCDims == {<<1, 2>>}

=============================================================================
