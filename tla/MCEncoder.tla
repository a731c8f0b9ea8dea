------------------------------ MODULE MCEncoder ------------------------------
(***************************************************************************)
(* The encoder with one codebook flavour of two slots and one column of    *)
(* macroblocks.  With two entries of six bytes a selective chunk of one    *)
(* slot is shorter than a full one, and one of two slots is not.           *)
(***************************************************************************)
EXTENDS CinepakEncoder

\* Two gray entries, for a sequence of one mode.
MCEntry == {[y |-> 0, c |-> 0], [y |-> 1, c |-> 0]}

\* Two entries that differ in chroma, which a gray call cannot train, for
\* sequences that change between colour and gray.
MCColour == {[y |-> 0, c |-> 0], [y |-> 0, c |-> 1]}

=============================================================================
