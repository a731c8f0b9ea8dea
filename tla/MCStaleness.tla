---------------------------- MODULE MCStaleness ----------------------------
(***************************************************************************)
(* The router with the intervals 0 (clamped to 1), 1, 2, 3 and 4, in two   *)
(* frame sizes; a codebook of one or two slots, frames of one or two       *)
(* strips.  With a threshold of one, a group of three frames reclaims      *)
(* nothing, one of four may.  The interval keeps its history count finite. *)
(***************************************************************************)
EXTENDS Staleness

MCIntervals == {0, 1, 2, 3, 4}

=============================================================================
