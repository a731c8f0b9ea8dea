---------------------------- MODULE MCRateControl ----------------------------
(***************************************************************************)
(* The budget with one quality, hence a grid of three candidates, frames   *)
(* of two lengths and accounts that saturate at a small count.             *)
(***************************************************************************)
EXTENDS RateControl

MCAxis == [q \in Qualities |-> <<q>>]

=============================================================================
