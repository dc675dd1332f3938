----------------------------- MODULE MCSignage -----------------------------
(***************************************************************************)
(* Instances of Signage for TLC: a display at one of two locations, so     *)
(* that transfers take tickets to it and away from it.                     *)
(***************************************************************************)
EXTENDS Signage, TLC

CONSTANTS d1, l1, l2

MCShows == d1 :> l1
=============================================================================
