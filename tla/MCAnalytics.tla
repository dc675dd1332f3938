---------------------------- MODULE MCAnalytics ----------------------------
(***************************************************************************)
(* Instances of Analytics for TLC.                                         *)
(***************************************************************************)
EXTENDS Analytics, TLC

CONSTANTS s1, s2, t1

\* A period that ends while the clock runs, and one of no length
MCAsked == {<<0, 2>>, <<1, 1>>}

MCSymmetry == Permutations({s1, s2})
=============================================================================
