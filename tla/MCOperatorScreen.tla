-------------------------- MODULE MCOperatorScreen --------------------------
(***************************************************************************)
(* Instances of OperatorScreen for TLC.                                    *)
(***************************************************************************)
EXTENDS OperatorScreen, TLC

CONSTANTS t1, t2, a, l1, l2, c1

MCStatusFilter == {None, "WAITING", "CALLED"}
=============================================================================
