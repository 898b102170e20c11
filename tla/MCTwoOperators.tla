--------------------------- MODULE MCTwoOperators ---------------------------
(***************************************************************************)
(* Instances of TwoOperators for TLC.                                      *)
(***************************************************************************)
EXTENDS TwoOperators, Instances
=============================================================================
