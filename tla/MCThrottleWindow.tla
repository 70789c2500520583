--------------------------- MODULE MCThrottleWindow ---------------------------
(***************************************************************************)
(* Small instances of ThrottleWindow for TLC.                              *)
(***************************************************************************)
EXTENDS ThrottleWindow, TLC

Symmetry == Permutations(Instances)
=============================================================================
