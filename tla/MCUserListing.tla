---------------------------- MODULE MCUserListing ----------------------------
(***************************************************************************)
(* Small instances of UserListing for TLC.                                 *)
(***************************************************************************)
EXTENDS UserListing, TLC

\* The order of the table is part of the state, so users are interchangeable.
Symmetry == Permutations(Users)
=============================================================================
