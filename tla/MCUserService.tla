---------------------------- MODULE MCUserService ----------------------------
(***************************************************************************)
(* Small instances of UserService for TLC.                                 *)
(***************************************************************************)
EXTENDS UserService, TLC

\* The calls are alike, and so are the users.
Symmetry == Permutations(Requests) \union Permutations(Ids)
=============================================================================
