---------------------------- MODULE MCSqlLogging ----------------------------
(***************************************************************************)
(* Small instances of SqlLogging for TLC.                                  *)
(***************************************************************************)
EXTENDS SqlLogging
=============================================================================
