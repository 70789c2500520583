--------------------------- MODULE MCHttpExchange ---------------------------
(***************************************************************************)
(* HttpExchange is finite as it stands: TLC checks it whole.               *)
(***************************************************************************)
EXTENDS HttpExchange
=============================================================================
