------------------------------ MODULE MCClient ------------------------------
(***************************************************************************)
(* A page that connects twice, so that a former connection goes on beside  *)
(* the one the client holds, and that sends commands over both.            *)
(***************************************************************************)
EXTENDS Client
=============================================================================
