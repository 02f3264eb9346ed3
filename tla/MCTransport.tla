---------------------------- MODULE MCTransport -----------------------------
(***************************************************************************)
(* A poll list with room for the listener and two sessions, and more       *)
(* connections than that, so that peers wait for a place and descriptors   *)
(* are used again.                                                         *)
(***************************************************************************)
EXTENDS Transport
=============================================================================
