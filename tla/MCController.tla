---------------------------- MODULE MCController ----------------------------
(***************************************************************************)
(* A server with two datasets.  Field "f" is both a parameter and a        *)
(* quantity of interest of dataset 0; dataset 1 has neither distances nor  *)
(* samples.  More neighbours than the three samples of dataset 0 may be    *)
(* asked for.  The analyses of the two fields have different numbers of    *)
(* levels and only some of the fields have models, so that every early     *)
(* return and every mismatch between what is cached and what is asked for  *)
(* occurs.                                                                 *)
(***************************************************************************)
EXTENDS Controller, TLC

MCParameterNames == 0 :> {"f"} @@ 1 :> {"g"}
MCQoiNames == 0 :> {"f", "g"} @@ 1 :> {"f"}
MCHasGeometry == 0 :> TRUE @@ 1 :> FALSE
MCSampleCount == 0 :> 3 @@ 1 :> 0
MCMaxLevel == [d \in Dataset |->
                [c \in Category |-> [f \in Field |-> IF f = "f" THEN 1 ELSE 0]]]
MCModelLevels == 0 :> ("f" :> 1 @@ "g" :> 2) @@ 1 :> ("f" :> 0 @@ "g" :> 1)
MCEmbeddingCount == 0 :> 1 @@ 1 :> 0

\* No handler reads reply, and no property reads the request of a reply that
\* carries no data: states that differ in nothing else are the same.
MCView == <<m, server, IF reply.result.kind \in {"none", "error", "message"}
                       THEN reply.result ELSE reply>>
=============================================================================
