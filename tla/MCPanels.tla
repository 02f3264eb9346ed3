------------------------------ MODULE MCPanels ------------------------------
(***************************************************************************)
(* Two datasets.  Of the first, "f" is a parameter and a quantity of       *)
(* interest and "g" only the latter; "f" has a level that "g" lacks.  The  *)
(* second has neither of them as the first has.                            *)
(***************************************************************************)
EXTENDS Panels, TLC

MCListed ==
    1 :> {<<"parameter", "f">>, <<"qoi", "f">>, <<"qoi", "g">>} @@
    2 :> {<<"parameter", "g">>, <<"qoi", "g">>}
MCMaxLevel == "f" :> 1 @@ "g" :> 0
=============================================================================
