------------------------- MODULE MCProdutorConsumidor -------------------------
(***************************************************************************)
(* The producers and consumers with a small ring, for TLC.                 *)
(***************************************************************************)
EXTENDS ProdutorConsumidor
=============================================================================
