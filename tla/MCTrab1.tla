------------------------------- MODULE MCTrab1 -------------------------------
(***************************************************************************)
(* Small instances of trab1 for TLC.                                       *)
(***************************************************************************)
EXTENDS Trab1
=============================================================================
