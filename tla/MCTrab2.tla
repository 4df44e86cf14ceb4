------------------------------- MODULE MCTrab2 -------------------------------
(***************************************************************************)
(* Trab2 for TLC: one file operation and the listing every process starts  *)
(* with; the bounds are in the cfg files.                                  *)
(***************************************************************************)
EXTENDS Trab2

MCFileOps == {"RD"}
MCDirOps == {"DL"}
=============================================================================
