----------------------------- MODULE MCKernelSim -----------------------------
(***************************************************************************)
(* KernelSim for TLC: one operation per device, small bounds (see the cfg  *)
(* files).                                                                 *)
(***************************************************************************)
EXTENDS KernelSim

MCFileOps == {"RD"}
MCDirOps == {"DL"}

=============================================================================
