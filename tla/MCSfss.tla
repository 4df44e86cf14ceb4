-------------------------------- MODULE MCSfss --------------------------------
(***************************************************************************)
(* Small instances of the file server for TLC.                             *)
(***************************************************************************)
EXTENDS Sfss
=============================================================================
