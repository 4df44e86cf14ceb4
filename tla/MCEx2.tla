--------------------------------- MODULE MCEx2 ---------------------------------
(***************************************************************************)
(* The reader and the printer of ex2 with a small buffer and small ranges. *)
(***************************************************************************)
EXTENDS Ex2
=============================================================================
