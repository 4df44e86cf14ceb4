--------------------------------- MODULE MCEx4 ---------------------------------
(***************************************************************************)
(* The two programs of ex4 with small ranges for the semaphores.           *)
(***************************************************************************)
EXTENDS Ex4
=============================================================================
