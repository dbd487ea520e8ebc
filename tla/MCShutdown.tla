----------------------------- MODULE MCShutdown -----------------------------
(***************************************************************************)
(* The process on a small instance.  Liveness is checked, so the calls are *)
(* not declared symmetric.                                                 *)
(***************************************************************************)
EXTENDS Shutdown, TLC
=============================================================================
