-------------------------- MODULE MCExecuteOnStall --------------------------
(***************************************************************************)
(* ExecuteOnStall for TLC; the configuration gives the deadline.           *)
(***************************************************************************)
EXTENDS ExecuteOnStall
=============================================================================
