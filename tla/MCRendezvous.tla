---------------------------- MODULE MCRendezvous ----------------------------
(***************************************************************************)
(* Rendezvous for TLC; the configurations give the threads.                *)
(***************************************************************************)
EXTENDS Rendezvous
=============================================================================
