------------------------ MODULE MCCancellationManager ------------------------
(***************************************************************************)
(* CancellationManager for TLC; the configurations give the threads.       *)
(***************************************************************************)
EXTENDS CancellationManager
=============================================================================
