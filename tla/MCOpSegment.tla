---------------------------- MODULE MCOpSegment -----------------------------
(***************************************************************************)
(* OpSegment for TLC; the configurations give the threads.                 *)
(***************************************************************************)
EXTENDS OpSegment
=============================================================================
