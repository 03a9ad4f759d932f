------------------------ MODULE MCTrackingAllocator -------------------------
(***************************************************************************)
(* TrackingAllocator for TLC.                                              *)
(***************************************************************************)
EXTENDS TrackingAllocator
=============================================================================
