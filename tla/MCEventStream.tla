--------------------------- MODULE MCEventStream ----------------------------
(***************************************************************************)
(* EventStream for TLC; the configuration gives the lengths of events and  *)
(* the sizes of the reader's buffer.                                       *)
(***************************************************************************)
EXTENDS EventStream
=============================================================================
