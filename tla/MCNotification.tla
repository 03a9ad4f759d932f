--------------------------- MODULE MCNotification ---------------------------
(***************************************************************************)
(* Notification for TLC; the configuration gives the threads.              *)
(***************************************************************************)
EXTENDS Notification
=============================================================================
