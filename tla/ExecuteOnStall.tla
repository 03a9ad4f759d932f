--------------------------- MODULE ExecuteOnStall ---------------------------
(***************************************************************************)
(* tensorflow/core/util/exec_on_stall.h.                                   *)
(*                                                                         *)
(* The constructor spawns a thread that polls until a deadline, or until   *)
(* the destructor has disabled it, and then runs f unless it was disabled. *)
(* The destructor waits for the thread, which uses the object.  A critical *)
(* section of mu_ is one step.                                             *)
(***************************************************************************)
EXTENDS Naturals

CONSTANTS
  Deadline,  \* deadline_, on a clock that starts at 0
  MaxTime    \* bound on the clock

VARIABLES
  now,       \* env_->NowMicros()
  disabled,  \* disabled_
  joined,    \* joined_
  ran,       \* f_() was called
  thread,    \* where the spawned thread is
  owner      \* where the destructor is

vars == <<now, disabled, joined, ran, thread, owner>>

Init ==
  /\ now = 0
  /\ disabled = FALSE /\ joined = FALSE /\ ran = FALSE
  /\ thread = "poll"
  /\ owner = "alive"

Tick ==
  /\ now < MaxTime
  /\ now' = now + 1
  /\ UNCHANGED <<disabled, joined, ran, thread, owner>>

\* while (NowMicros() < deadline_)
TestDeadline ==
  /\ thread = "poll"
  /\ thread' = IF now < Deadline THEN "test" ELSE "finish"
  /\ UNCHANGED <<now, disabled, joined, ran, owner>>

\* Leave the loop when disabled, else sleep and poll again.
TestDisabled ==
  /\ thread = "test"
  /\ thread' = IF disabled THEN "finish" ELSE "poll"
  /\ UNCHANGED <<now, disabled, joined, ran, owner>>

\* f unless disabled; joined_ = true; notify_all.
Finish ==
  /\ thread = "finish"
  /\ ran' = ~disabled
  /\ joined' = TRUE
  /\ owner' = IF owner = "waiting" THEN "destroyed" ELSE owner
  /\ thread' = "ended"
  /\ UNCHANGED <<now, disabled>>

\* The destructor: disabled_ = true; if (!joined_) wait.
Destroy ==
  /\ owner = "alive"
  /\ disabled' = TRUE
  /\ owner' = IF joined THEN "destroyed" ELSE "waiting"
  /\ UNCHANGED <<now, joined, ran, thread>>

\* A condition variable may wake a thread that nobody notified: joined_ is not
\* tested again, and the destructor returns.
SpuriousWakeup ==
  /\ owner = "waiting"
  /\ owner' = "destroyed"
  /\ UNCHANGED <<now, disabled, joined, ran, thread>>

Next == Tick \/ TestDeadline \/ TestDisabled \/ Finish \/ Destroy \/ SpuriousWakeup

Spec == Init /\ [][Next]_vars

-----------------------------------------------------------------------------
\* "Wait for spawned thread to terminate": when the destructor returns the
\* thread does not touch the object any more.
SafeToDestroy == owner = "destroyed" => thread = "ended"
=============================================================================
