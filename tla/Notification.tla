---------------------------- MODULE Notification ----------------------------
(***************************************************************************)
(* tensorflow/core/platform/default/notification.h.                        *)
(*                                                                         *)
(* A flag that one Notifier raises and Waiters wait for.  The flag is      *)
(* written under mu_ but read without it, so a waiter may return while the *)
(* notifier is still inside Notify; when the waiters have returned the     *)
(* deleter destroys the notification, and the destructor takes mu_ to let  *)
(* the notifier out first.  Notify and the waiting loop take one step for  *)
(* each access to the flag, the mutex or the condition variable.           *)
(***************************************************************************)
EXTENDS Naturals

CONSTANTS
  Notifier,  \* calls Notify once
  Waiters,   \* call WaitForNotification
  Timed,     \* the waiters that call WaitForNotificationWithTimeout, again
             \* and again until it returns true
  Deleter,   \* destroys the notification
  NoOne      \* mu_ is free

\* Somebody waits: the deleter takes a returned wait for the sign to destroy.
ASSUME NotificationAssumption ==
  /\ Waiters # {}
  /\ Timed \subseteq Waiters
  /\ Notifier \notin Waiters
  /\ Deleter \notin Waiters \cup {Notifier}
  /\ NoOne \notin Waiters \cup {Notifier, Deleter}

VARIABLES
  notified,  \* notified_
  mu,        \* the holder of mu_
  at         \* where each thread is

notificationVars == <<notified, mu, at>>

Threads == Waiters \cup {Notifier, Deleter}

NotificationInit ==
  /\ notified = FALSE
  /\ mu = NoOne
  /\ at = [t \in Threads |-> "call"]

Advance(t, from, to) == at[t] = from /\ at' = [at EXCEPT ![t] = to]

\* Seeded faults: mu_ is not taken; a wait is not in a loop; the destructor does
\* not take mu_; the return path does not release mu_.
LockNothing(t) == mu = NoOne /\ UNCHANGED mu
LoopNot == "returned"
Unguarded == TRUE
KeepLock == UNCHANGED mu

Lock(t) == mu = NoOne /\ mu' = t
LoopAgain == "lock"
Unlocked == mu = NoOne
Unlock == mu' = NoOne

-----------------------------------------------------------------------------
(* Notify *)

NotifyLock == Advance(Notifier, "call", "store") /\ Lock(Notifier) /\ UNCHANGED notified

NotifyStore == Advance(Notifier, "store", "signal") /\ notified' = TRUE /\ UNCHANGED mu

\* cv_.notify_all()
NotifyAll ==
  /\ at[Notifier] = "signal"
  /\ at' = [t \in Threads |->
              IF t = Notifier THEN "unlock"
              ELSE IF at[t] = "waiting" THEN "lock" ELSE at[t]]
  /\ UNCHANGED <<notified, mu>>

NotifyUnlock == Advance(Notifier, "unlock", "done") /\ mu' = NoOne /\ UNCHANGED notified

-----------------------------------------------------------------------------
(* WaitForNotification and WaitForNotificationWithTimeout *)

\* The first test is made without the lock.
FastCheck(w) ==
  /\ Advance(w, "call", IF notified THEN "returned" ELSE "lock")
  /\ UNCHANGED <<notified, mu>>

\* On entry, and when cv_.wait returns.
WaitLock(w) == Advance(w, "lock", "check") /\ Lock(w) /\ UNCHANGED notified

\* The loop condition, under mu_; on true mu_ is released and the call returns.
Check(w) ==
  /\ Advance(w, "check", IF notified THEN "returned" ELSE "wait")
  /\ IF notified THEN Unlock ELSE UNCHANGED mu
  /\ UNCHANGED notified

\* cv_.wait(l) releases mu_ and blocks.
Wait(w) == Advance(w, "wait", "waiting") /\ mu' = NoOne /\ UNCHANGED notified

\* A condition variable may wake a thread that nobody notified.
SpuriousWakeup(w) == Advance(w, "waiting", LoopAgain) /\ UNCHANGED <<notified, mu>>

\* wait_for times out; the loop ends with the value read before the wait.
Expire(w) ==
  w \in Timed /\ Advance(w, "waiting", "expired") /\ UNCHANGED <<notified, mu>>

\* mu_ is reacquired and released, false is returned, the caller tries again.
ReturnFalse(w) ==
  mu = NoOne /\ Advance(w, "expired", "call") /\ UNCHANGED <<notified, mu>>

-----------------------------------------------------------------------------
\* ~Notification, when every wait has returned: takes mu_ and releases it.
Destructor ==
  /\ Advance(Deleter, "call", "destroyed")
  /\ \A w \in Waiters : at[w] = "returned"
  /\ Unlocked
  /\ UNCHANGED <<notified, mu>>

NotifyStep == NotifyLock \/ NotifyStore \/ NotifyAll \/ NotifyUnlock

WaitStep(w) == FastCheck(w) \/ WaitLock(w) \/ Check(w) \/ Wait(w) \/ ReturnFalse(w)

NotificationGone ==
  at[Deleter] = "destroyed" /\ at[Notifier] = "done" /\ UNCHANGED notificationVars

NotificationNext ==
  \/ NotifyStep
  \/ \E w \in Waiters : WaitStep(w) \/ SpuriousWakeup(w) \/ Expire(w)
  \/ Destructor
  \/ NotificationGone

NotificationSpec == NotificationInit /\ [][NotificationNext]_notificationVars

\* The notifier runs to its end; a waiter runs when it can.  mu_ is handed to
\* a waiter that keeps asking (strong fairness of WaitLock and ReturnFalse):
\* nsync's long-wait bit stops later threads from overtaking it for ever.
NotificationFairness ==
  /\ WF_notificationVars(NotifyStore \/ NotifyAll \/ NotifyUnlock)
  /\ SF_notificationVars(NotifyLock)
  /\ \A w \in Waiters :
       /\ WF_notificationVars(FastCheck(w))
       /\ WF_notificationVars(Check(w))
       /\ WF_notificationVars(Wait(w))
       /\ SF_notificationVars(WaitLock(w))
       /\ SF_notificationVars(ReturnFalse(w))
  /\ WF_notificationVars(Destructor)

NotificationFairSpec == NotificationSpec /\ NotificationFairness

-----------------------------------------------------------------------------
\* Types; and mu_ is held only by a thread inside one of its critical sections.
TypeOK ==
  /\ notified \in BOOLEAN
  /\ mu \in {t \in Threads : at[t] \in {"store", "signal", "unlock", "check", "wait"}}
         \cup {NoOne}
  /\ at \in [Threads -> {"call", "store", "signal", "unlock", "done", "lock",
                         "check", "wait", "waiting", "expired", "returned",
                         "destroyed"}]

\* "In case the notification is being used to synchronize its own deletion,
\* force any prior notifier to leave its critical section": when the
\* destructor has run the notifier touches mu_, cv_ and notified_ no more.
SafeToDestroy == at[Deleter] = "destroyed" => at[Notifier] = "done"

\* Nobody returns before Notify has stored the flag.
NoEarlyReturn == \A w \in Waiters : at[w] = "returned" => notified

\* Every wait returns, whenever Notify comes and whatever wakes the waiter.
WaitersReturn == \A w \in Waiters : <>(at[w] = "returned")
=============================================================================
