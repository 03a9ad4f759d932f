--------------------------- MODULE BlockingCounter ---------------------------
(***************************************************************************)
(* tensorflow/core/lib/core/blocking_counter.h.                            *)
(*                                                                         *)
(* A counter that Workers decrement without a lock and on which Waiters    *)
(* block until it reaches zero.  state_ packs the count and, in its low    *)
(* bit, a flag that says that somebody waits; the mutex mu_, notified_     *)
(* and the condition variable are used only by the worker that brings the  *)
(* count to zero while the flag is set.                                    *)
(*                                                                         *)
(* Every atomic operation on state_ is one step.  A waiter's critical      *)
(* section is one step (it changes nothing but its own program counter);   *)
(* a worker's is two, because what may happen between "notified_ = true"   *)
(* and the release of mu_ decides whether the counter may be destroyed.    *)
(***************************************************************************)
EXTENDS Integers, FiniteSets

CONSTANTS
  Workers,  \* each calls DecrementCount once; initial_count is their number
  Waiters,  \* each calls Wait, or WaitFor until it returns true
  Timed,    \* the waiters that call WaitFor
  NoOne     \* mu_ is free

ASSUME ThreadsAssumption ==
  /\ IsFiniteSet(Workers)
  /\ Waiters # {}
  /\ Workers \cap Waiters = {}
  /\ Timed \subseteq Waiters
  /\ NoOne \notin Workers \cup Waiters

VARIABLES
  state,     \* state_: [count, waiter], the value and its low bit
  notified,  \* notified_
  mu,        \* the holder of mu_
  gaveUp,    \* the waiters to which WaitFor has returned false
  pc         \* where each thread is

vars == <<state, notified, mu, gaveUp, pc>>

Threads == Workers \cup Waiters

\* Seeded fault: the counter is one short of its workers.
OneShort == Cardinality(Workers) - 1

InitialCount == Cardinality(Workers)

Init ==
  /\ state = [count |-> InitialCount, waiter |-> FALSE]
  /\ notified = FALSE
  /\ mu = NoOne
  /\ gaveUp = {}
  /\ pc = [t \in Threads |-> "call"]

-----------------------------------------------------------------------------
(* DecrementCount *)

\* fetch_sub(2): only the worker that leaves exactly the flag goes on to notify.
FetchSub(w) ==
  /\ pc[w] = "call"
  /\ state' = [state EXCEPT !.count = @ - 1]
  /\ pc' = [pc EXCEPT ![w] =
              IF state'.count = 0 /\ state'.waiter THEN "lock" ELSE "done"]
  /\ UNCHANGED <<notified, mu, gaveUp>>

\* Seeded faults: notified_ is set without holding mu_; nobody is woken.
LockNothing(w) == mu = NoOne /\ UNCHANGED mu
WakeNobody == pc

Lock(w) == mu = NoOne /\ mu' = w

\* cond_var_.notify_all()
WakeAll == [t \in Threads |-> IF pc[t] = "waiting" THEN "check" ELSE pc[t]]

\* mutex_lock l(mu_); notified_ = true; cond_var_.notify_all();
Notify(w) ==
  /\ pc[w] = "lock"
  /\ Lock(w)
  /\ notified' = TRUE
  /\ pc' = [WakeAll EXCEPT ![w] = "unlock"]
  /\ UNCHANGED <<state, gaveUp>>

Unlock(w) ==
  /\ pc[w] = "unlock"
  /\ mu' = NoOne
  /\ pc' = [pc EXCEPT ![w] = "done"]
  /\ UNCHANGED <<state, notified, gaveUp>>

-----------------------------------------------------------------------------
(* Wait and WaitFor *)

\* Seeded fault: the flag is not raised.
FlagUnraised == state

FlagRaised == [state EXCEPT !.waiter = TRUE]

\* fetch_or(1): returns at once when the count is already zero.
FetchOr(w) ==
  /\ pc[w] = "call"
  /\ state' = FlagRaised
  /\ pc' = [pc EXCEPT ![w] = IF state.count = 0 THEN "returned" ELSE "check"]
  /\ UNCHANGED <<notified, mu, gaveUp>>

\* Under mu_, while (!notified_) cond_var_.wait(l): the wait releases mu_.
Check(w) ==
  /\ pc[w] = "check"
  /\ mu = NoOne
  /\ pc' = [pc EXCEPT ![w] = IF notified THEN "returned" ELSE "waiting"]
  /\ UNCHANGED <<state, notified, mu, gaveUp>>

\* Seeded fault: the wait is not in a loop.
LoopNot == "returned"

LoopAgain == "check"

\* A condition variable may wake a thread that nobody notified.
SpuriousWakeup(w) ==
  /\ pc[w] = "waiting"
  /\ pc' = [pc EXCEPT ![w] = LoopAgain]
  /\ UNCHANGED <<state, notified, mu, gaveUp>>

\* wait_for times out: WaitFor is going to return false.
Expire(w) ==
  /\ w \in Timed
  /\ pc[w] = "waiting"
  /\ pc' = [pc EXCEPT ![w] = "expired"]
  /\ UNCHANGED <<state, notified, mu, gaveUp>>

\* mu_ is reacquired and released, false is returned, the caller tries again.
ReturnFalse(w) ==
  /\ pc[w] = "expired"
  /\ mu = NoOne
  /\ pc' = [pc EXCEPT ![w] = "call"]
  /\ gaveUp' = gaveUp \cup {w}
  /\ UNCHANGED <<state, notified, mu>>

-----------------------------------------------------------------------------
WorkerStep(w) == FetchSub(w) \/ Notify(w) \/ Unlock(w)

WaiterStep(w) ==
  \/ FetchOr(w)
  \/ Check(w)
  \/ SpuriousWakeup(w)
  \/ Expire(w)
  \/ ReturnFalse(w)

\* Every worker has decremented and every waiter has returned.
Finished ==
  /\ \A w \in Workers : pc[w] = "done"
  /\ \A w \in Waiters : pc[w] = "returned"
  /\ UNCHANGED vars

Next ==
  \/ \E w \in Workers : WorkerStep(w)
  \/ \E w \in Waiters : WaiterStep(w)
  \/ Finished

Spec == Init /\ [][Next]_vars

\* Threads that can run do run: every pool thread and every waiter is a
\* thread the operating system schedules.  Spurious wakeups and timeouts are
\* allowed, never required.
Fairness ==
  /\ \A w \in Workers : WF_vars(WorkerStep(w))
  /\ \A w \in Waiters : WF_vars(FetchOr(w) \/ Check(w) \/ ReturnFalse(w))

FairSpec == Spec /\ Fairness

-----------------------------------------------------------------------------
TypeOK ==
  /\ state \in [count : Nat, waiter : BOOLEAN]
  /\ notified \in BOOLEAN
  /\ mu \in Workers \cup {NoOne}
  /\ gaveUp \subseteq Timed
  /\ pc \in [Threads -> {"call", "lock", "unlock", "done", "check", "waiting",
                         "expired", "returned"}]

\* Wait returns, and WaitFor returns true, only when every worker has
\* decremented the counter, whatever spurious wakeups and timeouts happen.
WaitReturnsAtZero ==
  \A w \in Waiters : pc[w] = "returned" => state.count = 0

\* The counter lives on the stack of its waiter (Sharder::Do), or belongs to
\* several: once all of them have returned, no worker will touch state_, mu_
\* or the condition variable.  A WaitFor that gave up voids the guarantee: the
\* flag it left makes the last worker notify a waiter that may be gone.
SafeToDestroy ==
  gaveUp = {} /\ (\A w \in Waiters : pc[w] = "returned")
    => \A w \in Workers : pc[w] = "done"

\* A waiter never sleeps through the last decrement: when the count is zero,
\* whoever is blocked or about to block will find notified_ set, or there is
\* a worker on its way to set it and wake the waiter.
NoLostWakeup ==
  \A w \in Waiters :
    /\ pc[w] = "waiting" => ~notified
    /\ pc[w] \in {"check", "waiting"} /\ state.count = 0
         => notified \/ \E k \in Workers : pc[k] = "lock"

\* Every call of Wait returns, and WaitFor, retried, returns true in the end.
WaitersReturn == \A w \in Waiters : <>(pc[w] = "returned")
=============================================================================
