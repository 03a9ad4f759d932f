------------------------ MODULE BlockingCounterProofs ------------------------
(***************************************************************************)
(* The safety properties of BlockingCounter for any number of workers and  *)
(* waiters.                                                                *)
(***************************************************************************)
EXTENDS BlockingCounter, FiniteSetTheorems, TLAPS

\* The workers that have not decremented yet.
Pending == {w \in Workers : pc[w] = "call"}

\* Where a worker and a waiter may be.
PcInv ==
  /\ \A w \in Workers : pc[w] \in {"call", "lock", "unlock", "done"}
  /\ \A w \in Waiters : pc[w] \in {"call", "check", "waiting", "expired",
                                   "returned"}
  /\ \A w \in Waiters : pc[w] = "expired" => w \in Timed

\* The count is the number of workers still to come.
CountInv == state.count = Cardinality(Pending)

\* mu_ is held exactly between Notify and Unlock.
MuInv == \A w \in Workers : pc[w] = "unlock" <=> mu = w

\* A worker that goes on to notify is the last one, it saw the flag, and
\* nobody has notified before it.
LastWorkerInv ==
  \A w \in Workers :
    /\ pc[w] \in {"lock", "unlock"} => state.count = 0 /\ state.waiter
    /\ pc[w] = "lock" => ~notified
    /\ \A v \in Workers : pc[w] = "lock" /\ pc[v] = "lock" => v = w

\* What a waiter that has entered Wait knows.
WaiterInv ==
  /\ notified => state.count = 0
  /\ \A w \in Waiters : pc[w] # "call" => state.waiter
  /\ WaitReturnsAtZero
  /\ NoLostWakeup

\* As long as there is a worker to come or on its way to notify, one of the
\* waiters that raised the flag, unless it gave up, is still in its call.
DestroyInv ==
  gaveUp = {} /\ state.waiter /\
  (state.count # 0 \/ \E k \in Workers : pc[k] \in {"lock", "unlock"})
    => \E w \in Waiters : pc[w] \in {"check", "waiting", "expired"}

Inv ==
  /\ TypeOK /\ PcInv /\ CountInv /\ MuInv /\ LastWorkerInv
  /\ WaiterInv /\ DestroyInv

-----------------------------------------------------------------------------
\* Pending is a subset of the finite set of workers.
LEMMA PendingFinite ==
  IsFiniteSet(Pending)
BY ThreadsAssumption, FS_Subset DEF Pending

\* The count is zero exactly when no worker is left at the call.
LEMMA CountZero ==
  ASSUME CountInv
  PROVE  /\ state.count \in Nat
         /\ state.count = 0 <=> \A w \in Workers : pc[w] # "call"
<1>1. state.count \in Nat /\ (state.count = 0 <=> Pending = {})
  BY PendingFinite, FS_CardinalityType, FS_EmptySet DEF CountInv
<1> QED BY <1>1 DEF Pending

\* FetchSub removes one worker from Pending, and the count follows.
LEMMA FetchSubCount ==
  ASSUME NEW w \in Workers, Inv, FetchSub(w)
  PROVE  /\ CountInv'
         /\ state.count # 0
         /\ state' = [count |-> state.count - 1, waiter |-> state.waiter]
<1>1. w \in Pending /\ Pending' = Pending \ {w}
  BY DEF Pending, FetchSub, Inv, TypeOK, Threads
<1>2. Cardinality(Pending') = Cardinality(Pending) - 1
  BY <1>1, PendingFinite, FS_RemoveElement
<1>3. state' = [count |-> state.count - 1, waiter |-> state.waiter]
  BY DEF FetchSub, Inv, TypeOK
<1>4. state.count # 0
  BY CountZero DEF Inv, FetchSub
<1> QED BY <1>2, <1>3, <1>4 DEF CountInv, Inv

\* The constructor establishes the inductive invariant.
LEMMA InitInv == Init => Inv
<1> SUFFICES ASSUME Init PROVE Inv
  OBVIOUS
<1> USE ThreadsAssumption DEF Init, InitialCount, Threads
<1>1. Pending = Workers
  BY DEF Pending
<1>2. state = [count |-> Cardinality(Workers), waiter |-> FALSE]
      /\ Cardinality(Workers) \in Nat
  BY FS_CardinalityType
<1>3. TypeOK
  <2>1. state \in [count : Nat, waiter : BOOLEAN]
    BY <1>2
  <2>2. notified \in BOOLEAN /\ mu \in Workers \cup {NoOne} /\ gaveUp \subseteq Timed
    OBVIOUS
  <2>3. pc \in [Threads -> {"call", "lock", "unlock", "done", "check", "waiting",
                           "expired", "returned"}]
    OBVIOUS
  <2> QED BY <2>1, <2>2, <2>3 DEF TypeOK
<1>4. PcInv /\ MuInv /\ LastWorkerInv
  BY DEF PcInv, MuInv, LastWorkerInv
<1>5. CountInv
  BY <1>1 DEF CountInv
<1>6. WaiterInv
  BY DEF WaiterInv, WaitReturnsAtZero, NoLostWakeup
<1>7. DestroyInv
  BY <1>2 DEF DestroyInv
<1> QED BY <1>3, <1>4, <1>5, <1>6, <1>7 DEF Inv

\* Every step of DecrementCount, Wait and WaitFor preserves the inductive
\* invariant.
LEMMA NextInv == Inv /\ [Next]_vars => Inv'
<1> SUFFICES ASSUME Inv, [Next]_vars PROVE Inv'
  OBVIOUS
<1> USE ThreadsAssumption DEF Threads
<1>0. /\ state.count \in Nat
      /\ state.count = 0 <=> \A w \in Workers : pc[w] # "call"
  BY CountZero DEF Inv
<1>a. ASSUME Pending' = Pending, state'.count = state.count PROVE CountInv'
  BY <1>a DEF CountInv, Inv
<1>1. ASSUME NEW w \in Workers, FetchSub(w) PROVE Inv'
  <2>1. /\ CountInv'
        /\ state.count # 0
        /\ state' = [count |-> state.count - 1, waiter |-> state.waiter]
    BY <1>1, FetchSubCount
  <2>2. /\ pc' = [pc EXCEPT ![w] = IF state'.count = 0 /\ state'.waiter
                                    THEN "lock" ELSE "done"]
        /\ notified' = notified /\ mu' = mu /\ gaveUp' = gaveUp /\ pc[w] = "call"
    BY <1>1 DEF FetchSub
  <2>3. ~notified /\ \A v \in Workers : pc[v] \notin {"lock", "unlock"}
    BY <2>1 DEF Inv, WaiterInv, LastWorkerInv
  <2>4. TypeOK' /\ PcInv'
    BY <1>0, <2>1, <2>2 DEF Inv, TypeOK, PcInv
  <2>5. MuInv' /\ LastWorkerInv'
    BY <1>0, <2>1, <2>2, <2>3 DEF Inv, TypeOK, MuInv, LastWorkerInv
  <2>6. \A v \in Waiters : pc'[v] = pc[v] /\ (pc[v] # "returned")
    BY <2>1, <2>2 DEF Inv, TypeOK, WaiterInv, WaitReturnsAtZero
  <2>7. \A v \in Waiters : pc[v] # "call" => state.waiter
    BY DEF Inv, WaiterInv
  <2>8. pc' [w] = IF state'.count = 0 /\ state'.waiter THEN "lock" ELSE "done"
    BY <2>2 DEF Inv, TypeOK
  <2>9. WaiterInv'
    BY <2>1, <2>2, <2>3, <2>6, <2>7, <2>8
       DEF WaiterInv, WaitReturnsAtZero, NoLostWakeup
  <2>10. DestroyInv'
    BY <2>1, <2>2, <2>6 DEF Inv, DestroyInv
  <2> QED BY <2>1, <2>4, <2>5, <2>9, <2>10 DEF Inv
<1>2. ASSUME NEW w \in Workers, Notify(w) PROVE Inv'
  <2>1. CountInv'
    BY <1>2, <1>a DEF Notify, Lock, WakeAll, Pending, Inv, TypeOK
  <2>2. TypeOK' /\ PcInv' /\ MuInv'
    BY <1>2 DEF Notify, Lock, WakeAll, Inv, TypeOK, PcInv, MuInv
  <2>3. LastWorkerInv'
    BY <1>2 DEF Notify, Lock, WakeAll, Inv, TypeOK, LastWorkerInv
  <2>4. WaiterInv'
    BY <1>2 DEF Notify, Lock, WakeAll, Inv, TypeOK, PcInv, LastWorkerInv, WaiterInv,
                WaitReturnsAtZero, NoLostWakeup
  <2>5. DestroyInv'
    BY <1>2 DEF Notify, Lock, WakeAll, Inv, TypeOK, PcInv, LastWorkerInv, DestroyInv
  <2> QED BY <2>1, <2>2, <2>3, <2>4, <2>5 DEF Inv
<1>3. ASSUME NEW w \in Workers, Unlock(w) PROVE Inv'
  <2>1. CountInv'
    BY <1>3, <1>a DEF Unlock, Pending, Inv, TypeOK
  <2>2. TypeOK' /\ PcInv' /\ MuInv' /\ LastWorkerInv'
    BY <1>3 DEF Unlock, Inv, TypeOK, PcInv, MuInv, LastWorkerInv
  <2>3. WaiterInv'
    BY <1>3 DEF Unlock, Inv, TypeOK, WaiterInv, WaitReturnsAtZero, NoLostWakeup
  <2>4. DestroyInv'
    BY <1>3 DEF Unlock, Inv, TypeOK, DestroyInv
  <2> QED BY <2>1, <2>2, <2>3, <2>4 DEF Inv
<1>4. ASSUME NEW w \in Waiters, FetchOr(w) PROVE Inv'
  <2>0. state' = [count |-> state.count, waiter |-> TRUE]
    BY <1>4 DEF FetchOr, FlagRaised, Inv, TypeOK
  <2>1. CountInv'
    BY <1>4, <1>a, <2>0 DEF FetchOr, FlagRaised, Pending, Inv, TypeOK
  <2>2. TypeOK' /\ PcInv' /\ MuInv'
    BY <1>4, <2>0, <1>0, ZenonT(60) DEF FetchOr, FlagRaised, Inv, TypeOK, PcInv, MuInv
  <2>3. LastWorkerInv'
    BY <1>4, <2>0 DEF FetchOr, FlagRaised, Inv, TypeOK, LastWorkerInv
  <2>4. WaiterInv'
    BY <1>4, <2>0 DEF FetchOr, FlagRaised, Inv, TypeOK, WaiterInv, WaitReturnsAtZero,
                      NoLostWakeup
  <2>5. DestroyInv'
    BY <1>4, <2>0 DEF FetchOr, FlagRaised, Inv, TypeOK, PcInv, LastWorkerInv, DestroyInv
  <2> QED BY <2>1, <2>2, <2>3, <2>4, <2>5 DEF Inv
<1>5. ASSUME NEW w \in Waiters,
             Check(w) \/ SpuriousWakeup(w) \/ Expire(w) \/ ReturnFalse(w)
      PROVE  Inv'
  <2> USE DEF Check, SpuriousWakeup, LoopAgain, Expire, ReturnFalse
  <2>1. /\ UNCHANGED <<state, notified, mu>>
        /\ \A v \in Threads : v # w => pc'[v] = pc[v]
    BY <1>5 DEF Inv, TypeOK
  <2>2. CountInv'
    BY <2>1, <1>a DEF Pending
  <2>3. TypeOK' /\ PcInv'
    <3>1. gaveUp' \subseteq Timed
      <4>1. CASE ReturnFalse(w)
        BY <4>1 DEF Inv, TypeOK, PcInv
      <4> QED BY <1>5, <4>1 DEF Inv, TypeOK
    <3> QED BY <1>5, <3>1 DEF Inv, TypeOK, PcInv
  <2>4. MuInv' /\ LastWorkerInv'
    BY <2>1 DEF Inv, MuInv, LastWorkerInv
  <2>5. WaiterInv'
    BY <1>5 DEF Inv, TypeOK, WaiterInv, WaitReturnsAtZero, NoLostWakeup
  <2>6. ASSUME Check(w) PROVE DestroyInv'
    BY <2>6 DEF Inv, TypeOK, PcInv, MuInv, LastWorkerInv, WaiterInv, DestroyInv
  <2>7. ASSUME SpuriousWakeup(w) \/ Expire(w) PROVE DestroyInv'
    BY <2>7 DEF Inv, TypeOK, PcInv, DestroyInv
  <2>8. ASSUME ReturnFalse(w) PROVE DestroyInv'
    BY <2>8 DEF DestroyInv
  <2> QED BY <1>5, <2>2, <2>3, <2>4, <2>5, <2>6, <2>7, <2>8 DEF Inv
<1>6. CASE UNCHANGED vars
  BY <1>6 DEF vars, Inv, TypeOK, PcInv, CountInv, Pending, MuInv, LastWorkerInv,
              WaiterInv, WaitReturnsAtZero, NoLostWakeup, DestroyInv
<1> QED
  BY <1>1, <1>2, <1>3, <1>4, <1>5, <1>6
     DEF Next, WorkerStep, WaiterStep, Finished

\* The inductive invariant holds of every behaviour of the counter.
THEOREM Invariance == Spec => []Inv
BY InitInv, NextInv, PTL DEF Spec

\* DecrementCount, Wait and WaitFor keep the counter well typed.
THEOREM TypeCorrect == Spec => []TypeOK
<1>1. Inv => TypeOK
  BY DEF Inv
<1> QED BY <1>1, Invariance, PTL

\* Wait returns only after the last DecrementCount, for any number of threads.
THEOREM WaitReturnsAtZeroHolds == Spec => []WaitReturnsAtZero
<1>1. Inv => WaitReturnsAtZero
  BY DEF Inv, WaiterInv
<1> QED BY <1>1, Invariance, PTL

\* No waiter sleeps through the last DecrementCount.
THEOREM NoLostWakeupHolds == Spec => []NoLostWakeup
<1>1. Inv => NoLostWakeup
  BY DEF Inv, WaiterInv
<1> QED BY <1>1, Invariance, PTL

\* The counter may be destroyed when its waiters have returned, unless one of
\* them had given up before: the last worker has released mu_.
THEOREM SafeToDestroyHolds == Spec => []SafeToDestroy
<1>1. Inv => SafeToDestroy
  <2> SUFFICES ASSUME Inv, gaveUp = {}, \A w \in Waiters : pc[w] = "returned",
                      NEW w \in Workers
               PROVE  pc[w] = "done"
    BY DEF SafeToDestroy
  <2>1. state.count = 0 /\ state.waiter
    BY ThreadsAssumption DEF Inv, WaiterInv, WaitReturnsAtZero
  <2>2. pc[w] # "call"
    BY <2>1, CountZero DEF Inv
  <2>3. pc[w] \notin {"lock", "unlock"}
    BY <2>1 DEF Inv, DestroyInv
  <2> QED BY <2>2, <2>3 DEF Inv, PcInv
<1> QED BY <1>1, Invariance, PTL
=============================================================================
