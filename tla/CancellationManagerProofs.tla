---------------------- MODULE CancellationManagerProofs ----------------------
(***************************************************************************)
(* NoCallbackAfterReturn, RunOnce and CancelledIsFinal for any number of   *)
(* operations and of threads that cancel; and the safety of the            *)
(* Notification on which DeregisterCallback waits, for any number of       *)
(* waiters.                                                                *)
(***************************************************************************)
EXTENDS CancellationManager, Notification, TLAPS

Types ==
  /\ isCancelling \in BOOLEAN /\ isCancelled \in BOOLEAN
  /\ cancelledNotification \in BOOLEAN
  /\ nextToken \in Nat
  /\ callbacks \subseteq Nat /\ ran \subseteq Nat
  /\ token \in [Operations -> Nat \cup {NoToken}]
  /\ toRun \in [Callers -> SUBSET Nat]
  /\ pc \in [Operations \cup Callers ->
               {"start", "token", "refused", "working", "waiting", "freed",
                "running", "marked", "done"}]

\* The tokens whose callback a caller of StartCancel has still to run.
Due == UNION {toRun[c] : c \in Callers}

\* Tokens are handed out once, and only they have callbacks.
TokenInv ==
  /\ \A o \in Operations : IF pc[o] = "start" THEN token[o] = NoToken
                           ELSE token[o] \in Nat /\ token[o] < nextToken
  /\ \A o, p \in Operations : token[o] = token[p] /\ token[o] # NoToken => o = p
  /\ \A k \in callbacks \cup Due \cup ran : k < nextToken

\* One caller at most carries a cancellation out, is_cancelling_ is set until
\* it has run the callbacks, and nobody else has callbacks to run.
CancelInv ==
  /\ \A c, d \in Callers :
       pc[c] \in {"running", "marked"} /\ pc[d] \in {"running", "marked"} => c = d
  /\ \A c \in Callers : pc[c] = "running" => isCancelling /\ ~isCancelled
  /\ \A c \in Callers : pc[c] = "marked" => isCancelled /\ ~cancelledNotification
  /\ \A c \in Callers : toRun[c] # {} => pc[c] = "running"
  /\ isCancelling => ~isCancelled /\ \E c \in Callers : pc[c] = "running"
  /\ cancelledNotification => isCancelled
  /\ isCancelling \/ isCancelled => callbacks = {}

\* Whose callback may be somewhere: not that of an operation that has not
\* registered one, was refused, or has deregistered it.
CallbackInv ==
  /\ \A o \in Operations :
       pc[o] \in {"token", "refused"} => token[o] \notin callbacks \cup Due \cup ran
  /\ NoCallbackAfterReturn

Inv == Types /\ TokenInv /\ CancelInv /\ CallbackInv /\ RunOnce

-----------------------------------------------------------------------------
\* Outside a cancellation nothing is due.
LEMMA NothingDue ==
  ASSUME Inv, ~isCancelling PROVE Due = {} /\ \A c \in Callers : toRun[c] = {}
BY DEF Inv, CancelInv, Due

\* RunOnce and NoCallbackAfterReturn in terms of Due.
LEMMA RunOnceDue ==
  /\ RunOnce <=> /\ ran \cap (callbacks \cup Due) = {} /\ callbacks \cap Due = {}
                 /\ \A c \in Callers : pc[c] = "marked" => ~cancelledNotification
  /\ NoCallbackAfterReturn <=>
       \A o \in Operations \ Forgetful :
         pc[o] \in {"refused", "freed"} => token[o] \notin callbacks \cup Due
BY DEF RunOnce, NoCallbackAfterReturn, HasCallback, Due

\* The same after a step.
LEMMA RunOnceDueNext ==
  /\ RunOnce' <=> /\ ran' \cap (callbacks' \cup Due') = {} /\ callbacks' \cap Due' = {}
                  /\ \A c \in Callers : pc'[c] = "marked" => ~cancelledNotification'
  /\ NoCallbackAfterReturn' <=>
       \A o \in Operations \ Forgetful :
         pc'[o] \in {"refused", "freed"} => token'[o] \notin callbacks' \cup Due'
BY DEF RunOnce, NoCallbackAfterReturn, HasCallback, Due

\* The constructor establishes the invariant.
LEMMA InitInv == Init => Inv
<1> SUFFICES ASSUME Init PROVE Inv
  OBVIOUS
<1> USE CancellationAssumption DEF Init, Callers
<1>1. Due = {}
  BY DEF Due
<1>2. Types
  BY DEF Types
<1>3. TokenInv /\ CancelInv
  BY <1>1 DEF TokenInv, CancelInv
<1>4. CallbackInv /\ RunOnce
  BY <1>1, RunOnceDue DEF CallbackInv
<1> QED BY <1>2, <1>3, <1>4 DEF Inv

\* A step of an operation that leaves toRun and ran alone.
LEMMA OperationInv ==
  ASSUME Inv, NEW o \in Operations, OperationStep(o) PROVE Inv'
<1> USE CancellationAssumption DEF Go, flags, Callers
<1>1. CASE GetToken(o)
  <2> USE <1>1 DEF GetToken
  <2>1. Due' = Due
    BY DEF Due
  <2>2. Types'
    BY DEF Inv, Types
  <2>3. TokenInv'
    BY <2>1 DEF Inv, Types, TokenInv
  <2>4. CancelInv'
    BY DEF Inv, Types, CancelInv
  <2>5. CallbackInv' /\ RunOnce'
    BY <2>1, RunOnceDue, RunOnceDueNext DEF Inv, Types, TokenInv, CallbackInv
  <2> QED BY <2>2, <2>3, <2>4, <2>5 DEF Inv
<1>2. CASE Register(o)
  <2> USE <1>2 DEF Register, Refuses
  <2>1. Due' = Due
    BY DEF Due
  <2>2. Types'
    BY DEF Inv, Types, TokenInv
  <2>3. TokenInv'
    BY <2>1 DEF Inv, Types, TokenInv
  <2>4. CancelInv'
    BY DEF Inv, Types, CancelInv
  <2>5. CallbackInv' /\ RunOnce'
    BY <2>1, RunOnceDue, RunOnceDueNext DEF Inv, Types, TokenInv, CallbackInv
  <2> QED BY <2>2, <2>3, <2>4, <2>5 DEF Inv
<1>3. CASE Deregister(o)
  <2> USE <1>3 DEF Deregister, AwaitCancel
  <2>1. Due' = Due
    BY DEF Due
  <2>2. Types'
    BY DEF Inv, Types
  <2>3. TokenInv'
    BY <2>1 DEF Inv, Types, TokenInv
  <2>4. CancelInv'
    BY ZenonT(60) DEF Inv, Types, CancelInv
  <2>5. CallbackInv' /\ RunOnce'
    BY <2>1, NothingDue, RunOnceDue, RunOnceDueNext
       DEF Inv, Types, TokenInv, CancelInv, CallbackInv
  <2> QED BY <2>2, <2>3, <2>4, <2>5 DEF Inv
<1>4. CASE DeregisterReturn(o)
  <2> USE <1>4 DEF DeregisterReturn
  <2>1. Due' = Due
    BY DEF Due
  <2>2. Types'
    BY DEF Inv, Types
  <2>3. TokenInv'
    BY <2>1 DEF Inv, Types, TokenInv
  <2>4. CancelInv'
    BY DEF Inv, Types, CancelInv
  <2>5. CallbackInv' /\ RunOnce'
    BY <2>1, NothingDue, RunOnceDue, RunOnceDueNext
       DEF Inv, Types, TokenInv, CancelInv, CallbackInv
  <2> QED BY <2>2, <2>3, <2>4, <2>5 DEF Inv
<1>5. CASE Forget(o)
  <2> USE <1>5 DEF Forget
  <2>1. Due' = Due
    BY DEF Due
  <2>2. Types'
    BY DEF Inv, Types
  <2>3. TokenInv'
    BY <2>1 DEF Inv, Types, TokenInv
  <2>4. CancelInv'
    BY DEF Inv, Types, CancelInv
  <2>5. CallbackInv' /\ RunOnce'
    BY <2>1, RunOnceDue, RunOnceDueNext
       DEF Inv, Types, TokenInv, CancelInv, CallbackInv
  <2> QED BY <2>2, <2>3, <2>4, <2>5 DEF Inv
<1> QED BY <1>1, <1>2, <1>3, <1>4, <1>5 DEF OperationStep

\* StartCancel takes the callbacks out, and the caller owes them.
LEMMA StartCancelInv ==
  ASSUME Inv, NEW c \in Callers, StartCancel(c) PROVE Inv'
<1> USE CancellationAssumption DEF Go, StartCancel, Begun, Callers
<1>1. Types'
  BY DEF Inv, Types
<1>2. CASE Begun
  <2>1. UNCHANGED <<isCancelling, callbacks, toRun>> /\ Due' = Due
    <3>1. toRun[c] = {}
      BY DEF Inv, CancelInv
    <3>2. toRun' = toRun
      BY <1>2, <3>1 DEF Inv, Types
    <3> QED BY <1>2, <3>2 DEF Due, Inv, Types
  <2>2. TokenInv' /\ CancelInv'
    BY <1>2, <2>1 DEF Inv, Types, TokenInv, CancelInv
  <2>3. CallbackInv' /\ RunOnce'
    BY <1>2, <2>1, RunOnceDue, RunOnceDueNext DEF Inv, Types, CallbackInv
  <2> QED BY <1>1, <2>2, <2>3 DEF Inv
<1>3. CASE ~Begun
  <2>1. Due = {} /\ \A d \in Callers : toRun[d] = {}
    BY <1>3, NothingDue
  <2>2. callbacks' = {} /\ Due' = callbacks
    <3>1. \A d \in Callers : toRun'[d] = IF d = c THEN callbacks ELSE {}
      BY <1>3, <2>1 DEF Inv, Types
    <3> QED BY <1>3, <3>1 DEF Due
  <2>3. TokenInv'
    BY <2>1, <2>2 DEF Inv, Types, TokenInv
  <2>4. CancelInv'
    BY <1>3, <2>1, <2>2 DEF Inv, Types, CancelInv
  <2>5. CallbackInv' /\ RunOnce'
    BY <1>3, <2>1, <2>2, RunOnceDue, RunOnceDueNext DEF Inv, Types, CallbackInv
  <2> QED BY <1>1, <2>3, <2>4, <2>5 DEF Inv
<1> QED BY <1>2, <1>3

\* The loop of StartCancel runs what only this caller owes.
LEMMA CancelStepInv ==
  ASSUME Inv, NEW c \in Callers, CancelStep(c) PROVE Inv'
<1> USE CancellationAssumption DEF Go, flags, Callers
<1>1. CASE RunCallback(c)
  <2>1. PICK k \in toRun[c] :
          toRun' = [toRun EXCEPT ![c] = @ \ {k}] /\ ran' = ran \cup {k}
    BY <1>1 DEF RunCallback
  <2>2. UNCHANGED <<flags, nextToken, callbacks, token, pc>> /\ pc[c] = "running"
    BY <1>1 DEF RunCallback
  <2>3. k \in Due /\ Due' = Due \ {k}
    <3>1. \A d \in Callers : d # c => toRun[d] = {}
      BY <2>2 DEF Inv, CancelInv
    <3>2. Due = toRun[c] /\ Due' = toRun[c] \ {k}
      BY <2>1, <3>1 DEF Due, Inv, Types
    <3> QED BY <3>2
  <2>4. Types'
    BY <2>1, <2>2 DEF Inv, Types
  <2>5. TokenInv'
    BY <2>1, <2>2, <2>3 DEF Inv, Types, TokenInv
  <2>6. CancelInv'
    BY <2>1, <2>2 DEF Inv, Types, CancelInv
  <2>7. CallbackInv' /\ RunOnce'
    BY <2>1, <2>2, <2>3, RunOnceDue, RunOnceDueNext DEF Inv, Types, CallbackInv
  <2> QED BY <2>4, <2>5, <2>6, <2>7 DEF Inv
<1>2. CASE MarkCancelled(c)
  <2> USE <1>2 DEF MarkCancelled
  <2>1. Due' = Due
    BY DEF Due
  <2>2. Types'
    BY DEF Inv, Types
  <2>3. TokenInv'
    BY <2>1 DEF Inv, Types, TokenInv
  <2>4. CancelInv'
    BY DEF Inv, Types, CancelInv
  <2>5. CallbackInv' /\ RunOnce'
    BY <2>1, <2>4, RunOnceDue, RunOnceDueNext
       DEF Inv, Types, TokenInv, CancelInv, CallbackInv
  <2> QED BY <2>2, <2>3, <2>4, <2>5 DEF Inv
<1>3. CASE NotifyCancelled(c)
  <2> USE <1>3 DEF NotifyCancelled, Notify
  <2>1. Due' = Due
    BY DEF Due
  <2>2. Types'
    BY DEF Inv, Types
  <2>3. TokenInv'
    BY <2>1 DEF Inv, Types, TokenInv
  <2>4. CancelInv'
    BY DEF Inv, Types, CancelInv
  <2>5. CallbackInv' /\ RunOnce'
    BY <2>1, <2>4, RunOnceDue, RunOnceDueNext
       DEF Inv, Types, TokenInv, CancelInv, CallbackInv
  <2> QED BY <2>2, <2>3, <2>4, <2>5 DEF Inv
<1> QED BY <1>1, <1>2, <1>3 DEF CancelStep

\* Every step preserves the invariant.
LEMMA NextInv == Inv /\ [Next]_vars => Inv'
<1> SUFFICES ASSUME Inv, [Next]_vars PROVE Inv'
  OBVIOUS
<1>1. ASSUME UNCHANGED vars PROVE Inv'
  BY <1>1 DEF vars, Inv, Types, TokenInv, CancelInv, CallbackInv, RunOnce,
              NoCallbackAfterReturn, HasCallback, Due
<1>2. CASE Destroy
  <2>1. CASE StartCancel(Owner)
    BY <2>1, StartCancelInv DEF Callers
  <2>2. CASE /\ Go(Owner, "start", "done")
             /\ UNCHANGED <<flags, nextToken, callbacks, token, toRun, ran>>
    <3> USE CancellationAssumption, <2>2 DEF Go, flags, Callers
    <3>1. Due' = Due
      BY DEF Due
    <3>2. Types' /\ TokenInv' /\ CancelInv'
      BY <3>1 DEF Inv, Types, TokenInv, CancelInv
    <3>3. CallbackInv' /\ RunOnce'
      BY <3>1, RunOnceDue, RunOnceDueNext DEF Inv, Types, CallbackInv
    <3> QED BY <3>2, <3>3 DEF Inv
  <2> QED BY <1>2, <2>1, <2>2 DEF Destroy
<1> QED
  BY <1>1, <1>2, OperationInv, StartCancelInv, CancelStepInv
     DEF Next, Finished, Callers

\* The invariant holds of every behaviour.
THEOREM Invariance == Spec => []Inv
BY InitInv, NextInv, PTL DEF Spec

\* Once DeregisterCallback has returned the callback of the operation is not
\* invoked any more, whatever the number of operations and of cancellations.
THEOREM NoCallbackAfterReturnHolds == Spec => []NoCallbackAfterReturn
<1>1. Inv => NoCallbackAfterReturn
  BY DEF Inv, CallbackInv
<1> QED BY <1>1, Invariance, PTL

\* StartCancel and the destructor, called by any number of threads, invoke no
\* callback twice and notify once.
THEOREM RunOnceHolds == Spec => []RunOnce
<1>1. Inv => RunOnce
  BY DEF Inv
<1> QED BY <1>1, Invariance, PTL

\* is_cancelled_ is set after the last callback: from then on nothing is left
\* to run, and whatever RegisterCallback, StartCancel and the destructor are
\* called for, no callback is added and none is invoked.  An operation that
\* sees IsCancelled true races with no callback.
CancelledIsFinal ==
  [][isCancelled => /\ isCancelled' /\ callbacks' = {} /\ Due' = {}
                    /\ ran' = ran]_vars

\* The manager is cancelled for good, with every callback run.
THEOREM CancelledIsFinalHolds == Spec => CancelledIsFinal
<1>1. ASSUME Inv, Inv', Next, isCancelled
      PROVE  isCancelled' /\ callbacks' = {} /\ Due' = {} /\ ran' = ran
  <2>1. callbacks = {} /\ ~isCancelling /\ \A c \in Callers : toRun[c] = {} /\ pc[c] # "running"
    BY <1>1, NothingDue DEF Inv, CancelInv
  <2>2. ASSUME NEW o \in Operations, OperationStep(o)
        PROVE  isCancelled' /\ ran' = ran
    BY <1>1, <2>2 DEF OperationStep, GetToken, Register, Deregister,
       DeregisterReturn, Forget, flags
  <2>3. ASSUME NEW c \in Callers, StartCancel(c) PROVE isCancelled' /\ ran' = ran
    BY <1>1, <2>3 DEF StartCancel
  <2>4. ASSUME NEW c \in Callers, CancelStep(c) PROVE isCancelled' /\ ran' = ran
    BY <1>1, <2>1, <2>4 DEF CancelStep, RunCallback, MarkCancelled, NotifyCancelled, Go
  <2>5. isCancelled' /\ ran' = ran
    BY <1>1, <2>2, <2>3, <2>4 DEF Next, Destroy, Finished, Callers, vars, flags
  <2>6. callbacks' = {} /\ ~isCancelling'
    BY <1>1, <2>5 DEF Inv, CancelInv
  <2>7. Due' = {}
    BY <1>1, <2>6 DEF Inv, CancelInv, Due
  <2> QED BY <2>5, <2>6, <2>7
<1>2. ASSUME Inv, Inv', [Next]_vars
      PROVE  [isCancelled => /\ isCancelled' /\ callbacks' = {} /\ Due' = {}
                             /\ ran' = ran]_vars
  BY <1>1, <1>2
<1> QED BY <1>2, Invariance, PTL DEF Spec, CancelledIsFinal

-----------------------------------------------------------------------------
(***************************************************************************)
(* The Notification.  CancellationManager takes from it that a wait        *)
(* returns after Notify only (DeregisterReturn) and that the manager may   *)
(* be destroyed, its Notification with it, when the waits have returned.   *)
(* This holds of every Notification, whoever uses it: its threads and its  *)
(* state are those of the module Notification, apart from the manager's.   *)
(***************************************************************************)
\* Where the notifier, the deleter and a waiter may be.
PcInv ==
  /\ at[Notifier] \in {"call", "store", "signal", "unlock", "done"}
  /\ at[Deleter] \in {"call", "destroyed"}
  /\ \A w \in Waiters : at[w] \in {"call", "lock", "check", "wait", "waiting",
                                   "expired", "returned"}

\* The threads inside a critical section are those that hold mu_.
MuInv ==
  \A t \in Threads :
    at[t] \in {"store", "signal", "unlock", "check", "wait"} <=> mu = t

\* The flag is up exactly when the notifier has stored it.
FlagInv == notified <=> at[Notifier] \in {"signal", "unlock", "done"}

NoteInv ==
  /\ TypeOK /\ PcInv /\ MuInv /\ FlagInv
  /\ NoEarlyReturn /\ SafeToDestroy

\* The constructor establishes the invariant.
LEMMA NoteInit == NotificationInit => NoteInv
BY NotificationAssumption
   DEF NotificationInit, NoteInv, TypeOK, PcInv, MuInv, FlagInv,
       NoEarlyReturn, SafeToDestroy, Threads

\* Notify, the waits and the destructor preserve it.
LEMMA NoteNext == NoteInv /\ [NotificationNext]_notificationVars => NoteInv'
<1> SUFFICES ASSUME NoteInv, [NotificationNext]_notificationVars PROVE NoteInv'
  OBVIOUS
<1> USE NotificationAssumption DEF Threads, Advance, NoteInv, TypeOK, PcInv, MuInv,
            FlagInv, NoEarlyReturn, SafeToDestroy
<1>1. CASE NotifyLock
  BY <1>1 DEF NotifyLock, Lock
<1>2. CASE NotifyStore
  BY <1>2 DEF NotifyStore
<1>3. CASE NotifyAll
  BY <1>3 DEF NotifyAll
<1>4. CASE NotifyUnlock
  BY <1>4 DEF NotifyUnlock
<1>5. ASSUME NEW w \in Waiters, FastCheck(w) PROVE NoteInv'
  BY <1>5 DEF FastCheck
<1>6. ASSUME NEW w \in Waiters, WaitLock(w) PROVE NoteInv'
  BY <1>6 DEF WaitLock, Lock
<1>7. ASSUME NEW w \in Waiters, Check(w) PROVE NoteInv'
  BY <1>7 DEF Check, Unlock
<1>8. ASSUME NEW w \in Waiters, Wait(w) PROVE NoteInv'
  BY <1>8 DEF Wait
<1>9. ASSUME NEW w \in Waiters, SpuriousWakeup(w) PROVE NoteInv'
  BY <1>9 DEF SpuriousWakeup, LoopAgain
<1>10. ASSUME NEW w \in Waiters, Expire(w) PROVE NoteInv'
  BY <1>10 DEF Expire
<1>11. ASSUME NEW w \in Waiters, ReturnFalse(w) PROVE NoteInv'
  BY <1>11 DEF ReturnFalse
<1>12. CASE Destructor
  BY <1>12 DEF Destructor, Unlocked
<1>13. CASE UNCHANGED notificationVars
  BY <1>13 DEF notificationVars
<1> QED
  BY <1>1, <1>2, <1>3, <1>4, <1>5, <1>6, <1>7, <1>8, <1>9, <1>10, <1>11, <1>12, <1>13
     DEF NotificationNext, NotifyStep, WaitStep, NotificationGone

\* The invariant holds of every behaviour.
LEMMA NoteInvariance == NotificationSpec => []NoteInv
<1>1. NotificationInit => NoteInv
  BY NoteInit
<1>2. NoteInv /\ [NotificationNext]_notificationVars => NoteInv'
  BY NoteNext
<1> QED BY <1>1, <1>2, PTL DEF NotificationSpec

\* Types, and mu_ is held only inside a critical section.
THEOREM NotificationTypeCorrect == NotificationSpec => []TypeOK
<1>1. NoteInv => TypeOK
  BY DEF NoteInv
<1>2. NotificationSpec => []NoteInv
  BY NoteInvariance
<1> QED BY <1>1, <1>2, PTL

\* When the destructor has run Notify has left its critical section, however
\* many waiters return by the fast path.
THEOREM NotificationSafeToDestroy == NotificationSpec => []SafeToDestroy
<1>1. NoteInv => SafeToDestroy
  BY DEF NoteInv
<1>2. NotificationSpec => []NoteInv
  BY NoteInvariance
<1> QED BY <1>1, <1>2, PTL

\* No wait, with or without a timeout, returns true before Notify.
THEOREM NotificationNoEarlyReturn == NotificationSpec => []NoEarlyReturn
<1>1. NoteInv => NoEarlyReturn
  BY DEF NoteInv
<1>2. NotificationSpec => []NoteInv
  BY NoteInvariance
<1> QED BY <1>1, <1>2, PTL
=============================================================================
