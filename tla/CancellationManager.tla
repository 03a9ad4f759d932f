------------------------- MODULE CancellationManager -------------------------
(***************************************************************************)
(* tensorflow/core/framework/cancellation.{h,cc}, with the operations that *)
(* use it: the pattern recommended in cancellation.h and, for the          *)
(* Forgetful ones, ReaderOpKernel::Compute of reader_op_kernel.h.          *)
(*                                                                         *)
(* An operation gets a token, registers a callback for it, works, and      *)
(* deregisters the callback before it frees what the callback uses.        *)
(* StartCancel takes all callbacks out under mu_, runs them without mu_,   *)
(* and only then marks the manager cancelled and notifies the callers of   *)
(* DeregisterCallback that arrived meanwhile.  A critical section is one   *)
(* step, a callback another.                                               *)
(***************************************************************************)
EXTENDS Naturals, FiniteSets

CONSTANTS
  Operations,  \* the threads of operations that can be cancelled
  Forgetful,   \* the operations that end without DeregisterCallback
  Cancellers,  \* threads that call StartCancel
  Owner,       \* destroys the manager when every call has returned
  NoToken      \* kInvalidToken

ASSUME CancellationAssumption ==
  /\ IsFiniteSet(Operations)
  /\ Forgetful \subseteq Operations
  /\ Operations \cap Cancellers = {}
  /\ Owner \notin Operations \cup Cancellers
  /\ NoToken \notin Nat

VARIABLES
  isCancelling,  \* is_cancelling_
  isCancelled,   \* is_cancelled_
  cancelledNotification,  \* the flag of cancelled_notification_
  nextToken,     \* next_cancellation_token_
  callbacks,     \* callbacks_: the tokens that have a callback
  token,         \* the token of each operation
  toRun,         \* callbacks_to_run of each caller of StartCancel
  ran,           \* the tokens whose callback was invoked
  pc             \* where each thread is

vars == <<isCancelling, isCancelled, cancelledNotification, nextToken, callbacks,
          token, toRun, ran, pc>>

Callers == Cancellers \cup {Owner}

Init ==
  /\ isCancelling = FALSE
  /\ isCancelled = FALSE
  /\ cancelledNotification = FALSE
  /\ nextToken = 0
  /\ callbacks = {}
  /\ token = [o \in Operations |-> NoToken]
  /\ toRun = [c \in Callers |-> {}]
  /\ ran = {}
  /\ pc = [t \in Operations \cup Callers |-> "start"]

flags == <<isCancelling, isCancelled, cancelledNotification>>

Go(t, from, to) == pc[t] = from /\ pc' = [pc EXCEPT ![t] = to]

\* A thread other than the owner may call as long as the manager exists.
Exists == pc[Owner] = "start"

\* Seeded faults: RegisterCallback, and then StartCancel, look at
\* is_cancelled_ only; DeregisterCallback does not wait; nobody is notified.
RefusesLate == isCancelled
BegunLate == isCancelled
NoWait == "freed"
NotifyNobody == cancelledNotification' = cancelledNotification

Refuses == isCancelled \/ isCancelling
Begun == isCancelled \/ isCancelling
AwaitCancel == "waiting"
Notify == cancelledNotification' = TRUE

-----------------------------------------------------------------------------
(* The operations *)

GetToken(o) ==
  /\ Exists
  /\ Go(o, "start", "token")
  /\ token' = [token EXCEPT ![o] = nextToken]
  /\ nextToken' = nextToken + 1
  /\ UNCHANGED <<flags, callbacks, toRun, ran>>

\* RegisterCallback returns false, and the operation does not start, when a
\* cancellation has begun.
Register(o) ==
  /\ Go(o, "token", IF Refuses THEN "refused" ELSE "working")
  /\ callbacks' = IF Refuses THEN callbacks ELSE callbacks \cup {token[o]}
  /\ UNCHANGED <<flags, nextToken, token, toRun, ran>>

\* DeregisterCallback comes after the cancellation, in the middle of it, or
\* before it: then the callback will not be invoked.
Deregister(o) ==
  /\ o \notin Forgetful
  /\ \/ isCancelled /\ Go(o, "working", "freed") /\ UNCHANGED callbacks
     \/ ~isCancelled /\ isCancelling
        /\ Go(o, "working", AwaitCancel) /\ UNCHANGED callbacks
     \/ ~isCancelled /\ ~isCancelling
        /\ Go(o, "working", "freed") /\ callbacks' = callbacks \ {token[o]}
  /\ UNCHANGED <<flags, nextToken, token, toRun, ran>>

\* WaitForNotification returns, and DeregisterCallback with it.
DeregisterReturn(o) ==
  /\ cancelledNotification
  /\ Go(o, "waiting", "freed")
  /\ UNCHANGED <<flags, nextToken, callbacks, token, toRun, ran>>

\* ReaderOpKernel::Compute returns and leaves its callback registered.
Forget(o) ==
  /\ o \in Forgetful
  /\ Go(o, "working", "freed")
  /\ UNCHANGED <<flags, nextToken, callbacks, token, toRun, ran>>

-----------------------------------------------------------------------------
(* StartCancel *)

\* Returns at once when a cancellation has begun or is over.
StartCancel(c) ==
  /\ Exists
  /\ Go(c, "start", IF Begun THEN "done" ELSE "running")
  /\ isCancelling' = (~Begun \/ isCancelling)
  /\ toRun' = [toRun EXCEPT ![c] = IF Begun THEN {} ELSE callbacks]
  /\ callbacks' = IF Begun THEN callbacks ELSE {}
  /\ UNCHANGED <<isCancelled, cancelledNotification, nextToken, token, ran>>

\* The loop over callbacks_to_run, in the order of the hash table, without mu_.
RunCallback(c) ==
  /\ pc[c] = "running"
  /\ \E k \in toRun[c] : /\ toRun' = [toRun EXCEPT ![c] = @ \ {k}]
                         /\ ran' = ran \cup {k}
  /\ UNCHANGED <<flags, nextToken, callbacks, token, pc>>

MarkCancelled(c) ==
  /\ toRun[c] = {}
  /\ Go(c, "running", "marked")
  /\ isCancelling' = FALSE
  /\ isCancelled' = TRUE
  /\ UNCHANGED <<cancelledNotification, nextToken, callbacks, token, toRun, ran>>

NotifyCancelled(c) ==
  /\ Go(c, "marked", "done")
  /\ Notify
  /\ UNCHANGED <<isCancelling, isCancelled, nextToken, callbacks, token, toRun, ran>>

-----------------------------------------------------------------------------
\* Nobody else is in a call of the manager, nor will be.
Quiet ==
  /\ \A o \in Operations : pc[o] \in {"start", "refused", "freed"}
  /\ \A c \in Cancellers : pc[c] \in {"start", "done"}

\* ~CancellationManager runs the callbacks that are left.
Destroy ==
  /\ Quiet
  /\ \/ callbacks # {} /\ StartCancel(Owner)
     \/ /\ callbacks = {}
        /\ Go(Owner, "start", "done")
        /\ UNCHANGED <<flags, nextToken, callbacks, token, toRun, ran>>

Finished == pc[Owner] = "done" /\ UNCHANGED vars

OperationStep(o) ==
  GetToken(o) \/ Register(o) \/ Deregister(o) \/ DeregisterReturn(o) \/ Forget(o)

CancelStep(c) == RunCallback(c) \/ MarkCancelled(c) \/ NotifyCancelled(c)

Next ==
  \/ \E o \in Operations : OperationStep(o)
  \/ \E c \in Cancellers : StartCancel(c)
  \/ \E c \in Callers : CancelStep(c)
  \/ Destroy
  \/ Finished

Spec == Init /\ [][Next]_vars

\* A cancellation that has begun goes on, as does an operation.  Nobody has to
\* cancel.
Fairness ==
  /\ \A o \in Operations : WF_vars(OperationStep(o))
  /\ \A c \in Callers : WF_vars(CancelStep(c))

FairSpec == Spec /\ Fairness

-----------------------------------------------------------------------------
\* DeregisterCallback returns only when the callback was deregistered and will
\* not be invoked or after it has been invoked: an operation that has freed
\* its objects, or was refused, has no callback left to run.
HasCallback(o) ==
  token[o] \in callbacks \cup UNION {toRun[c] : c \in Callers}

NoCallbackAfterReturn ==
  \A o \in Operations \ Forgetful :
    pc[o] \in {"refused", "freed"} => ~HasCallback(o)

\* Although StartCancel is called several times, and by the destructor, no
\* callback is invoked twice, and Notification::Notify, which asserts that it
\* is called once, is.
RunOnce ==
  LET due == UNION {toRun[c] : c \in Callers} IN
  /\ ran \cap (callbacks \cup due) = {}
  /\ callbacks \cap due = {}
  /\ \A c \in Callers : pc[c] = "marked" => ~cancelledNotification

\* A registered callback is not forgotten: when a cancellation begins, the
\* operation has its callback invoked or has left the manager before.
CallbackRuns ==
  \A o \in Operations :
    isCancelling /\ pc[o] = "working" ~> token[o] \in ran

\* DeregisterCallback does not block for ever.
DeregisterReturns ==
  \A o \in Operations : pc[o] = "waiting" ~> pc[o] = "freed"
=============================================================================
