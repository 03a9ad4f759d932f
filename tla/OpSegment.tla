----------------------------- MODULE OpSegment ------------------------------
(***************************************************************************)
(* tensorflow/core/framework/op_segment.{h,cc}.                            *)
(*                                                                         *)
(* The kernels of every session, shared by the executors of the session.   *)
(* AddHold and RemoveHold count the holds on a session; the last           *)
(* RemoveHold takes the session out under mu_ and deletes its kernels      *)
(* after mu_ is released.  FindOrCreate looks a kernel up under mu_,       *)
(* creates it without mu_ when it is missing, and takes mu_ again to put   *)
(* it in.  A critical section is one step.                                 *)
(***************************************************************************)
EXTENDS Naturals, FiniteSets

CONSTANTS
  Threads,    \* the executors
  Sessions,   \* session handles
  Names,      \* node names
  MaxKernels, \* bound on the kernels create_fn makes
  None

Kernels == 1..MaxKernels

\* struct Item: the count of holds and the kernels by node name.
Item == [holds : Nat, kernels : [Names -> Kernels \cup {None}]]

ASSUME OpSegmentAssumption ==
  /\ MaxKernels \in Nat
  /\ None \notin Nat
  /\ None \notin Item

VARIABLES
  sessions,  \* sessions_: None, or the item [holds, kernels]
  mine,      \* the holds of each thread
  made,      \* how many kernels create_fn has made
  alive,     \* the kernels that exist
  call,      \* what each thread is doing
  lost,      \* the kernels whose session was gone when they had been created
  uses       \* the kernels returned to a thread that has a hold:
             \* <<thread, session, name, kernel>>

vars == <<sessions, mine, made, alive, call, lost, uses>>

Idle == [at |-> "idle"]

Init ==
  /\ sessions = [s \in Sessions |-> None]
  /\ mine = [t \in Threads |-> {}]
  /\ made = 0
  /\ alive = {}
  /\ call = [t \in Threads |-> Idle]
  /\ lost = {}
  /\ uses = {}

Become(t, c) == call' = [call EXCEPT ![t] = c]

Use(t, s, n, k) ==
  uses' = IF s \in mine[t] THEN uses \cup {<<t, s, n, k>>} ELSE uses

KernelsOf(s) ==
  IF sessions[s] = None THEN {} ELSE {sessions[s].kernels[n] : n \in Names} \ {None}

\* Seeded faults: the test is --num_holds > 1; a kernel put in meanwhile is
\* replaced; the second kernel is not deleted.
OneOrTwoHolds(s) == sessions[s].holds <= 2
Replacement(s, n, k) == k
KeepBoth(k) == alive

LastHold(s) == sessions[s].holds = 1
Winner(s, n, k) == IF sessions[s].kernels[n] = None THEN k ELSE sessions[s].kernels[n]
DeleteKernel(k) == alive \ {k}

-----------------------------------------------------------------------------
(* AddHold, RemoveHold *)

AddHold(t, s) ==
  /\ call[t] = Idle
  /\ s \notin mine[t]
  /\ mine' = [mine EXCEPT ![t] = @ \cup {s}]
  /\ sessions' = [sessions EXCEPT ![s] =
                    IF @ = None
                    THEN [holds |-> 1, kernels |-> [n \in Names |-> None]]
                    ELSE [holds |-> @.holds + 1, kernels |-> @.kernels]]
  /\ UNCHANGED <<lost, made, alive, call, uses>>

\* The thread stops using the kernels of the session.  With the last hold the
\* session leaves the map ...
RemoveHold(t, s) ==
  /\ call[t] = Idle
  /\ s \in mine[t] /\ sessions[s] # None
  /\ mine' = [mine EXCEPT ![t] = @ \ {s}]
  /\ uses' = {u \in uses : u[1] # t \/ u[2] # s}
  /\ \/ /\ LastHold(s)
        /\ sessions' = [sessions EXCEPT ![s] = None]
        /\ Become(t, [at |-> "delete", kernels |-> KernelsOf(s)])
     \/ /\ ~LastHold(s)
        /\ sessions' = [sessions EXCEPT ![s].holds = @ - 1]
        /\ UNCHANGED call
  /\ UNCHANGED <<lost, made, alive>>

\* ... and its item is deleted, with the kernels, outside mu_.
DeleteItem(t) ==
  /\ call[t].at = "delete"
  /\ alive' = alive \ call[t].kernels
  /\ Become(t, Idle)
  /\ UNCHANGED <<lost, sessions, mine, made, uses>>

-----------------------------------------------------------------------------
(* FindOrCreate *)

\* The first critical section.  NotFound changes nothing.
Find(t, s, n) ==
  /\ call[t] = Idle
  /\ sessions[s] # None
  /\ \/ /\ sessions[s].kernels[n] # None
        /\ Use(t, s, n, sessions[s].kernels[n])
        /\ UNCHANGED call
     \/ /\ sessions[s].kernels[n] = None
        /\ Become(t, [at |-> "create", session |-> s, name |-> n])
        /\ UNCHANGED uses
  /\ UNCHANGED <<lost, sessions, mine, made, alive>>

\* create_fn, without mu_.  It may fail.
Create(t) ==
  /\ call[t].at = "create"
  /\ \/ Become(t, Idle) /\ UNCHANGED <<made, alive>>
     \/ /\ made < MaxKernels
        /\ made' = made + 1
        /\ alive' = alive \cup {made'}
        /\ Become(t, [at |-> "insert", session |-> call[t].session,
                      name |-> call[t].name, kernel |-> made'])
  /\ UNCHANGED <<lost, sessions, mine, uses>>

\* The second critical section.  The session is gone, and NotFound is returned;
\* or the kernel goes in; or another thread was faster, the kernel is deleted
\* and the other thread's kernel is returned.
Insert(t) ==
  LET s == call[t].session  n == call[t].name  k == call[t].kernel IN
  /\ call[t].at = "insert"
  /\ \/ /\ sessions[s] = None
        /\ lost' = lost \cup {k}
        /\ UNCHANGED <<sessions, alive, uses>>
     \/ /\ sessions[s] # None
        /\ sessions' = [sessions EXCEPT ![s].kernels[n] = Winner(s, n, k)]
        /\ Use(t, s, n, Winner(s, n, k))
        /\ alive' = IF Winner(s, n, k) = k THEN alive ELSE DeleteKernel(k)
        /\ UNCHANGED lost
  /\ Become(t, Idle)
  /\ UNCHANGED <<mine, made>>

\* ~OpSegment deletes the items that are left.  A new segment may follow.
Destroy ==
  /\ \A t \in Threads : call[t] = Idle
  /\ alive' = alive \ UNION {KernelsOf(s) : s \in Sessions}
  /\ sessions' = [s \in Sessions |-> None]
  /\ mine' = [t \in Threads |-> {}]
  /\ uses' = {}
  /\ UNCHANGED <<lost, made, call>>

Next ==
  \/ \E t \in Threads, s \in Sessions : AddHold(t, s) \/ RemoveHold(t, s)
  \/ \E t \in Threads, s \in Sessions, n \in Names : Find(t, s, n)
  \/ \E t \in Threads : DeleteItem(t) \/ Create(t) \/ Insert(t)
  \/ Destroy

Spec == Init /\ [][Next]_vars

-----------------------------------------------------------------------------
\* "ensure these kernels are alive until a corresponding RemoveHold": a kernel
\* returned to a thread exists as long as the thread has its hold.
KernelsAlive ==
  \A u \in uses : u[4] \in alive

\* Two threads that hold a session use the same kernel for the same node: the
\* state of a stateful kernel is not split.
SameKernel ==
  \A u, v \in uses : u[2] = v[2] /\ u[3] = v[3] => u[4] = v[4]

\* The kernels that a call in progress will delete or put in.
Owned(t) == CASE call[t].at = "delete" -> call[t].kernels
              [] call[t].at = "insert" -> {call[t].kernel}
              [] OTHER -> {}

\* The kernels that the sessions and the calls in progress own.
Owners ==
  (UNION {KernelsOf(s) : s \in Sessions}) \cup (UNION {Owned(t) : t \in Threads})

\* No kernel is deleted twice: the item of a session and the calls in progress
\* own different kernels, all of which exist.  And none stays behind when two
\* threads create one kernel or a session is removed, except by a FindOrCreate
\* whose session goes away.
OwnedOnce ==
  /\ \A s \in Sessions, t \in Threads : KernelsOf(s) \cap Owned(t) = {}
  /\ \A t, u \in Threads : t # u => Owned(t) \cap Owned(u) = {}
  /\ alive \ lost \subseteq Owners /\ Owners \subseteq alive

\* "OpSegment keeps the ownership of the returned kernel": a kernel that
\* exists belongs to a session or to a call in progress.
NoKernelLeaked == alive \subseteq Owners
=============================================================================
