-------------------------- MODULE OpSegmentProofs ---------------------------
(***************************************************************************)
(* KernelsAlive, SameKernel and OwnedOnce for any number of executors,     *)
(* sessions, nodes and kernels; and NoKernelLeaked when FindOrCreate is    *)
(* called under a hold.                                                    *)
(***************************************************************************)
EXTENDS OpSegment, FiniteSetTheorems, TLAPS

Calls ==
  [at : {"idle"}]
    \cup [at : {"delete"}, kernels : SUBSET Kernels]
    \cup [at : {"create"}, session : Sessions, name : Names]
    \cup [at : {"insert"}, session : Sessions, name : Names, kernel : Kernels]

Types ==
  /\ sessions \in [Sessions -> Item \cup {None}]
  /\ mine \in [Threads -> SUBSET Sessions]
  /\ made \in 0..MaxKernels
  /\ alive \subseteq 1..made
  /\ call \in [Threads -> Calls]
  /\ uses \subseteq Threads \X Sessions \X Names \X Kernels

\* num_holds counts the threads that have a hold: a session with a hold is in
\* the map, and the last hold is the only one.
Holders(s) == {t \in Threads : s \in mine[t]}

HoldInv ==
  \A s \in Sessions :
    IF sessions[s] = None THEN Holders(s) = {}
    ELSE IsFiniteSet(Holders(s)) /\ sessions[s].holds = Cardinality(Holders(s))

\* What was returned to a thread that holds the session is the kernel that the
\* session still has for the node.
UseInv ==
  \A t \in Threads, s \in Sessions, n \in Names, k \in Kernels :
    <<t, s, n, k>> \in uses =>
      s \in mine[t] /\ sessions[s] # None /\ sessions[s].kernels[n] = k

\* Besides OwnedOnce: two sessions share no kernel.
OwnedInv ==
  /\ OwnedOnce
  /\ \A s, r \in Sessions : s # r => KernelsOf(s) \cap KernelsOf(r) = {}

Inv == Types /\ HoldInv /\ UseInv /\ OwnedInv

-----------------------------------------------------------------------------
\* What it is to be owned, before and after a step.
LEMMA OwnersElement ==
  ASSUME NEW k
  PROVE  k \in Owners <=> \/ \E s \in Sessions : k \in KernelsOf(s)
                          \/ \E t \in Threads : k \in Owned(t)
BY DEF Owners

\* The same after a step.
LEMMA OwnersElementNext ==
  ASSUME NEW k
  PROVE  k \in Owners' <=> \/ \E s \in Sessions : k \in KernelsOf(s)'
                           \/ \E t \in Threads : k \in Owned(t)'
BY DEF Owners

\* What a call in progress owns depends on that call only.
LEMMA OwnedCall ==
  ASSUME NEW t \in Threads
  PROVE  /\ call[t].at = "delete" => Owned(t) = call[t].kernels
         /\ call[t].at = "insert" => Owned(t) = {call[t].kernel}
         /\ call[t].at \in {"idle", "create"} => Owned(t) = {}
BY DEF Owned

\* The same after a step.
LEMMA OwnedCallNext ==
  ASSUME NEW t \in Threads
  PROVE  /\ call'[t].at = "delete" => Owned(t)' = call'[t].kernels
         /\ call'[t].at = "insert" => Owned(t)' = {call'[t].kernel}
         /\ call'[t].at \in {"idle", "create"} => Owned(t)' = {}
         /\ call'[t] = call[t] => Owned(t)' = Owned(t)
BY DEF Owned

\* What a session owns depends on its item only.
LEMMA KernelsOfNext ==
  ASSUME NEW s \in Sessions, sessions'[s] = sessions[s]
  PROVE  KernelsOf(s)' = KernelsOf(s)
BY DEF KernelsOf

\* A step that changes neither what the sessions and the calls own nor which
\* kernels exist.
LEMMA SameOwners ==
  ASSUME OwnedInv, UNCHANGED <<alive, lost>>,
         \A s \in Sessions : KernelsOf(s)' = KernelsOf(s),
         \A t \in Threads : Owned(t)' = Owned(t)
  PROVE  OwnedInv'
<1>1. Owners' = Owners
  BY DEF Owners
<1> QED BY <1>1 DEF OwnedInv, OwnedOnce

\* The holders of a session after a step of one thread.
LEMMA HoldersNext ==
  ASSUME Types, NEW t \in Threads, NEW s \in Sessions
  PROVE  /\ mine' = [mine EXCEPT ![t] = @ \cup {s}] =>
              /\ Holders(s)' = Holders(s) \cup {t}
              /\ \A r \in Sessions : r # s => Holders(r)' = Holders(r)
         /\ mine' = [mine EXCEPT ![t] = @ \ {s}] =>
              /\ Holders(s)' = Holders(s) \ {t}
              /\ \A r \in Sessions : r # s => Holders(r)' = Holders(r)
         /\ mine' = mine => \A r \in Sessions : Holders(r)' = Holders(r)
BY DEF Types, Holders

\* A segment without sessions satisfies the invariant.
LEMMA InitInv == Init => Inv
<1> SUFFICES ASSUME Init PROVE Inv
  OBVIOUS
<1> USE OpSegmentAssumption DEF Init
<1>1. Types
  BY DEF Types, Calls, Idle
<1>2. HoldInv /\ UseInv
  BY DEF HoldInv, UseInv, Holders
<1>3. \A s \in Sessions : KernelsOf(s) = {}
  BY DEF KernelsOf
<1>4. \A t \in Threads : Owned(t) = {}
  BY OwnedCall DEF Idle
<1>5. Owners = {}
  BY <1>3, <1>4 DEF Owners
<1> QED BY <1>1, <1>2, <1>3, <1>4, <1>5 DEF Inv, OwnedInv, OwnedOnce

\* AddHold: one holder more.
LEMMA AddHoldInv ==
  ASSUME Inv, NEW t \in Threads, NEW s \in Sessions, AddHold(t, s) PROVE Inv'
<1> USE OpSegmentAssumption DEF AddHold
<1>1. /\ sessions[s] = None => sessions'[s] = [holds |-> 1, kernels |-> [n \in Names |-> None]]
      /\ sessions[s] # None => sessions'[s] =
           [holds |-> sessions[s].holds + 1, kernels |-> sessions[s].kernels]
      /\ \A r \in Sessions : r # s => sessions'[r] = sessions[r]
  <2>1. \A r \in Sessions : sessions'[r] =
          IF r # s THEN sessions[r]
          ELSE IF sessions[r] = None
               THEN [holds |-> 1, kernels |-> [n \in Names |-> None]]
               ELSE [holds |-> sessions[r].holds + 1,
                     kernels |-> sessions[r].kernels]
    BY DEF Inv, Types
  <2> QED BY <2>1
<1>2. /\ sessions'[s] \in Item
      /\ sessions'[s].holds = IF sessions[s] = None THEN 1 ELSE sessions[s].holds + 1
      /\ sessions'[s].kernels = IF sessions[s] = None THEN [n \in Names |-> None]
                                ELSE sessions[s].kernels
  <2>1. CASE sessions[s] = None
    BY <1>1, <2>1 DEF Item
  <2>2. CASE sessions[s] # None
    <3>1. sessions[s] \in Item
      BY <2>2 DEF Inv, Types
    <3> QED BY <1>1, <2>2, <3>1 DEF Item
  <2> QED BY <2>1, <2>2
<1>8. Types'
  BY <1>2 DEF Inv, Types
<1>3. HoldInv'
  <2>1. /\ Holders(s)' = Holders(s) \cup {t}
        /\ \A r \in Sessions : r # s => Holders(r)' = Holders(r)
    BY HoldersNext DEF Inv
  <2>2. IsFiniteSet(Holders(s)) /\ t \notin Holders(s)
    BY FS_EmptySet DEF Inv, HoldInv, Holders
  <2>3. /\ IsFiniteSet(Holders(s)')
        /\ Cardinality(Holders(s)') = Cardinality(Holders(s)) + 1
    BY <2>1, <2>2, FS_AddElement
  <2>4. sessions[s] = None => Cardinality(Holders(s)) = 0
    BY FS_EmptySet DEF Inv, HoldInv
  <2>5. sessions'[s].holds = Cardinality(Holders(s)')
    BY <1>2, <2>3, <2>4 DEF Inv, HoldInv
  <2> QED BY <1>1, <1>2, <2>1, <2>3, <2>5 DEF Inv, HoldInv
<1>4. UseInv'
  <2> SUFFICES ASSUME NEW u \in Threads, NEW r \in Sessions, NEW n \in Names,
                      NEW k \in Kernels, <<u, r, n, k>> \in uses
               PROVE  /\ r \in mine'[u]
                      /\ sessions'[r] # None /\ sessions'[r].kernels[n] = k
    BY DEF UseInv
  <2>1. r \in mine[u] /\ sessions[r] # None /\ sessions[r].kernels[n] = k
    BY DEF Inv, UseInv
  <2> QED BY <1>1, <1>2, <2>1 DEF Inv, Types
<1>5. \A r \in Sessions : KernelsOf(r)' = KernelsOf(r)
  <2>1. KernelsOf(s)' = KernelsOf(s)
    <3>1. CASE sessions[s] = None
      BY <1>2, <3>1 DEF KernelsOf
    <3>2. CASE sessions[s] # None
      BY <1>2, <3>2 DEF KernelsOf
    <3> QED BY <3>1, <3>2
  <2> QED BY <1>1, <2>1, KernelsOfNext
<1>6. \A u \in Threads : Owned(u)' = Owned(u)
  BY OwnedCallNext
<1>7. OwnedInv'
  BY <1>5, <1>6, SameOwners DEF Inv
<1> QED BY <1>8, <1>3, <1>4, <1>7 DEF Inv

\* RemoveHold: one holder less; with the last one the session leaves the map
\* and the call owns what the session owned.
LEMMA RemoveHoldInv ==
  ASSUME Inv, NEW t \in Threads, NEW s \in Sessions, RemoveHold(t, s) PROVE Inv'
<1> USE OpSegmentAssumption
<1>1. /\ t \in Holders(s) /\ IsFiniteSet(Holders(s)) /\ sessions[s] \in Item
      /\ sessions[s].holds = Cardinality(Holders(s))
      /\ sessions[s] # None /\ Owned(t) = {}
  BY OwnedCall DEF RemoveHold, Inv, Types, HoldInv, Holders, Idle
<1>2. /\ Holders(s)' = Holders(s) \ {t}
      /\ \A r \in Sessions : r # s => Holders(r)' = Holders(r)
  BY HoldersNext DEF RemoveHold, Inv
<1>3. /\ IsFiniteSet(Holders(s)')
      /\ Cardinality(Holders(s)') = Cardinality(Holders(s)) - 1
  BY <1>1, <1>2, FS_RemoveElement
<1>4. CASE LastHold(s)
  <2>1. /\ sessions' = [sessions EXCEPT ![s] = None]
        /\ call' = [call EXCEPT ![t] = [at |-> "delete", kernels |-> KernelsOf(s)]]
        /\ mine' = [mine EXCEPT ![t] = @ \ {s}]
        /\ uses' = {u \in uses : u[1] # t \/ u[2] # s}
        /\ UNCHANGED <<lost, made, alive>>
    BY <1>4 DEF RemoveHold, Become
  <2>2. Holders(s)' = {} /\ Holders(s) = {t}
    <3>1. Cardinality(Holders(s)') = 0
      BY <1>1, <1>3, <1>4 DEF LastHold, Item
    <3> QED BY <1>1, <1>2, <1>3, <3>1, FS_EmptySet
  <2>3. Types'
    <3>1. KernelsOf(s) \subseteq Kernels
      BY <1>1 DEF KernelsOf, Item
    <3> QED BY <2>1, <3>1 DEF Inv, Types, Calls
  <2>4. HoldInv'
    BY <1>2, <2>1, <2>2 DEF Inv, Types, HoldInv
  <2>5. UseInv'
    <3> SUFFICES ASSUME NEW u \in Threads, NEW r \in Sessions, NEW n \in Names,
                        NEW k \in Kernels, <<u, r, n, k>> \in uses'
                 PROVE  /\ r \in mine'[u]
                        /\ sessions'[r] # None /\ sessions'[r].kernels[n] = k
      BY DEF UseInv
    <3>1. <<u, r, n, k>> \in uses /\ (u # t \/ r # s)
      BY <2>1
    <3>2. r \in mine[u] /\ sessions[r] # None /\ sessions[r].kernels[n] = k
      BY <3>1 DEF Inv, UseInv
    <3>3. r # s
      BY <2>2, <3>1, <3>2 DEF Holders
    <3> QED BY <2>1, <3>2, <3>3 DEF Inv, Types
  <2>6. /\ KernelsOf(s)' = {} /\ Owned(t)' = KernelsOf(s)
        /\ \A r \in Sessions : r # s => KernelsOf(r)' = KernelsOf(r)
        /\ \A u \in Threads : u # t => Owned(u)' = Owned(u)
    <3>1. KernelsOf(s)' = {}
      BY <2>1 DEF KernelsOf, Inv, Types
    <3>2. Owned(t)' = KernelsOf(s)
      BY <2>1, OwnedCallNext DEF Inv, Types
    <3>3. \A r \in Sessions : r # s => KernelsOf(r)' = KernelsOf(r)
      BY <2>1, KernelsOfNext DEF Inv, Types
    <3>4. \A u \in Threads : u # t => Owned(u)' = Owned(u)
      BY <2>1, OwnedCallNext DEF Inv, Types
    <3> QED BY <3>1, <3>2, <3>3, <3>4
  <2>7. OwnedInv'
    <3>1. Owners' = Owners
      <4> SUFFICES ASSUME NEW k PROVE k \in Owners' <=> k \in Owners
        OBVIOUS
      <4> QED BY <1>1, <2>6, OwnersElement, OwnersElementNext
    <3>2. \A r \in Sessions, u \in Threads : KernelsOf(r)' \cap Owned(u)' = {}
      BY <2>6 DEF Inv, OwnedInv, OwnedOnce
    <3>3. \A u, v \in Threads : u # v => Owned(u)' \cap Owned(v)' = {}
      BY <2>6 DEF Inv, OwnedInv, OwnedOnce
    <3>4. \A r, q \in Sessions : r # q => KernelsOf(r)' \cap KernelsOf(q)' = {}
      BY <2>6 DEF Inv, OwnedInv
    <3> QED BY <2>1, <3>1, <3>2, <3>3, <3>4 DEF Inv, OwnedInv, OwnedOnce
  <2> QED BY <2>3, <2>4, <2>5, <2>7 DEF Inv
<1>5. CASE ~LastHold(s)
  <2>1. /\ sessions' = [sessions EXCEPT ![s].holds = @ - 1]
        /\ mine' = [mine EXCEPT ![t] = @ \ {s}]
        /\ uses' = {u \in uses : u[1] # t \/ u[2] # s}
        /\ UNCHANGED <<lost, made, alive, call>>
    BY <1>5 DEF RemoveHold
  <2>2. /\ sessions'[s] \in Item
        /\ sessions'[s].holds = sessions[s].holds - 1
        /\ sessions'[s].kernels = sessions[s].kernels
        /\ \A r \in Sessions : r # s => sessions'[r] = sessions[r]
    <3>1. Cardinality(Holders(s)') \in Nat
      BY <1>3, FS_CardinalityType
    <3>2. sessions[s].holds - 1 \in Nat
      BY <1>1, <1>3, <3>1
    <3> QED BY <1>1, <2>1, <3>2 DEF Inv, Types, Item
  <2>3. Types'
    BY <2>1, <2>2 DEF Inv, Types
  <2>4. HoldInv'
    BY <1>1, <1>2, <1>3, <2>2 DEF Inv, HoldInv
  <2>5. UseInv'
    <3> SUFFICES ASSUME NEW u \in Threads, NEW r \in Sessions, NEW n \in Names,
                        NEW k \in Kernels, <<u, r, n, k>> \in uses'
                 PROVE  /\ r \in mine'[u]
                        /\ sessions'[r] # None /\ sessions'[r].kernels[n] = k
      BY DEF UseInv
    <3>1. <<u, r, n, k>> \in uses /\ (u # t \/ r # s)
      BY <2>1
    <3>2. r \in mine[u] /\ sessions[r] # None /\ sessions[r].kernels[n] = k
      BY <3>1 DEF Inv, UseInv
    <3>3. r \in mine'[u]
      BY <2>1, <3>1, <3>2 DEF Inv, Types
    <3> QED BY <2>2, <3>2, <3>3
  <2>6. \A r \in Sessions : KernelsOf(r)' = KernelsOf(r)
    <3>1. KernelsOf(s)' = KernelsOf(s)
      BY <1>1, <2>2 DEF KernelsOf
    <3> QED BY <2>2, <3>1, KernelsOfNext
  <2>7. OwnedInv'
    BY <2>1, <2>6, SameOwners, OwnedCallNext DEF Inv
  <2> QED BY <2>3, <2>4, <2>5, <2>7 DEF Inv
<1> QED BY <1>4, <1>5

\* The call deletes what it owns, and nothing else.
LEMMA DeleteItemInv ==
  ASSUME Inv, NEW t \in Threads, DeleteItem(t) PROVE Inv'
<1> USE DEF DeleteItem, Become
<1>1. Types'
  BY DEF Inv, Types, Calls, Idle
<1>2. HoldInv'
  BY HoldersNext DEF Inv, HoldInv
<1>3. UseInv'
  BY DEF Inv, UseInv
<1>4. /\ Owned(t) = call[t].kernels /\ Owned(t)' = {}
      /\ \A u \in Threads : u # t => Owned(u)' = Owned(u)
      /\ \A s \in Sessions : KernelsOf(s)' = KernelsOf(s)
  <2>1. Owned(t) = call[t].kernels
    BY OwnedCall
  <2>2. Owned(t)' = {}
    BY OwnedCallNext DEF Inv, Types, Idle
  <2>3. \A u \in Threads : u # t => Owned(u)' = Owned(u)
    BY OwnedCallNext DEF Inv, Types
  <2>4. \A s \in Sessions : KernelsOf(s)' = KernelsOf(s)
    BY KernelsOfNext
  <2> QED BY <2>1, <2>2, <2>3, <2>4
<1>5. OwnedInv'
  <2>1. \A k : k \in Owners' <=> k \in Owners /\ k \notin Owned(t)
    <3> SUFFICES ASSUME NEW k PROVE k \in Owners' <=> k \in Owners /\ k \notin Owned(t)
      OBVIOUS
    <3> QED BY <1>4, OwnersElement, OwnersElementNext DEF Inv, OwnedInv, OwnedOnce
  <2>2. alive' \ lost' \subseteq Owners' /\ Owners' \subseteq alive'
    BY <1>4, <2>1 DEF Inv, OwnedInv, OwnedOnce
  <2> QED BY <1>4, <2>2 DEF Inv, OwnedInv, OwnedOnce
<1> QED BY <1>1, <1>2, <1>3, <1>5 DEF Inv

\* The first critical section of FindOrCreate.
LEMMA FindInv ==
  ASSUME Inv, NEW t \in Threads, NEW s \in Sessions, NEW n \in Names, Find(t, s, n)
  PROVE  Inv'
<1> USE OpSegmentAssumption
<1>1. /\ UNCHANGED <<lost, sessions, mine, made, alive>>
      /\ sessions[s] \in Item /\ sessions[s] # None /\ call[t] = Idle
  BY DEF Find, Inv, Types
<1>2. HoldInv'
  BY <1>1, HoldersNext DEF Inv, HoldInv
<1>3. \A r \in Sessions : KernelsOf(r)' = KernelsOf(r)
  BY <1>1, KernelsOfNext
<1>4. CASE sessions[s].kernels[n] # None
  <2>1. sessions[s].kernels[n] \in Kernels
    BY <1>1, <1>4 DEF Item
  <2>2. /\ uses' = IF s \in mine[t]
                   THEN uses \cup {<<t, s, n, sessions[s].kernels[n]>>} ELSE uses
        /\ UNCHANGED call
    BY <1>4 DEF Find, Use
  <2>3. Types'
    BY <1>1, <2>1, <2>2 DEF Inv, Types
  <2>4. UseInv'
    BY <1>1, <2>1, <2>2 DEF Inv, UseInv
  <2>5. OwnedInv'
    BY <1>1, <1>3, <2>2, SameOwners, OwnedCallNext DEF Inv
  <2> QED BY <1>2, <2>3, <2>4, <2>5 DEF Inv
<1>5. CASE sessions[s].kernels[n] = None
  <2>1. /\ call' = [call EXCEPT ![t] = [at |-> "create", session |-> s, name |-> n]]
        /\ UNCHANGED uses
    BY <1>5 DEF Find, Become
  <2>2. Types'
    BY <1>1, <2>1 DEF Inv, Types, Calls
  <2>3. UseInv'
    BY <1>1, <2>1 DEF Inv, UseInv
  <2>4. \A u \in Threads : Owned(u)' = Owned(u)
    <3>1. Owned(t) = {}
      BY <1>1, OwnedCall DEF Idle
    <3>2. Owned(t)' = {}
      BY <2>1, OwnedCallNext DEF Inv, Types
    <3>3. \A u \in Threads : u # t => Owned(u)' = Owned(u)
      BY <2>1, OwnedCallNext DEF Inv, Types
    <3> QED BY <3>1, <3>2, <3>3
  <2>5. OwnedInv'
    BY <1>1, <1>3, <2>4, SameOwners DEF Inv
  <2> QED BY <1>2, <2>2, <2>3, <2>5 DEF Inv
<1> QED BY <1>4, <1>5

\* create_fn fails, or makes a kernel that nobody had.
LEMMA CreateInv ==
  ASSUME Inv, NEW t \in Threads, Create(t) PROVE Inv'
<1> USE OpSegmentAssumption
<1>1. /\ UNCHANGED <<lost, sessions, mine, uses>>
      /\ call[t].at = "create"
      /\ call[t].session \in Sessions /\ call[t].name \in Names
  BY DEF Create, Inv, Types, Calls
<1>2. HoldInv' /\ UseInv'
  BY <1>1, HoldersNext DEF Inv, HoldInv, UseInv
<1>3. (\A r \in Sessions : KernelsOf(r)' = KernelsOf(r)) /\ Owned(t) = {}
  BY <1>1, KernelsOfNext, OwnedCall
<1>4. CASE Become(t, Idle) /\ UNCHANGED <<made, alive>>
  <2> USE DEF Become
  <2>1. Types'
    BY <1>1, <1>4 DEF Inv, Types, Calls, Idle
  <2>2. Owned(t)' = {}
    BY <1>4, OwnedCallNext DEF Inv, Types, Idle
  <2>3. \A u \in Threads : u # t => Owned(u)' = Owned(u)
    BY <1>4, OwnedCallNext DEF Inv, Types
  <2>4. OwnedInv'
    BY <1>1, <1>3, <1>4, <2>2, <2>3, SameOwners DEF Inv
  <2> QED BY <1>2, <2>1, <2>4 DEF Inv
<1>5. CASE /\ made < MaxKernels
           /\ made' = made + 1
           /\ alive' = alive \cup {made'}
           /\ Become(t, [at |-> "insert", session |-> call[t].session,
                         name |-> call[t].name, kernel |-> made'])
  <2>1. made' \in Kernels /\ made' \notin alive
    BY <1>5 DEF Inv, Types, Kernels
  <2>2. Types'
    <3>1. alive' \subseteq 1..made' /\ made' \in 0..MaxKernels
      BY <1>5 DEF Inv, Types
    <3>2. call' \in [Threads -> Calls]
      BY <1>1, <1>5, <2>1 DEF Inv, Types, Calls, Become
    <3> QED BY <1>1, <3>1, <3>2 DEF Inv, Types
  <2>3. Owned(t)' = {made'}
    BY <1>5, OwnedCallNext DEF Inv, Types, Become
  <2>4. \A u \in Threads : u # t => Owned(u)' = Owned(u)
    BY <1>5, OwnedCallNext DEF Inv, Types, Become
  <2>5. \A k : k \in Owners' <=> k \in Owners \/ k = made'
    <3> SUFFICES ASSUME NEW k PROVE k \in Owners' <=> k \in Owners \/ k = made'
      OBVIOUS
    <3> QED BY <1>3, <2>3, <2>4, OwnersElement, OwnersElementNext
  <2>6. alive' \ lost' \subseteq Owners' /\ Owners' \subseteq alive'
    BY <1>1, <1>5, <2>5 DEF Inv, OwnedInv, OwnedOnce
  <2>7. made' \notin Owners
    BY <2>1 DEF Inv, OwnedInv, OwnedOnce
  <2>8. /\ \A s \in Sessions : made' \notin KernelsOf(s)
        /\ \A u \in Threads : made' \notin Owned(u)
    BY <2>7, OwnersElement
  <2>9. OwnedInv'
    BY <1>3, <2>3, <2>4, <2>6, <2>8 DEF Inv, OwnedInv, OwnedOnce
  <2> QED BY <1>2, <2>2, <2>9 DEF Inv
<1> QED BY <1>4, <1>5 DEF Create

\* ~OpSegment.
LEMMA DestroyInv ==
  ASSUME Inv, Destroy PROVE Inv'
<1> USE OpSegmentAssumption DEF Destroy
<1>1. Types'
  BY DEF Inv, Types
<1>2. HoldInv' /\ UseInv'
  BY DEF HoldInv, UseInv, Holders
<1>3. (\A s \in Sessions : KernelsOf(s)' = {}) /\ (\A t \in Threads : Owned(t)' = {})
  <2>1. \A s \in Sessions : KernelsOf(s)' = {}
    BY DEF KernelsOf
  <2>2. \A t \in Threads : Owned(t)' = {}
    BY OwnedCallNext DEF Idle
  <2> QED BY <2>1, <2>2
<1>4. Owners' = {} /\ alive \ lost \subseteq UNION {KernelsOf(s) : s \in Sessions}
  <2>1. Owners' = {}
    BY <1>3, OwnersElementNext
  <2>2. \A t \in Threads : Owned(t) = {}
    BY OwnedCall DEF Idle
  <2>3. alive \ lost \subseteq Owners
    BY DEF Inv, OwnedInv, OwnedOnce
  <2>4. Owners = UNION {KernelsOf(s) : s \in Sessions}
    BY <2>2 DEF Owners
  <2> QED BY <2>1, <2>3, <2>4
<1>5. OwnedInv'
  BY <1>3, <1>4 DEF OwnedInv, OwnedOnce
<1> QED BY <1>1, <1>2, <1>5 DEF Inv

\* The second critical section of FindOrCreate: the kernel passes from the call
\* to the session, is deleted in favour of the one that is there, or is lost
\* with its session.
LEMMA InsertInv ==
  ASSUME Inv, NEW t \in Threads, Insert(t) PROVE Inv'
<1> USE OpSegmentAssumption
<1>0. PICK s \in Sessions, n \in Names, k \in Kernels :
        call[t] = [at |-> "insert", session |-> s, name |-> n, kernel |-> k]
  BY DEF Insert, Inv, Types, Calls
<1>1. /\ call[t].session = s /\ call[t].name = n /\ call[t].kernel = k
      /\ call[t].at = "insert"
      /\ call' = [call EXCEPT ![t] = Idle]
      /\ UNCHANGED <<mine, made>>
      /\ sessions[s] # None => sessions[s] \in Item
  BY <1>0 DEF Insert, Become, Inv, Types
<1>2. Owned(t) = {k} /\ Owned(t)' = {}
  <2>1. Owned(t) = {k}
    BY <1>1, OwnedCall
  <2>2. Owned(t)' = {}
    BY <1>1, OwnedCallNext DEF Inv, Types, Idle
  <2> QED BY <2>1, <2>2
<1>3. \A u \in Threads : u # t => Owned(u)' = Owned(u)
  BY <1>1, OwnedCallNext DEF Inv, Types
<1>4. call' \in [Threads -> Calls]
  BY <1>1 DEF Inv, Types, Calls, Idle
<1>5. CASE sessions[s] = None
  <2>1. lost' = lost \cup {k} /\ UNCHANGED <<sessions, alive, uses>>
    BY <1>1, <1>5 DEF Insert
  <2>2. Types' /\ HoldInv' /\ UseInv'
    BY <1>1, <1>4, <2>1, HoldersNext DEF Inv, Types, HoldInv, UseInv
  <2>3. \A r \in Sessions : KernelsOf(r)' = KernelsOf(r)
    BY <2>1, KernelsOfNext
  <2>4. \A j : j \in Owners' <=> j \in Owners /\ j # k
    <3> SUFFICES ASSUME NEW j PROVE j \in Owners' <=> j \in Owners /\ j # k
      OBVIOUS
    <3> QED BY <1>1, <1>2, <1>3, <2>3, OwnersElement, OwnersElementNext
            DEF Inv, OwnedInv, OwnedOnce
  <2>5. alive' \ lost' \subseteq Owners' /\ Owners' \subseteq alive'
    BY <2>1, <2>4 DEF Inv, OwnedInv, OwnedOnce
  <2>6. OwnedInv'
    BY <1>2, <1>3, <2>3, <2>5 DEF Inv, OwnedInv, OwnedOnce
  <2> QED BY <2>2, <2>6 DEF Inv
<1>6. CASE sessions[s] # None
  <2> DEFINE w == Winner(s, n, k)
  <2>1. /\ sessions' = [sessions EXCEPT ![s].kernels[n] = w]
        /\ uses' = IF s \in mine[t] THEN uses \cup {<<t, s, n, w>>} ELSE uses
        /\ alive' = IF w = k THEN alive ELSE alive \ {k}
        /\ UNCHANGED lost
    BY <1>1, <1>6 DEF Insert, Use, DeleteKernel
  <2>2. w \in Kernels /\ w = IF sessions[s].kernels[n] = None THEN k ELSE sessions[s].kernels[n]
    BY <1>1, <1>6 DEF Winner, Item
  <2> HIDE DEF w
  <2>3. /\ sessions'[s] = [holds |-> sessions[s].holds,
                           kernels |-> [sessions[s].kernels EXCEPT ![n] = w]]
        /\ \A r \in Sessions : r # s => sessions'[r] = sessions[r]
    BY <1>1, <1>6, <2>1 DEF Inv, Types, Item
  <2>4. /\ sessions'[s] \in Item
        /\ sessions'[s].holds = sessions[s].holds
        /\ \A m \in Names : sessions'[s].kernels[m] =
                              IF m = n THEN w ELSE sessions[s].kernels[m]
    BY <1>1, <1>6, <2>2, <2>3 DEF Item
  <2>5. Types'
    <3>1. uses' \subseteq Threads \X Sessions \X Names \X Kernels
      BY <1>1, <2>1, <2>2 DEF Inv, Types
    <3>2. sessions' \in [Sessions -> Item \cup {None}]
      BY <1>1, <2>1, <2>4 DEF Inv, Types
    <3> QED BY <1>1, <1>4, <2>1, <3>1, <3>2 DEF Inv, Types
  <2>6. HoldInv'
    BY <1>1, <1>6, <2>3, <2>4, HoldersNext DEF Inv, HoldInv
  <2>7. UseInv'
    <3> SUFFICES ASSUME NEW u \in Threads, NEW r \in Sessions, NEW m \in Names,
                        NEW j \in Kernels, <<u, r, m, j>> \in uses'
                 PROVE  /\ r \in mine'[u]
                        /\ sessions'[r] # None /\ sessions'[r].kernels[m] = j
      BY DEF UseInv
    <3>1. CASE <<u, r, m, j>> \in uses
      <4>1. r \in mine[u] /\ sessions[r] # None /\ sessions[r].kernels[m] = j
        BY <3>1 DEF Inv, UseInv
      <4>2. r = s /\ m = n => w = j
        BY <2>2, <4>1 DEF Kernels
      <4>3. r \in mine'[u]
        BY <1>1, <4>1
      <4>4. sessions'[s] # None
        BY <2>4
      <4>5. CASE r = s
        BY <2>4, <4>1, <4>2, <4>3, <4>4, <4>5
      <4>6. CASE r # s
        BY <2>3, <4>1, <4>3, <4>6
      <4> QED BY <4>5, <4>6
    <3>2. CASE <<u, r, m, j>> \notin uses
      <4>1. u = t /\ r = s /\ m = n /\ j = w /\ s \in mine[t]
        BY <2>1, <3>2
      <4> QED BY <1>1, <2>4, <4>1
    <3> QED BY <3>1, <3>2
  <2>8. \A r \in Sessions : r # s => KernelsOf(r)' = KernelsOf(r)
    BY <2>3, KernelsOfNext
  <2>9. CASE sessions[s].kernels[n] = None
    <3>1. \A j : j \in KernelsOf(s)' <=> j \in KernelsOf(s) \/ j = k
      BY <1>1, <1>6, <2>2, <2>4, <2>9 DEF KernelsOf, Kernels
    <3>2. Owners' = Owners
      <4> SUFFICES ASSUME NEW j PROVE j \in Owners' <=> j \in Owners
        OBVIOUS
      <4> QED BY <1>1, <1>2, <1>3, <2>8, <3>1, OwnersElement, OwnersElementNext
    <3>3. alive' = alive
      BY <2>1, <2>2, <2>9
    <3>4. \A r \in Sessions, u \in Threads : KernelsOf(r)' \cap Owned(u)' = {}
      BY <1>2, <1>3, <2>8, <3>1 DEF Inv, OwnedInv, OwnedOnce
    <3>5. \A u, v \in Threads : u # v => Owned(u)' \cap Owned(v)' = {}
      BY <1>2, <1>3 DEF Inv, OwnedInv, OwnedOnce
    <3>6. \A r, q \in Sessions : r # q => KernelsOf(r)' \cap KernelsOf(q)' = {}
      BY <1>2, <2>8, <3>1 DEF Inv, OwnedInv, OwnedOnce
    <3> QED
      BY <2>1, <2>5, <2>6, <2>7, <3>2, <3>3, <3>4, <3>5, <3>6
         DEF Inv, OwnedInv, OwnedOnce
  <2>10. CASE sessions[s].kernels[n] # None
    <3>1. KernelsOf(s)' = KernelsOf(s)
      BY <1>1, <1>6, <2>2, <2>4, <2>10 DEF KernelsOf
    <3>2. w # k
      <4>1. w \in KernelsOf(s)
        BY <1>1, <1>6, <2>2, <2>10 DEF KernelsOf, Kernels
      <4> QED BY <1>1, <1>2, <4>1 DEF Inv, OwnedInv, OwnedOnce
    <3>3. \A j : j \in Owners' <=> j \in Owners /\ j # k
      <4> SUFFICES ASSUME NEW j PROVE j \in Owners' <=> j \in Owners /\ j # k
        OBVIOUS
      <4> QED BY <1>1, <1>2, <1>3, <2>8, <3>1, OwnersElement, OwnersElementNext
              DEF Inv, OwnedInv, OwnedOnce
    <3>4. alive' \ lost' \subseteq Owners' /\ Owners' \subseteq alive'
      BY <2>1, <3>2, <3>3 DEF Inv, OwnedInv, OwnedOnce
    <3>5. \A r \in Sessions : KernelsOf(r)' = KernelsOf(r)
      BY <2>8, <3>1
    <3>6. OwnedInv'
      BY <1>2, <1>3, <3>4, <3>5 DEF Inv, OwnedInv, OwnedOnce
    <3> QED BY <2>5, <2>6, <2>7, <3>6 DEF Inv
  <2> QED BY <2>9, <2>10
<1> QED BY <1>5, <1>6

\* Every step preserves the invariant.
LEMMA NextInv == Inv /\ [Next]_vars => Inv'
<1> SUFFICES ASSUME Inv, [Next]_vars PROVE Inv'
  OBVIOUS
<1>1. CASE UNCHANGED vars
  <2>1. Types' /\ UseInv'
    BY <1>1 DEF vars, Inv, Types, UseInv
  <2>2. HoldInv'
    BY <1>1 DEF vars, Inv, HoldInv, Holders
  <2>3. OwnedInv'
    BY <1>1, SameOwners, KernelsOfNext, OwnedCallNext DEF vars, Inv
  <2> QED BY <2>1, <2>2, <2>3 DEF Inv
<1> QED
  BY <1>1, AddHoldInv, RemoveHoldInv, DeleteItemInv, FindInv, CreateInv,
     InsertInv, DestroyInv DEF Next

\* The invariant holds of every behaviour.
THEOREM Invariance == Spec => []Inv
BY InitInv, NextInv, PTL DEF Spec

\* A kernel that FindOrCreate returned to a thread exists as long as the thread
\* has its hold, whatever the other executors add, remove and create.
THEOREM KernelsAliveHolds == Spec => []KernelsAlive
<1>1. Inv => KernelsAlive
  <2> SUFFICES ASSUME Inv, NEW u \in uses PROVE u[4] \in alive
    BY DEF KernelsAlive
  <2>1. PICK t \in Threads, s \in Sessions, n \in Names, k \in Kernels :
          u = <<t, s, n, k>>
    BY DEF Inv, Types
  <2>2. sessions[s] # None /\ sessions[s].kernels[n] = k
    BY <2>1 DEF Inv, UseInv
  <2>3. k \in KernelsOf(s)
    BY <2>2, OpSegmentAssumption DEF KernelsOf, Kernels
  <2>4. k \in Owners
    BY <2>3, OwnersElement
  <2> QED BY <2>1, <2>4 DEF Inv, OwnedInv, OwnedOnce
<1> QED BY <1>1, Invariance, PTL

\* Two threads that hold a session use one kernel for a node.
THEOREM SameKernelHolds == Spec => []SameKernel
<1>1. Inv => SameKernel
  <2> SUFFICES ASSUME Inv, NEW u \in uses, NEW v \in uses, u[2] = v[2], u[3] = v[3]
               PROVE  u[4] = v[4]
    BY DEF SameKernel
  <2>1. PICK t \in Threads, s \in Sessions, n \in Names, k \in Kernels :
          u = <<t, s, n, k>>
    BY DEF Inv, Types
  <2>2. PICK r \in Threads, j \in Kernels : v = <<r, s, n, j>>
    BY <2>1 DEF Inv, Types
  <2>3. sessions[s].kernels[n] = k /\ sessions[s].kernels[n] = j
    BY <2>1, <2>2 DEF Inv, UseInv
  <2> QED BY <2>1, <2>2, <2>3
<1> QED BY <1>1, Invariance, PTL

\* No kernel is deleted twice, and none is left behind except by a FindOrCreate
\* whose session goes away.
THEOREM OwnedOnceHolds == Spec => []OwnedOnce
<1>1. Inv => OwnedOnce
  BY DEF Inv, OwnedInv
<1> QED BY <1>1, Invariance, PTL

-----------------------------------------------------------------------------
(***************************************************************************)
(* NoKernelLeaked does not hold of Spec: a FindOrCreate whose session goes *)
(* away while create_fn runs leaves its kernel behind.  It does hold when  *)
(* a thread looks kernels up in sessions on which it has a hold only.      *)
(***************************************************************************)

\* The discipline: FindOrCreate is called under a hold of the caller.
HoldsWhenCalling ==
  [][\A t \in Threads, s \in Sessions, n \in Names : Find(t, s, n) => s \in mine[t]]_vars

\* A FindOrCreate in progress still has the hold, and nothing was lost.
LeakInv ==
  /\ lost = {}
  /\ \A t \in Threads : call[t].at \in {"create", "insert"} =>
       call[t].session \in mine[t]

\* The second critical section finds the session when the thread has a hold.
LEMMA HeldSession ==
  ASSUME Inv, NEW t \in Threads, NEW s \in mine[t] PROVE sessions[s] # None
<1>1. s \in Sessions
  BY DEF Inv, Types
<1>2. t \in Holders(s)
  BY DEF Holders
<1> QED BY <1>1, <1>2 DEF Inv, HoldInv

\* A thread that is in FindOrCreate keeps its holds, and its kernel is not
\* lost.
LEMMA LeakNext ==
  ASSUME Inv, LeakInv, Next,
         \A t \in Threads, s \in Sessions, n \in Names : Find(t, s, n) => s \in mine[t]
  PROVE  LeakInv'
<1> USE DEF Become, Idle
<1>0. mine \in [Threads -> SUBSET Sessions] /\ call \in [Threads -> Calls]
  BY DEF Inv, Types
<1>1. ASSUME NEW t \in Threads, NEW s \in Sessions, AddHold(t, s) PROVE LeakInv'
  BY <1>0, <1>1 DEF AddHold, LeakInv
<1>2. ASSUME NEW t \in Threads, NEW s \in Sessions, RemoveHold(t, s) PROVE LeakInv'
  <2>1. call[t].at = "idle"
    BY <1>2 DEF RemoveHold
  <2>2. lost' = lost /\ \A u \in Threads : u # t => mine'[u] = mine[u] /\ call'[u] = call[u]
    BY <1>0, <1>2 DEF RemoveHold
  <2>3. call'[t].at \in {"idle", "delete"}
    BY <1>0, <1>2, <2>1 DEF RemoveHold
  <2> QED BY <2>2, <2>3 DEF LeakInv
<1>3. ASSUME NEW t \in Threads, NEW s \in Sessions, NEW n \in Names, Find(t, s, n)
      PROVE  LeakInv'
  <2>1. s \in mine[t] /\ mine' = mine /\ lost' = lost
    BY <1>3 DEF Find
  <2>2. call' = call \/ call' = [call EXCEPT ![t] = [at |-> "create", session |-> s, name |-> n]]
    BY <1>3 DEF Find
  <2> QED BY <1>0, <2>1, <2>2 DEF LeakInv
<1>4. ASSUME NEW t \in Threads, DeleteItem(t) PROVE LeakInv'
  BY <1>0, <1>4 DEF DeleteItem, LeakInv
<1>5. ASSUME NEW t \in Threads, Create(t) PROVE LeakInv'
  <2>1. mine' = mine /\ lost' = lost /\ call[t].session \in mine[t]
    BY <1>5 DEF Create, LeakInv
  <2>2. \/ call' = [call EXCEPT ![t] = Idle]
        \/ call' = [call EXCEPT ![t] = [at |-> "insert", session |-> call[t].session,
                                        name |-> call[t].name, kernel |-> made']]
    BY <1>5 DEF Create
  <2> QED BY <1>0, <2>1, <2>2 DEF LeakInv
<1>6. ASSUME NEW t \in Threads, Insert(t) PROVE LeakInv'
  <2>1. call[t].session \in mine[t]
    BY <1>6 DEF Insert, LeakInv
  <2>2. sessions[call[t].session] # None
    BY <2>1, HeldSession
  <2>3. mine' = mine /\ lost' = lost /\ call' = [call EXCEPT ![t] = Idle]
    BY <1>6, <2>2 DEF Insert
  <2> QED BY <1>0, <2>3 DEF LeakInv
<1>7. ASSUME Destroy PROVE LeakInv'
  BY <1>7 DEF Destroy, LeakInv
<1> QED BY <1>1, <1>2, <1>3, <1>4, <1>5, <1>6, <1>7 DEF Next

\* When FindOrCreate is called under a hold of its caller, whoever else adds
\* and removes holds meanwhile, "OpSegment keeps the ownership" of every kernel.
THEOREM NoLeakUnderHold == Spec /\ HoldsWhenCalling => []NoKernelLeaked
<1>1. Init => LeakInv
  BY DEF Init, LeakInv, Idle
<1>2. ASSUME Inv, LeakInv, [Next]_vars,
             [\A t \in Threads, s \in Sessions, n \in Names : Find(t, s, n) => s \in mine[t]]_vars
      PROVE  LeakInv'
  <2>1. CASE UNCHANGED vars
    BY <1>2, <2>1 DEF vars, LeakInv
  <2> QED BY <1>2, <2>1, LeakNext
<1>3. Inv /\ LeakInv => NoKernelLeaked
  BY DEF Inv, OwnedInv, OwnedOnce, LeakInv, NoKernelLeaked
<1> QED BY <1>1, <1>2, <1>3, Invariance, PTL DEF Spec, HoldsWhenCalling
=============================================================================
