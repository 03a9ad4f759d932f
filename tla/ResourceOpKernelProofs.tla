----------------------- MODULE ResourceOpKernelProofs -----------------------
(***************************************************************************)
(* The invariants of ResourceMgr, of its reference counts and of the       *)
(* kernels that use it, for any number of clients, kernels, containers,    *)
(* names, types and resources.                                             *)
(***************************************************************************)
EXTENDS ResourceOpKernel, FiniteSetTheorems, TLAPS

Calls ==
  [at : {"idle"}]
    \cup [at : {"upgrade"}, container : Containers, type : Types, name : Names]
    \cup [at : {"unref"}, objs : SUBSET Objects, sub : Objects \cup {None}]

MgrTypes ==
  /\ containers \in [Containers -> ContainerMap \cup {None}]
  /\ typeNames \in [Hashes -> Types \cup {None}]
  /\ mu \in Threads \cup {None}
  /\ ref \in [Objects -> Nat]
  /\ typeOf \in [Objects -> Types \cup {None}]
  /\ dead \subseteq Objects
  /\ held \in [Threads -> Reference \cup {None}]
  /\ call \in [Threads -> Calls]
  /\ unexpected \in BOOLEAN

\* A client in LookupOrCreate holds nothing yet, and one between the two steps
\* of Unref owes that Unref.
CallInv ==
  \A t \in Threads :
    /\ call[t].at = "upgrade" => held[t] = None
    /\ call[t].at = "unref" /\ call[t].sub # None => call[t].sub \in call[t].objs

\* A resource is in one place of the manager at most.
OneEntry ==
  \A c, d \in Containers, k, l \in Keys :
    Entry(c, k) # None /\ Entry(c, k) = Entry(d, l) => c = d /\ k = l

NoOwner(o) == Entries(o) = {} /\ Holders(o) = {} /\ Debtors(o) = {}

\* The owners of a resource are finitely many, and ref_ counts them.
Exact(o) ==
  /\ IsFiniteSet(Entries(o)) /\ IsFiniteSet(Holders(o)) /\ IsFiniteSet(Debtors(o))
  /\ ref[o] = Cardinality(Entries(o)) + Cardinality(Holders(o)) + Cardinality(Debtors(o))

CountInv == \A o \in Objects : Exact(o)

\* What does not exist yet, or not any more, has no owner.
LifeInv ==
  /\ dead \subseteq Made
  /\ \A o \in Objects : o \notin Made \/ o \in dead => NoOwner(o)

\* A resource is stored, and held, under a type that has the hash code of its
\* own; a name of a type is stored under its hash code.
TypeInv ==
  /\ \A c \in Containers, k \in Keys :
       Entry(c, k) # None => HashCode[typeOf[Entry(c, k)]] = k[1]
  /\ \A t \in Threads : held[t] # None =>
       HashCode[typeOf[held[t].object]] = HashCode[held[t].as]
  /\ \A h \in Hashes : typeNames[h] # None => HashCode[typeNames[h]] = h

\* No two types have the same hash code.
DistinctHashes == \A T, U \in Types : HashCode[T] = HashCode[U] => T = U

MgrInv ==
  /\ MgrTypes /\ CallInv /\ OneEntry /\ CountInv /\ LifeInv /\ TypeInv
  /\ DistinctHashes => ~unexpected

KernelTypes ==
  /\ sharedName \in [Kernels -> (Names \ Nat) \cup {None}]
  /\ at \in [Kernels -> {"new", "lookup", "verify", "ready", "delete", "gone"}]
  /\ name \in [Kernels -> Names \cup {None}]
  /\ counter \in Nat

\* Where a kernel is, and what it has then.
PlaceInv ==
  \A k \in Kernels :
    /\ held[k] # None <=> at[k] \in {"verify", "ready"}
    /\ at[k] \in {"lookup", "verify", "ready", "delete"} => name[k] \in Names
    /\ at[k] = "delete" => Private(k)
    /\ call[k].at = "upgrade" =>
         /\ at[k] = "lookup"
         /\ call[k].container = Container /\ call[k].type = Type
         /\ call[k].name = name[k]

\* Only a kernel without a shared name uses a number, and a number serves one
\* kernel.
NameInv ==
  /\ \A k \in Kernels : name[k] # None =>
       IF Private(k) THEN name[k] \in Nat /\ name[k] < counter
       ELSE name[k] = sharedName[k]
  /\ \A j, k \in Kernels : name[j] = name[k] /\ name[j] \in Nat => j = k
  /\ \A t \in Threads \ Kernels : call[t].at = "upgrade" => call[t].name \notin Nat

\* A kernel has the resource that was stored under its name.
HeldInv ==
  /\ \A k \in Kernels, c \in Containers, x \in Keys :
       held[k] # None /\ Entry(c, x) = held[k].object => x[2] = name[k]
  /\ \A j, k \in Kernels :
       held[j] # None /\ held[k] # None /\ held[j].object = held[k].object =>
         name[j] = name[k]

\* What is stored under a number has T's hash code, and a kernel knows of it
\* unless it gave the name up.
StoredInv ==
  /\ \A x \in Keys : x[2] \in Nat /\ Entry(Container, x) # None => x[1] = HashCode[Type]
  /\ DistinctHashes => PrivateDeleted
  /\ DistinctHashes => \A k \in Kernels :
       at[k] = "new" /\ name[k] \in Nat /\ Stored(name[k]) => name[k] \in abandoned

KernelInv == KernelTypes /\ PlaceInv /\ NameInv /\ HeldInv /\ StoredInv
Inv == MgrInv /\ KernelInv

-----------------------------------------------------------------------------
(* The manager's operators *)

\* Nothing that the manager, a client or a kernel has is None.
LEMMA NoneFacts ==
  /\ None \notin Objects /\ None \notin Types /\ None \notin Threads
  /\ None \notin Names /\ None \notin ContainerMap /\ None \notin Reference
BY ResourceAssumption DEF Objects

\* A key is the hash code of a type with a name.
LEMMA KeyFacts ==
  ASSUME NEW T \in Types, NEW n \in Names
  PROVE  Key(T, n) \in Keys /\ Key(T, n)[1] = HashCode[T] /\ Key(T, n)[2] = n
BY DEF Key, Keys, Hashes

\* What the manager has under a key is a resource or nothing.
LEMMA EntryFacts ==
  ASSUME MgrTypes, NEW c \in Containers, NEW k \in Keys
  PROVE  Entry(c, k) \in Objects \cup {None}
BY NoneFacts DEF MgrTypes, Entry, ContainerMap

\* It depends on the container only.
LEMMA EntryNext ==
  ASSUME NEW c \in Containers, NEW k \in Keys, containers'[c] = containers[c]
  PROVE  Entry(c, k)' = Entry(c, k)
BY DEF Entry

\* The places of a resource, before and after a step ...
LEMMA EntriesElement ==
  ASSUME NEW o, NEW c \in Containers, NEW k \in Keys
  PROVE  /\ <<c, k>> \in Entries(o) <=> Entry(c, k) = o
         /\ <<c, k>> \in Entries(o)' <=> Entry(c, k)' = o
BY DEF Entries

\* ... are pairs of a container and a key.
LEMMA EntriesPairs ==
  ASSUME NEW o, NEW e
  PROVE  /\ e \in Entries(o) => \E c \in Containers, k \in Keys : e = <<c, k>>
         /\ e \in Entries(o)' => \E c \in Containers, k \in Keys : e = <<c, k>>
BY DEF Entries

\* The place of a resource in the manager is the only one.
LEMMA EntriesOne ==
  ASSUME OneEntry, NEW c \in Containers, NEW k \in Keys, Entry(c, k) # None
  PROVE  Entries(Entry(c, k)) = {<<c, k>>}
BY DEF OneEntry, Entries

\* Steps that leave the map, the clients' references or the calls alone.
LEMMA SameContainers ==
  ASSUME UNCHANGED containers
  PROVE  /\ \A c \in Containers, k \in Keys : Entry(c, k)' = Entry(c, k)
         /\ \A o \in Objects : Entries(o)' = Entries(o)
         /\ OneEntry <=> OneEntry'
<1>1. \A c \in Containers, k \in Keys : Entry(c, k)' = Entry(c, k)
  BY EntryNext
<1> QED BY <1>1 DEF Entries, OneEntry

\* The holders of a resource depend on held only ...
LEMMA SameHeld ==
  ASSUME UNCHANGED held PROVE \A o \in Objects : Holders(o)' = Holders(o)
BY DEF Holders

\* ... and its debtors on call only.
LEMMA SameCall ==
  ASSUME UNCHANGED call PROVE \A o \in Objects : Debtors(o)' = Debtors(o)
BY DEF Debtors

\* A client takes a reference, or gives it up.
LEMMA HeldTaken ==
  ASSUME MgrTypes, NEW t \in Threads, held[t] = None, NEW o \in Objects, NEW T \in Types,
         held' = [held EXCEPT ![t] = [object |-> o, as |-> T]]
  PROVE  /\ Holders(o)' = Holders(o) \cup {t} /\ t \notin Holders(o)
         /\ \A p \in Objects : p # o => Holders(p)' = Holders(p)
<1>1. [object |-> o, as |-> T] \in Reference /\ [object |-> o, as |-> T] # None
  BY NoneFacts DEF Reference
<1> QED BY <1>1 DEF MgrTypes, Holders

\* Release takes the holder away.
LEMMA HeldDropped ==
  ASSUME MgrTypes, NEW t \in Threads, held[t] # None,
         held' = [held EXCEPT ![t] = None]
  PROVE  /\ held[t].object \in Objects
         /\ t \in Holders(held[t].object)
         /\ \A p \in Objects : Holders(p)' = Holders(p) \ {t}
         /\ \A p \in Objects : p # held[t].object => t \notin Holders(p)
BY DEF MgrTypes, Holders, Reference

\* A client comes to owe an Unref to each of objs, has done with one, or
\* changes nothing that it owes.
LEMMA CallOwes ==
  ASSUME MgrTypes, NEW t \in Threads, call[t].at # "unref", NEW objs \in SUBSET Objects,
         call' = [call EXCEPT ![t] = Owes(objs)]
  PROVE  /\ \A p \in Objects : t \notin Debtors(p)
         /\ \A p \in objs : Debtors(p)' = Debtors(p) \cup {t}
         /\ \A p \in Objects \ objs : Debtors(p)' = Debtors(p)
BY DEF MgrTypes, Debtors, Owes, Idle

\* An Unref pays the debt.
LEMMA CallPaid ==
  ASSUME MgrTypes, NEW t \in Threads, call[t].at = "unref", NEW o \in call[t].objs,
         call' = [call EXCEPT ![t] = Owes(call[t].objs \ {o})]
  PROVE  /\ t \in Debtors(o) /\ Debtors(o)' = Debtors(o) \ {t}
         /\ \A p \in Objects : p # o => Debtors(p)' = Debtors(p)
BY DEF MgrTypes, Debtors, Owes, Idle

\* A call that goes on owes what it owed.
LEMMA CallChanged ==
  ASSUME MgrTypes, NEW t \in Threads, NEW c, call' = [call EXCEPT ![t] = c],
         \/ call[t].at # "unref" /\ c.at # "unref"
         \/ call[t].at = "unref" /\ c.at = "unref" /\ c.objs = call[t].objs
  PROVE  \A p \in Objects : Debtors(p)' = Debtors(p)
BY DEF MgrTypes, Debtors

\* A call that owes references, or none.
LEMMA OwesType ==
  ASSUME NEW objs \in SUBSET Objects
  PROVE  /\ Owes(objs) \in Calls
         /\ Owes(objs).at \in {"idle", "unref"}
         /\ Owes(objs).at = "unref" => Owes(objs).sub = None
BY DEF Owes, Calls, Idle

\* The count stays exact when no owner comes or goes, when a reference of the
\* manager or of a client becomes a debt, when a client takes a reference, when
\* a debt is paid, and for a new resource.
LEMMA ExactSame ==
  ASSUME NEW o, Exact(o), ref'[o] = ref[o], Entries(o)' = Entries(o),
         Holders(o)' = Holders(o), Debtors(o)' = Debtors(o)
  PROVE  Exact(o)'
BY DEF Exact

\* The manager's reference becomes a debt.
LEMMA ExactErased ==
  ASSUME NEW o, Exact(o), ref'[o] = ref[o], NEW t, t \notin Debtors(o), NEW e,
         Entries(o) = {e}, Entries(o)' = {},
         Holders(o)' = Holders(o), Debtors(o)' = Debtors(o) \cup {t}
  PROVE  Exact(o)'
<1>1. Cardinality(Entries(o)) = 1
  BY FS_Singleton
<1>2. IsFiniteSet(Entries(o)') /\ Cardinality(Entries(o)') = 0
  BY FS_EmptySet
<1>3. IsFiniteSet(Debtors(o)') /\ Cardinality(Debtors(o)') = Cardinality(Debtors(o)) + 1
  BY FS_AddElement DEF Exact
<1>4. Cardinality(Holders(o)) \in Nat /\ Cardinality(Debtors(o)) \in Nat
  BY FS_CardinalityType DEF Exact
<1> QED BY <1>1, <1>2, <1>3, <1>4 DEF Exact

\* A client's reference becomes a debt.
LEMMA ExactReleased ==
  ASSUME NEW o, Exact(o), ref'[o] = ref[o], NEW t, t \notin Debtors(o), t \in Holders(o),
         Entries(o)' = Entries(o),
         Holders(o)' = Holders(o) \ {t}, Debtors(o)' = Debtors(o) \cup {t}
  PROVE  Exact(o)'
<1>1. IsFiniteSet(Holders(o)') /\ Cardinality(Holders(o)') = Cardinality(Holders(o)) - 1
  BY FS_RemoveElement DEF Exact
<1>2. IsFiniteSet(Debtors(o)') /\ Cardinality(Debtors(o)') = Cardinality(Debtors(o)) + 1
  BY FS_AddElement DEF Exact
<1>3. /\ Cardinality(Entries(o)) \in Nat /\ Cardinality(Holders(o)) \in Nat
      /\ Cardinality(Debtors(o)) \in Nat
  BY FS_CardinalityType DEF Exact
<1> QED BY <1>1, <1>2, <1>3 DEF Exact

\* A client takes a reference.
LEMMA ExactTaken ==
  ASSUME NEW o, Exact(o), ref'[o] = ref[o] + 1, NEW t, t \notin Holders(o),
         Entries(o)' = Entries(o),
         Holders(o)' = Holders(o) \cup {t}, Debtors(o)' = Debtors(o)
  PROVE  Exact(o)'
<1>1. IsFiniteSet(Holders(o)') /\ Cardinality(Holders(o)') = Cardinality(Holders(o)) + 1
  BY FS_AddElement DEF Exact
<1>2. /\ Cardinality(Entries(o)) \in Nat /\ Cardinality(Holders(o)) \in Nat
      /\ Cardinality(Debtors(o)) \in Nat
  BY FS_CardinalityType DEF Exact
<1> QED BY <1>1, <1>2 DEF Exact

\* A debt is paid.
LEMMA ExactPaid ==
  ASSUME NEW o, Exact(o), ref'[o] = ref[o] - 1, NEW t, t \in Debtors(o),
         Entries(o)' = Entries(o),
         Holders(o)' = Holders(o), Debtors(o)' = Debtors(o) \ {t}
  PROVE  Exact(o)'
<1>1. IsFiniteSet(Debtors(o)') /\ Cardinality(Debtors(o)') = Cardinality(Debtors(o)) - 1
  BY FS_RemoveElement DEF Exact
<1>2. /\ Cardinality(Entries(o)) \in Nat /\ Cardinality(Holders(o)) \in Nat
      /\ Cardinality(Debtors(o)) \in Nat
  BY FS_CardinalityType DEF Exact
<1> QED BY <1>1, <1>2 DEF Exact

\* A new resource, which the manager has, and its creator perhaps.
LEMMA ExactNew ==
  ASSUME NEW o, NEW e, Entries(o)' = {e}, Debtors(o)' = {},
         \/ Holders(o)' = {} /\ ref'[o] = 1
         \/ \E t : Holders(o)' = {t} /\ ref'[o] = 2
  PROVE  Exact(o)'
<1>1. IsFiniteSet(Entries(o)') /\ Cardinality(Entries(o)') = 1
  BY FS_Singleton
<1>2. IsFiniteSet(Debtors(o)') /\ Cardinality(Debtors(o)') = 0
  BY FS_EmptySet
<1>3. CASE Holders(o)' = {} /\ ref'[o] = 1
  <2>1. IsFiniteSet(Holders(o)') /\ Cardinality(Holders(o)') = 0
    BY <1>3, FS_EmptySet
  <2> QED BY <1>1, <1>2, <1>3, <2>1 DEF Exact
<1>4. CASE \E t : Holders(o)' = {t} /\ ref'[o] = 2
  <2>1. IsFiniteSet(Holders(o)') /\ Cardinality(Holders(o)') = 1
    BY <1>4, FS_Singleton
  <2> QED BY <1>1, <1>2, <1>4, <2>1 DEF Exact
<1> QED BY <1>3, <1>4

\* What has no owner has the count 0; what has one owner, that of the debtor,
\* loses the last with it.
LEMMA ExactNoOwner ==
  ASSUME NEW o, Exact(o), NoOwner(o) PROVE ref[o] = 0
BY FS_EmptySet DEF Exact, NoOwner

\* Who pays the last reference is the last owner.
LEMMA ExactLast ==
  ASSUME NEW o, Exact(o), NEW t, t \in Debtors(o)
  PROVE  /\ ref[o] >= 1
         /\ ref[o] = 1 => Entries(o) = {} /\ Holders(o) = {} /\ Debtors(o) \ {t} = {}
<1>1. /\ Cardinality(Entries(o)) \in Nat /\ Cardinality(Holders(o)) \in Nat
      /\ Cardinality(Debtors(o)) \in Nat
  BY FS_CardinalityType DEF Exact
<1>2. /\ IsFiniteSet(Debtors(o) \ {t})
      /\ Cardinality(Debtors(o) \ {t}) = Cardinality(Debtors(o)) - 1
      /\ Cardinality(Debtors(o) \ {t}) \in Nat
  BY FS_RemoveElement, FS_CardinalityType DEF Exact
<1>3. ref[o] >= 1
  BY <1>1, <1>2 DEF Exact
<1>4. ASSUME ref[o] = 1
      PROVE  Entries(o) = {} /\ Holders(o) = {} /\ Debtors(o) \ {t} = {}
  <2>1. /\ Cardinality(Entries(o)) = 0 /\ Cardinality(Holders(o)) = 0
        /\ Cardinality(Debtors(o) \ {t}) = 0
    BY <1>1, <1>2, <1>4 DEF Exact
  <2> QED BY <1>2, <2>1, FS_EmptySet DEF Exact
<1> QED BY <1>3, <1>4

-----------------------------------------------------------------------------
(* The manager's operations *)

\* A manager without containers satisfies the invariant.
LEMMA MgrInit == Init => MgrInv
<1> SUFFICES ASSUME Init PROVE MgrInv
  OBVIOUS
<1>1. \A c \in Containers, k \in Keys : Entry(c, k) = None
  BY DEF Init, Entry
<1>2. MgrTypes
  BY DEF Init, MgrTypes, Calls, Idle
<1>3. CallInv /\ OneEntry /\ TypeInv /\ ~unexpected
  BY <1>1 DEF Init, CallInv, OneEntry, TypeInv, Idle
<1>4. \A o \in Objects : NoOwner(o)
  <2> SUFFICES ASSUME NEW o \in Objects PROVE NoOwner(o)
    OBVIOUS
  <2>1. Entries(o) = {}
    BY <1>1, NoneFacts DEF Entries
  <2>2. Holders(o) = {} /\ Debtors(o) = {}
    BY DEF Init, Holders, Debtors, Idle
  <2> QED BY <2>1, <2>2 DEF NoOwner
<1>5. CountInv
  BY <1>4, FS_EmptySet DEF Init, CountInv, Exact, NoOwner
<1>6. LifeInv
  BY <1>4 DEF Init, LifeInv
<1> QED BY <1>2, <1>3, <1>5, <1>6 DEF MgrInv

\* The calls after a call of one client has ended, or was none.
LEMMA CallEnds ==
  ASSUME MgrTypes, NEW t \in Threads, call[t].at \in {"idle", "upgrade"},
         call' = [call EXCEPT ![t] = Idle]
  PROVE  /\ call' \in [Threads -> Calls]
         /\ \A u \in Threads : call'[u].at = "upgrade" => u # t /\ call'[u] = call[u]
         /\ \A u \in Threads : call'[u].at = "unref" => call'[u] = call[u]
         /\ \A p \in Objects : Debtors(p)' = Debtors(p)
<1>1. \A p \in Objects : Debtors(p)' = Debtors(p)
  BY CallChanged DEF Idle
<1> QED BY <1>1 DEF MgrTypes, Calls, Idle

\* A call that changes nothing of the calls is over at once.
LEMMA IdleEnds ==
  ASSUME MgrTypes, NEW t \in Threads, call[t] = Idle, UNCHANGED call
  PROVE  call' = [call EXCEPT ![t] = Idle] /\ call[t].at = "idle"
BY DEF MgrTypes, Idle

\* Lookup, or the second lookup of LookupOrCreate, finds the resource.
LEMMA TakeInv ==
  ASSUME MgrInv, NEW t \in Threads, held[t] = None, NEW T \in Types,
         NEW c \in Containers, NEW k \in Keys, k[1] = HashCode[T],
         NEW o, o = Entry(c, k), o # None, Take(t, o, T),
         call[t].at \in {"idle", "upgrade"}, call' = [call EXCEPT ![t] = Idle]
  PROVE  MgrInv'
<1> USE DEF Take, table, Ref
<1>1. o \in Objects /\ <<c, k>> \in Entries(o)
  BY EntryFacts, EntriesElement DEF MgrInv
<1>2. o \in Made /\ o \notin dead
  BY <1>1 DEF MgrInv, LifeInv, NoOwner
<1>3. /\ \A d \in Containers, x \in Keys : Entry(d, x)' = Entry(d, x)
      /\ \A p \in Objects : Entries(p)' = Entries(p)
      /\ OneEntry'
  BY SameContainers DEF MgrInv
<1>4. /\ Holders(o)' = Holders(o) \cup {t} /\ t \notin Holders(o)
      /\ \A p \in Objects : p # o => Holders(p)' = Holders(p)
  BY <1>1, HeldTaken DEF MgrInv
<1>5. /\ call' \in [Threads -> Calls]
      /\ \A u \in Threads : call'[u].at = "upgrade" => u # t /\ call'[u] = call[u]
      /\ \A u \in Threads : call'[u].at = "unref" => call'[u] = call[u]
      /\ \A p \in Objects : Debtors(p)' = Debtors(p)
  BY CallEnds DEF MgrInv
<1>6. MgrTypes'
  <2>1. [object |-> o, as |-> T] \in Reference
    BY <1>1 DEF Reference
  <2> QED BY <1>1, <1>5, <2>1 DEF MgrInv, MgrTypes
<1>7. CallInv'
  BY <1>5 DEF MgrInv, MgrTypes, CallInv
<1>8. CountInv'
  <2> SUFFICES ASSUME NEW p \in Objects PROVE Exact(p)'
    BY DEF CountInv
  <2>1. CASE p = o
    <3>1. ref'[o] = ref[o] + 1
      BY <1>1 DEF MgrInv, MgrTypes
    <3> QED BY <1>1, <1>3, <1>4, <1>5, <2>1, <3>1, ExactTaken DEF MgrInv, CountInv
  <2>2. CASE p # o
    <3>1. ref'[p] = ref[p]
      BY <1>1, <2>2 DEF MgrInv, MgrTypes
    <3> QED BY <1>3, <1>4, <1>5, <2>2, <3>1, ExactSame DEF MgrInv, CountInv
  <2> QED BY <2>1, <2>2
<1>9. LifeInv'
  <2>1. Made' = Made
    BY DEF Made
  <2> QED BY <1>2, <1>3, <1>4, <1>5, <2>1 DEF MgrInv, LifeInv, NoOwner
<1>10. TypeInv'
  <2>1. HashCode[typeOf[o]] = HashCode[T]
    BY DEF MgrInv, TypeInv
  <2>2. \A u \in Threads : held'[u] = IF u = t THEN [object |-> o, as |-> T] ELSE held[u]
    BY DEF MgrInv, MgrTypes
  <2>3. \A u \in Threads : held'[u] # None =>
          HashCode[typeOf'[held'[u].object]] = HashCode[held'[u].as]
    BY <2>1, <2>2 DEF MgrInv, TypeInv
  <2> QED BY <1>3, <2>3 DEF MgrInv, TypeInv
<1> QED BY <1>3, <1>6, <1>7, <1>8, <1>9, <1>10 DEF MgrInv

\* DoCreate finds the name taken and deletes the resource it was given.
LEMMA DoCreateTaken ==
  ASSUME MgrInv, NEW t \in Threads, NEW T \in Types, NEW c \in Containers,
         NEW k \in Keys, NEW refs, DoCreate(c, k, T, refs), Entry(c, k) # None,
         UNCHANGED held, DistinctHashes => ~unexpected', unexpected' \in BOOLEAN,
         call[t].at \in {"idle", "upgrade"}, call' = [call EXCEPT ![t] = Idle]
  PROVE  MgrInv'
<1>1. PICK f \in Objects : f = Fresh /\ f \notin Made
  BY DEF DoCreate, Fresh, Made
<1>2. /\ typeOf' = [typeOf EXCEPT ![f] = T]
      /\ dead' = dead \cup {f}
      /\ UNCHANGED <<containers, typeNames, mu, ref>>
  BY <1>1 DEF DoCreate, table
<1>3. /\ \A d \in Containers, x \in Keys : Entry(d, x)' = Entry(d, x)
      /\ \A p \in Objects : Entries(p)' = Entries(p)
      /\ OneEntry'
  BY <1>2, SameContainers DEF MgrInv
<1>4. \A p \in Objects : Holders(p)' = Holders(p)
  BY SameHeld
<1>5. /\ call' \in [Threads -> Calls]
      /\ \A u \in Threads : call'[u].at = "upgrade" => u # t /\ call'[u] = call[u]
      /\ \A u \in Threads : call'[u].at = "unref" => call'[u] = call[u]
      /\ \A p \in Objects : Debtors(p)' = Debtors(p)
  BY CallEnds DEF MgrInv
<1>6. MgrTypes'
  BY <1>2, <1>5 DEF MgrInv, MgrTypes
<1>7. CallInv'
  BY <1>5 DEF MgrInv, MgrTypes, CallInv
<1>8. CountInv'
  BY <1>2, <1>3, <1>4, <1>5, ExactSame DEF MgrInv, CountInv
<1>9. LifeInv'
  <2>1. Made' = Made \cup {f}
    BY <1>2, NoneFacts DEF Made, MgrInv, MgrTypes
  <2> QED BY <1>1, <1>2, <1>3, <1>4, <1>5, <2>1 DEF MgrInv, LifeInv, NoOwner
<1>10. \A p \in Objects : ~NoOwner(p) => typeOf'[p] = typeOf[p]
  BY <1>1, <1>2 DEF MgrInv, MgrTypes, LifeInv
<1>11. TypeInv'
  <2>1. \A d \in Containers, x \in Keys : Entry(d, x) # None =>
          typeOf'[Entry(d, x)] = typeOf[Entry(d, x)]
    BY <1>10, EntryFacts, EntriesElement DEF MgrInv, NoOwner
  <2>2. \A u \in Threads : held[u] # None => typeOf'[held[u].object] = typeOf[held[u].object]
    <3> SUFFICES ASSUME NEW u \in Threads, held[u] # None
                 PROVE  typeOf'[held[u].object] = typeOf[held[u].object]
      OBVIOUS
    <3>1. held[u].object \in Objects /\ u \in Holders(held[u].object)
      BY DEF MgrInv, MgrTypes, Reference, Holders
    <3> QED BY <1>10, <3>1 DEF NoOwner
  <2> QED BY <1>2, <1>3, <2>1, <2>2 DEF MgrInv, TypeInv
<1> QED BY <1>3, <1>6, <1>7, <1>8, <1>9, <1>11 DEF MgrInv

\* Where a new resource is put.
LEMMA DoCreateEntry ==
  ASSUME MgrInv, NEW T \in Types, NEW c \in Containers, NEW k \in Keys, NEW refs,
         DoCreate(c, k, T, refs), Entry(c, k) = None
  PROVE  /\ Fresh \in Objects /\ Fresh \notin Made /\ NoOwner(Fresh)
         /\ containers' \in [Containers -> ContainerMap \cup {None}]
         /\ \A d \in Containers, x \in Keys :
              Entry(d, x)' = IF d = c /\ x = k THEN Fresh ELSE Entry(d, x)
<1>1. PICK f \in Objects : f = Fresh /\ f \notin Made
  BY DEF DoCreate, Fresh, Made
<1>2. NoOwner(f)
  BY <1>1 DEF MgrInv, LifeInv
<1>3. containers' = [containers EXCEPT ![c] =
              [x \in Keys |-> IF x = k THEN f ELSE Entry(c, x)]]
  BY <1>1 DEF DoCreate
<1>5. containers'[c] \in ContainerMap /\ containers'[c] # None
  <2>1. containers'[c] = [x \in Keys |-> IF x = k THEN f ELSE Entry(c, x)]
    BY <1>3 DEF MgrInv, MgrTypes
  <2>2. \A x \in Keys : Entry(c, x) \in Objects \cup {None}
    BY EntryFacts DEF MgrInv
  <2>3. containers'[c] \in ContainerMap
    BY <2>1, <2>2 DEF ContainerMap
  <2> QED BY <2>3, NoneFacts
<1>6. \A d \in Containers, x \in Keys :
        Entry(d, x)' = IF d = c /\ x = k THEN f ELSE Entry(d, x)
  <2> SUFFICES ASSUME NEW d \in Containers, NEW x \in Keys
               PROVE  Entry(d, x)' = IF d = c /\ x = k THEN f ELSE Entry(d, x)
    OBVIOUS
  <2>1. CASE d = c
    <3>1. containers'[c][x] = IF x = k THEN f ELSE Entry(c, x)
      BY <1>3 DEF MgrInv, MgrTypes
    <3>2. Entry(c, x)' = containers'[c][x]
      BY <1>5 DEF Entry
    <3> QED BY <2>1, <3>1, <3>2
  <2>2. CASE d # c
    <3>1. containers'[d] = containers[d]
      BY <1>3, <2>2 DEF MgrInv, MgrTypes
    <3> QED BY <2>2, <3>1, EntryNext
  <2> QED BY <2>1, <2>2
<1>7. containers' \in [Containers -> ContainerMap \cup {None}]
  BY <1>3, <1>5 DEF MgrInv, MgrTypes
<1> QED BY <1>1, <1>2, <1>6, <1>7

\* DoCreate puts a new resource in the map; in LookupOrCreate the caller gets a
\* reference of its own.
LEMMA DoCreateNew ==
  ASSUME MgrInv, NEW t \in Threads, held[t] = None, NEW T \in Types,
         NEW c \in Containers, NEW k \in Keys, k[1] = HashCode[T], Entry(c, k) = None,
         \/ DoCreate(c, k, T, 1) /\ UNCHANGED held
         \/ /\ DoCreate(c, k, T, 2)
            /\ held' = [held EXCEPT ![t] = [object |-> Fresh, as |-> T]],
         DistinctHashes => ~unexpected', unexpected' \in BOOLEAN,
         call[t].at \in {"idle", "upgrade"}, call' = [call EXCEPT ![t] = Idle]
  PROVE  MgrInv'
<1>1. PICK f \in Objects : f = Fresh /\ f \notin Made
  BY DEF DoCreate, Fresh, Made
<1>2. PICK refs \in {1, 2} :
        /\ DoCreate(c, k, T, refs)
        /\ refs = 1 => UNCHANGED held
        /\ refs = 2 => held' = [held EXCEPT ![t] = [object |-> f, as |-> T]]
  BY <1>1
<1>3. /\ typeOf' = [typeOf EXCEPT ![f] = T]
      /\ containers' = [containers EXCEPT ![c] =
              [x \in Keys |-> IF x = k THEN f ELSE Entry(c, x)]]
      /\ typeNames' = [typeNames EXCEPT ![k[1]] = IF @ = None THEN T ELSE @]
      /\ ref' = [ref EXCEPT ![f] = refs]
      /\ UNCHANGED <<mu, dead>>
  BY <1>1, <1>2 DEF DoCreate
<1>4. NoOwner(f) /\ f \notin dead
  BY <1>1 DEF MgrInv, LifeInv
<1>5. containers' \in [Containers -> ContainerMap \cup {None}]
  BY <1>1, <1>2, DoCreateEntry
<1>6. \A d \in Containers, x \in Keys :
        Entry(d, x)' = IF d = c /\ x = k THEN f ELSE Entry(d, x)
  BY <1>1, <1>2, DoCreateEntry
<1>7. \A d \in Containers, x \in Keys : Entry(d, x) # f
  BY <1>4, EntriesElement DEF NoOwner
<1>8. OneEntry'
  BY <1>6, <1>7 DEF MgrInv, OneEntry
<1>9. Entries(f)' = {<<c, k>>} /\ \A p \in Objects : p # f => Entries(p)' = Entries(p)
  <2>1. Entries(f)' = {<<c, k>>}
    BY <1>6, <1>7 DEF Entries
  <2>2. ASSUME NEW p \in Objects, p # f PROVE Entries(p)' = Entries(p)
    <3>1. p # None
      BY NoneFacts
    <3> QED BY <1>6, <2>2, <3>1 DEF Entries
  <2> QED BY <2>1, <2>2
<1>10. /\ Holders(f)' = IF refs = 1 THEN {} ELSE {t}
       /\ \A p \in Objects : p # f => Holders(p)' = Holders(p)
  <2>1. CASE refs = 1
    BY <1>2, <1>4, <2>1, SameHeld DEF NoOwner
  <2>2. CASE refs = 2
    BY <1>2, <1>4, <2>2, HeldTaken DEF NoOwner, MgrInv
  <2> QED BY <2>1, <2>2
<1>11. /\ call' \in [Threads -> Calls]
       /\ \A u \in Threads : call'[u].at = "upgrade" => u # t /\ call'[u] = call[u]
       /\ \A u \in Threads : call'[u].at = "unref" => call'[u] = call[u]
       /\ \A p \in Objects : Debtors(p)' = Debtors(p)
  BY CallEnds DEF MgrInv
<1>12. \A u \in Threads : held'[u] = IF u = t /\ refs = 2 THEN [object |-> f, as |-> T]
                                     ELSE held[u]
  BY <1>2 DEF MgrInv, MgrTypes
<1>13. MgrTypes'
  <2>2. typeNames' \in [Hashes -> Types \cup {None}]
    BY <1>3 DEF MgrInv, MgrTypes
  <2>3. held' \in [Threads -> Reference \cup {None}]
    <3>1. [object |-> f, as |-> T] \in Reference
      BY DEF Reference
    <3> QED BY <1>2, <3>1 DEF MgrInv, MgrTypes
  <2>4. ref' \in [Objects -> Nat] /\ typeOf' \in [Objects -> Types \cup {None}]
    BY <1>3 DEF MgrInv, MgrTypes
  <2> QED BY <1>3, <1>5, <1>11, <2>2, <2>3, <2>4 DEF MgrInv, MgrTypes
<1>14. CallInv'
  BY <1>11, <1>12 DEF MgrInv, CallInv
<1>15. CountInv'
  <2> SUFFICES ASSUME NEW p \in Objects PROVE Exact(p)'
    BY DEF CountInv
  <2>1. CASE p = f
    <3>1. ref'[f] = refs /\ Debtors(f)' = {}
      BY <1>3, <1>4, <1>11 DEF MgrInv, MgrTypes, NoOwner
    <3>2. CASE refs = 1
      BY <1>9, <1>10, <2>1, <3>1, <3>2, ExactNew
    <3>3. CASE refs = 2
      BY <1>9, <1>10, <2>1, <3>1, <3>3, ExactNew
    <3> QED BY <3>2, <3>3
  <2>2. CASE p # f
    <3>1. ref'[p] = ref[p]
      BY <1>3, <2>2 DEF MgrInv, MgrTypes
    <3> QED BY <1>9, <1>10, <1>11, <2>2, <3>1, ExactSame DEF MgrInv, CountInv
  <2> QED BY <2>1, <2>2
<1>16. LifeInv'
  <2>1. Made' = Made \cup {f}
    BY <1>3, NoneFacts DEF Made, MgrInv, MgrTypes
  <2> QED BY <1>3, <1>4, <1>9, <1>10, <1>11, <2>1 DEF MgrInv, LifeInv, NoOwner
<1>17. TypeInv'
  <2>1. \A p \in Objects : typeOf'[p] = IF p = f THEN T ELSE typeOf[p]
    BY <1>3 DEF MgrInv, MgrTypes
  <2>2. \A d \in Containers, x \in Keys :
          Entry(d, x)' # None => HashCode[typeOf'[Entry(d, x)']] = x[1]
    <3> SUFFICES ASSUME NEW d \in Containers, NEW x \in Keys, Entry(d, x)' # None
                 PROVE  HashCode[typeOf'[Entry(d, x)']] = x[1]
      OBVIOUS
    <3>1. CASE d = c /\ x = k
      BY <1>6, <2>1, <3>1
    <3>2. CASE ~(d = c /\ x = k)
      <4>1. Entry(d, x)' = Entry(d, x) /\ Entry(d, x) \in Objects /\ Entry(d, x) # f
        BY <1>6, <1>7, <3>2, EntryFacts DEF MgrInv
      <4>2. HashCode[typeOf[Entry(d, x)]] = x[1]
        BY <4>1, NoneFacts DEF MgrInv, TypeInv
      <4> QED BY <2>1, <4>1, <4>2
    <3> QED BY <3>1, <3>2
  <2>3. \A u \in Threads : held'[u] # None =>
          HashCode[typeOf'[held'[u].object]] = HashCode[held'[u].as]
    <3> SUFFICES ASSUME NEW u \in Threads, held'[u] # None
                 PROVE  HashCode[typeOf'[held'[u].object]] = HashCode[held'[u].as]
      OBVIOUS
    <3>1. CASE u = t /\ refs = 2
      BY <1>12, <2>1, <3>1
    <3>2. CASE ~(u = t /\ refs = 2)
      <4>1. held'[u] = held[u] /\ held[u] # None
        BY <1>12, <3>2
      <4>2. held[u].object \in Objects /\ held[u].object # f
        BY <1>4, <4>1 DEF MgrInv, MgrTypes, Reference, NoOwner, Holders
      <4>3. HashCode[typeOf[held[u].object]] = HashCode[held[u].as]
        BY <4>1 DEF MgrInv, TypeInv
      <4> QED BY <2>1, <4>1, <4>2, <4>3
    <3> QED BY <3>1, <3>2
  <2>4. \A h \in Hashes : typeNames'[h] # None => HashCode[typeNames'[h]] = h
    <3>1. k[1] \in Hashes
      BY DEF Hashes
    <3>2. \A h \in Hashes : typeNames'[h] =
            IF h = k[1] /\ typeNames[h] = None THEN T ELSE typeNames[h]
      BY <1>3, <3>1 DEF MgrInv, MgrTypes
    <3> QED BY <3>2 DEF MgrInv, TypeInv
  <2> QED BY <2>2, <2>3, <2>4 DEF TypeInv
<1> QED BY <1>8, <1>13, <1>14, <1>15, <1>16, <1>17 DEF MgrInv

\* Create, whether the key is new or taken.
LEMMA CreateInv ==
  ASSUME MgrInv, NEW t \in Threads, NEW c \in Containers, NEW T \in Types,
         NEW n \in Names, Create(t, c, T, n)
  PROVE  MgrInv'
<1>1. /\ held[t] = None /\ UNCHANGED <<held, unexpected>>
      /\ DoCreate(c, Key(T, n), T, 1)
      /\ Key(T, n) \in Keys /\ Key(T, n)[1] = HashCode[T]
  BY KeyFacts DEF Create
<1>2. call' = [call EXCEPT ![t] = Idle] /\ call[t].at = "idle"
  BY IdleEnds DEF Create, Ready, MgrInv
<1>3. (DistinctHashes => ~unexpected') /\ unexpected' \in BOOLEAN
  BY <1>1 DEF MgrInv, MgrTypes
<1>4. CASE Entry(c, Key(T, n)) = None
  BY <1>1, <1>2, <1>3, <1>4, DoCreateNew
<1>5. CASE Entry(c, Key(T, n)) # None
  BY <1>1, <1>2, <1>3, <1>5, DoCreateTaken
<1> QED BY <1>4, <1>5

\* Lookup finds the resource.
LEMMA LookupInv ==
  ASSUME MgrInv, NEW t \in Threads, NEW c \in Containers, NEW T \in Types,
         NEW n \in Names, Lookup(t, c, T, n)
  PROVE  MgrInv'
<1>1. Key(T, n) \in Keys /\ Key(T, n)[1] = HashCode[T]
  BY KeyFacts
<1>2. PICK o : o = Entry(c, Key(T, n))
  OBVIOUS
<1>3. held[t] = None /\ o # None /\ Take(t, o, T)
  BY <1>2 DEF Lookup
<1>4. call' = [call EXCEPT ![t] = Idle] /\ call[t].at = "idle"
  BY IdleEnds DEF Lookup, Ready, MgrInv
<1> QED BY <1>1, <1>2, <1>3, <1>4, TakeInv

\* A step that changes only what one client is doing, and not its debts.
LEMMA CallStepInv ==
  ASSUME MgrInv, NEW t \in Threads, NEW d \in Calls, call' = [call EXCEPT ![t] = d],
         \/ call[t].at # "unref" /\ d.at # "unref"
         \/ call[t].at = "unref" /\ d.at = "unref" /\ d.objs = call[t].objs,
         d.at = "upgrade" => held[t] = None,
         d.at = "unref" /\ d.sub # None => d.sub \in d.objs,
         UNCHANGED <<table, objects, held, unexpected>>
  PROVE  MgrInv'
<1> USE DEF table, objects
<1>1. /\ \A c \in Containers, x \in Keys : Entry(c, x)' = Entry(c, x)
      /\ \A p \in Objects : Entries(p)' = Entries(p)
      /\ OneEntry'
  BY SameContainers DEF MgrInv
<1>2. /\ \A p \in Objects : Holders(p)' = Holders(p)
      /\ \A p \in Objects : Debtors(p)' = Debtors(p)
  BY SameHeld, CallChanged DEF MgrInv
<1>3. MgrTypes' /\ CallInv'
  BY DEF MgrInv, MgrTypes, CallInv
<1>4. CountInv'
  BY <1>1, <1>2, ExactSame DEF MgrInv, CountInv
<1>5. LifeInv'
  BY <1>1, <1>2 DEF MgrInv, LifeInv, NoOwner, Made
<1>6. TypeInv'
  BY <1>1 DEF MgrInv, TypeInv
<1> QED BY <1>1, <1>3, <1>4, <1>5, <1>6 DEF MgrInv

\* Lookup does not find it: an error, or LookupOrCreate goes on.
LEMMA LookupFailsInv ==
  ASSUME MgrInv, NEW t \in Threads, NEW c \in Containers, NEW T \in Types,
         NEW n \in Names, LookupFails(t, c, T, n)
  PROVE  MgrInv'
<1> DEFINE d == [at |-> "upgrade", container |-> c, type |-> T, name |-> n]
<1>1. d \in Calls /\ d.at = "upgrade"
  BY DEF Calls
<1>2. /\ call' = [call EXCEPT ![t] = d] /\ call[t] = Idle /\ held[t] = None
      /\ UNCHANGED <<table, objects, held, unexpected>>
  BY DEF LookupFails, Become, Ready
<1>3. call[t].at # "unref"
  BY <1>2 DEF Idle
<1> HIDE DEF d
<1>4. d.at # "unref" /\ (d.at = "upgrade" => held[t] = None)
  BY <1>1, <1>2
<1> QED BY <1>1, <1>2, <1>3, <1>4, CallStepInv

\* The second half of LookupOrCreate, under the lock, finds the resource of
\* another thread or inserts its own.
LEMMA LookupOrCreateInv ==
  ASSUME MgrInv, NEW t \in Threads, LookupOrCreate(t)
  PROVE  MgrInv'
<1>1. PICK c \in Containers, T \in Types, n \in Names :
        call[t] = [at |-> "upgrade", container |-> c, type |-> T, name |-> n]
  BY DEF LookupOrCreate, MgrInv, MgrTypes, Calls
<1>2. PICK k \in Keys : k = Key(T, n) /\ k[1] = HashCode[T]
  BY KeyFacts
<1>3. /\ held[t] = None /\ call[t].at = "upgrade" /\ call' = [call EXCEPT ![t] = Idle]
  BY <1>1 DEF LookupOrCreate, Become, MgrInv, CallInv
<1>4. CASE Entry(c, k) # None
  <2>1. PICK o : o = Entry(c, k)
    OBVIOUS
  <2>2. Take(t, o, T)
    BY <1>1, <1>2, <1>4, <2>1 DEF LookupOrCreate, SecondLookup
  <2> QED BY <1>2, <1>3, <1>4, <2>1, <2>2, TakeInv
<1>5. CASE Entry(c, k) = None /\ UNCHANGED <<table, objects, held, unexpected>>
  <2>1. Idle \in Calls /\ Idle.at = "idle"
    BY DEF Idle, Calls
  <2> QED BY <1>3, <1>5, <2>1, CallStepInv
<1>6. CASE /\ Entry(c, k) = None
           /\ ~UNCHANGED <<table, objects, held, unexpected>>
  <2>0. /\ call[t].container = c /\ call[t].type = T /\ call[t].name = n
        /\ Key(T, n) = k
    BY <1>1, <1>2
  <2>1. PICK ok \in BOOLEAN :
          /\ ok = ~Collision(k, T)
          /\ DoCreate(c, k, T, IF ok THEN 2 ELSE 1)
          /\ held' = [held EXCEPT ![t] = IF ok THEN [object |-> Fresh, as |-> T] ELSE None]
          /\ unexpected' = (unexpected \/ ~ok)
    <3>1. /\ DoCreate(c, k, T, IF ~Collision(k, T) THEN 2 ELSE 1)
          /\ held' = [held EXCEPT ![t] =
                        IF ~Collision(k, T) THEN [object |-> Fresh, as |-> T] ELSE None]
          /\ unexpected' = (unexpected \/ Collision(k, T))
      BY <1>6, <2>0 DEF LookupOrCreate, SecondLookup
    <3> QED BY <3>1
  <2>2. DistinctHashes => ok
    <3> SUFFICES ASSUME DistinctHashes PROVE ~Collision(k, T)
      BY <2>1
    <3>1. k[1] \in Hashes
      BY <1>2 DEF Hashes
    <3>2. typeNames[k[1]] # None => typeNames[k[1]] \in Types /\ HashCode[typeNames[k[1]]] = HashCode[T]
      BY <1>2, <3>1 DEF MgrInv, MgrTypes, TypeInv
    <3> QED BY <3>2 DEF DistinctHashes, Collision
  <2>3. (DistinctHashes => ~unexpected') /\ unexpected' \in BOOLEAN
    BY <2>1, <2>2 DEF MgrInv, MgrTypes
  <2>4. CASE ok
    <3>1. /\ DoCreate(c, k, T, 2)
          /\ held' = [held EXCEPT ![t] = [object |-> Fresh, as |-> T]]
      BY <2>1, <2>4
    <3> QED BY <1>2, <1>3, <1>6, <2>3, <3>1, DoCreateNew
  <2>5. CASE ~ok
    <3>1. DoCreate(c, k, T, 1) /\ held' = held
      BY <1>3, <2>1, <2>5 DEF MgrInv, MgrTypes
    <3> QED BY <1>2, <1>3, <1>6, <2>3, <3>1, DoCreateNew
  <2> QED BY <2>4, <2>5
<1> QED BY <1>4, <1>5, <1>6

\* Delete, Cleanup and Clear take objs out of the map, and the client owes the
\* manager's reference to each of them.
LEMMA EraseInv ==
  ASSUME MgrInv, NEW t \in Threads, call[t] = Idle, NEW objs \in SUBSET Objects,
         call' = [call EXCEPT ![t] = Owes(objs)],
         containers' \in [Containers -> ContainerMap \cup {None}],
         \A c \in Containers, k \in Keys :
           Entry(c, k)' = IF Entry(c, k) \in objs THEN None ELSE Entry(c, k),
         \A o \in objs : \E c \in Containers, k \in Keys : Entry(c, k) = o,
         mu' \in Threads \cup {None},
         UNCHANGED <<typeNames, objects, held, unexpected>>
  PROVE  MgrInv'
<1> USE DEF objects
<1>1. call[t].at = "idle"
  BY DEF Idle
<1>2. OneEntry'
  BY DEF MgrInv, OneEntry
<1>3. \A p \in objs : Entries(p)' = {} /\ \E e : Entries(p) = {e}
  <2> SUFFICES ASSUME NEW p \in objs
               PROVE  Entries(p)' = {} /\ \E e : Entries(p) = {e}
    OBVIOUS
  <2>1. PICK c \in Containers, k \in Keys : Entry(c, k) = p
    OBVIOUS
  <2>2. p # None
    BY NoneFacts
  <2>3. Entries(p) = {<<c, k>>}
    BY <2>1, <2>2, EntriesOne DEF MgrInv
  <2>4. Entries(p)' = {}
    BY <2>2 DEF Entries
  <2> QED BY <2>3, <2>4
<1>4. \A p \in Objects \ objs : Entries(p)' = Entries(p)
  BY NoneFacts DEF Entries
<1>5. \A p \in Objects : Holders(p)' = Holders(p)
  BY SameHeld
<1>6. /\ \A p \in Objects : t \notin Debtors(p)
      /\ \A p \in objs : Debtors(p)' = Debtors(p) \cup {t}
      /\ \A p \in Objects \ objs : Debtors(p)' = Debtors(p)
  BY <1>1, CallOwes DEF MgrInv
<1>7. MgrTypes' /\ CallInv'
  <2>1. Owes(objs) \in Calls /\ Owes(objs).at # "upgrade"
        /\ (Owes(objs).at = "unref" => Owes(objs).sub = None)
    BY OwesType
  <2>2. MgrTypes'
    BY <2>1 DEF MgrInv, MgrTypes
  <2>3. CallInv'
    BY <2>1 DEF MgrInv, MgrTypes, CallInv
  <2> QED BY <2>2, <2>3
<1>8. CountInv'
  <2> SUFFICES ASSUME NEW p \in Objects PROVE Exact(p)'
    BY DEF CountInv
  <2>1. CASE p \in objs
    <3>1. PICK e : Entries(p) = {e}
      BY <1>3, <2>1
    <3> QED BY <1>3, <1>5, <1>6, <2>1, <3>1, ExactErased DEF MgrInv, CountInv
  <2>2. CASE p \notin objs
    BY <1>4, <1>5, <1>6, <2>2, ExactSame DEF MgrInv, CountInv
  <2> QED BY <2>1, <2>2
<1>9. LifeInv'
  <2>1. \A p \in objs : ~NoOwner(p)
    BY <1>3 DEF NoOwner
  <2>2. \A p \in objs : p \in Made /\ p \notin dead
    BY <2>1 DEF MgrInv, LifeInv
  <2>3. Made' = Made
    BY DEF Made
  <2> QED BY <1>4, <1>5, <1>6, <2>2, <2>3 DEF MgrInv, LifeInv, NoOwner
<1>10. TypeInv'
  BY DEF MgrInv, TypeInv
<1> QED BY <1>2, <1>7, <1>8, <1>9, <1>10 DEF MgrInv

\* Delete erases one entry, Cleanup those of a container.
LEMMA DeleteEntry ==
  ASSUME MgrInv, NEW c \in Containers, NEW k \in Keys, Entry(c, k) # None,
         containers' = Erase(c, k)
  PROVE  /\ containers' \in [Containers -> ContainerMap \cup {None}]
         /\ \A d \in Containers, x \in Keys :
              Entry(d, x)' = IF d = c /\ x = k THEN None ELSE Entry(d, x)
<1>3. containers' = [containers EXCEPT ![c][k] = None]
  BY DEF Erase
<1>4. containers[c] \in ContainerMap /\ containers[c] # None
  BY DEF Entry, MgrInv, MgrTypes
<1>5. containers'[c] = [containers[c] EXCEPT ![k] = None]
  BY <1>3 DEF MgrInv, MgrTypes
<1>6. containers'[c] \in ContainerMap /\ containers'[c] # None
  <2>1. containers'[c] \in ContainerMap
    BY <1>4, <1>5 DEF ContainerMap
  <2> QED BY <2>1, NoneFacts
<1>7. \A d \in Containers, x \in Keys :
        Entry(d, x)' = IF d = c /\ x = k THEN None ELSE Entry(d, x)
  <2> SUFFICES ASSUME NEW d \in Containers, NEW x \in Keys
               PROVE  Entry(d, x)' = IF d = c /\ x = k THEN None ELSE Entry(d, x)
    OBVIOUS
  <2>1. CASE d = c
    <3>1. containers'[c][x] = IF x = k THEN None ELSE containers[c][x]
      BY <1>4, <1>5 DEF ContainerMap
    <3> QED BY <1>4, <1>6, <2>1, <3>1 DEF Entry
  <2>2. CASE d # c
    <3>1. containers'[d] = containers[d]
      BY <1>3, <2>2 DEF MgrInv, MgrTypes
    <3> QED BY <2>2, <3>1, EntryNext
  <2> QED BY <2>1, <2>2
<1>8. containers' \in [Containers -> ContainerMap \cup {None}]
  BY <1>3, <1>6 DEF MgrInv, MgrTypes
<1> QED BY <1>7, <1>8

\* A container that is removed has no entries.
LEMMA CleanupEntry ==
  ASSUME MgrInv, NEW c \in Containers, containers' = [containers EXCEPT ![c] = None]
  PROVE  \A d \in Containers, x \in Keys :
           Entry(d, x)' = IF d = c THEN None ELSE Entry(d, x)
BY DEF Entry, MgrInv, MgrTypes

\* Delete takes one entry out and owes one reference.
LEMMA DeleteInv ==
  ASSUME MgrInv, NEW t \in Threads, NEW c \in Containers, NEW T \in Types,
         NEW n \in Names, Delete(t, c, T, n)
  PROVE  MgrInv'
<1>1. PICK k \in Keys : k = Key(T, n)
  BY KeyFacts
<1>2. PICK o \in Objects : o = Entry(c, k)
  BY <1>1, EntryFacts DEF Delete, MgrInv
<1>3. /\ call' = [call EXCEPT ![t] = Owes({o})] /\ call[t] = Idle
      /\ UNCHANGED <<typeNames, mu, objects, held, unexpected>>
  BY <1>1, <1>2 DEF Delete, Become, Ready
<1>7. /\ containers' \in [Containers -> ContainerMap \cup {None}]
      /\ \A d \in Containers, x \in Keys :
           Entry(d, x)' = IF d = c /\ x = k THEN None ELSE Entry(d, x)
  BY <1>1, DeleteEntry DEF Delete
<1>8. \A d \in Containers, x \in Keys :
        Entry(d, x)' = IF Entry(d, x) \in {o} THEN None ELSE Entry(d, x)
  <2>1. \A d \in Containers, x \in Keys : Entry(d, x) = o <=> d = c /\ x = k
    BY <1>2, NoneFacts DEF MgrInv, OneEntry
  <2> QED BY <1>7, <2>1
<1>10. mu' \in Threads \cup {None}
  BY <1>3 DEF MgrInv, MgrTypes
<1>11. {o} \in SUBSET Objects /\ \A p \in {o} : \E d \in Containers, x \in Keys : Entry(d, x) = p
  BY <1>2
<1> QED BY <1>3, <1>7, <1>8, <1>10, <1>11, EraseInv

\* The resources of a container.
LEMMA ContentsFacts ==
  ASSUME MgrTypes, NEW c \in Containers
  PROVE  /\ Contents(c) \subseteq Objects
         /\ \A o : o \in Contents(c) <=> o # None /\ \E k \in Keys : Entry(c, k) = o
BY EntryFacts DEF Contents

\* Cleanup takes a container out and owes a reference to each of its resources.
LEMMA CleanupInv ==
  ASSUME MgrInv, NEW t \in Threads, NEW c \in Containers, Cleanup(t, c)
  PROVE  MgrInv'
<1>1. /\ containers' = [containers EXCEPT ![c] = None]
      /\ call' = [call EXCEPT ![t] = Owes(Contents(c))] /\ call[t] = Idle
      /\ UNCHANGED <<typeNames, mu, objects, held, unexpected>>
  BY DEF Cleanup, Become, Ready
<1>2. \A d \in Containers, x \in Keys : Entry(d, x)' = IF d = c THEN None ELSE Entry(d, x)
  BY <1>1, CleanupEntry
<1>3. PICK objs \in SUBSET Objects : objs = Contents(c)
  BY ContentsFacts DEF MgrInv
<1>4. \A o \in objs : \E d \in Containers, x \in Keys : Entry(d, x) = o
  BY <1>3, ContentsFacts DEF MgrInv
<1>5. \A d \in Containers, x \in Keys :
        Entry(d, x)' = IF Entry(d, x) \in objs THEN None ELSE Entry(d, x)
  <2> SUFFICES ASSUME NEW d \in Containers, NEW x \in Keys
               PROVE  Entry(d, x)' = IF Entry(d, x) \in objs THEN None ELSE Entry(d, x)
    OBVIOUS
  <2>1. CASE d = c
    BY <1>2, <1>3, <2>1, ContentsFacts DEF MgrInv
  <2>2. CASE d # c
    <3>1. Entry(d, x) \notin objs
      BY <1>3, <2>2, ContentsFacts DEF MgrInv, OneEntry
    <3> QED BY <1>2, <2>2, <3>1
  <2> QED BY <2>1, <2>2
<1>6. containers' \in [Containers -> ContainerMap \cup {None}] /\ mu' \in Threads \cup {None}
  BY <1>1 DEF MgrInv, MgrTypes
<1> QED BY <1>1, <1>3, <1>4, <1>5, <1>6, EraseInv

\* Clear does so for all containers.
LEMMA ClearInv ==
  ASSUME MgrInv, NEW t \in Threads, Clear(t)
  PROVE  MgrInv'
<1>1. /\ containers' = [c \in Containers |-> None] /\ mu' = t
      /\ call' = [call EXCEPT ![t] = Owes(UNION {Contents(c) : c \in Containers})]
      /\ call[t] = Idle
      /\ UNCHANGED <<typeNames, objects, held, unexpected>>
  BY DEF Clear, Become, Ready
<1>2. \A d \in Containers, x \in Keys : Entry(d, x)' = None
  BY <1>1 DEF Entry
<1>3. PICK objs \in SUBSET Objects : objs = UNION {Contents(c) : c \in Containers}
  BY ContentsFacts DEF MgrInv
<1>4. \A o \in objs : \E d \in Containers, x \in Keys : Entry(d, x) = o
  <2>1. \A o \in objs : \E d \in Containers : o \in Contents(d)
    BY <1>3
  <2> QED BY <2>1, ContentsFacts DEF MgrInv
<1>5. \A d \in Containers, x \in Keys :
        Entry(d, x)' = IF Entry(d, x) \in objs THEN None ELSE Entry(d, x)
  <2> SUFFICES ASSUME NEW d \in Containers, NEW x \in Keys, Entry(d, x) # None
               PROVE  Entry(d, x) \in objs
    BY <1>2
  <2>1. Entry(d, x) \in Contents(d)
    BY ContentsFacts DEF MgrInv
  <2> QED BY <1>3, <2>1
<1>6. containers' \in [Containers -> ContainerMap \cup {None}] /\ mu' \in Threads \cup {None}
  BY <1>1
<1> QED BY <1>1, <1>3, <1>4, <1>5, <1>6, EraseInv

\* ClearEnd, and every step of a kernel that leaves the manager alone.
LEMMA MgrUnchanged ==
  ASSUME MgrInv, UNCHANGED <<containers, typeNames, objects, held, call, unexpected>>,
         mu' \in Threads \cup {None}
  PROVE  MgrInv'
<1> USE DEF objects
<1>1. /\ \A c \in Containers, x \in Keys : Entry(c, x)' = Entry(c, x)
      /\ \A p \in Objects : Entries(p)' = Entries(p)
      /\ OneEntry'
  BY SameContainers DEF MgrInv
<1>2. /\ \A p \in Objects : Holders(p)' = Holders(p)
      /\ \A p \in Objects : Debtors(p)' = Debtors(p)
  BY SameHeld, SameCall
<1>3. MgrTypes' /\ CallInv'
  BY DEF MgrInv, MgrTypes, CallInv
<1>4. CountInv'
  BY <1>1, <1>2, ExactSame DEF MgrInv, CountInv
<1>5. LifeInv'
  BY <1>1, <1>2 DEF MgrInv, LifeInv, NoOwner, Made
<1>6. TypeInv'
  BY <1>1 DEF MgrInv, TypeInv
<1> QED BY <1>1, <1>3, <1>4, <1>5, <1>6 DEF MgrInv

\* A client's reference becomes a debt.
LEMMA ReleaseInv ==
  ASSUME MgrInv, NEW t \in Threads, Release(t)
  PROVE  MgrInv'
<1> USE DEF table, objects
<1>1. PICK o \in Objects : o = held[t].object
  BY DEF Release, MgrInv, MgrTypes, Reference
<1>2. /\ call' = [call EXCEPT ![t] = Owes({o})] /\ call[t].at = "idle"
      /\ held' = [held EXCEPT ![t] = None] /\ held[t] # None
      /\ UNCHANGED <<table, objects, unexpected>>
  BY <1>1 DEF Release, Become, Idle
<1>3. /\ \A c \in Containers, x \in Keys : Entry(c, x)' = Entry(c, x)
      /\ \A p \in Objects : Entries(p)' = Entries(p)
      /\ OneEntry'
  BY <1>2, SameContainers DEF MgrInv
<1>4. /\ t \in Holders(o)
      /\ \A p \in Objects : Holders(p)' = Holders(p) \ {t}
      /\ \A p \in Objects : p # o => t \notin Holders(p)
  BY <1>1, <1>2, HeldDropped DEF MgrInv
<1>5. \A p \in Objects : p # o => Holders(p)' = Holders(p)
  BY <1>4
<1>6. /\ \A p \in Objects : t \notin Debtors(p)
      /\ Debtors(o)' = Debtors(o) \cup {t}
      /\ \A p \in Objects : p # o => Debtors(p)' = Debtors(p)
  <2>1. PICK objs \in SUBSET Objects : objs = {o}
    OBVIOUS
  <2>2. call' = [call EXCEPT ![t] = Owes(objs)] /\ call[t].at # "unref"
    BY <1>2, <2>1
  <2>3. /\ \A p \in Objects : t \notin Debtors(p)
        /\ \A p \in objs : Debtors(p)' = Debtors(p) \cup {t}
        /\ \A p \in Objects \ objs : Debtors(p)' = Debtors(p)
    BY <2>2, CallOwes DEF MgrInv
  <2> QED BY <2>1, <2>3
<1>7. /\ Owes({o}) \in Calls /\ Owes({o}).at # "upgrade"
      /\ Owes({o}).at = "unref" => Owes({o}).sub = None
  BY OwesType
<1>8. MgrTypes' /\ CallInv'
  <2>1. MgrTypes'
    BY <1>2, <1>7 DEF MgrInv, MgrTypes
  <2>2. CallInv'
    BY <1>2, <1>7 DEF MgrInv, MgrTypes, CallInv
  <2> QED BY <2>1, <2>2
<1>9. CountInv'
  <2> SUFFICES ASSUME NEW p \in Objects PROVE Exact(p)'
    BY DEF CountInv
  <2>1. CASE p = o
    BY <1>2, <1>3, <1>4, <1>6, <2>1, ExactReleased DEF MgrInv, CountInv
  <2>2. CASE p # o
    BY <1>2, <1>3, <1>5, <1>6, <2>2, ExactSame DEF MgrInv, CountInv
  <2> QED BY <2>1, <2>2
<1>10. LifeInv'
  <2>1. Made' = Made /\ o \in Made /\ o \notin dead
    BY <1>2, <1>4 DEF Made, MgrInv, LifeInv, NoOwner
  <2> QED BY <1>2, <1>3, <1>5, <1>6, <2>1 DEF MgrInv, LifeInv, NoOwner
<1>11. TypeInv'
  <2>1. \A u \in Threads : held'[u] # None => held'[u] = held[u]
    BY <1>2 DEF MgrInv, MgrTypes
  <2> QED BY <1>2, <1>3, <2>1 DEF MgrInv, TypeInv
<1> QED BY <1>2, <1>3, <1>8, <1>9, <1>10, <1>11 DEF MgrInv

\* A debt is paid: by the load that sees 1, or by the subtraction.  The
\* resource is deleted when it was the last.
LEMMA PaidInv ==
  ASSUME MgrInv, NEW t \in Threads, call[t].at = "unref", NEW o \in call[t].objs,
         call' = [call EXCEPT ![t] = Owes(call[t].objs \ {o})],
         ref' = [ref EXCEPT ![o] = @ - 1],
         dead' = IF ref[o] = 1 THEN dead \cup {o} ELSE dead,
         UNCHANGED <<table, typeOf, held, unexpected>>
  PROVE  MgrInv'
<1> USE DEF table
<1>1. o \in Objects /\ call[t].objs \ {o} \in SUBSET Objects
  BY DEF MgrInv, MgrTypes, Calls
<1>2. /\ \A c \in Containers, x \in Keys : Entry(c, x)' = Entry(c, x)
      /\ \A p \in Objects : Entries(p)' = Entries(p)
      /\ OneEntry'
  BY SameContainers DEF MgrInv
<1>3. \A p \in Objects : Holders(p)' = Holders(p)
  BY SameHeld
<1>4. /\ t \in Debtors(o) /\ Debtors(o)' = Debtors(o) \ {t}
      /\ \A p \in Objects : p # o => Debtors(p)' = Debtors(p)
  BY CallPaid DEF MgrInv
<1>5. /\ ref[o] >= 1
      /\ ref[o] = 1 => Entries(o) = {} /\ Holders(o) = {} /\ Debtors(o) \ {t} = {}
  BY <1>1, <1>4, ExactLast DEF MgrInv, CountInv
<1>6. \A p \in Objects : ref'[p] = IF p = o THEN ref[p] - 1 ELSE ref[p]
  BY DEF MgrInv, MgrTypes
<1>7. MgrTypes' /\ CallInv'
  <2> DEFINE d == Owes(call[t].objs \ {o})
  <2>1. d \in Calls /\ d.at # "upgrade" /\ (d.at = "unref" => d.sub = None)
    BY <1>1, OwesType
  <2>2. call' = [call EXCEPT ![t] = d]
    OBVIOUS
  <2> HIDE DEF d
  <2>3. ref[o] - 1 \in Nat
    BY <1>1, <1>5 DEF MgrInv, MgrTypes
  <2>4. ref' \in [Objects -> Nat] /\ dead' \subseteq Objects
    BY <1>1, <2>3 DEF MgrInv, MgrTypes
  <2>5. MgrTypes'
    BY <2>1, <2>2, <2>4 DEF MgrInv, MgrTypes
  <2>6. CallInv'
    BY <2>1, <2>2 DEF MgrInv, MgrTypes, CallInv
  <2> QED BY <2>5, <2>6
<1>8. CountInv'
  <2> SUFFICES ASSUME NEW p \in Objects PROVE Exact(p)'
    BY DEF CountInv
  <2>1. CASE p = o
    BY <1>2, <1>3, <1>4, <1>6, <2>1, ExactPaid DEF MgrInv, CountInv
  <2>2. CASE p # o
    BY <1>2, <1>3, <1>4, <1>6, <2>2, ExactSame DEF MgrInv, CountInv
  <2> QED BY <2>1, <2>2
<1>9. LifeInv'
  <2>1. Made' = Made /\ o \in Made /\ o \notin dead
    BY <1>1, <1>4 DEF Made, MgrInv, LifeInv, NoOwner
  <2>2. CASE ref[o] = 1
    <3>1. NoOwner(o)'
      BY <1>1, <1>2, <1>3, <1>4, <1>5, <2>2 DEF NoOwner
    <3> QED BY <1>2, <1>3, <1>4, <2>1, <2>2, <3>1 DEF MgrInv, LifeInv, NoOwner
  <2>3. CASE ref[o] # 1
    BY <1>2, <1>3, <1>4, <2>1, <2>3 DEF MgrInv, LifeInv, NoOwner
  <2> QED BY <2>2, <2>3
<1>10. TypeInv'
  BY <1>2 DEF MgrInv, TypeInv
<1> QED BY <1>2, <1>7, <1>8, <1>9, <1>10 DEF MgrInv

\* Unref: the load of the count that is one, or the subtraction, and the
\* destruction after either.
LEMMA UnrefInv ==
  ASSUME MgrInv, NEW t \in Threads, UnrefLoad(t) \/ UnrefSub(t)
  PROVE  MgrInv'
<1>1. CASE UnrefLoad(t)
  <2>1. /\ call[t].at = "unref" /\ UNCHANGED <<table, typeOf, held, unexpected>>
        /\ \E o \in call[t].objs :
             IF ref[o] = 1
             THEN dead' = dead \cup {o} /\ ref' = [ref EXCEPT ![o] = 0] /\ Paid(t, o)
             ELSE Become(t, [call[t] EXCEPT !.sub = o]) /\ UNCHANGED <<dead, ref>>
    BY <1>1 DEF UnrefLoad
  <2>2. PICK o \in call[t].objs :
          IF ref[o] = 1
          THEN dead' = dead \cup {o} /\ ref' = [ref EXCEPT ![o] = 0] /\ Paid(t, o)
          ELSE Become(t, [call[t] EXCEPT !.sub = o]) /\ UNCHANGED <<dead, ref>>
    BY <2>1
  <2>3. CASE ref[o] = 1
    <3>1. ref' = [ref EXCEPT ![o] = @ - 1]
      BY <2>2, <2>3
    <3>2. call' = [call EXCEPT ![t] = Owes(call[t].objs \ {o})]
      BY <2>2, <2>3 DEF Paid, Become
    <3> QED BY <2>1, <2>2, <2>3, <3>1, <3>2, PaidInv
  <2>4. CASE ref[o] # 1
    <3>1. PICK d : d = [call[t] EXCEPT !.sub = o]
      OBVIOUS
    <3>2. /\ d \in Calls /\ d.at = "unref" /\ d.objs = call[t].objs
          /\ d.sub = o
      BY <2>1, <3>1 DEF MgrInv, MgrTypes, Calls
    <3>3. call' = [call EXCEPT ![t] = d] /\ UNCHANGED <<table, objects, held, unexpected>>
      BY <2>1, <2>2, <2>4, <3>1 DEF Become, objects
    <3> QED BY <2>1, <3>2, <3>3, CallStepInv
  <2> QED BY <2>3, <2>4
<1>2. CASE UnrefSub(t)
  <2>1. PICK o \in call[t].objs : o = call[t].sub
    BY <1>2 DEF UnrefSub, MgrInv, CallInv
  <2>2. /\ call[t].at = "unref" /\ ref' = [ref EXCEPT ![o] = @ - 1]
        /\ dead' = IF ref[o] = 1 THEN dead \cup {o} ELSE dead
        /\ call' = [call EXCEPT ![t] = Owes(call[t].objs \ {o})]
        /\ UNCHANGED <<table, typeOf, held, unexpected>>
    BY <1>2, <2>1 DEF UnrefSub, WasOne, Paid, Become
  <2> QED BY <2>1, <2>2, PaidInv
<1> QED BY <1>1, <1>2

-----------------------------------------------------------------------------
(* The kernels *)

\* A kernel is a client that knows its container and its type.
LEMMA KernelFacts ==
  Kernels \subseteq Threads /\ Container \in Containers /\ Type \in Types
BY KernelAssumption

\* Who has a reference is a holder.
LEMMA HeldFacts ==
  ASSUME MgrTypes, NEW t \in Threads, held[t] # None
  PROVE  /\ held[t].object \in Objects /\ held[t].object # None
         /\ t \in Holders(held[t].object)
BY NoneFacts DEF MgrTypes, Reference, Holders

\* The invariant holds before any kernel has run.
LEMMA KernelInitInv == KernelInit => Inv
<1> SUFFICES ASSUME KernelInit PROVE Inv
  OBVIOUS
<1>1. MgrInv
  BY MgrInit DEF KernelInit
<1>2. \A c \in Containers, x \in Keys : Entry(c, x) = None
  BY DEF KernelInit, Init, Entry
<1>3. \A n : ~Stored(n)
  BY <1>2, KernelFacts DEF Stored
<1>4. KernelTypes
  BY DEF KernelInit, KernelTypes
<1>5. PlaceInv
  BY KernelFacts DEF KernelInit, Init, PlaceInv, Idle
<1>6. NameInv
  BY KernelFacts, ResourceAssumption DEF KernelInit, Init, NameInv, Idle
<1>7. HeldInv
  BY KernelFacts DEF KernelInit, Init, HeldInv
<1>8. StoredInv
  BY <1>2, <1>3, KernelFacts DEF StoredInv, PrivateDeleted
<1> QED BY <1>1, <1>4, <1>5, <1>6, <1>7, <1>8 DEF Inv, KernelInv

\* A number that nobody stores stays free when entries are erased, or put under
\* other names.
LEMMA StoredNext ==
  ASSUME NEW n, Stored(n)', \A x \in Keys : x[2] = n => Entry(Container, x)' \in {Entry(Container, x), None}
  PROVE  Stored(n)
BY DEF Stored

\* What the kernels rely on: another client changes none of their references,
\* puts nothing under a number, and puts in only what no kernel has.
LEMMA ClientInv ==
  ASSUME Inv, UNCHANGED kernelVars,
         \A k \in Kernels : held'[k] = held[k],
         \A k \in Kernels : call'[k].at = "upgrade" => call'[k] = call[k],
         \A t \in Threads \ Kernels : call'[t].at = "upgrade" => call'[t].name \notin Nat,
         \A c \in Containers, x \in Keys : Entry(c, x)' \notin {Entry(c, x), None} =>
           x[2] \notin Nat /\ \A k \in Kernels : held[k] # None => held[k].object # Entry(c, x)'
  PROVE  KernelInv'
<1> USE KernelFacts DEF kernelVars
<1>1. KernelTypes'
  BY DEF Inv, KernelInv, KernelTypes
<1>2. PlaceInv'
  BY DEF Inv, KernelInv, PlaceInv, Private
<1>3. NameInv'
  BY DEF Inv, KernelInv, NameInv, Private
<1>4. HeldInv'
  <2>1. \A k \in Kernels, c \in Containers, x \in Keys :
          held[k] # None /\ Entry(c, x)' = held[k].object => Entry(c, x) = held[k].object
    BY HeldFacts DEF Inv, MgrInv
  <2> QED BY <2>1 DEF Inv, KernelInv, HeldInv
<1>5. \A n \in Nat : Stored(n)' => Stored(n)
  BY StoredNext
<1>6. StoredInv'
  <2>1. \A x \in Keys : x[2] \in Nat /\ Entry(Container, x)' # None => x[1] = HashCode[Type]
    BY DEF Inv, KernelInv, StoredInv
  <2>2. DistinctHashes => PrivateDeleted'
    BY <1>5 DEF Inv, KernelInv, StoredInv, PrivateDeleted
  <2>3. DistinctHashes => \A k \in Kernels :
          at'[k] = "new" /\ name'[k] \in Nat /\ Stored(name[k])' => name'[k] \in abandoned'
    BY <1>5 DEF Inv, KernelInv, StoredInv
  <2> QED BY <2>1, <2>2, <2>3 DEF StoredInv
<1> QED BY <1>1, <1>2, <1>3, <1>4, <1>6 DEF KernelInv

\* Only Create and LookupOrCreate put anything in the map, and what they put in
\* is new.
LEMMA PutNew ==
  ASSUME Inv, NEW c \in Containers, NEW k \in Keys, NEW T \in Types, NEW refs,
         DoCreate(c, k, T, refs),
         NEW d \in Containers, NEW x \in Keys, Entry(d, x)' \notin {Entry(d, x), None}
  PROVE  /\ d = c /\ x = k
         /\ \A j \in Kernels : held[j] # None => held[j].object # Entry(d, x)'
<1>1. CASE Entry(c, k) = None
  <2>1. PICK f \in Objects : f = Fresh /\ NoOwner(f)
    BY <1>1, DoCreateEntry DEF Inv
  <2>2. Entry(d, x)' = IF d = c /\ x = k THEN f ELSE Entry(d, x)
    BY <1>1, <2>1, DoCreateEntry DEF Inv
  <2>3. \A j \in Kernels : held[j] # None => held[j].object # f
    BY <2>1, HeldFacts, KernelFacts DEF Inv, MgrInv, NoOwner
  <2> QED BY <2>2, <2>3
<1>2. CASE Entry(c, k) # None
  <2>1. UNCHANGED containers
    BY <1>2 DEF DoCreate, table
  <2> QED BY <2>1, EntryNext
<1> QED BY <1>1, <1>2

\* The clients that are not kernels.
LEMMA ClientStepInv ==
  ASSUME Inv, NEW t \in Threads \ Kernels, ClientStep(t)
  PROVE  Inv'
<1> USE KernelFacts
<1>0. UNCHANGED kernelVars
  BY DEF ClientStep
<1>1. ASSUME NEW c \in Containers, NEW T \in Types, NEW n \in Names, n \notin Nat,
             Create(t, c, T, n)
      PROVE  Inv'
  <2>1. MgrInv'
    BY <1>1, CreateInv DEF Inv
  <2>2. UNCHANGED <<held, call>> /\ DoCreate(c, Key(T, n), T, 1)
    BY <1>1 DEF Create
  <2>3. Key(T, n) \in Keys /\ Key(T, n)[2] = n
    BY KeyFacts
  <2>4. \A d \in Containers, x \in Keys : Entry(d, x)' \notin {Entry(d, x), None} =>
           x[2] \notin Nat /\ \A k \in Kernels : held[k] # None => held[k].object # Entry(d, x)'
    BY <1>1, <2>2, <2>3, PutNew
  <2>5. \A u \in Threads \ Kernels : call'[u].at = "upgrade" => call'[u].name \notin Nat
    BY <2>2 DEF Inv, KernelInv, NameInv
  <2>6. KernelInv'
    BY <1>0, <2>2, <2>4, <2>5, ClientInv
  <2> QED BY <2>1, <2>6 DEF Inv
<1>2. ASSUME NEW c \in Containers, NEW T \in Types, NEW n \in Names, n \notin Nat,
             LookupFails(t, c, T, n)
      PROVE  Inv'
  <2>1. MgrInv'
    BY <1>2, LookupFailsInv DEF Inv
  <2>2. /\ UNCHANGED <<containers, held>>
        /\ call' = [call EXCEPT ![t] =
                      [at |-> "upgrade", container |-> c, type |-> T, name |-> n]]
    BY <1>2 DEF LookupFails, Become, table
  <2>3. /\ \A k \in Kernels : call'[k] = call[k]
        /\ \A u \in Threads \ Kernels : call'[u].at = "upgrade" => call'[u].name \notin Nat
    BY <1>2, <2>2 DEF Inv, MgrInv, MgrTypes, KernelInv, NameInv
  <2>4. \A d \in Containers, x \in Keys : Entry(d, x)' = Entry(d, x)
    BY <2>2, SameContainers
  <2>5. KernelInv'
    BY <1>0, <2>2, <2>3, <2>4, ClientInv
  <2> QED BY <2>1, <2>5 DEF Inv
<1>3. ASSUME NEW c \in Containers, NEW T \in Types, NEW n \in Names, Lookup(t, c, T, n)
      PROVE  Inv'
  <2>1. MgrInv'
    BY <1>3, LookupInv DEF Inv
  <2>2. /\ UNCHANGED <<containers, call>>
        /\ \A k \in Kernels : held'[k] = held[k]
    BY <1>3 DEF Lookup, Take, table, Inv, MgrInv, MgrTypes
  <2>3. \A d \in Containers, x \in Keys : Entry(d, x)' = Entry(d, x)
    BY <2>2, SameContainers
  <2>4. \A u \in Threads \ Kernels : call'[u].at = "upgrade" => call'[u].name \notin Nat
    BY <2>2 DEF Inv, KernelInv, NameInv
  <2>5. KernelInv'
    BY <1>0, <2>2, <2>3, <2>4, ClientInv
  <2> QED BY <2>1, <2>5 DEF Inv
<1>4. ASSUME NEW objs \in SUBSET Objects, UNCHANGED held,
             call' = [call EXCEPT ![t] = Owes(objs)],
             \A d \in Containers, x \in Keys : Entry(d, x)' \in {Entry(d, x), None}
      PROVE  KernelInv'
  <2>1. Owes(objs).at # "upgrade"
    BY OwesType
  <2>2. /\ \A k \in Kernels : call'[k] = call[k]
        /\ \A u \in Threads \ Kernels : call'[u].at = "upgrade" => call'[u].name \notin Nat
    BY <1>4, <2>1 DEF Inv, MgrInv, MgrTypes, KernelInv, NameInv
  <2> QED BY <1>0, <1>4, <2>2, ClientInv
<1>5. ASSUME NEW c \in Containers, NEW T \in Types, NEW n \in Names, Delete(t, c, T, n)
      PROVE  Inv'
  <2>1. MgrInv'
    BY <1>5, DeleteInv DEF Inv
  <2>2. PICK k \in Keys : k = Key(T, n)
    BY KeyFacts
  <2>3. PICK objs \in SUBSET Objects : objs = {Entry(c, k)}
    BY <1>5, <2>2, EntryFacts DEF Delete, Inv, MgrInv
  <2>4. UNCHANGED held /\ call' = [call EXCEPT ![t] = Owes(objs)]
    BY <1>5, <2>2, <2>3 DEF Delete, Become
  <2>5. \A d \in Containers, x \in Keys : Entry(d, x)' \in {Entry(d, x), None}
    BY <1>5, <2>2, DeleteEntry DEF Delete, Inv
  <2> QED BY <1>4, <2>1, <2>4, <2>5 DEF Inv
<1>6. ASSUME NEW c \in Containers, Cleanup(t, c)
      PROVE  Inv'
  <2>1. MgrInv'
    BY <1>6, CleanupInv DEF Inv
  <2>2. PICK objs \in SUBSET Objects : objs = Contents(c)
    BY ContentsFacts DEF Inv, MgrInv
  <2>3. UNCHANGED held /\ call' = [call EXCEPT ![t] = Owes(objs)]
    BY <1>6, <2>2 DEF Cleanup, Become
  <2>4. \A d \in Containers, x \in Keys : Entry(d, x)' \in {Entry(d, x), None}
    BY <1>6, CleanupEntry DEF Cleanup, Inv
  <2> QED BY <1>4, <2>1, <2>3, <2>4 DEF Inv
<1>7. CASE Clear(t)
  <2>1. MgrInv'
    BY <1>7, ClearInv DEF Inv
  <2>2. PICK objs \in SUBSET Objects : objs = UNION {Contents(c) : c \in Containers}
    BY ContentsFacts DEF Inv, MgrInv
  <2>3. UNCHANGED held /\ call' = [call EXCEPT ![t] = Owes(objs)]
    BY <1>7, <2>2 DEF Clear, Become
  <2>4. \A d \in Containers, x \in Keys : Entry(d, x)' \in {Entry(d, x), None}
    BY <1>7 DEF Clear, Entry
  <2> QED BY <1>4, <2>1, <2>3, <2>4 DEF Inv
<1>8. CASE Release(t)
  <2>1. MgrInv'
    BY <1>8, ReleaseInv DEF Inv
  <2>2. PICK objs \in SUBSET Objects : objs = {held[t].object}
    BY <1>8, HeldFacts DEF Release, Inv, MgrInv
  <2>3. /\ call' = [call EXCEPT ![t] = Owes(objs)] /\ UNCHANGED containers
        /\ held' = [held EXCEPT ![t] = None]
    BY <1>8, <2>2 DEF Release, Become, table
  <2>4. Owes(objs).at # "upgrade"
    BY OwesType
  <2>5. /\ \A k \in Kernels : call'[k] = call[k] /\ held'[k] = held[k]
        /\ \A u \in Threads \ Kernels : call'[u].at = "upgrade" => call'[u].name \notin Nat
    BY <2>3, <2>4 DEF Inv, MgrInv, MgrTypes, KernelInv, NameInv
  <2>6. \A d \in Containers, x \in Keys : Entry(d, x)' = Entry(d, x)
    BY <2>3, SameContainers
  <2>7. KernelInv'
    BY <1>0, <2>5, <2>6, ClientInv
  <2> QED BY <2>1, <2>7 DEF Inv
<1>9. CASE LookupOrCreate(t)
  <2>1. MgrInv'
    BY <1>9, LookupOrCreateInv DEF Inv
  <2>2. PICK c \in Containers, T \in Types, n \in Names :
          call[t] = [at |-> "upgrade", container |-> c, type |-> T, name |-> n]
    BY <1>9 DEF LookupOrCreate, Inv, MgrInv, MgrTypes, Calls
  <2>3. n \notin Nat /\ Key(T, n) \in Keys /\ Key(T, n)[2] = n
    BY <2>2, KeyFacts DEF Inv, KernelInv, NameInv
  <2>4. call' = [call EXCEPT ![t] = Idle] /\ Idle.at = "idle"
    BY <1>9 DEF LookupOrCreate, Become, Idle
  <2>5. /\ \A k \in Kernels : call'[k] = call[k]
        /\ \A u \in Threads \ Kernels : call'[u].at = "upgrade" => call'[u].name \notin Nat
    BY <2>4 DEF Inv, MgrInv, MgrTypes, KernelInv, NameInv
  <2>6. /\ \A k \in Kernels : held'[k] = held[k]
        /\ \/ UNCHANGED containers
           \/ \E refs : DoCreate(c, Key(T, n), T, refs)
    <3>1. call[t].container = c /\ call[t].type = T /\ call[t].name = n
      BY <2>2
    <3>2. UNCHANGED held \/ \E r : held' = [held EXCEPT ![t] = r]
      BY <1>9, <3>1 DEF LookupOrCreate, Take
    <3>3. \A k \in Kernels : held'[k] = held[k]
      BY <3>2 DEF Inv, MgrInv, MgrTypes
    <3>4. UNCHANGED containers \/ \E refs : DoCreate(c, Key(T, n), T, refs)
      BY <1>9, <3>1 DEF LookupOrCreate, Take, table
    <3> QED BY <3>3, <3>4
  <2>7. \A d \in Containers, x \in Keys : Entry(d, x)' \notin {Entry(d, x), None} =>
           x[2] \notin Nat /\ \A k \in Kernels : held[k] # None => held[k].object # Entry(d, x)'
    <3>1. CASE UNCHANGED containers
      BY <3>1, SameContainers
    <3>2. CASE \E refs : DoCreate(c, Key(T, n), T, refs)
      BY <2>3, <3>2, PutNew
    <3> QED BY <2>6, <3>1, <3>2
  <2>8. KernelInv'
    BY <1>0, <2>5, <2>6, <2>7, ClientInv
  <2> QED BY <2>1, <2>8 DEF Inv
<1> QED BY <1>1, <1>2, <1>3, <1>5, <1>6, <1>7, <1>8, <1>9 DEF ClientStep

\* Any client, kernel or not, goes on with an Unref or ends Clear.
LEMMA ContinueInv ==
  ASSUME Inv, NEW t \in Threads, Continue(t), UNCHANGED kernelVars
  PROVE  Inv'
<1>1. MgrInv'
  <2>1. CASE ClearEnd(t)
    BY <2>1, MgrUnchanged DEF ClearEnd, Inv
  <2> QED BY <2>1, UnrefInv DEF Continue, Inv
<1>2. UNCHANGED <<containers, held>>
  BY DEF Continue, ClearEnd, UnrefLoad, UnrefSub, table
<1>3. \A u \in Threads : call'[u].at = "upgrade" => call'[u] = call[u]
  <2>1. UNCHANGED call \/ \E d : call' = [call EXCEPT ![t] = d] /\ d.at # "upgrade"
    <3>1. CASE ClearEnd(t)
      BY <3>1 DEF ClearEnd
    <3>2. CASE UnrefLoad(t)
      <4>1. PICK o \in call[t].objs :
              \/ Paid(t, o)
              \/ Become(t, [call[t] EXCEPT !.sub = o])
        BY <3>2 DEF UnrefLoad
      <4>2. o \in Objects /\ call[t].objs \ {o} \in SUBSET Objects /\ call[t].at = "unref"
        BY <3>2 DEF UnrefLoad, Inv, MgrInv, MgrTypes, Calls
      <4>3. Owes(call[t].objs \ {o}).at # "upgrade"
        BY <4>2, OwesType
      <4>4. [call[t] EXCEPT !.sub = o].at # "upgrade"
        BY <3>2, <4>2 DEF UnrefLoad, Inv, MgrInv, MgrTypes, Calls
      <4> QED BY <4>1, <4>3, <4>4 DEF Paid, Become
    <3>3. CASE UnrefSub(t)
      <4>1. call[t].objs \ {call[t].sub} \in SUBSET Objects
        BY <3>3 DEF UnrefSub, Inv, MgrInv, MgrTypes, Calls
      <4>2. Owes(call[t].objs \ {call[t].sub}).at # "upgrade"
        BY <4>1, OwesType
      <4> QED BY <3>3, <4>2 DEF UnrefSub, Paid, Become
    <3> QED BY <3>1, <3>2, <3>3 DEF Continue
  <2> QED BY <2>1 DEF Inv, MgrInv, MgrTypes
<1>4. \A d \in Containers, x \in Keys : Entry(d, x)' = Entry(d, x)
  BY <1>2, SameContainers
<1>5. \A u \in Threads \ Kernels : call'[u].at = "upgrade" => call'[u].name \notin Nat
  BY <1>3 DEF Inv, KernelInv, NameInv
<1>6. KernelInv'
  BY <1>2, <1>3, <1>4, <1>5, ClientInv, KernelFacts
<1> QED BY <1>1, <1>6 DEF Inv

\* A kernel gets a name: a number that was never used, or its shared name.
LEMMA ContainerInfoInv ==
  ASSUME Inv, NEW k \in Kernels, ContainerInfoInit(k), UNCHANGED sharedName
  PROVE  Inv'
<1> USE KernelFacts
<1>1. /\ UNCHANGED <<containers, held, call, abandoned>>
      /\ at' = [at EXCEPT ![k] = "lookup"] /\ at[k] = "new" /\ call[k] = Idle
      /\ Private(k) => counter \in Names
      /\ name' = [name EXCEPT ![k] = IF Private(k) THEN counter ELSE sharedName[k]]
      /\ counter' = IF Private(k) THEN counter + 1 ELSE counter
  BY DEF ContainerInfoInit, Go, vars, table, Private, NextCounter
<1>2. MgrInv'
  <2>1. UNCHANGED vars
    BY DEF ContainerInfoInit
  <2> QED BY <2>1, MgrUnchanged DEF vars, table, Inv, MgrInv, MgrTypes
<1>3. /\ \A c \in Containers, x \in Keys : Entry(c, x)' = Entry(c, x)
      /\ \A n : Stored(n)' = Stored(n)
  BY <1>1, SameContainers DEF Stored
<1>4. held[k] = None /\ call[k].at # "upgrade"
  BY <1>1 DEF Inv, KernelInv, PlaceInv, Idle
<1>5. \A j \in Kernels : /\ name'[j] = IF j # k THEN name[j]
                                       ELSE IF Private(k) THEN counter ELSE sharedName[k]
                         /\ at'[j] = IF j = k THEN "lookup" ELSE at[j]
  BY <1>1 DEF Inv, KernelInv, KernelTypes
<1>6. name'[k] \in Names
  BY <1>1, <1>5 DEF Inv, KernelInv, KernelTypes, Private
<1>7. KernelTypes'
  BY <1>1, <1>6 DEF Inv, KernelInv, KernelTypes
<1>8. PlaceInv'
  BY <1>1, <1>4, <1>5, <1>6 DEF Inv, KernelInv, PlaceInv, Private
<1>9. NameInv'
  <2>1. \A j \in Kernels : name'[j] # None =>
          IF Private(j) THEN name'[j] \in Nat /\ name'[j] < counter'
          ELSE name'[j] = sharedName[j]
    BY <1>1, <1>5 DEF Inv, KernelInv, NameInv, KernelTypes
  <2>2. \A j \in Kernels : j # k => ~(name'[j] = name'[k] /\ name'[j] \in Nat)
    <3>1. CASE Private(k)
      BY <1>5, <3>1, NoneFacts, ResourceAssumption
         DEF Inv, KernelInv, NameInv, KernelTypes, Private
    <3>2. CASE ~Private(k)
      BY <1>5, <3>2 DEF Inv, KernelInv, KernelTypes, Private
    <3> QED BY <3>1, <3>2
  <2>3. \A i, j \in Kernels : name'[i] = name'[j] /\ name'[i] \in Nat => i = j
    BY <1>5, <2>2 DEF Inv, KernelInv, NameInv
  <2>4. \A t \in Threads \ Kernels : call'[t].at = "upgrade" => call'[t].name \notin Nat
    BY <1>1 DEF Inv, KernelInv, NameInv
  <2> QED BY <2>1, <2>3, <2>4 DEF NameInv, Private
<1>10. HeldInv'
  BY <1>1, <1>3, <1>4, <1>5 DEF Inv, KernelInv, HeldInv
<1>11. StoredInv'
  <2>1. \A x \in Keys : x[2] \in Nat /\ Entry(Container, x)' # None => x[1] = HashCode[Type]
    BY <1>3 DEF Inv, KernelInv, StoredInv
  <2>2. DistinctHashes => PrivateDeleted'
    <3> SUFFICES ASSUME DistinctHashes, NEW n \in Names \cap Nat, Stored(n)
                 PROVE  \/ n \in abandoned'
                        \/ \E j \in Kernels : name'[j] = n /\ at'[j] # "gone"
      BY <1>3 DEF PrivateDeleted
    <3>1. n \in abandoned \/ \E j \in Kernels : name[j] = n /\ at[j] # "gone"
      BY DEF Inv, KernelInv, StoredInv, PrivateDeleted
    <3>2. CASE n \in abandoned
      BY <1>1, <3>2
    <3>3. CASE n \notin abandoned
      <4>1. PICK j \in Kernels : name[j] = n /\ at[j] # "gone"
        BY <3>1, <3>3
      <4>2. j # k
        BY <1>1, <3>3, <4>1 DEF Inv, KernelInv, StoredInv
      <4> QED BY <1>5, <4>1, <4>2
    <3> QED BY <3>2, <3>3
  <2>3. DistinctHashes => \A j \in Kernels :
          at'[j] = "new" /\ name'[j] \in Nat /\ Stored(name'[j]) => name'[j] \in abandoned'
    BY <1>1, <1>5 DEF Inv, KernelInv, StoredInv
  <2> QED BY <1>1, <1>3, <2>1, <2>2, <2>3 DEF StoredInv, Stored
<1> QED BY <1>2, <1>7, <1>8, <1>9, <1>10, <1>11 DEF Inv, KernelInv

\* A kernel moves on without a new name, and nothing is put in the map.
LEMMA KernelMoves ==
  ASSUME Inv, NEW k \in Kernels, UNCHANGED <<sharedName, name, counter>>,
         NEW p \in {"new", "lookup", "verify", "ready", "delete", "gone"},
         at' = [at EXCEPT ![k] = p],
         abandoned \subseteq abandoned',
         \A j \in Kernels : j # k => held'[j] = held[j] /\ call'[j] = call[j],
         held'[k] # None <=> p \in {"verify", "ready"},
         held'[k] \in {held[k], None} \/
           (\E x \in Keys : /\ x[2] = name[k] /\ Entry(Container, x) # None
                            /\ held'[k].object = Entry(Container, x)),
         p \in {"lookup", "verify", "ready", "delete"} => name[k] \in Names,
         p = "delete" => Private(k),
         call'[k].at = "upgrade" =>
           /\ p = "lookup"
           /\ call'[k].container = Container /\ call'[k].type = Type
           /\ call'[k].name = name[k],
         \A t \in Threads \ Kernels : call'[t] = call[t],
         \A c \in Containers, x \in Keys : Entry(c, x)' \in {Entry(c, x), None},
         DistinctHashes /\ p \in {"new", "gone"} /\ name[k] \in Nat /\ Stored(name[k])' =>
           name[k] \in abandoned'
  PROVE  KernelInv'
<1> USE KernelFacts
<1>1. \A j \in Kernels : at'[j] = IF j = k THEN p ELSE at[j]
  BY DEF Inv, KernelInv, KernelTypes
<1>2. KernelTypes'
  BY DEF Inv, KernelInv, KernelTypes
<1>3. PlaceInv'
  BY <1>1 DEF Inv, KernelInv, PlaceInv, Private
<1>4. NameInv'
  BY DEF Inv, KernelInv, NameInv, Private
<1>5. HeldInv'
  <2>1. \A j \in Kernels, c \in Containers, x \in Keys :
          held'[j] # None /\ Entry(c, x) = held'[j].object => x[2] = name[j]
    <3> SUFFICES ASSUME NEW j \in Kernels, NEW c \in Containers, NEW x \in Keys,
                        held'[j] # None, Entry(c, x) = held'[j].object
                 PROVE  x[2] = name[j]
      OBVIOUS
    <3>1. CASE held'[j] = held[j]
      BY <3>1 DEF Inv, KernelInv, HeldInv
    <3>2. CASE held'[j] # held[j]
      <4>1. j = k
        BY <3>2
      <4>2. PICK y \in Keys : /\ y[2] = name[k] /\ Entry(Container, y) # None
                              /\ held'[k].object = Entry(Container, y)
        BY <3>2, <4>1
      <4>3. x = y
        BY <4>1, <4>2 DEF Inv, MgrInv, OneEntry
      <4> QED BY <4>1, <4>2, <4>3
    <3> QED BY <3>1, <3>2
  <2>2. \A j \in Kernels : j # k /\ held[j] # None /\ held'[k] # None /\
                           held[j].object = held'[k].object => name[j] = name[k]
    <3> SUFFICES ASSUME NEW j \in Kernels, j # k, held[j] # None, held'[k] # None,
                        held[j].object = held'[k].object
                 PROVE  name[j] = name[k]
      OBVIOUS
    <3>1. CASE held'[k] = held[k]
      BY <3>1 DEF Inv, KernelInv, HeldInv
    <3>2. CASE held'[k] # held[k]
      <4>1. PICK y \in Keys : /\ y[2] = name[k] /\ Entry(Container, y) # None
                              /\ held'[k].object = Entry(Container, y)
        BY <3>2
      <4> QED BY <4>1 DEF Inv, KernelInv, HeldInv
    <3> QED BY <3>1, <3>2
  <2>3. \A j \in Kernels : held'[j] # None => held'[j].object # None
    <3> SUFFICES ASSUME NEW j \in Kernels, held'[j] # None PROVE held'[j].object # None
      OBVIOUS
    <3>1. CASE held'[j] = held[j]
      BY <3>1, HeldFacts DEF Inv, MgrInv
    <3>2. CASE held'[j] # held[j]
      BY <3>2
    <3> QED BY <3>1, <3>2
  <2>4. \A j \in Kernels, c \in Containers, x \in Keys :
          held'[j] # None /\ Entry(c, x)' = held'[j].object => x[2] = name[j]
    BY <2>1, <2>3
  <2>5. \A i, j \in Kernels :
          held'[i] # None /\ held'[j] # None /\ held'[i].object = held'[j].object =>
            name[i] = name[j]
    BY <2>2 DEF Inv, KernelInv, HeldInv
  <2> QED BY <2>4, <2>5 DEF HeldInv
<1>6. \A n : Stored(n)' => Stored(n)
  BY StoredNext
<1>7. StoredInv'
  <2>1. \A x \in Keys : x[2] \in Nat /\ Entry(Container, x)' # None => x[1] = HashCode[Type]
    BY DEF Inv, KernelInv, StoredInv
  <2>2. DistinctHashes => PrivateDeleted'
    <3> SUFFICES ASSUME DistinctHashes, NEW n \in Names \cap Nat, Stored(n)'
                 PROVE  \/ n \in abandoned'
                        \/ \E j \in Kernels : name'[j] = n /\ at'[j] # "gone"
      BY DEF PrivateDeleted
    <3>1. n \in abandoned \/ \E j \in Kernels : name[j] = n /\ at[j] # "gone"
      BY <1>6 DEF Inv, KernelInv, StoredInv, PrivateDeleted
    <3> QED BY <1>1, <3>1
  <2>3. DistinctHashes => \A j \in Kernels :
          at'[j] = "new" /\ name[j] \in Nat /\ Stored(name[j])' => name[j] \in abandoned'
    <3> SUFFICES ASSUME DistinctHashes, NEW j \in Kernels, at'[j] = "new",
                        name[j] \in Nat, Stored(name[j])'
                 PROVE  name[j] \in abandoned'
      OBVIOUS
    <3>1. CASE j = k
      BY <1>1, <3>1
    <3>2. CASE j # k
      <4>1. PICK n \in Nat : n = name[j] /\ n = name'[j]
        OBVIOUS
      <4>2. Stored(n)
        BY <1>6, <4>1
      <4> QED BY <1>1, <3>2, <4>1, <4>2 DEF Inv, KernelInv, StoredInv
    <3> QED BY <3>1, <3>2
  <2> QED BY <2>1, <2>2, <2>3 DEF StoredInv
<1> QED BY <1>2, <1>3, <1>4, <1>5, <1>7 DEF KernelInv

\* Nothing is stored under a number whose entry for T is empty.
LEMMA NotStored ==
  ASSUME Inv, NEW n \in Names \cap Nat, Entry(Container, Key(Type, n)) = None
  PROVE  ~Stored(n)
<1> SUFFICES ASSUME NEW x \in Keys, x[2] = n, Entry(Container, x) # None PROVE FALSE
  BY DEF Stored
<1>1. x[1] = HashCode[Type]
  BY DEF Inv, KernelInv, StoredInv
<1>2. x = Key(Type, n)
  BY <1>1 DEF Key, Keys
<1> QED BY <1>2

\* LookupOrCreate of a kernel finds nothing at first.
LEMMA LookupFailsKernel ==
  ASSUME Inv, NEW k \in Kernels, at[k] = "lookup",
         LookupFails(k, Container, Type, name[k]),
         at' = [at EXCEPT ![k] = "lookup"], UNCHANGED <<sharedName, name, counter, abandoned>>
  PROVE  Inv'
<1> USE KernelFacts
<1>1. name[k] \in Names
  BY DEF Inv, KernelInv, PlaceInv
<1>2. MgrInv'
  BY <1>1, LookupFailsInv DEF Inv
<1>3. /\ UNCHANGED <<containers, held>> /\ held[k] = None
      /\ call' = [call EXCEPT ![k] = [at |-> "upgrade", container |-> Container,
                                      type |-> Type, name |-> name[k]]]
  BY DEF LookupFails, Become, table
<1>4. \A c \in Containers, x \in Keys : Entry(c, x)' = Entry(c, x)
  BY <1>3, SameContainers
<1>5. /\ call'[k] = [at |-> "upgrade", container |-> Container, type |-> Type, name |-> name[k]]
      /\ \A t \in Threads : t # k => call'[t] = call[t]
  BY <1>3 DEF Inv, MgrInv, MgrTypes
<1>6. /\ call'[k].container = Container /\ call'[k].type = Type
      /\ call'[k].name = name[k]
  BY <1>5
<1>7. PICK p \in {"new", "lookup", "verify", "ready", "delete", "gone"} : p = "lookup"
  OBVIOUS
<1>8. KernelInv'
  <2>1. at' = [at EXCEPT ![k] = p] /\ p \notin {"verify", "ready", "delete", "new", "gone"}
    BY <1>7
  <2>2. \A j \in Kernels : j # k => held'[j] = held[j] /\ call'[j] = call[j]
    BY <1>3, <1>5
  <2>3. \A t \in Threads \ Kernels : call'[t] = call[t]
    BY <1>5
  <2>4. (held'[k] # None <=> p \in {"verify", "ready"}) /\ held'[k] \in {held[k], None}
    BY <1>3, <2>1
  <2>5. p = "delete" => Private(k)
    BY <2>1
  <2>6. DistinctHashes /\ p \in {"new", "gone"} /\ name[k] \in Nat /\ Stored(name[k])' =>
           name[k] \in abandoned'
    BY <2>1
  <2>7. \A c \in Containers, x \in Keys : Entry(c, x)' \in {Entry(c, x), None}
    BY <1>4
  <2>8. call'[k].at = "upgrade" =>
           /\ p = "lookup"
           /\ call'[k].container = Container /\ call'[k].type = Type
           /\ call'[k].name = name[k]
    BY <1>6, <1>7
  <2>9. UNCHANGED <<sharedName, name, counter>> /\ abandoned \subseteq abandoned'
    OBVIOUS
  <2>10. p \in {"lookup", "verify", "ready", "delete"} => name[k] \in Names
    BY <1>1
  <2> QED BY <2>1, <2>2, <2>3, <2>4, <2>5, <2>6, <2>7, <2>8, <2>9, <2>10, KernelMoves
<1> QED BY <1>2, <1>8 DEF Inv

\* The first lookup of a kernel, or the second, finds the resource.
LEMMA TakeKernel ==
  ASSUME Inv, NEW k \in Kernels, at[k] = "lookup", MgrInv',
         NEW o, o # None, o = Entry(Container, Key(Type, name[k])), Take(k, o, Type),
         at' = [at EXCEPT ![k] = "verify"], UNCHANGED <<sharedName, name, counter, abandoned>>,
         (call[k] = Idle /\ UNCHANGED call) \/ call' = [call EXCEPT ![k] = Idle]
  PROVE  Inv'
<1> USE KernelFacts
<1>1. name[k] \in Names
  BY DEF Inv, KernelInv, PlaceInv
<1>2. PICK x \in Keys : x = Key(Type, name[k]) /\ x[2] = name[k]
  BY <1>1, KeyFacts
<1>3. o \in Objects /\ [object |-> o, as |-> Type] # None
  <2>1. o \in Objects
    BY <1>2, EntryFacts DEF Inv, MgrInv
  <2>2. [object |-> o, as |-> Type] \in Reference
    BY <2>1 DEF Reference
  <2> QED BY <2>1, <2>2, NoneFacts
<1>4. /\ UNCHANGED containers
      /\ held'[k] = [object |-> o, as |-> Type]
      /\ \A j \in Kernels : j # k => held'[j] = held[j]
  BY DEF Take, table, Inv, MgrInv, MgrTypes
<1>5. call'[k] = Idle /\ Idle.at = "idle" /\ \A t \in Threads : t # k => call'[t] = call[t]
  BY DEF Inv, MgrInv, MgrTypes, Idle
<1>6. \A c \in Containers, y \in Keys : Entry(c, y)' = Entry(c, y)
  BY <1>4, SameContainers
<1>7. held'[k] # None /\ held'[k].object = Entry(Container, x)
  BY <1>2, <1>3, <1>4
<1>8. KernelInv'
  BY <1>1, <1>2, <1>4, <1>5, <1>6, <1>7, KernelMoves, ZenonT(60)
<1> QED BY <1>8 DEF Inv

\* LookupOrCreate creates the resource of a kernel.
LEMMA CreateKernel ==
  ASSUME Inv, NEW k \in Kernels, at[k] = "lookup", MgrInv',
         Entry(Container, Key(Type, name[k])) = None, NEW refs,
         DoCreate(Container, Key(Type, name[k]), Type, refs),
         \/ held'[k] = [object |-> Fresh, as |-> Type] /\ at' = [at EXCEPT ![k] = "verify"]
         \/ held'[k] = None /\ at' = [at EXCEPT ![k] = "new"] /\ ~DistinctHashes,
         \A j \in Kernels : j # k => held'[j] = held[j],
         call' = [call EXCEPT ![k] = Idle],
         UNCHANGED <<sharedName, name, counter, abandoned>>
  PROVE  Inv'
<1> USE KernelFacts
<1>1. name[k] \in Names
  BY DEF Inv, KernelInv, PlaceInv
<1>2. PICK x \in Keys : x = Key(Type, name[k]) /\ x[1] = HashCode[Type] /\ x[2] = name[k]
  BY <1>1, KeyFacts
<1>3. PICK f \in Objects : f = Fresh /\ NoOwner(f)
  BY <1>2, DoCreateEntry DEF Inv
<1>4. \A d \in Containers, y \in Keys :
        Entry(d, y)' = IF d = Container /\ y = x THEN f ELSE Entry(d, y)
  BY <1>2, <1>3, DoCreateEntry DEF Inv
<1>5. call'[k] = Idle /\ Idle.at = "idle" /\ \A t \in Threads : t # k => call'[t] = call[t]
  BY DEF Inv, MgrInv, MgrTypes, Idle
<1>6. PICK p \in {"verify", "new"} :
        /\ at' = [at EXCEPT ![k] = p]
        /\ p = "verify" => held'[k] = [object |-> f, as |-> Type]
        /\ p = "new" => held'[k] = None /\ ~DistinctHashes
  BY <1>3
<1>7. [object |-> f, as |-> Type] # None
  <2>1. [object |-> f, as |-> Type] \in Reference
    BY DEF Reference
  <2> QED BY <2>1, NoneFacts
<1>8. \A j \in Kernels : at'[j] = IF j = k THEN p ELSE at[j]
  BY <1>6 DEF Inv, KernelInv, KernelTypes
<1>9. KernelTypes'
  BY <1>6 DEF Inv, KernelInv, KernelTypes
<1>10. PlaceInv'
  BY <1>1, <1>5, <1>6, <1>7, <1>8 DEF Inv, KernelInv, PlaceInv, Private
<1>11. NameInv'
  BY <1>5 DEF Inv, KernelInv, NameInv, Private
<1>12. /\ \A j \in Kernels : held[j] # None => held[j].object # f /\ held[j].object # None
       /\ \A d \in Containers, y \in Keys : Entry(d, y) # f
  BY <1>3, HeldFacts, EntriesElement DEF NoOwner, Inv, MgrInv
<1>13. HeldInv'
  <2>1. \A j \in Kernels, d \in Containers, y \in Keys :
          held'[j] # None /\ Entry(d, y)' = held'[j].object => y[2] = name[j]
    <3> SUFFICES ASSUME NEW j \in Kernels, NEW d \in Containers, NEW y \in Keys,
                        held'[j] # None, Entry(d, y)' = held'[j].object
                 PROVE  y[2] = name[j]
      OBVIOUS
    <3>1. CASE j = k
      <4>1. held'[k].object = f
        BY <1>6, <3>1
      <4> QED BY <1>2, <1>4, <1>12, <3>1, <4>1
    <3>2. CASE j # k
      BY <1>4, <1>12, <3>2 DEF Inv, KernelInv, HeldInv
    <3> QED BY <3>1, <3>2
  <2>2. \A i, j \in Kernels :
          held'[i] # None /\ held'[j] # None /\ held'[i].object = held'[j].object =>
            name[i] = name[j]
    BY <1>6, <1>12 DEF Inv, KernelInv, HeldInv
  <2> QED BY <2>1, <2>2 DEF HeldInv
<1>14. \A n : Stored(n)' => Stored(n) \/ n = name[k]
  BY <1>2, <1>4 DEF Stored
<1>15. StoredInv'
  <2>1. \A y \in Keys : y[2] \in Nat /\ Entry(Container, y)' # None => y[1] = HashCode[Type]
    BY <1>2, <1>4 DEF Inv, KernelInv, StoredInv
  <2>2. DistinctHashes => PrivateDeleted'
    <3> SUFFICES ASSUME DistinctHashes, NEW n \in Names \cap Nat, Stored(n)'
                 PROVE  \/ n \in abandoned
                        \/ \E j \in Kernels : name[j] = n /\ at'[j] # "gone"
      BY DEF PrivateDeleted
    <3>1. CASE n = name[k]
      BY <1>8, <3>1
    <3>2. CASE n # name[k]
      <4>1. n \in abandoned \/ \E j \in Kernels : name[j] = n /\ at[j] # "gone"
        BY <1>14, <3>2 DEF Inv, KernelInv, StoredInv, PrivateDeleted
      <4> QED BY <1>8, <3>2, <4>1
    <3> QED BY <3>1, <3>2
  <2>3. DistinctHashes => \A j \in Kernels :
          at'[j] = "new" /\ name[j] \in Nat /\ Stored(name[j])' => name[j] \in abandoned
    <3> SUFFICES ASSUME DistinctHashes, NEW j \in Kernels, at'[j] = "new",
                        name[j] \in Nat, Stored(name[j])'
                 PROVE  name[j] \in abandoned
      OBVIOUS
    <3>1. j # k
      BY <1>6, <1>8
    <3>2. PICK n \in Nat : n = name[j] /\ n = name'[j]
      OBVIOUS
    <3>3. n # name[k]
      BY <3>1, <3>2 DEF Inv, KernelInv, NameInv
    <3>4. Stored(n)
      BY <1>14, <3>2, <3>3
    <3> QED BY <1>8, <3>1, <3>2, <3>4 DEF Inv, KernelInv, StoredInv
  <2> QED BY <2>1, <2>2, <2>3 DEF StoredInv
<1> QED BY <1>9, <1>10, <1>11, <1>13, <1>15 DEF Inv, KernelInv

\* LookupOrCreate of a kernel.
LEMMA LookupResourceInv ==
  ASSUME Inv, NEW k \in Kernels, LookupResource(k), UNCHANGED sharedName
  PROVE  Inv'
<1> USE KernelFacts
<1>1. /\ at[k] = "lookup" /\ name[k] \in Names /\ held[k] = None
      /\ UNCHANGED <<sharedName, name, counter, abandoned>>
      /\ at' = [at EXCEPT ![k] = IF held'[k] # None THEN "verify"
                                 ELSE IF call'[k] = Idle THEN "new" ELSE "lookup"]
  BY DEF LookupResource, Inv, KernelInv, PlaceInv
<1>2. PICK x \in Keys : x = Key(Type, name[k]) /\ x[1] = HashCode[Type]
  BY <1>1, KeyFacts
<1>3. ASSUME NEW o, o = Entry(Container, x), o # None, Take(k, o, Type)
      PROVE  held'[k] # None /\ at' = [at EXCEPT ![k] = "verify"]
  <2>1. o \in Objects
    BY <1>3, EntryFacts DEF Inv, MgrInv
  <2>2. [object |-> o, as |-> Type] \in Reference
    BY <2>1 DEF Reference
  <2>3. held'[k] = [object |-> o, as |-> Type]
    BY <1>3 DEF Take, Inv, MgrInv, MgrTypes
  <2> QED BY <1>1, <2>2, <2>3, NoneFacts
<1>4. CASE Lookup(k, Container, Type, name[k])
  <2>1. PICK o : o = Entry(Container, x)
    OBVIOUS
  <2>2. o # None /\ Take(k, o, Type) /\ call[k] = Idle /\ UNCHANGED call
    BY <1>2, <1>4, <2>1 DEF Lookup, Ready
  <2>3. MgrInv'
    BY <1>1, <1>4, LookupInv DEF Inv
  <2>4. at' = [at EXCEPT ![k] = "verify"]
    BY <1>3, <2>1, <2>2
  <2> QED BY <1>1, <1>2, <2>1, <2>2, <2>3, <2>4, TakeKernel
<1>5. CASE LookupFails(k, Container, Type, name[k])
  <2>1. held'[k] = None /\ call'[k] # Idle
    BY <1>1, <1>5 DEF LookupFails, Become, Idle, Inv, MgrInv, MgrTypes
  <2>2. at' = [at EXCEPT ![k] = "lookup"]
    BY <1>1, <2>1
  <2> QED BY <1>1, <1>5, <2>2, LookupFailsKernel
<1>6. CASE LookupOrCreate(k)
  <2>1. MgrInv'
    BY <1>6, LookupOrCreateInv DEF Inv
  <2>2. /\ call[k].at = "upgrade"
        /\ call[k].container = Container /\ call[k].type = Type /\ call[k].name = name[k]
        /\ call' = [call EXCEPT ![k] = Idle]
    BY <1>6 DEF LookupOrCreate, Become, Inv, KernelInv, PlaceInv
  <2>3. call'[k] = Idle /\ Idle.at = "idle" /\ \A t \in Threads : t # k => call'[t] = call[t]
    BY <2>2 DEF Inv, MgrInv, MgrTypes, Idle
  <2>4. CASE Entry(Container, x) # None
    <3>1. PICK o : o = Entry(Container, x)
      OBVIOUS
    <3>2. Take(k, o, Type)
      BY <1>2, <1>6, <2>2, <2>4, <3>1 DEF LookupOrCreate, SecondLookup
    <3>3. at' = [at EXCEPT ![k] = "verify"]
      BY <1>3, <2>4, <3>1, <3>2
    <3> QED BY <1>1, <1>2, <2>1, <2>2, <2>4, <3>1, <3>2, <3>3, TakeKernel
  <2>5. CASE Entry(Container, x) = None /\ UNCHANGED <<table, objects, held, unexpected>>
    <3>1. at' = [at EXCEPT ![k] = "new"] /\ UNCHANGED <<containers, held>>
      BY <1>1, <2>3, <2>5 DEF table
    <3>2. \A c \in Containers, y \in Keys : Entry(c, y)' = Entry(c, y)
      BY <3>1, SameContainers
    <3>3. name[k] \in Nat => ~Stored(name[k])'
      <4>1. name[k] \in Nat => ~Stored(name[k])
        BY <1>1, <1>2, <2>5, NotStored
      <4>2. UNCHANGED name
        BY <1>1
      <4> QED BY <3>2, <4>1, <4>2 DEF Stored
    <3>4. KernelInv'
      BY <1>1, <2>3, <3>1, <3>2, <3>3, KernelMoves, ZenonT(60)
    <3> QED BY <2>1, <3>4 DEF Inv
  <2>6. CASE Entry(Container, x) = None /\ ~UNCHANGED <<table, objects, held, unexpected>>
    <3>1. PICK ok \in BOOLEAN :
            /\ ok = ~Collision(x, Type)
            /\ DoCreate(Container, x, Type, IF ok THEN 2 ELSE 1)
            /\ held' = [held EXCEPT ![k] = IF ok THEN [object |-> Fresh, as |-> Type] ELSE None]
            /\ unexpected' = (unexpected \/ ~ok)
      <4>1. /\ DoCreate(Container, x, Type, IF ~Collision(x, Type) THEN 2 ELSE 1)
            /\ held' = [held EXCEPT ![k] = IF ~Collision(x, Type)
                                           THEN [object |-> Fresh, as |-> Type] ELSE None]
            /\ unexpected' = (unexpected \/ Collision(x, Type))
        BY <1>2, <1>6, <2>2, <2>6 DEF LookupOrCreate, SecondLookup
      <4> QED BY <4>1
    <3>2. /\ held'[k] = IF ok THEN [object |-> Fresh, as |-> Type] ELSE None
          /\ \A j \in Kernels : j # k => held'[j] = held[j]
      BY <3>1 DEF Inv, MgrInv, MgrTypes
    <3>3. Fresh \in Objects
      BY <2>6, <3>1, DoCreateEntry DEF Inv
    <3>4. [object |-> Fresh, as |-> Type] # None
      <4>1. [object |-> Fresh, as |-> Type] \in Reference
        BY <3>3 DEF Reference
      <4> QED BY <4>1, NoneFacts
    <3>5. CASE ok
      <4>1. at' = [at EXCEPT ![k] = "verify"]
        BY <1>1, <3>2, <3>4, <3>5
      <4> QED BY <1>1, <1>2, <2>1, <2>2, <2>6, <3>1, <3>2, <3>5, <4>1, CreateKernel, ZenonT(60)
    <3>6. CASE ~ok
      <4>1. at' = [at EXCEPT ![k] = "new"]
        BY <1>1, <2>3, <3>2, <3>6
      <4>2. ~DistinctHashes
        BY <2>1, <3>1, <3>6 DEF MgrInv
      <4> QED BY <1>1, <1>2, <2>1, <2>2, <2>6, <3>1, <3>2, <3>6, <4>1, <4>2, CreateKernel
    <3> QED BY <3>5, <3>6
  <2> QED BY <2>4, <2>5, <2>6
<1> QED BY <1>4, <1>5, <1>6 DEF LookupResource

\* A kernel drops its resource.
LEMMA ReleaseKernel ==
  ASSUME Inv, NEW k \in Kernels, Release(k)
  PROVE  /\ MgrInv' /\ UNCHANGED containers
         /\ held'[k] = None /\ call'[k].at # "upgrade"
         /\ \A t \in Threads : t # k => held'[t] = held[t] /\ call'[t] = call[t]
<1> USE KernelFacts
<1>1. MgrInv'
  BY ReleaseInv DEF Inv
<1>2. PICK objs \in SUBSET Objects : objs = {held[k].object}
  BY HeldFacts DEF Release, Inv, MgrInv
<1>3. /\ call' = [call EXCEPT ![k] = Owes(objs)] /\ UNCHANGED containers
      /\ held' = [held EXCEPT ![k] = None]
  BY <1>2 DEF Release, Become, table
<1>4. Owes(objs).at # "upgrade"
  BY OwesType
<1> QED BY <1>1, <1>3, <1>4 DEF Inv, MgrInv, MgrTypes

\* The rest of Compute, and the destructor.
LEMMA VerifyInv ==
  ASSUME Inv, NEW k \in Kernels, VerifyResource(k) \/ VerifyFails(k), UNCHANGED sharedName
  PROVE  Inv'
<1> USE KernelFacts
<1>1. CASE VerifyResource(k)
  <2>1. /\ at' = [at EXCEPT ![k] = "ready"] /\ at[k] = "verify"
        /\ UNCHANGED <<vars, name, counter, abandoned>>
    BY <1>1 DEF VerifyResource, Go
  <2>2. UNCHANGED <<containers, typeNames, mu, objects, held, call, unexpected>>
    BY <2>1 DEF vars, table
  <2>3. MgrInv'
    BY <2>2, MgrUnchanged DEF Inv, MgrInv, MgrTypes
  <2>4. \A c \in Containers, x \in Keys : Entry(c, x)' = Entry(c, x)
    BY <2>2, SameContainers
  <2>5. held[k] # None /\ name[k] \in Names /\ call[k].at # "upgrade"
    BY <2>1 DEF Inv, KernelInv, PlaceInv
  <2>6. KernelInv'
    BY <2>1, <2>2, <2>4, <2>5, KernelMoves
  <2> QED BY <2>3, <2>6 DEF Inv
<1>2. CASE VerifyFails(k)
  <2>1. /\ at' = [at EXCEPT ![k] = "new"] /\ Release(k)
        /\ abandoned' = IF Private(k) THEN abandoned \cup {name[k]} ELSE abandoned
        /\ UNCHANGED <<name, counter>>
    BY <1>2 DEF VerifyFails, Go
  <2>2. /\ MgrInv' /\ UNCHANGED containers
        /\ held'[k] = None /\ call'[k].at # "upgrade"
        /\ \A t \in Threads : t # k => held'[t] = held[t] /\ call'[t] = call[t]
    BY <2>1, ReleaseKernel
  <2>3. \A c \in Containers, x \in Keys : Entry(c, x)' = Entry(c, x)
    BY <2>2, SameContainers
  <2>4. name[k] \in Nat => Private(k)
    BY ResourceAssumption DEF Inv, KernelInv, KernelTypes, NameInv, Private
  <2>5. KernelInv'
    BY <2>1, <2>2, <2>3, <2>4, KernelMoves
  <2> QED BY <2>2, <2>5 DEF Inv
<1> QED BY <1>1, <1>2

\* The destructor of a kernel gives its reference up.
LEMMA DestroyInv ==
  ASSUME Inv, NEW k \in Kernels, Destroy(k), UNCHANGED sharedName
  PROVE  Inv'
<1> USE KernelFacts
<1>1. call[k] = Idle /\ call[k].at = "idle" /\ UNCHANGED <<name, counter, abandoned>>
  BY DEF Destroy, Idle
<1>2. CASE Go(k, "new", "gone") /\ UNCHANGED vars
  <2>1. /\ at' = [at EXCEPT ![k] = "gone"] /\ at[k] = "new"
        /\ UNCHANGED <<containers, typeNames, mu, objects, held, call, unexpected>>
    BY <1>2 DEF Go, vars, table
  <2>2. MgrInv'
    BY <2>1, MgrUnchanged DEF Inv, MgrInv, MgrTypes
  <2>3. \A c \in Containers, x \in Keys : Entry(c, x)' = Entry(c, x)
    BY <2>1, SameContainers
  <2>4. held[k] = None
    BY <2>1 DEF Inv, KernelInv, PlaceInv
  <2>5. DistinctHashes /\ name[k] \in Nat /\ Stored(name[k])' => name[k] \in abandoned'
    <3>1. Stored(name[k])' => Stored(name[k])
      BY <1>1, <2>3 DEF Stored
    <3> QED BY <1>1, <2>1, <3>1 DEF Inv, KernelInv, StoredInv
  <2>6. KernelInv'
    BY <1>1, <2>1, <2>3, <2>4, <2>5, KernelMoves
  <2> QED BY <2>2, <2>6 DEF Inv
<1>3. CASE Go(k, "ready", IF Private(k) THEN "delete" ELSE "gone") /\ Release(k)
  <2>1. PICK p \in {"delete", "gone"} :
          /\ at' = [at EXCEPT ![k] = p] /\ at[k] = "ready"
          /\ p = "delete" <=> Private(k)
    BY <1>3 DEF Go
  <2>2. /\ MgrInv' /\ UNCHANGED containers
        /\ held'[k] = None /\ call'[k].at # "upgrade"
        /\ \A t \in Threads : t # k => held'[t] = held[t] /\ call'[t] = call[t]
    BY <1>3, ReleaseKernel
  <2>3. \A c \in Containers, x \in Keys : Entry(c, x)' = Entry(c, x)
    BY <2>2, SameContainers
  <2>4. name[k] \in Names
    BY <2>1 DEF Inv, KernelInv, PlaceInv
  <2>5. p = "gone" => name[k] \notin Nat
    BY <2>1, <2>4, NoneFacts DEF Inv, KernelInv, KernelTypes, NameInv, Private
  <2>6. KernelInv'
    BY <1>1, <2>1, <2>2, <2>3, <2>4, <2>5, KernelMoves
  <2> QED BY <2>2, <2>6 DEF Inv
<1> QED BY <1>2, <1>3 DEF Destroy

\* The destructor of a kernel deletes its private resource, or finds it
\* deleted.
LEMMA DeletePrivateInv ==
  ASSUME Inv, NEW k \in Kernels, DeletePrivate(k), UNCHANGED sharedName
  PROVE  Inv'
<1> USE KernelFacts
<1>1. /\ at' = [at EXCEPT ![k] = "gone"] /\ at[k] = "delete"
      /\ UNCHANGED <<name, counter, abandoned>>
  BY DEF DeletePrivate, Go
<1>2. name[k] \in Names /\ held[k] = None /\ call[k].at # "upgrade"
  BY <1>1 DEF Inv, KernelInv, PlaceInv
<1>3. PICK x \in Keys : x = Key(Type, name[k])
  BY <1>2, KeyFacts
<1>4. CASE Delete(k, Container, Type, name[k])
  <2>1. MgrInv'
    BY <1>2, <1>4, DeleteInv DEF Inv
  <2>2. PICK objs \in SUBSET Objects : objs = {Entry(Container, x)}
    BY <1>3, <1>4, EntryFacts DEF Delete, Inv, MgrInv
  <2>3. UNCHANGED held /\ call' = [call EXCEPT ![k] = Owes(objs)]
    BY <1>3, <1>4, <2>2 DEF Delete, Become
  <2>4. \A d \in Containers, y \in Keys :
          Entry(d, y)' = IF d = Container /\ y = x THEN None ELSE Entry(d, y)
    BY <1>3, <1>4, DeleteEntry DEF Delete, Inv
  <2>5. Owes(objs).at # "upgrade"
    BY OwesType
  <2>6. call'[k].at # "upgrade" /\ \A t \in Threads : t # k => call'[t] = call[t]
    BY <2>3, <2>5 DEF Inv, MgrInv, MgrTypes
  <2>7. name[k] \in Nat => ~Stored(name[k])'
    <3> SUFFICES ASSUME name[k] \in Nat, NEW y \in Keys, y[2] = name[k],
                        Entry(Container, y)' # None
                 PROVE  FALSE
      BY <1>1 DEF Stored
    <3>1. Entry(Container, y) # None /\ y # x
      BY <2>4
    <3>2. y[1] = HashCode[Type]
      BY <3>1 DEF Inv, KernelInv, StoredInv
    <3>3. y = x
      BY <1>3, <3>2 DEF Key, Keys
    <3> QED BY <3>1, <3>3
  <2>8. \A d \in Containers, y \in Keys : Entry(d, y)' \in {Entry(d, y), None}
    BY <2>4
  <2>9. KernelInv'
    BY <1>1, <1>2, <2>3, <2>6, <2>7, <2>8, KernelMoves
  <2> QED BY <2>1, <2>9 DEF Inv
<1>5. CASE Entry(Container, x) = None /\ UNCHANGED vars
  <2>1. UNCHANGED <<containers, typeNames, mu, objects, held, call, unexpected>>
    BY <1>5 DEF vars, table
  <2>2. MgrInv'
    BY <2>1, MgrUnchanged DEF Inv, MgrInv, MgrTypes
  <2>3. \A c \in Containers, y \in Keys : Entry(c, y)' = Entry(c, y)
    BY <2>1, SameContainers
  <2>4. name[k] \in Nat => ~Stored(name[k])'
    <3>1. name[k] \in Nat => ~Stored(name[k])
      BY <1>2, <1>3, <1>5, NotStored
    <3> QED BY <1>1, <2>3, <3>1 DEF Stored
  <2>5. KernelInv'
    BY <1>1, <1>2, <2>1, <2>3, <2>4, KernelMoves
  <2> QED BY <2>2, <2>5 DEF Inv
<1> QED BY <1>3, <1>4, <1>5 DEF DeletePrivate

\* Every step preserves the invariant.
LEMMA NextInv == Inv /\ [Next]_allVars => Inv'
<1> SUFFICES ASSUME Inv, [Next]_allVars PROVE Inv'
  OBVIOUS
<1>1. CASE UNCHANGED allVars
  <2>1. /\ UNCHANGED <<containers, typeNames, mu, objects, held, call, unexpected>>
        /\ UNCHANGED kernelVars
    BY <1>1 DEF allVars, vars, table
  <2>2. MgrInv'
    BY <2>1, MgrUnchanged DEF Inv, MgrInv, MgrTypes
  <2>3. \A c \in Containers, y \in Keys : Entry(c, y)' = Entry(c, y)
    BY <2>1, SameContainers
  <2>4. \A u \in Threads \ Kernels : call'[u].at = "upgrade" => call'[u].name \notin Nat
    BY <2>1 DEF Inv, KernelInv, NameInv
  <2>5. KernelInv'
    BY <2>1, <2>3, <2>4, ClientInv
  <2> QED BY <2>2, <2>5 DEF Inv
<1>2. ASSUME NEW k \in Kernels, KernelStep(k), UNCHANGED sharedName PROVE Inv'
  BY <1>2, ContainerInfoInv, LookupResourceInv, VerifyInv, DestroyInv, DeletePrivateInv
     DEF KernelStep
<1> QED BY <1>1, <1>2, ClientStepInv, ContinueInv DEF Next

\* The invariant holds of every behaviour.
THEOREM Invariance == Spec => []Inv
BY KernelInitInv, NextInv, PTL DEF Spec

\* ref_ is the number of owners, while any number of clients and kernels look
\* up, create, delete, clean up and drop references.
THEOREM RefExactHolds == Spec => []RefExact
<1>1. Inv => RefExact
  BY DEF Inv, MgrInv, CountInv, Exact, RefExact
<1> QED BY <1>1, Invariance, PTL

\* Nothing that the map or a client can reach was deleted, although Unref loads
\* and subtracts in two steps.
THEOREM NoUseAfterFreeHolds == Spec => []NoUseAfterFree
<1>1. Inv => NoUseAfterFree
  BY DEF Inv, MgrInv, MgrTypes, LifeInv, NoOwner, NoUseAfterFree
<1> QED BY <1>1, Invariance, PTL

\* LookupOrCreate does not fail unexpectedly and every down cast is safe, when
\* no two types have the same hash code.
THEOREM LookupCorrectHolds ==
  ASSUME DistinctHashes PROVE Spec => []LookupCorrect
<1>1. Inv => LookupCorrect
  <2> SUFFICES ASSUME Inv PROVE LookupCorrect
    OBVIOUS
  <2>1. ~unexpected
    BY DEF Inv, MgrInv
  <2>2. ASSUME NEW t \in Threads, held[t] # None
        PROVE  typeOf[held[t].object] = held[t].as
    <3>1. held[t].object \in Objects /\ held[t].as \in Types /\ t \in Holders(held[t].object)
      BY <2>2 DEF Inv, MgrInv, MgrTypes, Reference, Holders
    <3>2. held[t].object \in Made
      BY <3>1 DEF Inv, MgrInv, LifeInv, NoOwner
    <3>3. typeOf[held[t].object] \in Types
      BY <3>1, <3>2 DEF Made, Inv, MgrInv, MgrTypes
    <3>4. HashCode[typeOf[held[t].object]] = HashCode[held[t].as]
      BY <2>2 DEF Inv, MgrInv, TypeInv
    <3> QED BY <3>1, <3>3, <3>4 DEF DistinctHashes
  <2> QED BY <2>1, <2>2 DEF LookupCorrect
<1> QED BY <1>1, Invariance, PTL

\* Two kernels work on one resource only if both were given its shared name.
THEOREM PrivateIsPrivateHolds == Spec => []PrivateIsPrivate
<1>1. Inv => PrivateIsPrivate
  <2> SUFFICES ASSUME Inv, NEW j \in Kernels, NEW k \in Kernels, j # k,
                      held[j] # None, held[k] # None, held[j].object = held[k].object
               PROVE  sharedName[j] # None /\ sharedName[j] = sharedName[k]
    BY DEF PrivateIsPrivate
  <2>1. name[j] = name[k] /\ name[j] \in Names
    BY DEF Inv, KernelInv, HeldInv, PlaceInv
  <2>2. name[j] \notin Nat
    BY <2>1 DEF Inv, KernelInv, NameInv
  <2>3. name[j] # None
    BY <2>1, NoneFacts
  <2>4. ~Private(j) /\ ~Private(k) /\ name[j] = sharedName[j] /\ name[k] = sharedName[k]
    BY <2>1, <2>2, <2>3 DEF Inv, KernelInv, NameInv
  <2> QED BY <2>1, <2>4 DEF Private
<1> QED BY <1>1, Invariance, PTL

\* A private name leaves the manager with its kernel unless VerifyResource made
\* the kernel give it up, when no two types have the same hash code.
THEOREM PrivateDeletedHolds ==
  ASSUME DistinctHashes PROVE Spec => []PrivateDeleted
<1>1. Inv => PrivateDeleted
  BY DEF Inv, KernelInv, StoredInv
<1> QED BY <1>1, Invariance, PTL

\* The destructor of a kernel takes away no resource that another kernel has.
THEOREM OthersKeepResourceHolds == Spec => OthersKeepResource
<1> DEFINE Keeps ==
      \A k \in Kernels : at[k] = "delete" /\ at'[k] = "gone" =>
        \A j \in Kernels \ {k}, x \in Keys :
          held[j] # None /\ Entry(Container, x) = held[j].object =>
            Entry(Container, x)' = Entry(Container, x)
<1>1. Inv /\ [Next]_allVars => [Keeps]_allVars
  <2> SUFFICES ASSUME Inv, Next,
                      NEW k \in Kernels, at[k] = "delete", at'[k] = "gone",
                      NEW j \in Kernels \ {k}, NEW x \in Keys, held[j] # None,
                      Entry(Container, x) = held[j].object
               PROVE  Entry(Container, x)' = Entry(Container, x)
    OBVIOUS
  <2> USE KernelFacts
  <2>1. DeletePrivate(k)
    <3>1. ~UNCHANGED at
      OBVIOUS
    <3>2. PICK i \in Kernels : KernelStep(i)
      BY <3>1 DEF Next, ClientStep, kernelVars
    <3>3. \E p : at' = [at EXCEPT ![i] = p]
      BY <3>2 DEF KernelStep, ContainerInfoInit, LookupResource, VerifyResource,
                  VerifyFails, Destroy, DeletePrivate, Go
    <3>4. i = k
      BY <3>3 DEF Inv, KernelInv, KernelTypes
    <3> QED
      BY <3>2, <3>4 DEF KernelStep, ContainerInfoInit, LookupResource, VerifyResource,
                        VerifyFails, Destroy, Go
  <2>2. CASE UNCHANGED vars
    BY <2>2, SameContainers DEF vars, table
  <2>3. CASE Delete(k, Container, Type, name[k])
    <3>1. name[k] \in Names /\ Private(k)
      BY DEF Inv, KernelInv, PlaceInv
    <3>2. name[k] \in Nat
      BY <3>1, NoneFacts DEF Inv, KernelInv, NameInv
    <3>3. PICK y \in Keys : y = Key(Type, name[k]) /\ y[2] = name[k]
      BY <3>1, KeyFacts
    <3>4. x[2] = name[j]
      BY DEF Inv, KernelInv, HeldInv
    <3>5. x # y
      BY <3>2, <3>3, <3>4 DEF Inv, KernelInv, NameInv
    <3> QED BY <2>3, <3>3, <3>5, DeleteEntry DEF Delete, Inv
  <2> QED BY <2>1, <2>2, <2>3 DEF DeletePrivate
<1> QED BY <1>1, Invariance, PTL DEF Spec, OthersKeepResource

-----------------------------------------------------------------------------
(***************************************************************************)
(* RefCounted: no resource is lost when its last owner goes, and the       *)
(* assertions of refcount.h hold.                                          *)
(***************************************************************************)

\* A resource is deleted when, and only when, it has no owner left: not in the
\* map, with no client, and nobody about to Unref it.
DeletedIffUnowned == \A o \in Made : o \in dead <=> NoOwner(o)

\* DCHECK_GT(ref_.load(), 0) in Unref, also between its two steps;
\* DCHECK_GE(ref_.load(), 1) in Ref, which Lookup calls on an entry; and
\* DCHECK_EQ(ref_.load(), 0) in the destructor.
RefChecks ==
  /\ \A t \in Threads : call[t].at = "unref" => \A o \in call[t].objs : ref[o] > 0
  /\ \A c \in Containers, k \in Keys : Entry(c, k) # None => ref[Entry(c, k)] >= 1
  /\ \A o \in dead : ref[o] = 0

\* Whoever takes ref_ to zero deletes the resource.
ZeroInv == \A o \in Made : ref[o] = 0 => o \in dead

\* What a step may do to the resources.
LEMMA ObjectSteps ==
  ASSUME Inv, [Next]_allVars
  PROVE  \/ UNCHANGED objects
         \/ \E t \in Threads : \E o, T : Take(t, o, T)
         \/ \E c, k, T, refs : refs \in {1, 2} /\ DoCreate(c, k, T, refs)
         \/ \E t \in Threads : UnrefLoad(t) \/ UnrefSub(t)
<1> DEFINE Goal == \/ UNCHANGED objects
                   \/ \E t \in Threads : \E o, T : Take(t, o, T)
                   \/ \E c, k, T, refs : refs \in {1, 2} /\ DoCreate(c, k, T, refs)
                   \/ \E t \in Threads : UnrefLoad(t) \/ UnrefSub(t)
<1> SUFFICES Goal
  OBVIOUS
<1>1. CASE UNCHANGED vars
  BY <1>1 DEF vars
<1>2. ASSUME NEW t \in Threads, NEW c, NEW T, NEW n,
             Create(t, c, T, n) \/ LookupFails(t, c, T, n) \/ Lookup(t, c, T, n)
               \/ Delete(t, c, T, n)
      PROVE  Goal
  <2>1. CASE Create(t, c, T, n)
    BY <2>1 DEF Create
  <2>2. CASE Lookup(t, c, T, n)
    BY <2>2 DEF Lookup
  <2>3. CASE LookupFails(t, c, T, n) \/ Delete(t, c, T, n)
    BY <2>3 DEF LookupFails, Delete
  <2> QED BY <1>2, <2>1, <2>2, <2>3
<1>3. ASSUME NEW t \in Threads, LookupOrCreate(t) PROVE Goal
  <2>1. PICK c, T, k, o, refs : refs \in {1, 2} /\
          (Take(t, o, T) \/ UNCHANGED objects \/ DoCreate(c, k, T, refs))
    <3> DEFINE c == call[t].container  T == call[t].type  k == Key(T, call[t].name)
               refs == IF Entry(c, k) = None /\ ~Collision(k, T) THEN 2 ELSE 1
    <3>1. refs \in {1, 2}
      OBVIOUS
    <3>2. Take(t, SecondLookup(c, k), T) \/ UNCHANGED objects \/ DoCreate(c, k, T, refs)
      BY <1>3 DEF LookupOrCreate
    <3> HIDE DEF c, T, k, refs
    <3> QED BY <3>1, <3>2
  <2> QED BY <2>1
<1>4. ASSUME NEW t \in Threads, Clear(t) \/ Release(t) \/ ClearEnd(t) PROVE Goal
  BY <1>4 DEF Clear, Release, ClearEnd
<1>5. ASSUME NEW t \in Threads, NEW c, Cleanup(t, c) PROVE Goal
  BY <1>5 DEF Cleanup
<1> HIDE DEF Goal
<1>6. ASSUME NEW k \in Kernels, KernelStep(k) PROVE Goal
  <2>1. k \in Threads
    BY KernelAssumption
  <2>2. CASE ContainerInfoInit(k) \/ VerifyResource(k)
    BY <1>1, <2>2 DEF ContainerInfoInit, VerifyResource
  <2>3. CASE LookupResource(k)
    BY <1>2, <1>3, <2>1, <2>3 DEF LookupResource
  <2>4. CASE VerifyFails(k) \/ Destroy(k)
    BY <1>1, <1>4, <2>1, <2>4 DEF VerifyFails, Destroy
  <2>5. CASE DeletePrivate(k)
    BY <1>1, <1>2, <2>1, <2>5 DEF DeletePrivate
  <2> QED BY <1>6, <2>2, <2>3, <2>4, <2>5 DEF KernelStep
<1>7. ASSUME NEW t \in Threads, ClientStep(t) PROVE Goal
  BY <1>2, <1>3, <1>4, <1>5, <1>7 DEF ClientStep
<1>8. ASSUME NEW t \in Threads, Continue(t) PROVE Goal
  <2>1. UnrefLoad(t) \/ UnrefSub(t) => Goal
    BY DEF Goal
  <2> QED BY <1>4, <1>8, <2>1 DEF Continue
<1> QED BY <1>1, <1>6, <1>7, <1>8 DEF Next, allVars

\* A count that becomes zero is that of a resource which is deleted with it.
LEMMA ZeroNext ==
  ASSUME Inv, ZeroInv, [Next]_allVars PROVE ZeroInv'
<1>1. /\ ref \in [Objects -> Nat] /\ dead \subseteq Objects
      /\ typeOf \in [Objects -> Types \cup {None}]
      /\ \A o : o \in Made <=> o \in Objects /\ typeOf[o] # None
      /\ \A o : o \in Made' <=> o \in Objects /\ typeOf'[o] # None
  BY DEF Inv, MgrInv, MgrTypes, Made
<1>2. CASE UNCHANGED objects
  BY <1>1, <1>2 DEF ZeroInv, objects
<1>3. ASSUME NEW t \in Threads, NEW o, NEW T, Take(t, o, T) PROVE ZeroInv'
  <2>1. ref' = [ref EXCEPT ![o] = @ + 1] /\ typeOf' = typeOf /\ dead' = dead
    BY <1>3 DEF Take, Ref
  <2>2. \A p \in Objects : ref'[p] = 0 => ref[p] = 0
    BY <1>1, <2>1
  <2> QED BY <1>1, <2>1, <2>2 DEF ZeroInv
<1>4. ASSUME NEW c, NEW k, NEW T, NEW refs \in {1, 2}, DoCreate(c, k, T, refs)
      PROVE  ZeroInv'
  <2>1. PICK f \in Objects : f = Fresh
    BY <1>4 DEF DoCreate, Fresh, Made
  <2>2. \A p \in Objects : p # f => typeOf'[p] = typeOf[p] /\ ref'[p] = ref[p]
    BY <1>1, <1>4, <2>1 DEF DoCreate
  <2>3. dead \subseteq dead' /\ (f \in dead' \/ ref'[f] # 0)
    BY <1>1, <1>4, <2>1 DEF DoCreate
  <2> QED BY <1>1, <2>2, <2>3 DEF ZeroInv
<1>5. ASSUME NEW t \in Threads, UnrefLoad(t) \/ UnrefSub(t) PROVE ZeroInv'
  <2>1. typeOf' = typeOf
    BY <1>5 DEF UnrefLoad, UnrefSub
  <2>2. PICK o : \/ ref' = ref /\ dead' = dead
                 \/ ref' = [ref EXCEPT ![o] = 0] /\ dead' = dead \cup {o}
                 \/ /\ ref' = [ref EXCEPT ![o] = @ - 1] /\ o \in Objects /\ ref[o] > 0
                    /\ dead' = IF ref[o] = 1 THEN dead \cup {o} ELSE dead
    <3>1. CASE UnrefLoad(t)
      BY <3>1 DEF UnrefLoad
    <3>2. CASE UnrefSub(t)
      <4>1. PICK o : o = call[t].sub
        OBVIOUS
      <4>2. o \in call[t].objs /\ call[t].at = "unref"
        BY <3>2, <4>1 DEF UnrefSub, Inv, MgrInv, CallInv
      <4>3. o \in Objects /\ t \in Debtors(o)
        BY <4>2 DEF Inv, MgrInv, MgrTypes, Calls, Debtors
      <4>4. ref[o] >= 1
        BY <4>3, ExactLast DEF Inv, MgrInv, CountInv
      <4>5. ref[o] > 0
        BY <1>1, <4>3, <4>4
      <4>6. ref' = [ref EXCEPT ![o] = @ - 1] /\ dead' = IF ref[o] = 1 THEN dead \cup {o} ELSE dead
        BY <3>2, <4>1 DEF UnrefSub, WasOne
      <4> QED BY <4>3, <4>5, <4>6
    <3> QED BY <1>5, <3>1, <3>2
  <2>3. dead \subseteq dead'
    BY <2>2
  <2>4. \A p \in Objects : ref'[p] = 0 => ref[p] = 0 \/ p \in dead'
    BY <1>1, <2>2
  <2> QED BY <1>1, <2>1, <2>3, <2>4 DEF ZeroInv
<1> QED BY <1>2, <1>3, <1>4, <1>5, ObjectSteps

\* A resource is neither deleted too early nor forgotten: it goes exactly when
\* its last owner does, whichever of the overlapping Unrefs is the last.
THEOREM DeletedIffUnownedHolds == Spec => []DeletedIffUnowned
<1>1. KernelInit => ZeroInv
  BY DEF KernelInit, Init, ZeroInv, Made
<1>2. ASSUME Inv, ZeroInv PROVE DeletedIffUnowned
  <2> SUFFICES ASSUME NEW o \in Made PROVE o \in dead <=> NoOwner(o)
    BY DEF DeletedIffUnowned
  <2>1. o \in Objects /\ Exact(o)
    BY <1>2 DEF Made, Inv, MgrInv, CountInv
  <2>2. o \in dead => NoOwner(o)
    BY <1>2, <2>1 DEF Inv, MgrInv, LifeInv
  <2>3. NoOwner(o) => o \in dead
    BY <1>2, <2>1, ExactNoOwner DEF ZeroInv
  <2> QED BY <2>2, <2>3
<1> QED BY <1>1, <1>2, Invariance, ZeroNext, PTL DEF Spec

\* The assertions of RefCounted hold at every Ref, Unref and destruction.
THEOREM RefChecksHold == Spec => []RefChecks
<1>1. ASSUME Inv PROVE RefChecks
  <2>1. MgrTypes /\ \A o \in Objects : Exact(o) /\ ref[o] \in Nat
    BY <1>1 DEF Inv, MgrInv, CountInv, MgrTypes
  <2>2. ASSUME NEW t \in Threads, call[t].at = "unref", NEW o \in call[t].objs
        PROVE  ref[o] > 0
    <3>1. o \in Objects /\ t \in Debtors(o)
      BY <2>1, <2>2 DEF MgrTypes, Calls, Debtors
    <3> QED BY <2>1, <3>1, ExactLast
  <2>3. ASSUME NEW c \in Containers, NEW k \in Keys, Entry(c, k) # None
        PROVE  ref[Entry(c, k)] >= 1
    <3>1. PICK o \in Objects : o = Entry(c, k)
      BY <2>1, <2>3, EntryFacts
    <3>2. <<c, k>> \in Entries(o)
      BY <3>1 DEF Entries
    <3>3. /\ Cardinality(Entries(o)) \in Nat /\ Cardinality(Holders(o)) \in Nat
          /\ Cardinality(Debtors(o)) \in Nat /\ Cardinality(Entries(o)) # 0
      BY <2>1, <3>2, FS_CardinalityType, FS_EmptySet DEF Exact
    <3> QED BY <2>1, <3>1, <3>3 DEF Exact
  <2>4. ASSUME NEW o \in dead PROVE ref[o] = 0
    <3>1. o \in Objects /\ NoOwner(o)
      BY <1>1, <2>1 DEF MgrTypes, Inv, MgrInv, LifeInv
    <3> QED BY <2>1, <3>1, ExactNoOwner
  <2> QED BY <2>2, <2>3, <2>4 DEF RefChecks
<1> QED BY <1>1, Invariance, PTL
=============================================================================
