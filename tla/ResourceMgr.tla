---------------------------- MODULE ResourceMgr -----------------------------
(***************************************************************************)
(* ResourceMgr of tensorflow/core/framework/resource_mgr.{h,cc}, with the  *)
(* reference counts of tensorflow/core/lib/core/refcount.h.                *)
(*                                                                         *)
(* Named resources in containers.  The manager has one reference to each   *)
(* resource it knows; Lookup and LookupOrCreate give the caller another.   *)
(* Delete and Cleanup take resources out under mu_ and drop the manager's  *)
(* reference after mu_ is released; Clear keeps mu_.  Unref is a load and  *)
(* a subtraction, two steps.  A resource is found under the hash code of   *)
(* its type, not its type.                                                 *)
(***************************************************************************)
EXTENDS Naturals, FiniteSets

CONSTANTS
  Threads,     \* the clients
  Containers,
  Names,
  Types,       \* C++ types
  HashCode,    \* HashCode[T]: type_index.hash_code()
  MaxObjects,  \* bound on the resources created
  None

Objects == 1..MaxObjects
Hashes == {HashCode[T] : T \in Types}
Keys == Hashes \X Names

\* A container of containers_, and what a client was given.
ContainerMap == [Keys -> Objects \cup {None}]
Reference == [object : Objects, as : Types]

\* None is none of the values that a variable may have instead of it.
ASSUME ResourceAssumption ==
  /\ MaxObjects \in Nat
  /\ DOMAIN HashCode = Types
  /\ None \notin Nat \cup Threads \cup Names \cup Types
  /\ None \notin ContainerMap \cup Reference

VARIABLES
  containers,  \* containers_: None, or key -> resource
  typeNames,   \* debug_type_names_: hash code -> type
  mu,          \* who holds mu_ from one step to the next: only Clear does
  ref,         \* ref_ of each resource
  typeOf,      \* the type each resource was created with
  dead,        \* the resources that were deleted
  held,        \* what a client has a reference to: None or [object, as]
  call,        \* what each client is doing
  unexpected   \* LookupOrCreate has returned Internal

table == <<containers, typeNames, mu>>
objects == <<ref, typeOf, dead>>
vars == <<table, objects, held, call, unexpected>>

Idle == [at |-> "idle"]
Become(t, c) == call' = [call EXCEPT ![t] = c]

\* The client owes an Unref to each of these; sub: it is between the two steps.
Owes(objs) == IF objs = {} THEN Idle ELSE [at |-> "unref", objs |-> objs, sub |-> None]

Made == {o \in Objects : typeOf[o] # None}
Fresh == CHOOSE o \in Objects \ Made : TRUE

Key(T, n) == <<HashCode[T], n>>
Entry(c, k) == IF containers[c] = None THEN None ELSE containers[c][k]
Contents(c) == {Entry(c, k) : k \in Keys} \ {None}

Init ==
  /\ containers = [c \in Containers |-> None]
  /\ typeNames = [h \in Hashes |-> None]
  /\ mu = None
  /\ ref = [o \in Objects |-> 0]
  /\ typeOf = [o \in Objects |-> None]
  /\ dead = {}
  /\ held = [t \in Threads |-> None]
  /\ call = [t \in Threads |-> Idle]
  /\ unexpected = FALSE

\* Seeded faults: a lookup takes no reference; LookupOrCreate does not look
\* again; an entry is not erased; the count is subtracted and nobody deletes.
NoRef(o) == ref
BlindLookup(c, k) == None
KeepEntry(c, k) == containers
NeverLast(o) == FALSE

Ref(o) == [ref EXCEPT ![o] = @ + 1]
SecondLookup(c, k) == Entry(c, k)
Erase(c, k) == [containers EXCEPT ![c][k] = None]
WasOne(o) == ref[o] = 1

-----------------------------------------------------------------------------
(* DoCreate, under mu_ *)

\* InsertDebugTypeName fails, after the insertion.
Collision(k, T) == typeNames[k[1]] \notin {None, T}

\* Inserts a new resource, to which the manager and the caller then have refs
\* references, or deletes it when the name is taken.
DoCreate(c, k, T, refs) ==
  /\ Made # Objects
  /\ typeOf' = [typeOf EXCEPT ![Fresh] = T]
  /\ IF Entry(c, k) = None
     THEN /\ containers' = [containers EXCEPT ![c] =
               [x \in Keys |-> IF x = k THEN Fresh ELSE Entry(c, x)]]
          /\ typeNames' = [typeNames EXCEPT ![k[1]] = IF @ = None THEN T ELSE @]
          /\ ref' = [ref EXCEPT ![Fresh] = refs]
          /\ UNCHANGED <<mu, dead>>
     ELSE /\ dead' = dead \cup {Fresh}
          /\ UNCHANGED <<table, ref>>

Ready(t) == call[t] = Idle /\ mu = None

\* The resource that the caller made belongs to the manager.
Create(t, c, T, n) ==
  /\ Ready(t) /\ held[t] = None
  /\ DoCreate(c, Key(T, n), T, 1)
  /\ UNCHANGED <<held, call, unexpected>>

-----------------------------------------------------------------------------
(* Lookup, LookupOrCreate *)

Take(t, o, T) ==
  /\ ref' = Ref(o)
  /\ held' = [held EXCEPT ![t] = [object |-> o, as |-> T]]
  /\ UNCHANGED <<table, typeOf, dead, unexpected>>

\* Under the shared lock.  NotFound changes nothing.
Lookup(t, c, T, n) ==
  /\ Ready(t) /\ held[t] = None
  /\ Entry(c, Key(T, n)) # None
  /\ Take(t, Entry(c, Key(T, n)), T)
  /\ UNCHANGED call

\* LookupOrCreate begins like Lookup; when that fails the shared lock is
\* released ...
LookupFails(t, c, T, n) ==
  /\ Ready(t) /\ held[t] = None
  /\ Entry(c, Key(T, n)) = None
  /\ Become(t, [at |-> "upgrade", container |-> c, type |-> T, name |-> n])
  /\ UNCHANGED <<table, objects, held, unexpected>>

\* ... and before mu_ is taken another thread may have created the resource;
\* if not, creator() may fail or DoCreate inserts what it made.  When the name
\* of the type collides the resource is in the map and the caller has none.
LookupOrCreate(t) ==
  LET c == call[t].container  T == call[t].type  k == Key(T, call[t].name)
      o == SecondLookup(c, k)
      ok == Entry(c, k) = None /\ ~Collision(k, T)
  IN /\ call[t].at = "upgrade" /\ mu = None
     /\ \/ o # None /\ Take(t, o, T)
        \/ o = None /\ UNCHANGED <<table, objects, held, unexpected>>
        \/ /\ o = None
           /\ DoCreate(c, k, T, IF ok THEN 2 ELSE 1)
           /\ held' = [held EXCEPT ![t] = IF ok THEN [object |-> Fresh, as |-> T] ELSE None]
           /\ unexpected' = (unexpected \/ ~ok)
     /\ Become(t, Idle)

-----------------------------------------------------------------------------
(* Delete, Cleanup, Clear *)

\* The entry is erased under mu_; the Unref comes after.
Delete(t, c, T, n) ==
  /\ Ready(t)
  /\ Entry(c, Key(T, n)) # None
  /\ containers' = Erase(c, Key(T, n))
  /\ Become(t, Owes({Entry(c, Key(T, n))}))
  /\ UNCHANGED <<typeNames, mu, objects, held, unexpected>>

Cleanup(t, c) ==
  /\ Ready(t)
  /\ containers[c] # None
  /\ containers' = [containers EXCEPT ![c] = None]
  /\ Become(t, Owes(Contents(c)))
  /\ UNCHANGED <<typeNames, mu, objects, held, unexpected>>

\* Clear drops all references before it releases mu_.
Clear(t) ==
  /\ Ready(t)
  /\ containers' = [c \in Containers |-> None]
  /\ mu' = t
  /\ Become(t, Owes(UNION {Contents(c) : c \in Containers}))
  /\ UNCHANGED <<typeNames, objects, held, unexpected>>

ClearEnd(t) ==
  /\ mu = t /\ call[t] = Idle
  /\ mu' = None
  /\ UNCHANGED <<containers, typeNames, objects, held, call, unexpected>>

-----------------------------------------------------------------------------
(* RefCounted::Unref *)

\* A client is done with its resource.
Release(t) ==
  /\ call[t] = Idle /\ mu # t
  /\ held[t] # None
  /\ Become(t, Owes({held[t].object}))
  /\ held' = [held EXCEPT ![t] = None]
  /\ UNCHANGED <<table, objects, unexpected>>

Paid(t, o) == Become(t, Owes(call[t].objs \ {o}))

\* RefCountIsOne(): the resource is deleted, without a subtraction.
UnrefLoad(t) ==
  /\ call[t].at = "unref" /\ call[t].sub = None
  /\ \E o \in call[t].objs :
       IF ref[o] = 1
       THEN dead' = dead \cup {o} /\ ref' = [ref EXCEPT ![o] = 0] /\ Paid(t, o)
       ELSE Become(t, [call[t] EXCEPT !.sub = o]) /\ UNCHANGED <<dead, ref>>
  /\ UNCHANGED <<table, typeOf, held, unexpected>>

\* fetch_sub(1) == 1
UnrefSub(t) ==
  /\ call[t].at = "unref" /\ call[t].sub # None
  /\ LET o == call[t].sub
     IN /\ ref' = [ref EXCEPT ![o] = @ - 1]
        /\ dead' = IF WasOne(o) THEN dead \cup {o} ELSE dead
        /\ Paid(t, o)
  /\ UNCHANGED <<table, typeOf, held, unexpected>>

\* What a client does on its own once it has begun a call.
Continue(t) == UnrefLoad(t) \/ UnrefSub(t) \/ ClearEnd(t)

-----------------------------------------------------------------------------
\* The owners of a resource: the manager's entry, the clients that looked it
\* up, and the clients that are about to drop a reference.
Entries(o) == {e \in Containers \X Keys : Entry(e[1], e[2]) = o}
Holders(o) == {t \in Threads : held[t] # None /\ held[t].object = o}
Debtors(o) == {t \in Threads : call[t].at = "unref" /\ o \in call[t].objs}

\* The count of a resource is the number of its owners.
RefExact ==
  \A o \in Objects :
    ref[o] = Cardinality(Entries(o)) + Cardinality(Holders(o)) + Cardinality(Debtors(o))

\* A resource that the map or a client can reach was not deleted, although
\* Unref and a Lookup in another thread overlap.
NoUseAfterFree ==
  \A o \in dead : Entries(o) = {} /\ Holders(o) = {} /\ Debtors(o) = {}

\* "LookupOrCreate failed unexpectedly" is not returned: nobody comes between
\* the second lookup and the insertion.  And "it's safe to down cast": a client
\* gets a resource of the type it asked for.
LookupCorrect ==
  /\ ~unexpected
  /\ \A t \in Threads : held[t] # None => typeOf[held[t].object] = held[t].as

\* A resource that was taken out of the manager, and that no client holds any
\* more, is deleted, whichever thread drops the last reference.
DeletedInTheEnd ==
  \A o \in Objects :
    o \in Made /\ Entries(o) = {} /\ Holders(o) = {} ~> o \in dead
=============================================================================
