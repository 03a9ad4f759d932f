-------------------------- MODULE TrackingAllocator --------------------------
(***************************************************************************)
(* tensorflow/core/framework/tracking_allocator.{h,cc}.                    *)
(*                                                                         *)
(* A wrapper that counts what is allocated through it.  It deletes itself  *)
(* when every pointer has been given back and the executor has read the    *)
(* records.  AllocateRaw and DeallocateRaw call the underlying allocator   *)
(* outside mu_, which may hand a pointer that one thread gives back to     *)
(* another thread at once.  Each call of the underlying allocator and each *)
(* critical section is one step.                                           *)
(*                                                                         *)
(* The underlying allocator is external: a pool of Pointers, a size with   *)
(* each.  The size asked for stands for the allocated size too, and        *)
(* allocation ids, which nothing but AllocationId reads, are left out.     *)
(* The constructor's arguments, which decide what is tracked, are chosen   *)
(* in Init.                                                                *)
(***************************************************************************)
EXTENDS Integers, FiniteSets, FiniteSetsExt

CONSTANTS
  Threads,   \* threads of the op, and threads that free its tensors later
  Pointers,  \* the memory of the underlying allocator
  Sizes,     \* the sizes asked for
  MaxAllocs  \* bound on the calls of AllocateRaw

ASSUME TrackingAssumption ==
  /\ Sizes \subseteq Nat \ {0}
  /\ MaxAllocs \in Nat

VARIABLES
  underlying, \* allocator_->TracksAllocationSizes()
  locally,    \* track_sizes_locally_
  ref,        \* ref_
  allocated,  \* allocated_
  highest,    \* high_watermark_
  total,      \* total_bytes_
  recorded,   \* the sum of the alloc_bytes in allocations_
  inUse,      \* in_use_: chunks <<pointer, size>>
  deleted,    \* the wrapper has deleted itself
  open,       \* the executor has not called GetRecordsAndUnRef
  made,       \* calls of AllocateRaw so far
  owned,      \* the blocks <<pointer, size>> that clients hold
  free,       \* the pointers that the underlying allocator can give
  call        \* what each thread is doing

config == <<underlying, locally>>
sizes == <<allocated, highest, total, recorded>>
vars == <<config, sizes, ref, inUse, deleted, open, made, owned, free, call>>

Idle == [at |-> "idle"]
Become(t, c) == call' = [call EXCEPT ![t] = c]
Blocks(at) == {call[t].block : t \in {u \in Threads : call[u].at = at}}

Init ==
  /\ underlying \in BOOLEAN
  /\ \E trackSizes \in BOOLEAN : locally = (trackSizes /\ ~underlying)
  /\ ref = 1
  /\ allocated = 0 /\ highest = 0 /\ total = 0 /\ recorded = 0
  /\ inUse = {}
  /\ deleted = FALSE
  /\ open = TRUE
  /\ made = 0
  /\ owned = {}
  /\ free = Pointers
  /\ call = [t \in Threads |-> Idle]

\* Seeded faults: no reference is taken; the memory goes back first;
\* nobody looks at the result of UnRef.
NoRef == ref
FreeFirst(b) == free \cup {b[1]}
KeepThis(r) == Idle

IncrementRef == ref + 1
FreeLast(b) == free
DeleteIfZero(r) == IF r = 0 THEN [at |-> "delete"] ELSE Idle

-----------------------------------------------------------------------------
(* AllocateRaw *)

\* The underlying AllocateRaw.  When it returns nullptr nothing changes.
AllocateUnderlying(t, p, n) ==
  /\ open
  /\ call[t] = Idle
  /\ made < MaxAllocs
  /\ free' = free \ {p}
  /\ made' = made + 1
  /\ Become(t, [at |-> "record", block |-> <<p, n>>])
  /\ UNCHANGED <<sizes, ref, inUse, deleted, open, owned>>

\* in_use_.emplace: an entry that is there already stays.
Emplace(b) == IF \E c \in inUse : c[1] = b[1] THEN inUse ELSE inUse \cup {b}

\* Under mu_: the three cases of AllocateRaw differ in what they track.
Record(t) ==
  LET b == call[t].block IN
  /\ call[t].at = "record"
  /\ total' = total + b[2]
  /\ recorded' = recorded + b[2]
  /\ IF underlying \/ locally
     THEN allocated' = allocated + b[2] /\ highest' = Max({highest, allocated'})
     ELSE UNCHANGED <<allocated, highest>>
  /\ inUse' = IF locally THEN Emplace(b) ELSE inUse
  /\ ref' = IncrementRef
  /\ owned' = owned \cup {b}
  /\ Become(t, Idle)
  /\ UNCHANGED <<deleted, open, made, free>>

-----------------------------------------------------------------------------
(* DeallocateRaw *)

\* A client gives a block back.
Deallocate(t, b) ==
  /\ call[t] = Idle
  /\ owned' = owned \ {b}
  /\ free' = FreeLast(b)
  /\ Become(t, [at |-> "find", block |-> b])
  /\ UNCHANGED <<sizes, ref, inUse, deleted, open, made>>

\* The size: asked of the underlying allocator, or looked up and erased in a
\* first critical section, or not known (0).
Find(t) ==
  LET b == call[t].block
      chunks == {c \in inUse : locally /\ c[1] = b[1]}
      bytes == IF underlying THEN b[2]
               ELSE IF chunks = {} THEN 0 ELSE (CHOOSE c \in chunks : TRUE)[2]
  IN /\ call[t].at = "find"
     /\ inUse' = inUse \ chunks
     /\ Become(t, [at |-> "unref", block |-> b, bytes |-> bytes])
     /\ UNCHANGED <<sizes, ref, deleted, open, made, owned, free>>

\* The second critical section.
UnRef(t) ==
  /\ call[t].at = "unref"
  /\ allocated' = allocated - call[t].bytes
  /\ recorded' = recorded - call[t].bytes
  /\ ref' = ref - 1
  /\ Become(t, [at |-> "free", block |-> call[t].block, ref |-> ref'])
  /\ UNCHANGED <<highest, total, inUse, deleted, open, made, owned, free>>

\* The underlying DeallocateRaw; then the thread that dropped the last
\* reference deletes the wrapper, the others do not touch it.
FreeUnderlying(t) ==
  /\ call[t].at = "free"
  /\ free' = free \cup {call[t].block[1]}
  /\ Become(t, DeleteIfZero(call[t].ref))
  /\ UNCHANGED <<sizes, ref, inUse, deleted, open, made, owned>>

DeleteThis(t) ==
  /\ call[t].at = "delete"
  /\ deleted' = TRUE
  /\ Become(t, Idle)
  /\ UNCHANGED <<sizes, ref, inUse, open, made, owned, free>>

-----------------------------------------------------------------------------
\* When Compute has returned; no AllocateRaw comes after it.
GetRecordsAndUnRef(t) ==
  /\ open
  /\ call[t] = Idle
  /\ \A u \in Threads : call[u].at # "record"
  /\ open' = FALSE
  /\ recorded' = 0
  /\ ref' = ref - 1
  /\ Become(t, DeleteIfZero(ref'))
  /\ UNCHANGED <<allocated, highest, total, inUse, deleted, made, owned, free>>

\* The wrapper is gone.
Finished == deleted /\ (\A t \in Threads : call[t] = Idle) /\ UNCHANGED vars

Step ==
  \/ \E t \in Threads, p \in free, n \in Sizes : AllocateUnderlying(t, p, n)
  \/ \E t \in Threads, b \in owned : Deallocate(t, b)
  \/ \E t \in Threads :
       \/ Record(t) \/ Find(t) \/ UnRef(t) \/ FreeUnderlying(t) \/ DeleteThis(t)
       \/ GetRecordsAndUnRef(t)

\* What is tracked is settled by the constructor.
Next == (Step /\ UNCHANGED config) \/ Finished

Spec == Init /\ [][Next]_vars

-----------------------------------------------------------------------------
\* The blocks that AllocateRaw has counted and DeallocateRaw has not uncounted.
Outstanding == owned \cup Blocks("find") \cup Blocks("unref")

\* The bytes of some blocks, one by one.
BytesOf(blocks) == UNION {{b} \X (1..b[2]) : b \in blocks}

\* The comment on ref_: the calls of AllocateRaw not matched by DeallocateRaw,
\* plus 1 if the executor has not read out the high watermark.
RefCounted == ref = Cardinality(Outstanding) + (IF open THEN 1 ELSE 0)

\* "After this call completes and all allocated pointers have been deallocated
\* the wrapper will delete itself": it does, once, and nobody has a block or is
\* in a call that touches it then.
DeletedOnce ==
  /\ deleted => owned = {} /\ \A t \in Threads : call[t].at \in {"idle", "free"}
  /\ Cardinality({t \in Threads : call[t].at = "delete"}) <= 1
  /\ ~open /\ owned = {} /\ (\A t \in Threads : call[t] = Idle) => deleted

\* in_use_ has one entry for each block out, with its own size, although the
\* underlying allocator gives the same pointer out again and again.  allocated_
\* is the size of the blocks out, the watermark lies between it and the total,
\* and the records add up to it.  When no sizes are tracked "the second and
\* the third are 0" and the records add up to the total.
SizesExact ==
  /\ locally => inUse = owned \cup Blocks("find")
  /\ IF underlying \/ locally
     THEN /\ allocated = Cardinality(BytesOf(Outstanding))
          /\ highest >= allocated /\ highest <= total
          /\ open => recorded = allocated
     ELSE /\ highest = 0 /\ allocated = 0
          /\ open => recorded = total
=============================================================================
