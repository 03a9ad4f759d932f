------------------------------ MODULE Sharder -------------------------------
(***************************************************************************)
(* Shard and Sharder::Do of tensorflow/core/util/work_sharder.cc over a    *)
(* tensorflow/core/lib/core/threadpool.cc.                                 *)
(*                                                                         *)
(* Callers cut [0, total) into shards, do the first one themselves, have   *)
(* the threads of a shared pool do the others, and wait on a               *)
(* BlockingCounter on their stack, which the closures refer to.  The       *)
(* counter is the one that BlockingCounterProofs proves: Wait returns when *)
(* the count is zero and the workers no longer touch it.                   *)
(*                                                                         *)
(* The sizes are int64 and int; the model scales their widths down with    *)
(* the numbers, so that what overflows in the code overflows here.  Totals *)
(* are at most 2^62, so that the sums of total, num_shards and block_size  *)
(* do not: beyond that block_size may be negative, and CHECK_GT ends the   *)
(* process.  The pool is Eigen's: closures start in any order.             *)
(***************************************************************************)
EXTENDS Integers, FiniteSets, FiniteSetsExt

CONSTANTS
  Callers,           \* threads that call Shard; some may be threads of the pool
  Pool,              \* threads of the pool
  Arguments,         \* records [total, cost, max, perThread]
  kMinCostPerShard,
  LongRange,         \* stands for 2^64
  IntRange,          \* stands for 2^32
  MaxUnit,           \* bound on the units of work
  None

\* A closure of the pool: a shard of a caller, and how far its computation is.
Closure ==
  [caller : Callers, start : Nat, limit : Nat, at : {"work", "decrement"}]

ASSUME SharderAssumption ==
  /\ MaxUnit \in Nat
  /\ Arguments \subseteq [total : 0..MaxUnit, cost : Nat, max : Nat, perThread : Nat]
  /\ {kMinCostPerShard, LongRange, IntRange} \subseteq Nat \ {0}
  /\ MaxUnit + MaxUnit <= LongRange \div 2 /\ MaxUnit + IntRange <= LongRange \div 2
  /\ IsFiniteSet(Pool)
  /\ None \notin Closure
  /\ Pool \ Callers # {}  \* else all of them might wait for one another

VARIABLES
  args,     \* what each caller passes to Shard, with its per_thread_max_parallism
  pc,       \* where each caller is
  block,    \* block_size of each caller
  next,     \* start, in the loop that schedules the shards
  count,    \* the counter of each caller
  queue,    \* the closures of the pool that nobody runs yet
  running,  \* the closure each pool thread runs, or None
  worked    \* how often work() was called for each unit of each caller

pool == <<queue, running>>
loop == <<args, block, next>>
vars == <<loop, pc, count, pool, worked>>

Units == 0..MaxUnit

Init ==
  /\ args \in [Callers -> Arguments]
  /\ pc = [c \in Callers |-> "call"]
  /\ block = [c \in Callers |-> 0]
  /\ next = [c \in Callers |-> 0]
  /\ count = [c \in Callers |-> 0]
  /\ queue = {}
  /\ running = [p \in Pool |-> None]
  /\ worked = [c \in Callers |-> [u \in Units |-> 0]]

-----------------------------------------------------------------------------
(* The sizes *)

\* The value of the given range with the same low bits.
Wrap(n, range) ==
  LET m == n % range IN IF m < range \div 2 THEN m ELSE m - range

\* Division of C++, which rounds towards zero.
Quotient(n, d) == IF n >= 0 THEN n \div d ELSE -((-n) \div d)

CeilDiv(n, d) == Quotient(Wrap(n + d - 1, LongRange), d)

MaxParallelism(c) == Min({args[c].max, args[c].perThread})

NumShards(c) ==
  LET product == Wrap(args[c].total * Max({1, args[c].cost}), LongRange)
      shards  == Min({MaxParallelism(c), Quotient(product, kMinCostPerShard)})
  IN Max({1, Wrap(shards, IntRange)})

BlockSize(c) == CeilDiv(args[c].total, NumShards(c))

\* Seeded faults for ShardsUsed: the shards asked for are counted; a short
\* last shard is not counted.
ShardsAsked(c) == NumShards(c)
ShardsFull(c) == args[c].total \div BlockSize(c)

ShardsUsed(c) == CeilDiv(args[c].total, BlockSize(c))

\* Seeded fault for Limit: the last shard is as large as the others.
LimitFull(c, start) == start + block[c]

Limit(c, start) == Min({start + block[c], args[c].total})

-----------------------------------------------------------------------------
(* Shard *)

\* work(start, limit)
Work(c, start, limit) ==
  worked' = [worked EXCEPT ![c] =
               [u \in Units |-> IF start <= u /\ u < limit THEN @[u] + 1 ELSE @[u]]]

Go(c, from, to) == pc[c] = from /\ pc' = [pc EXCEPT ![c] = to]

\* A thread of the pool calls Shard from a closure of its own: it runs no
\* other closure of the pool then.
Idle(t) == t \in Pool => running[t] = None

OneThread(c) == MaxParallelism(c) <= 1
AllThreads(c) == MaxParallelism(c) >= Cardinality(Pool)
OneShard(c) == BlockSize(c) >= args[c].total

\* Nothing to do, or the caller does it all: there is one thread, or one shard.
\* Or all threads of the pool may help: ParallelFor is Eigen's, and is modelled
\* by what it promises, that all the work is done when it returns.
Shard(c) ==
  /\ Idle(c)
  /\ Go(c, "call", "returned")
  /\ args[c].total = 0 \/ OneThread(c) \/ AllThreads(c) \/ OneShard(c)
  /\ Work(c, 0, args[c].total)
  /\ UNCHANGED <<loop, count, pool>>

\* Sharder::Do makes the counter ...
Do(c) ==
  /\ Idle(c)
  /\ Go(c, "call", "schedule")
  /\ args[c].total > 0 /\ ~OneThread(c) /\ ~AllThreads(c) /\ ~OneShard(c)
  /\ block' = [block EXCEPT ![c] = BlockSize(c)]
  /\ next' = [next EXCEPT ![c] = BlockSize(c)]
  /\ count' = [count EXCEPT ![c] = ShardsUsed(c) - 1]
  /\ UNCHANGED <<args, pool, worked>>

\* ... gives the pool a closure for each shard but the first ...
Schedule(c) ==
  /\ pc[c] = "schedule" /\ next[c] < args[c].total
  /\ queue' = queue \cup {[caller |-> c, start |-> next[c],
                           limit |-> Limit(c, next[c]), at |-> "work"]}
  /\ next' = [next EXCEPT ![c] = @ + block[c]]
  /\ UNCHANGED <<args, pc, block, count, running, worked>>

\* ... does the first one ...
WorkFirst(c) ==
  /\ next[c] >= args[c].total /\ Go(c, "schedule", "wait")
  /\ Work(c, 0, Limit(c, 0))
  /\ UNCHANGED <<loop, count, pool>>

\* ... and waits for the others.  The counter and work() go when it returns.
Wait(c) ==
  /\ count[c] = 0 /\ Go(c, "wait", "returned")
  /\ UNCHANGED <<loop, count, pool, worked>>

-----------------------------------------------------------------------------
(* The pool *)

\* A thread that is inside Shard takes no closure, not even its own.
Take(p, k) ==
  /\ running[p] = None
  /\ p \in Callers => pc[p] \in {"call", "returned"}
  /\ queue' = queue \ {k}
  /\ running' = [running EXCEPT ![p] = k]
  /\ UNCHANGED <<loop, pc, count, worked>>

\* The closure: compute the shard; the shard is done.
Compute(p) ==
  /\ running[p] # None /\ running[p].at = "work"
  /\ Work(running[p].caller, running[p].start, running[p].limit)
  /\ running' = [running EXCEPT ![p].at = "decrement"]
  /\ UNCHANGED <<loop, pc, count, queue>>

DecrementCount(p) ==
  /\ running[p] # None /\ running[p].at = "decrement"
  /\ count' = [count EXCEPT ![running[p].caller] = @ - 1]
  /\ running' = [running EXCEPT ![p] = None]
  /\ UNCHANGED <<loop, pc, queue, worked>>

-----------------------------------------------------------------------------
CallerStep(c) == Shard(c) \/ Do(c) \/ Schedule(c) \/ WorkFirst(c) \/ Wait(c)

PoolStep(p) == (\E k \in queue : Take(p, k)) \/ Compute(p) \/ DecrementCount(p)

\* The threads of the pool wait for closures.
PoolIdle ==
  /\ queue = {}
  /\ \A p \in Pool : running[p] = None
  /\ UNCHANGED vars

Next ==
  \/ \E c \in Callers : CallerStep(c)
  \/ \E p \in Pool : PoolStep(p)
  \/ PoolIdle

Spec == Init /\ [][Next]_vars

\* All threads run when they can.
FairSpec ==
  /\ Spec
  /\ \A c \in Callers : WF_vars(CallerStep(c))
  /\ \A p \in Pool : WF_vars(PoolStep(p))

-----------------------------------------------------------------------------
\* The closures that refer to the frame of a caller.
Closures(c) ==
  {k \in queue : k.caller = c} \cup
  {running[p] : p \in {q \in Pool : running[q] # None /\ running[q].caller = c}}

TypeOK ==
  /\ args \in [Callers -> Arguments]
  /\ pc \in [Callers -> {"call", "schedule", "wait", "returned"}]
  /\ block \in [Callers -> Nat]
  /\ next \in [Callers -> Nat]
  /\ count \in [Callers -> Nat]
  /\ \A c \in Callers : \A k \in Closures(c) :
       0 < k.start /\ k.start < k.limit /\ k.limit <= args[c].total
  /\ worked \in [Callers -> [Units -> 0..1]]

\* When Shard returns, work() has been called for each unit of [0, total), for
\* none twice and for no other, whatever overflows on the way to num_shards;
\* and no closure refers to the frame that goes, with its counter and work().
ReturnsWhenDone ==
  \A c \in Callers : pc[c] = "returned" =>
    /\ \A u \in Units : worked[c][u] = IF u < args[c].total THEN 1 ELSE 0
    /\ Closures(c) = {}

\* Shard returns, also when several callers share a pool that is busy and when
\* all but one of its threads wait in Shard themselves: the counter begins at
\* the number of closures, and whoever waits does not keep them.
ShardReturns == \A c \in Callers : <>(pc[c] = "returned")
=============================================================================
