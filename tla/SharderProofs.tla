--------------------------- MODULE SharderProofs ---------------------------
(***************************************************************************)
(* Shard does every unit of work once before it returns, and no closure    *)
(* outlives the frame it refers to, for any number of callers and pool     *)
(* threads, totals up to 2^62 and any costs, whatever their product        *)
(* overflows to; and Shard keeps to its limit on the number of threads     *)
(* when nothing overflows.                                                 *)
(***************************************************************************)
EXTENDS Sharder, FiniteSetTheorems, TLAPS

\* The closures that wait or run.
Pending == queue \cup {running[p] : p \in {q \in Pool : running[q] # None}}

Busy(c) == pc[c] \in {"schedule", "wait"}

Types ==
  /\ args \in [Callers -> Arguments]
  /\ pc \in [Callers -> {"call", "schedule", "wait", "returned"}]
  /\ block \in [Callers -> Nat]
  /\ next \in [Callers -> Nat]
  /\ count \in [Callers -> Int]
  /\ queue \subseteq Closure
  /\ running \in [Pool -> Closure \cup {None}]
  /\ worked \in [Callers -> [Units -> Nat]]

SizeInv ==
  \A c \in Callers : Busy(c) =>
    /\ 0 < block[c] /\ block[c] <= next[c] /\ block[c] < args[c].total
    /\ pc[c] = "wait" => next[c] >= args[c].total

\* The shards of a caller that wait or run, by where they start.
Open(c) == {n \in Units : \E k \in Pending : k.caller = c /\ k.start = n}

\* block_size cuts the work into used shards; j of them were given out, the
\* caller's own included, and the counter counts the others and the open ones.
CountAt(c, used, j) ==
  /\ next[c] = j * block[c] /\ j <= used
  /\ (used - 1) * block[c] < args[c].total /\ args[c].total <= used * block[c]
  /\ count[c] = Cardinality(Open(c)) + used - j

CountInv ==
  \A c \in Callers : /\ Busy(c) => \E used, j \in Nat : CountAt(c, used, j)
                     /\ ~Busy(c) => count[c] = 0

RangeInv ==
  \A k \in Pending :
    /\ Busy(k.caller)
    /\ block[k.caller] <= k.start /\ k.start < k.limit
    /\ k.limit <= next[k.caller] /\ k.limit <= args[k.caller].total

DisjointInv ==
  \A k, l \in Pending : k.caller = l.caller /\ k # l =>
    k.limit <= l.start \/ l.limit <= k.start

\* A closure waits, or one thread runs it.
PlaceInv ==
  /\ \A k \in queue : k.at = "work"
  /\ \A p \in Pool : running[p] # None =>
       /\ running[p] \notin queue
       /\ \A q \in Pool : running[q] = running[p] => q = p

\* A unit is done when it is in the caller's own shard, and that was computed,
\* or in a shard that was given out and whose computation does not lie ahead.
InWork(c, u) ==
  \E k \in Pending : k.caller = c /\ k.at = "work" /\ k.start <= u /\ u < k.limit

Done(c, u) ==
  /\ u < args[c].total
  /\ \/ pc[c] = "returned"
     \/ pc[c] = "wait" /\ u < block[c]
     \/ Busy(c) /\ block[c] <= u /\ u < next[c] /\ ~InWork(c, u)

WorkInv ==
  \A c \in Callers : \A u \in Units : worked[c][u] = IF Done(c, u) THEN 1 ELSE 0

Inv ==
  /\ Types /\ SizeInv /\ CountInv
  /\ RangeInv /\ DisjointInv /\ PlaceInv /\ WorkInv

-----------------------------------------------------------------------------
(* The sizes *)

\* The smaller and the larger of two numbers.
LEMMA MinOfTwo ==
  ASSUME NEW a \in Int, NEW b \in Int
  PROVE  Min({a, b}) = IF a <= b THEN a ELSE b
<1>1. \E x \in {a, b} : \A y \in {a, b} : x =< y
  OBVIOUS
<1>2. Min({a, b}) \in {a, b} /\ \A y \in {a, b} : Min({a, b}) =< y
  BY <1>1 DEF Min
<1> QED BY <1>2

\* The same for the maximum.
LEMMA MaxOfTwo ==
  ASSUME NEW a \in Int, NEW b \in Int
  PROVE  Max({a, b}) = IF a >= b THEN a ELSE b
<1>1. \E x \in {a, b} : \A y \in {a, b} : x >= y
  OBVIOUS
<1>2. Max({a, b}) \in {a, b} /\ \A y \in {a, b} : Max({a, b}) >= y
  BY <1>1 DEF Max
<1> QED BY <1>2

\* Whatever a value overflows to, it is an integer.
LEMMA WrapInt ==
  ASSUME NEW n \in Int, NEW range \in Nat \ {0}
  PROVE  Wrap(n, range) \in Int
<1>1. n % range \in Int
  OBVIOUS
<1> QED BY <1>1 DEF Wrap

\* A conversion gives no more than the range, and does not change a number
\* that fits.
LEMMA WrapFits ==
  ASSUME NEW n \in Int, NEW range \in Nat \ {0}
  PROVE  /\ Wrap(n, range) <= range
         /\ 0 <= n /\ n < range \div 2 => Wrap(n, range) = n
<1>1. n % range \in Int /\ n % range < range /\ range \div 2 <= range
  OBVIOUS
<1>2. ASSUME 0 <= n, n < range \div 2 PROVE n % range = n
  <2>1. n < range
    BY <1>2
  <2> QED BY <1>2, <2>1
<1> QED BY <1>1, <1>2 DEF Wrap

\* The division of two integers, which C++ rounds towards zero, is an integer.
LEMMA QuotientInt ==
  ASSUME NEW n \in Int, NEW d \in Nat \ {0}
  PROVE  Quotient(n, d) \in Int
<1>1. \A m \in Int : m \div d \in Int
  OBVIOUS
<1> QED BY <1>1 DEF Quotient

\* There is at least one shard, whatever overflows, and their number is an int.
LEMMA NumShardsPositive ==
  ASSUME Types, NEW c \in Callers
  PROVE  NumShards(c) \in Nat \ {0} /\ NumShards(c) <= IntRange
<1>1. /\ args[c].total \in Nat /\ args[c].cost \in Nat
      /\ args[c].max \in Nat /\ args[c].perThread \in Nat
      /\ kMinCostPerShard \in Nat \ {0} /\ LongRange \in Nat \ {0} /\ IntRange \in Nat \ {0}
  BY SharderAssumption DEF Types
<1>2. PICK cost \in Nat : cost = Max({1, args[c].cost})
  BY <1>1, MaxOfTwo
<1>3. PICK product \in Int : product = Wrap(args[c].total * cost, LongRange)
  <2>1. args[c].total * cost \in Int
    BY <1>1
  <2> QED BY <1>1, <2>1, WrapInt
<1>4. PICK m \in Int : m = MaxParallelism(c)
  BY <1>1, MinOfTwo DEF MaxParallelism
<1>5. PICK q \in Int : q = Quotient(product, kMinCostPerShard)
  BY <1>1, QuotientInt
<1>6. PICK shards \in Int : shards = Min({m, q})
  BY MinOfTwo
<1>7. PICK w \in Int : w = Wrap(shards, IntRange)
  BY <1>1, WrapInt
<1>8. NumShards(c) = Max({1, w})
  BY <1>2, <1>3, <1>4, <1>5, <1>6, <1>7 DEF NumShards
<1>9. w <= IntRange /\ 1 <= IntRange
  BY <1>1, <1>7, WrapFits
<1> QED BY <1>1, <1>8, <1>9, MaxOfTwo

\* CeilDiv is the number of pieces of size d that cover n, if the sum fits.
LEMMA CeilDivFacts ==
  ASSUME NEW n \in Nat, NEW d \in Nat \ {0}, n + d <= LongRange \div 2
  PROVE  /\ CeilDiv(n, d) \in Nat
         /\ (CeilDiv(n, d) - 1) * d < n \/ n = 0
         /\ n <= CeilDiv(n, d) * d
         /\ n > 0 => CeilDiv(n, d) > 0
<1>1. PICK q \in Int : q = (n + d - 1) \div d
  OBVIOUS
<1>2. q * d <= n + d - 1 /\ n + d - 1 < (q + 1) * d
  BY <1>1
<1>3. q >= 0
  BY <1>2
<1>4. n > 0 => q > 0
  BY <1>2, <1>3
<1>5. (q - 1) * d = q * d - d /\ (q + 1) * d = q * d + d /\ q * d \in Int
  OBVIOUS
<1>6. CeilDiv(n, d) = q
  <2>1. PICK s \in Nat : s = n + d - 1
    OBVIOUS
  <2>2. LongRange \in Nat \ {0} /\ LongRange \div 2 \in Int
    BY SharderAssumption
  <2>3. Wrap(s, LongRange) = s
    BY <2>1, <2>2, WrapFits
  <2> QED BY <1>1, <2>1, <2>3 DEF CeilDiv, Quotient
<1> QED BY <1>2, <1>3, <1>4, <1>5, <1>6

\* The sums of the sizes fit an int64.
LEMMA SumsFit ==
  ASSUME Types, NEW c \in Callers
  PROVE  /\ args[c].total + NumShards(c) <= LongRange \div 2
         /\ args[c].total + args[c].total <= LongRange \div 2
<1>1. /\ args[c].total \in Nat /\ args[c].total <= MaxUnit /\ MaxUnit \in Nat
      /\ LongRange \div 2 \in Int /\ IntRange \in Nat
      /\ MaxUnit + MaxUnit <= LongRange \div 2 /\ MaxUnit + IntRange <= LongRange \div 2
  BY SharderAssumption DEF Types
<1> QED BY <1>1, NumShardsPositive

\* Multiples keep their order.
LEMMA Multiples ==
  ASSUME NEW a \in Nat, NEW b \in Nat, NEW d \in Nat \ {0}
  PROVE  a <= b <=> a * d <= b * d
OBVIOUS

-----------------------------------------------------------------------------
(* The closures *)

\* A closure that has not finished is queued or run by a thread of the pool.
LEMMA PendingFacts ==
  ASSUME Types
  PROVE  /\ \A k : k \in Pending <=> \/ k \in queue
                                     \/ k # None /\ \E p \in Pool : running[p] = k
         /\ Pending \subseteq Closure
         /\ \A k \in Pending : /\ k # None /\ k.caller \in Callers
                               /\ k.start \in Nat /\ k.limit \in Nat
BY SharderAssumption DEF Pending, Types, Closure

\* The work of a caller is within the units.
LEMMA TotalFacts ==
  ASSUME Types, NEW c \in Callers
  PROVE  args[c].total \in Nat /\ args[c].total <= MaxUnit /\ MaxUnit \in Nat
BY SharderAssumption DEF Types

\* A caller has finitely many open shards.
LEMMA OpenFinite == \A c : IsFiniteSet(Open(c)) /\ Cardinality(Open(c)) \in Nat
<1>1. IsFiniteSet(Units)
  BY SharderAssumption, FS_Interval DEF Units
<1>2. \A c : Open(c) \subseteq Units
  BY DEF Open
<1> QED BY <1>1, <1>2, FS_Subset, FS_CardinalityType

\* The shard of a closure is open.
LEMMA StartOpen ==
  ASSUME Types, RangeInv, NEW k \in Pending
  PROVE  k.start \in Open(k.caller) /\ k.start \in Units
<1>1. k.caller \in Callers /\ k.start \in Nat /\ k.limit \in Nat
  BY PendingFacts
<1>2. k.start < k.limit /\ k.limit <= args[k.caller].total
  BY DEF RangeInv
<1>3. k.start \in Units
  BY <1>1, <1>2, TotalFacts DEF Units
<1> QED BY <1>3 DEF Open

\* What depends on the pool alone.
LEMMA SamePool ==
  ASSUME UNCHANGED pool
  PROVE  /\ Pending' = Pending
         /\ \A c : Open(c)' = Open(c)
         /\ \A c, u : InWork(c, u)' <=> InWork(c, u)
BY DEF pool, Pending, Open, InWork

\* A caller before Sharder::Do, or after it, has no closures.
LEMMA NoClosures ==
  ASSUME Types, RangeInv, NEW c \in Callers, ~Busy(c)
  PROVE  (\A k \in Pending : k.caller # c) /\ Open(c) = {}
BY DEF RangeInv, Open

\* What work() leaves behind.
LEMMA WorkFacts ==
  ASSUME Types, NEW c \in Callers, NEW start, NEW limit, Work(c, start, limit)
  PROVE  /\ worked' \in [Callers -> [Units -> Nat]]
         /\ \A d \in Callers : d # c => worked'[d] = worked[d]
         /\ \A u \in Units : worked'[c][u] = IF start <= u /\ u < limit
                                             THEN worked[c][u] + 1 ELSE worked[c][u]
BY DEF Work, Types

\* A step of a caller that leaves the pool alone.
LEMMA CallerFrame ==
  ASSUME Inv, Types', NEW c \in Callers, UNCHANGED <<args, pool>>,
         \A d \in Callers : d # c => /\ pc'[d] = pc[d] /\ block'[d] = block[d]
                                     /\ next'[d] = next[d] /\ count'[d] = count[d]
                                     /\ worked'[d] = worked[d],
         Busy(c)' =>
           /\ 0 < block'[c] /\ block'[c] <= next'[c] /\ block'[c] < args[c].total
           /\ pc'[c] = "wait" => next'[c] >= args[c].total
           /\ \E used, j \in Nat : CountAt(c, used, j)',
         ~Busy(c)' => count'[c] = 0,
         \A k \in Pending : k.caller = c =>
           Busy(c)' /\ block'[c] <= k.start /\ k.limit <= next'[c],
         \A u \in Units : worked'[c][u] = IF Done(c, u)' THEN 1 ELSE 0
  PROVE  Inv'
<1>1. /\ Pending' = Pending
      /\ \A d : Open(d)' = Open(d)
      /\ \A d, u : InWork(d, u)' <=> InWork(d, u)
  BY SamePool
<1>2. \A d \in Callers : d # c =>
        /\ Busy(d)' <=> Busy(d)
        /\ \A used, j : CountAt(d, used, j)' <=> CountAt(d, used, j)
        /\ \A u : Done(d, u)' <=> Done(d, u)
  BY <1>1 DEF Busy, CountAt, Done
<1>3. SizeInv'
  BY <1>2 DEF Inv, SizeInv
<1>4. CountInv'
  BY <1>2 DEF Inv, CountInv
<1>5. RangeInv'
  <2>1. ASSUME NEW k \in Pending
        PROVE  /\ Busy(k.caller)'
               /\ block'[k.caller] <= k.start /\ k.start < k.limit
               /\ k.limit <= next'[k.caller] /\ k.limit <= args'[k.caller].total
    <3>1. k.caller \in Callers
      BY PendingFacts DEF Inv
    <3> QED BY <3>1, <1>2 DEF Inv, RangeInv
  <2> QED BY <1>1, <2>1 DEF RangeInv
<1>6. DisjointInv' /\ PlaceInv'
  BY <1>1 DEF Inv, DisjointInv, PlaceInv, pool
<1>7. WorkInv'
  BY <1>2 DEF Inv, WorkInv
<1> QED BY <1>3, <1>4, <1>5, <1>6, <1>7 DEF Inv

\* The early returns of Shard and of Sharder::Do, and ParallelFor.
LEMMA ShardInv ==
  ASSUME Inv, NEW c \in Callers, Shard(c)
  PROVE  Inv'
<1>1. Types /\ RangeInv /\ WorkInv /\ CountInv
  BY DEF Inv
<1>2. /\ pc[c] = "call" /\ pc' = [pc EXCEPT ![c] = "returned"]
      /\ Work(c, 0, args[c].total) /\ UNCHANGED <<loop, count, pool>>
  BY DEF Shard, Go
<1>3. /\ worked' \in [Callers -> [Units -> Nat]]
      /\ \A d \in Callers : d # c => worked'[d] = worked[d]
      /\ \A u \in Units : worked'[c][u] = IF 0 <= u /\ u < args[c].total
                                          THEN worked[c][u] + 1 ELSE worked[c][u]
  BY <1>1, <1>2, WorkFacts
<1>4. Types'
  BY <1>1, <1>2, <1>3 DEF Types, loop, pool
<1>5. ~Busy(c) /\ ~Busy(c)' /\ pc'[c] = "returned"
  BY <1>1, <1>2 DEF Busy, Types
<1>6. \A k \in Pending : k.caller # c
  BY <1>1, <1>5, NoClosures
<1>7. \A u \in Units : ~Done(c, u) /\ (Done(c, u)' <=> u < args[c].total)
  BY <1>2, <1>5 DEF Done, loop
<1>8. \A u \in Units : worked'[c][u] = IF Done(c, u)' THEN 1 ELSE 0
  BY <1>1, <1>3, <1>7 DEF WorkInv, Units
<1>9. \A d \in Callers : d # c => pc'[d] = pc[d]
  BY <1>1, <1>2 DEF Types
<1>10. count'[c] = 0
  BY <1>1, <1>2, <1>5 DEF CountInv
<1> QED BY <1>2, <1>3, <1>4, <1>5, <1>6, <1>8, <1>9, <1>10, CallerFrame DEF loop

\* Sharder::Do makes the counter.
LEMMA DoInv ==
  ASSUME Inv, NEW c \in Callers, Do(c)
  PROVE  Inv'
<1>1. Types /\ RangeInv /\ WorkInv
  BY DEF Inv
<1>2. PICK size : size = BlockSize(c)
  OBVIOUS
<1>3. PICK used : used = ShardsUsed(c)
  OBVIOUS
<1>4. /\ pc[c] = "call" /\ pc' = [pc EXCEPT ![c] = "schedule"]
      /\ args[c].total > 0 /\ ~(size >= args[c].total)
      /\ block' = [block EXCEPT ![c] = size]
      /\ next' = [next EXCEPT ![c] = size]
      /\ count' = [count EXCEPT ![c] = used - 1]
      /\ UNCHANGED <<args, pool, worked>>
  BY <1>2, <1>3 DEF Do, Go, OneShard
<1>5. args[c].total \in Nat
  BY <1>1, TotalFacts
<1>6. size \in Nat /\ 0 < size
  BY <1>1, <1>2, <1>4, <1>5, NumShardsPositive, SumsFit, CeilDivFacts DEF BlockSize
<1>7. /\ used \in Nat /\ used > 0
      /\ (used - 1) * size < args[c].total /\ args[c].total <= used * size
  <2>1. used = CeilDiv(args[c].total, size)
    BY <1>2, <1>3 DEF ShardsUsed
  <2>2. args[c].total + size <= LongRange \div 2
    BY <1>1, <1>4, <1>5, <1>6, SumsFit, SharderAssumption
  <2> QED BY <1>4, <1>5, <1>6, <2>1, <2>2, CeilDivFacts
<1>8. Types'
  BY <1>1, <1>4, <1>6, <1>7 DEF Types, pool
<1>9. /\ pc'[c] = "schedule" /\ block'[c] = size /\ next'[c] = size
      /\ count'[c] = used - 1
      /\ \A d \in Callers : d # c => /\ pc'[d] = pc[d] /\ block'[d] = block[d]
                                     /\ next'[d] = next[d] /\ count'[d] = count[d]
  BY <1>1, <1>4 DEF Types
<1>10. ~Busy(c)
  BY <1>4 DEF Busy
<1>11. (\A k \in Pending : k.caller # c) /\ Open(c) = {}
  BY <1>1, <1>10, NoClosures
<1>12. CountAt(c, used, 1)'
  <2>1. Cardinality(Open(c)') = 0
    BY <1>4, <1>11, SamePool, FS_EmptySet
  <2> QED BY <1>4, <1>6, <1>7, <1>9, <2>1 DEF CountAt
<1>13. \A u \in Units : ~Done(c, u) /\ ~Done(c, u)'
  BY <1>4, <1>6, <1>9, <1>10 DEF Done, Units
<1>14. \A u \in Units : worked'[c][u] = IF Done(c, u)' THEN 1 ELSE 0
  BY <1>1, <1>4, <1>13 DEF WorkInv
<1>15. \E u, j \in Nat : CountAt(c, u, j)'
  BY <1>7, <1>12
<1>16. size < args[c].total
  BY <1>4, <1>5, <1>6
<1>17. Busy(c)'
  BY <1>9 DEF Busy
<1> QED BY <1>4, <1>6, <1>8, <1>9, <1>11, <1>14, <1>15, <1>16, <1>17, CallerFrame

\* The caller computes its own shard.
LEMMA WorkFirstInv ==
  ASSUME Inv, NEW c \in Callers, WorkFirst(c)
  PROVE  Inv'
<1>1. Types /\ RangeInv /\ WorkInv /\ SizeInv /\ CountInv
  BY DEF Inv
<1>2. PICK limit : limit = Limit(c, 0)
  OBVIOUS
<1>3. /\ pc[c] = "schedule" /\ pc' = [pc EXCEPT ![c] = "wait"]
      /\ next[c] >= args[c].total /\ Work(c, 0, limit)
      /\ UNCHANGED <<loop, count, pool>>
  BY <1>2 DEF WorkFirst, Go
<1>4. Busy(c) /\ Busy(c)' /\ pc'[c] = "wait"
  BY <1>1, <1>3 DEF Busy, Types
<1>5. /\ args[c].total \in Nat /\ block[c] \in Nat /\ next[c] \in Nat
      /\ 0 < block[c] /\ block[c] <= next[c] /\ block[c] < args[c].total
  BY <1>1, <1>4, TotalFacts DEF Types, SizeInv
<1>6. limit = block[c]
  BY <1>2, <1>5, MinOfTwo DEF Limit
<1>7. /\ worked' \in [Callers -> [Units -> Nat]]
      /\ \A d \in Callers : d # c => worked'[d] = worked[d]
      /\ \A u \in Units : worked'[c][u] = IF 0 <= u /\ u < limit
                                          THEN worked[c][u] + 1 ELSE worked[c][u]
  BY <1>1, <1>3, WorkFacts
<1>8. Types'
  BY <1>1, <1>3, <1>7 DEF Types, loop, pool
<1>9. ASSUME NEW u \in Units
      PROVE  /\ u < block[c] => ~Done(c, u) /\ Done(c, u)'
             /\ ~(u < block[c]) => (Done(c, u)' <=> Done(c, u))
             /\ 0 <= u
  <2>1. u \in Nat
    BY DEF Units
  <2>2. InWork(c, u)' <=> InWork(c, u)
    BY <1>3, SamePool
  <2> QED BY <2>1, <2>2, <1>3, <1>4, <1>5 DEF Done, loop
<1>10. \A u \in Units : worked'[c][u] = IF Done(c, u)' THEN 1 ELSE 0
  BY <1>1, <1>6, <1>7, <1>9 DEF WorkInv
<1>11. \E used, j \in Nat : CountAt(c, used, j)'
  <2>1. Open(c)' = Open(c)
    BY <1>3, SamePool
  <2> QED BY <1>1, <1>3, <1>4, <2>1 DEF CountInv, CountAt, loop
<1>12. \A d \in Callers : d # c => pc'[d] = pc[d]
  BY <1>1, <1>3 DEF Types
<1>13. \A k \in Pending : k.caller = c => block[c] <= k.start /\ k.limit <= next[c]
  BY <1>1 DEF RangeInv
<1> QED BY <1>3, <1>4, <1>5, <1>7, <1>8, <1>10, <1>11, <1>12, <1>13, CallerFrame DEF loop

\* The caller has waited and returns.
LEMMA WaitInv ==
  ASSUME Inv, NEW c \in Callers, Wait(c)
  PROVE  Inv' /\ \A k \in Pending : k.caller # c
<1>1. Types /\ RangeInv /\ WorkInv /\ SizeInv /\ CountInv
  BY DEF Inv
<1>2. /\ count[c] = 0 /\ pc[c] = "wait" /\ pc' = [pc EXCEPT ![c] = "returned"]
      /\ UNCHANGED <<loop, count, pool, worked>>
  BY DEF Wait, Go
<1>3. Busy(c) /\ ~Busy(c)' /\ pc'[c] = "returned"
  BY <1>1, <1>2 DEF Busy, Types
<1>4. Open(c) = {}
  <2>1. PICK used, j \in Nat : CountAt(c, used, j)
    BY <1>1, <1>3 DEF CountInv
  <2>2. Cardinality(Open(c)) \in Nat
    BY OpenFinite
  <2>3. Cardinality(Open(c)) = 0
    BY <1>2, <2>1, <2>2 DEF CountAt
  <2> QED BY <2>3, OpenFinite, FS_EmptySet
<1>5. \A k \in Pending : k.caller # c
  BY <1>1, <1>4, StartOpen
<1>6. Types'
  BY <1>1, <1>2 DEF Types, loop, pool
<1>7. /\ args[c].total \in Nat /\ block[c] \in Nat /\ next[c] \in Nat
      /\ next[c] >= args[c].total
  BY <1>1, <1>2, <1>3, TotalFacts DEF Types, SizeInv
<1>8. \A u \in Units : Done(c, u)' <=> Done(c, u)
  <2>1. \A u : ~InWork(c, u)
    BY <1>5 DEF InWork
  <2> QED BY <1>2, <1>3, <1>7, <2>1 DEF Done, Units, loop
<1>9. \A u \in Units : worked'[c][u] = IF Done(c, u)' THEN 1 ELSE 0
  BY <1>1, <1>2, <1>8 DEF WorkInv
<1>10. \A d \in Callers : d # c => pc'[d] = pc[d]
  BY <1>1, <1>2 DEF Types
<1> QED BY <1>2, <1>3, <1>5, <1>6, <1>9, <1>10, CallerFrame DEF loop

\* The pool is given the closure of the next shard.
LEMMA ScheduleInv ==
  ASSUME Inv, NEW c \in Callers, Schedule(c)
  PROVE  Inv'
<1>1. Types /\ RangeInv /\ WorkInv /\ SizeInv /\ CountInv /\ DisjointInv /\ PlaceInv
  BY DEF Inv
<1>2. PICK n : n = next[c]
  OBVIOUS
<1>3. PICK limit : limit = Limit(c, n)
  OBVIOUS
<1>4. PICK x : x = [caller |-> c, start |-> n, limit |-> limit, at |-> "work"]
  OBVIOUS
<1>5. /\ pc[c] = "schedule" /\ n < args[c].total
      /\ queue' = queue \cup {x}
      /\ next' = [next EXCEPT ![c] = n + block[c]]
      /\ UNCHANGED <<args, pc, block, count, running, worked>>
  BY <1>1, <1>2, <1>3, <1>4 DEF Schedule, Types
<1>6. Busy(c) /\ \A d : Busy(d)' <=> Busy(d)
  BY <1>5 DEF Busy
<1>7. /\ args[c].total \in Nat /\ args[c].total <= MaxUnit /\ MaxUnit \in Nat
      /\ block[c] \in Nat /\ n \in Nat
      /\ 0 < block[c] /\ block[c] <= n /\ block[c] < args[c].total
  BY <1>1, <1>2, <1>6, TotalFacts DEF Types, SizeInv
<1>8. limit = IF n + block[c] <= args[c].total THEN n + block[c] ELSE args[c].total
  BY <1>3, <1>7, MinOfTwo DEF Limit
<1>9. limit \in Nat /\ n < limit /\ limit <= n + block[c] /\ limit <= args[c].total
  BY <1>5, <1>7, <1>8
<1>10. x \in Closure /\ x # None /\ x.caller = c /\ x.start = n /\ x.limit = limit
       /\ x.at = "work"
  BY <1>4, <1>7, <1>9, SharderAssumption DEF Closure
<1>11. Types'
  BY <1>1, <1>5, <1>7, <1>10 DEF Types
<1>12. /\ next'[c] = n + block[c]
       /\ \A d \in Callers : d # c => next'[d] = next[d]
  BY <1>1, <1>5 DEF Types
<1>13. \A k : k \in Pending' <=> k \in Pending \/ k = x
  BY <1>5, <1>10 DEF Pending
\* The closures that the caller has given out lie before the new one.
<1>14. ASSUME NEW k \in Pending, k.caller = c
       PROVE  k.limit <= n /\ k.start < n /\ k.start \in Nat /\ k.limit \in Nat
  BY <1>1, <1>2, <1>7, <1>14, PendingFacts DEF RangeInv
<1>15. x \notin Pending
  BY <1>7, <1>10, <1>14
<1>16. SizeInv'
  <2>1. ASSUME NEW d \in Callers, Busy(d)
        PROVE  /\ 0 < block[d] /\ block[d] <= next'[d] /\ block[d] < args[d].total
               /\ pc[d] = "wait" => next'[d] >= args[d].total
    <3>1. CASE d = c
      BY <3>1, <1>5, <1>7, <1>12
    <3>2. CASE d # c
      BY <2>1, <3>2, <1>1, <1>12 DEF SizeInv
    <3> QED BY <3>1, <3>2
  <2> QED BY <2>1, <1>5, <1>6 DEF SizeInv
<1>17. n \in Units /\ n \notin Open(c)
  <2>1. n \in Units
    BY <1>5, <1>7 DEF Units
  <2>2. \A k \in Pending : k.caller = c => k.start # n
    BY <1>7, <1>14
  <2> QED BY <2>1, <2>2 DEF Open
<1>18. Open(c)' = Open(c) \cup {n} /\ \A d \in Callers : d # c => Open(d)' = Open(d)
  BY <1>10, <1>13, <1>17 DEF Open
<1>19. CountInv'
  <2>1. ASSUME NEW d \in Callers, Busy(d)' PROVE \E used, j \in Nat : CountAt(d, used, j)'
    <3>1. PICK used, j \in Nat : CountAt(d, used, j)
      BY <2>1, <1>1, <1>6 DEF CountInv
    <3>2. CASE d = c
      <4>1. /\ n = j * block[c] /\ j <= used
            /\ (used - 1) * block[c] < args[c].total /\ args[c].total <= used * block[c]
            /\ count[c] = Cardinality(Open(c)) + used - j
        BY <3>1, <3>2, <1>2 DEF CountAt
      <4>2. j < used
        <5>1. ~(used * block[c] <= j * block[c])
          BY <1>5, <1>7, <4>1
        <5> QED BY <5>1, <1>7, Multiples
      <4>3. n + block[c] = (j + 1) * block[c]
        BY <1>7, <4>1
      <4>4. Cardinality(Open(c)') = Cardinality(Open(c)) + 1
        BY <1>17, <1>18, OpenFinite, FS_AddElement
      <4>5. count[c] = Cardinality(Open(c)') + used - (j + 1)
        BY <4>1, <4>4, OpenFinite
      <4>6. CountAt(c, used, j + 1)'
        BY <1>5, <1>12, <4>1, <4>2, <4>3, <4>5 DEF CountAt
      <4> QED BY <3>2, <4>6
    <3>3. CASE d # c
      BY <3>1, <3>3, <1>5, <1>12, <1>18 DEF CountAt
    <3> QED BY <3>2, <3>3
  <2>2. \A d \in Callers : ~Busy(d)' => count'[d] = 0
    BY <1>1, <1>5, <1>6 DEF CountInv
  <2> QED BY <2>1, <2>2 DEF CountInv
<1>20. RangeInv'
  <2>1. ASSUME NEW k \in Pending'
        PROVE  /\ Busy(k.caller)'
               /\ block[k.caller] <= k.start /\ k.start < k.limit
               /\ k.limit <= next'[k.caller] /\ k.limit <= args[k.caller].total
    <3>1. CASE k = x
      BY <3>1, <1>6, <1>7, <1>9, <1>10, <1>12
    <3>2. CASE k \in Pending /\ k.caller = c
      BY <3>2, <1>1, <1>6, <1>7, <1>12, <1>14 DEF RangeInv
    <3>3. CASE k \in Pending /\ k.caller # c
      <4>1. k.caller \in Callers
        BY <1>1, <3>3, PendingFacts
      <4> QED BY <3>3, <4>1, <1>1, <1>6, <1>12 DEF RangeInv
    <3> QED BY <1>13, <3>1, <3>2, <3>3
  <2> QED BY <2>1, <1>5 DEF RangeInv
<1>21. DisjointInv'
  <2>1. ASSUME NEW k \in Pending', NEW l \in Pending', k.caller = l.caller, k # l
        PROVE  k.limit <= l.start \/ l.limit <= k.start
    <3>1. CASE k = x
      BY <2>1, <3>1, <1>10, <1>13, <1>14
    <3>2. CASE l = x
      BY <2>1, <3>2, <1>10, <1>13, <1>14
    <3>3. CASE k # x /\ l # x
      BY <2>1, <3>3, <1>1, <1>13 DEF DisjointInv
    <3> QED BY <3>1, <3>2, <3>3
  <2> QED BY <2>1 DEF DisjointInv
<1>22. PlaceInv'
  <2>1. \A p \in Pool : running[p] # None => running[p] # x
    BY <1>1, <1>15, PendingFacts
  <2> QED BY <1>1, <1>5, <1>10, <2>1 DEF PlaceInv
<1>23. WorkInv'
  <2>1. ASSUME NEW d \in Callers, NEW u \in Units PROVE Done(d, u)' <=> Done(d, u)
    <3>1. CASE d # c
      <4>1. InWork(d, u)' <=> InWork(d, u)
        BY <3>1, <1>10, <1>13 DEF InWork
      <4> QED BY <3>1, <4>1, <1>5, <1>6, <1>12 DEF Done
    <3>2. CASE d = c
      <4>1. InWork(c, u)' <=> InWork(c, u) \/ (n <= u /\ u < limit)
        BY <1>10, <1>13 DEF InWork
      <4>2. u \in Nat
        BY DEF Units
      <4> QED BY <3>2, <4>1, <4>2, <1>2, <1>5, <1>6, <1>7, <1>8, <1>12 DEF Done
    <3> QED BY <3>1, <3>2
  <2> QED BY <2>1, <1>1, <1>5 DEF WorkInv
<1> QED BY <1>11, <1>16, <1>19, <1>20, <1>21, <1>22, <1>23 DEF Inv

-----------------------------------------------------------------------------
\* A step of the pool leaves what belongs to the callers alone.
LEMMA PoolFrame ==
  ASSUME UNCHANGED <<loop, pc>>
  PROVE  /\ UNCHANGED <<args, block, next, pc>>
         /\ \A c : Busy(c)' <=> Busy(c)
BY DEF loop, Busy

\* A thread takes a closure.
LEMMA TakeInv ==
  ASSUME Inv, NEW p \in Pool, NEW k \in queue, Take(p, k)
  PROVE  Inv'
<1>1. Types /\ RangeInv /\ WorkInv /\ SizeInv /\ CountInv /\ DisjointInv /\ PlaceInv
  BY DEF Inv
<1>2. /\ running[p] = None /\ queue' = queue \ {k}
      /\ running' = [running EXCEPT ![p] = k]
      /\ UNCHANGED <<loop, pc, count, worked>>
  BY DEF Take
<1>3. k \in Closure /\ k # None
  BY <1>1, SharderAssumption DEF Types
<1>4. running'[p] = k /\ \A q \in Pool : q # p => running'[q] = running[q]
  BY <1>1, <1>2 DEF Types
<1>5. Types'
  BY <1>1, <1>2, <1>3 DEF Types, loop
<1>6. Pending' = Pending
  <2>1. \A l : l \in Pending' <=> l \in Pending
    BY <1>2, <1>3, <1>4 DEF Pending
  <2> QED BY <2>1
<1>7. /\ \A c : Open(c)' = Open(c)
      /\ \A c, u : InWork(c, u)' <=> InWork(c, u)
  BY <1>6 DEF Open, InWork
<1>8. UNCHANGED <<args, block, next, pc>> /\ \A c : Busy(c)' <=> Busy(c)
  BY <1>2, PoolFrame
<1>9. SizeInv' /\ RangeInv' /\ DisjointInv'
  BY <1>1, <1>6, <1>8 DEF SizeInv, RangeInv, DisjointInv
<1>10. CountInv'
  BY <1>1, <1>2, <1>7, <1>8 DEF CountInv, CountAt
<1>11. WorkInv'
  BY <1>1, <1>2, <1>7, <1>8 DEF WorkInv, Done
<1>12. PlaceInv'
  BY <1>1, <1>2, <1>4 DEF PlaceInv
<1> QED BY <1>5, <1>9, <1>10, <1>11, <1>12 DEF Inv

\* A closure computes its shard.
LEMMA ComputeInv ==
  ASSUME Inv, NEW p \in Pool, Compute(p)
  PROVE  Inv'
<1>1. Types /\ RangeInv /\ WorkInv /\ SizeInv /\ CountInv /\ DisjointInv /\ PlaceInv
  BY DEF Inv
<1>2. PICK k : k = running[p]
  OBVIOUS
<1>3. PICK x : x = [k EXCEPT !.at = "decrement"]
  OBVIOUS
<1>4. /\ k # None /\ k.at = "work" /\ Work(k.caller, k.start, k.limit)
      /\ running' = [running EXCEPT ![p] = x]
      /\ UNCHANGED <<loop, pc, count, queue>>
  BY <1>2, <1>3 DEF Compute
<1>5. k \in Pending /\ k \in Closure
  BY <1>1, <1>2, <1>4, PendingFacts DEF Types
<1>6. /\ x \in Closure /\ x # None /\ x # k /\ x.at = "decrement"
      /\ x.caller = k.caller /\ x.start = k.start /\ x.limit = k.limit
  BY <1>3, <1>4, <1>5, SharderAssumption DEF Closure
<1>7. k.caller \in Callers /\ k.start \in Nat /\ k.limit \in Nat /\ k.start < k.limit
  BY <1>1, <1>5, PendingFacts DEF RangeInv
<1>8. /\ worked' \in [Callers -> [Units -> Nat]]
      /\ \A d \in Callers : d # k.caller => worked'[d] = worked[d]
      /\ \A u \in Units : worked'[k.caller][u] = IF k.start <= u /\ u < k.limit
                                                 THEN worked[k.caller][u] + 1
                                                 ELSE worked[k.caller][u]
  BY <1>1, <1>4, <1>7, WorkFacts
<1>9. running'[p] = x /\ \A q \in Pool : q # p => running'[q] = running[q]
  BY <1>1, <1>4 DEF Types
<1>10. Types'
  BY <1>1, <1>4, <1>6, <1>8 DEF Types, loop
<1>11. k \notin queue /\ \A q \in Pool : running[q] = k => q = p
  BY <1>1, <1>2, <1>4 DEF PlaceInv
<1>12. \A l : l \in Pending' <=> (l \in Pending /\ l # k) \/ l = x
  BY <1>2, <1>4, <1>6, <1>9, <1>11 DEF Pending
\* The others of the caller are elsewhere.
<1>13. ASSUME NEW l \in Pending, l # k, l.caller = k.caller
       PROVE  /\ k.limit <= l.start \/ l.limit <= k.start
              /\ l.start \in Nat /\ l.limit \in Nat /\ l.start # k.start
  <2>1. l.start \in Nat /\ l.limit \in Nat /\ l.start < l.limit
    BY <1>1, PendingFacts DEF RangeInv
  <2>2. k.limit <= l.start \/ l.limit <= k.start
    BY <1>1, <1>5, <1>13 DEF DisjointInv
  <2> QED BY <2>1, <2>2, <1>7
<1>14. x \notin Pending
  BY <1>6, <1>13
<1>15. \A c : Open(c)' = Open(c)
  BY <1>5, <1>6, <1>12 DEF Open
<1>16. UNCHANGED <<args, block, next, pc>> /\ \A c : Busy(c)' <=> Busy(c)
  BY <1>4, PoolFrame
<1>17. SizeInv' /\ CountInv'
  BY <1>1, <1>4, <1>15, <1>16 DEF SizeInv, CountInv, CountAt
<1>18. RangeInv'
  BY <1>1, <1>5, <1>6, <1>12, <1>16 DEF RangeInv
<1>19. DisjointInv'
  <2>1. ASSUME NEW l \in Pending', NEW m \in Pending', l.caller = m.caller, l # m
        PROVE  l.limit <= m.start \/ m.limit <= l.start
    <3>1. CASE l = x
      BY <2>1, <3>1, <1>6, <1>12, <1>13
    <3>2. CASE m = x
      BY <2>1, <3>2, <1>6, <1>12, <1>13
    <3>3. CASE l # x /\ m # x
      BY <2>1, <3>3, <1>1, <1>12 DEF DisjointInv
    <3> QED BY <3>1, <3>2, <3>3
  <2> QED BY <2>1 DEF DisjointInv
<1>20. PlaceInv'
  <2>1. x \notin queue /\ \A q \in Pool : running[q] # None => running[q] # x
    BY <1>1, <1>14, PendingFacts
  <2> QED BY <1>1, <1>4, <1>6, <1>9, <2>1 DEF PlaceInv
<1>21. ASSUME NEW c \in Callers, NEW u \in Units
       PROVE  worked'[c][u] = IF Done(c, u)' THEN 1 ELSE 0
  <2>1. CASE c # k.caller
    <3>1. InWork(c, u)' <=> InWork(c, u)
      BY <2>1, <1>6, <1>12 DEF InWork
    <3> QED BY <2>1, <3>1, <1>1, <1>8, <1>16 DEF WorkInv, Done
  <2>2. CASE c = k.caller /\ ~(k.start <= u /\ u < k.limit)
    <3>1. InWork(c, u)' <=> InWork(c, u)
      BY <2>2, <1>6, <1>12 DEF InWork
    <3> QED BY <2>2, <3>1, <1>1, <1>8, <1>16 DEF WorkInv, Done
  <2>3. CASE c = k.caller /\ k.start <= u /\ u < k.limit
    <3>1. u \in Nat
      BY DEF Units
    <3>2. InWork(c, u) /\ ~InWork(c, u)'
      <4>1. InWork(c, u)
        BY <2>3, <1>4, <1>5 DEF InWork
      <4>2. ASSUME NEW l \in Pending', l.caller = c, l.at = "work", l.start <= u, u < l.limit
            PROVE  FALSE
        <5>1. l \in Pending /\ l # k
          BY <4>2, <1>6, <1>12
        <5> QED BY <2>3, <3>1, <4>2, <5>1, <1>7, <1>13
      <4> QED BY <4>1, <4>2 DEF InWork
    <3>3. /\ Busy(c) /\ block[c] <= k.start /\ k.limit <= next[c]
          /\ k.limit <= args[c].total
          /\ block[c] \in Nat /\ next[c] \in Nat /\ args[c].total \in Nat
      BY <2>3, <1>1, <1>5, TotalFacts DEF RangeInv, Types
    <3>4. u < args[c].total /\ block[c] <= u /\ u < next[c] /\ ~(u < block[c])
      BY <2>3, <3>1, <3>3, <1>7
    <3>5. Done(c, u)' /\ ~Done(c, u)
      BY <3>2, <3>3, <3>4, <1>16 DEF Done, Busy
    <3> QED BY <2>3, <3>5, <1>1, <1>8 DEF WorkInv
  <2> QED BY <2>1, <2>2, <2>3
<1>22. WorkInv'
  BY <1>21 DEF WorkInv
<1> QED BY <1>10, <1>17, <1>18, <1>19, <1>20, <1>22 DEF Inv

\* A closure that has computed its shard counts down and ends.
LEMMA DecrementInv ==
  ASSUME Inv, NEW p \in Pool, DecrementCount(p)
  PROVE  Inv'
<1>1. Types /\ RangeInv /\ WorkInv /\ SizeInv /\ CountInv /\ DisjointInv /\ PlaceInv
  BY DEF Inv
<1>2. PICK k : k = running[p]
  OBVIOUS
<1>3. /\ k # None /\ k.at = "decrement"
      /\ count' = [count EXCEPT ![k.caller] = @ - 1]
      /\ running' = [running EXCEPT ![p] = None]
      /\ UNCHANGED <<loop, pc, queue, worked>>
  BY <1>2 DEF DecrementCount
<1>4. k \in Pending /\ k.caller \in Callers
  BY <1>1, <1>2, <1>3, PendingFacts
<1>5. running'[p] = None /\ \A q \in Pool : q # p => running'[q] = running[q]
  BY <1>1, <1>3 DEF Types
<1>6. /\ count'[k.caller] = count[k.caller] - 1
      /\ \A d \in Callers : d # k.caller => count'[d] = count[d]
  BY <1>1, <1>3, <1>4 DEF Types
<1>7. Types'
  BY <1>1, <1>3, <1>4 DEF Types, loop
<1>8. k \notin queue /\ \A q \in Pool : running[q] = k => q = p
  BY <1>1, <1>2, <1>3 DEF PlaceInv
<1>9. \A l : l \in Pending' <=> l \in Pending /\ l # k
  BY <1>2, <1>3, <1>5, <1>8 DEF Pending
<1>10. \A l \in Pending : l # k /\ l.caller = k.caller => l.start # k.start
  <2>1. ASSUME NEW l \in Pending, l # k, l.caller = k.caller PROVE l.start # k.start
    <3>1. /\ l.start \in Nat /\ l.limit \in Nat /\ l.start < l.limit
          /\ k.start \in Nat /\ k.limit \in Nat /\ k.start < k.limit
      BY <1>1, <1>4, PendingFacts DEF RangeInv
    <3>2. k.limit <= l.start \/ l.limit <= k.start
      BY <1>1, <1>4, <2>1 DEF DisjointInv
    <3> QED BY <3>1, <3>2
  <2> QED BY <2>1
<1>11. /\ Open(k.caller)' = Open(k.caller) \ {k.start}
       /\ \A d \in Callers : d # k.caller => Open(d)' = Open(d)
  BY <1>9, <1>10 DEF Open
<1>12. k.start \in Open(k.caller)
  BY <1>1, <1>4, StartOpen
<1>13. UNCHANGED <<args, block, next, pc>> /\ \A c : Busy(c)' <=> Busy(c)
  BY <1>3, PoolFrame
<1>14. CountInv'
  <2>1. ASSUME NEW d \in Callers, Busy(d)' PROVE \E used, j \in Nat : CountAt(d, used, j)'
    <3>1. PICK used, j \in Nat : CountAt(d, used, j)
      BY <2>1, <1>1, <1>13 DEF CountInv
    <3>2. CASE d = k.caller
      <4>1. Cardinality(Open(d)') = Cardinality(Open(d)) - 1
        BY <3>2, <1>11, <1>12, OpenFinite, FS_RemoveElement, ZenonT(60)
      <4>2. count[d] = Cardinality(Open(d)) + used - j /\ Cardinality(Open(d)) \in Nat
        BY <3>1, OpenFinite DEF CountAt
      <4>3. count'[d] = Cardinality(Open(d)') + used - j
        BY <3>2, <4>1, <4>2, <1>6
      <4>4. CountAt(d, used, j)'
        BY <3>1, <4>3, <1>13 DEF CountAt
      <4> QED BY <4>4
    <3>3. CASE d # k.caller
      BY <3>1, <3>3, <1>6, <1>11, <1>13 DEF CountAt
    <3> QED BY <3>2, <3>3
  <2>2. ASSUME NEW d \in Callers, ~Busy(d)' PROVE count'[d] = 0
    <3>1. Busy(k.caller)
      BY <1>1, <1>4 DEF RangeInv
    <3> QED BY <2>2, <3>1, <1>1, <1>6, <1>13 DEF CountInv
  <2> QED BY <2>1, <2>2 DEF CountInv
<1>15. SizeInv' /\ RangeInv' /\ DisjointInv'
  BY <1>1, <1>9, <1>13 DEF SizeInv, RangeInv, DisjointInv
<1>16. PlaceInv'
  BY <1>1, <1>3, <1>5 DEF PlaceInv
<1>17. \A c, u : InWork(c, u)' <=> InWork(c, u)
  BY <1>3, <1>9 DEF InWork
<1>18. WorkInv'
  BY <1>1, <1>3, <1>13, <1>17 DEF WorkInv, Done
<1> QED BY <1>7, <1>14, <1>15, <1>16, <1>18 DEF Inv

-----------------------------------------------------------------------------
\* No call of Shard has begun.
LEMMA InitInv == Init => Inv
<1> SUFFICES ASSUME Init PROVE Inv
  OBVIOUS
<1>1. Types
  BY DEF Init, Types
<1>2. Pending = {} /\ \A c \in Callers : pc[c] = "call"
  BY DEF Init, Pending
<1>3. SizeInv /\ CountInv
  BY <1>2 DEF Init, SizeInv, CountInv, Busy
<1>4. RangeInv /\ DisjointInv
  BY <1>2 DEF RangeInv, DisjointInv
<1>5. PlaceInv
  BY DEF Init, PlaceInv
<1>6. WorkInv
  BY <1>2 DEF Init, WorkInv, Done, Busy
<1> QED BY <1>1, <1>3, <1>4, <1>5, <1>6 DEF Inv

\* Every step of every thread preserves the invariant.
LEMMA NextInv == Inv /\ [Next]_vars => Inv'
<1> SUFFICES ASSUME Inv, [Next]_vars PROVE Inv'
  OBVIOUS
<1>1. CASE UNCHANGED vars
  <2>1. UNCHANGED pool /\ UNCHANGED <<args, block, next, pc, count, worked, queue, running>>
    BY <1>1 DEF vars, loop, pool
  <2>2. /\ Pending' = Pending
        /\ \A c : Open(c)' = Open(c)
        /\ \A c, u : InWork(c, u)' <=> InWork(c, u)
    BY <2>1, SamePool
  <2>3. Types' /\ SizeInv' /\ PlaceInv'
    BY <2>1 DEF Inv, Types, SizeInv, PlaceInv, Busy
  <2>4. CountInv' /\ RangeInv' /\ DisjointInv'
    BY <2>1, <2>2 DEF Inv, CountInv, CountAt, RangeInv, DisjointInv, Busy
  <2>5. WorkInv'
    BY <2>1, <2>2 DEF Inv, WorkInv, Done, Busy
  <2> QED BY <2>3, <2>4, <2>5 DEF Inv
<1>2. ASSUME NEW c \in Callers, CallerStep(c) PROVE Inv'
  BY <1>2, ShardInv, DoInv, ScheduleInv, WorkFirstInv, WaitInv DEF CallerStep
<1>3. ASSUME NEW p \in Pool, PoolStep(p) PROVE Inv'
  BY <1>3, TakeInv, ComputeInv, DecrementInv DEF PoolStep
<1> QED BY <1>1, <1>2, <1>3 DEF Next, PoolIdle

\* The invariant holds in every state of every run.
LEMMA Invariance == Spec => []Inv
BY InitInv, NextInv, PTL DEF Spec

\* The counter of Sharder::Do never goes below zero, its closures stay within
\* [block_size, total), and no unit of work is done twice.
THEOREM TypeCorrect == Spec => []TypeOK
<1>1. ASSUME Inv PROVE TypeOK
  <2>1. Types /\ CountInv /\ RangeInv /\ SizeInv /\ WorkInv
    BY <1>1 DEF Inv
  <2>2. ASSUME NEW c \in Callers PROVE count[c] \in Nat
    <3>1. CASE Busy(c)
      <4>1. PICK used, j \in Nat : CountAt(c, used, j)
        BY <2>1, <3>1 DEF CountInv
      <4> QED BY <4>1, OpenFinite DEF CountAt
    <3>2. CASE ~Busy(c)
      BY <2>1, <3>2 DEF CountInv
    <3> QED BY <3>1, <3>2
  <2>3. count \in [Callers -> Nat]
    BY <2>1, <2>2 DEF Types
  <2>4. ASSUME NEW c \in Callers, NEW k \in Closures(c)
        PROVE  0 < k.start /\ k.start < k.limit /\ k.limit <= args[c].total
    <3>1. k \in Pending /\ k.caller = c
      BY DEF Closures, Pending
    <3>2. k.start \in Nat
      BY <2>1, <3>1, PendingFacts
    <3>3. Busy(c) /\ block[c] <= k.start /\ k.start < k.limit /\ k.limit <= args[c].total
      BY <2>1, <3>1 DEF RangeInv
    <3>4. 0 < block[c] /\ block[c] \in Nat
      BY <2>1, <3>3 DEF SizeInv, Types
    <3> QED BY <3>2, <3>3, <3>4
  <2>5. worked \in [Callers -> [Units -> 0..1]]
    <3>1. \A c \in Callers : \A u \in Units : worked[c][u] \in 0..1
      BY <2>1 DEF WorkInv
    <3> QED BY <2>1, <3>1 DEF Types
  <2> QED BY <2>1, <2>3, <2>4, <2>5 DEF Types, TypeOK
<1> QED BY <1>1, Invariance, PTL

\* When Shard returns every unit of work was done once and no closure is left
\* that refers to work() and to the counter in the frame it returns from.
THEOREM ReturnsDone == Spec => []ReturnsWhenDone
<1>1. ASSUME Inv PROVE ReturnsWhenDone
  <2>1. Types /\ RangeInv /\ WorkInv
    BY <1>1 DEF Inv
  <2>2. ASSUME NEW c \in Callers, pc[c] = "returned"
        PROVE  /\ \A u \in Units : worked[c][u] = IF u < args[c].total THEN 1 ELSE 0
               /\ Closures(c) = {}
    <3>1. \A u \in Units : Done(c, u) <=> u < args[c].total
      BY <2>2 DEF Done
    <3>2. \A k \in Pending : k.caller # c
      BY <2>1, <2>2, NoClosures DEF Busy
    <3>3. Closures(c) = {}
      BY <3>2 DEF Closures, Pending
    <3> QED BY <2>1, <3>1, <3>3 DEF WorkInv
  <2> QED BY <2>2 DEF ReturnsWhenDone
<1> QED BY <1>1, Invariance, PTL

-----------------------------------------------------------------------------
(***************************************************************************)
(* Shard "limits the maximum parallelism": "1 <= num_shards <= num worker  *)
(* threads" holds as long as total * cost_per_unit fits an int64.          *)
(***************************************************************************)

\* The product and the limit fit the types that the code converts them to.
NoOverflow(c) ==
  /\ args[c].total * Max({1, args[c].cost}) < LongRange \div 2
  /\ MaxParallelism(c) < IntRange \div 2

\* The caller and the threads that work for it, or will, are no more than
\* max_parallelism and the caller's per_thread_max_parallism allow.
LimitsParallelism ==
  \A c \in Callers : NoOverflow(c) /\ Closures(c) # {} =>
    Cardinality(Closures(c)) + 1 <= MaxParallelism(c)

\* The counter of a caller stays below the shards that its arguments give.
ShardsInv ==
  \A c \in Callers : Busy(c) =>
    ~OneThread(c) /\ count[c] <= ShardsUsed(c) - 1 /\ args[c].total > 0

\* "1 <= num_shards <= num worker threads"
LEMMA NumShardsBound ==
  ASSUME Types, NEW c \in Callers, NoOverflow(c), ~OneThread(c)
  PROVE  MaxParallelism(c) \in Nat /\ NumShards(c) <= MaxParallelism(c)
<1>1. /\ args[c].total \in Nat /\ args[c].cost \in Nat
      /\ args[c].max \in Nat /\ args[c].perThread \in Nat
      /\ kMinCostPerShard \in Nat \ {0} /\ LongRange \in Nat \ {0} /\ IntRange \in Nat \ {0}
  BY SharderAssumption DEF Types
<1>2. PICK cost \in Nat : cost = Max({1, args[c].cost})
  BY <1>1, MaxOfTwo
<1>3. PICK product \in Nat : product = args[c].total * cost
  BY <1>1
<1>4. Wrap(args[c].total * cost, LongRange) = product
  BY <1>1, <1>2, <1>3, WrapFits DEF NoOverflow
<1>5. PICK m \in Nat : m = MaxParallelism(c)
  BY <1>1, MinOfTwo DEF MaxParallelism
<1>6. PICK q \in Nat : q = Quotient(product, kMinCostPerShard)
  BY <1>1 DEF Quotient
<1>7. PICK shards \in Nat : shards = Min({m, q}) /\ shards <= m
  BY MinOfTwo
<1>8. Wrap(shards, IntRange) = shards
  <2>1. IntRange \div 2 \in Int /\ shards < IntRange \div 2
    BY <1>1, <1>5, <1>7 DEF NoOverflow
  <2> QED BY <1>1, <2>1, WrapFits
<1>9. NumShards(c) = Max({1, shards})
  BY <1>2, <1>4, <1>5, <1>6, <1>7, <1>8 DEF NumShards
<1>10. m > 1
  BY <1>5 DEF OneThread
<1> QED BY <1>5, <1>7, <1>9, <1>10, MaxOfTwo

\* A block size of at least total / num_shards takes no more than num_shards
\* shards.
LEMMA ShardsUsedBound ==
  ASSUME Types, NEW c \in Callers, args[c].total > 0
  PROVE  ShardsUsed(c) \in Nat /\ ShardsUsed(c) <= NumShards(c)
<1>1. PICK n \in Nat \ {0} : n = NumShards(c)
  BY NumShardsPositive
<1>2. PICK total \in Nat \ {0} : total = args[c].total
  BY TotalFacts
<1>3. total + n <= LongRange \div 2 /\ total + total <= LongRange \div 2
  BY <1>1, <1>2, SumsFit
<1>4. PICK size \in Nat \ {0} :
        size = BlockSize(c) /\ total <= size * n /\ (size - 1) * n < total
  <2>1. BlockSize(c) = CeilDiv(total, n)
    BY <1>1, <1>2 DEF BlockSize
  <2>2. /\ CeilDiv(total, n) \in Nat \ {0}
        /\ (CeilDiv(total, n) - 1) * n < total /\ total <= CeilDiv(total, n) * n
    BY <1>3, CeilDivFacts
  <2> QED BY <2>1, <2>2
<1>5. PICK used \in Nat \ {0} : used = ShardsUsed(c) /\ (used - 1) * size < total
  <2>1. ShardsUsed(c) = CeilDiv(total, size)
    BY <1>2, <1>4 DEF ShardsUsed
  <2>2. size <= total
    <3>1. PICK b \in Nat : b = size - 1
      OBVIOUS
    <3>2. b <= b * n
      BY <3>1
    <3> QED BY <1>4, <3>1, <3>2
  <2>3. total + size <= LongRange \div 2
    BY <1>3, <2>2, SharderAssumption
  <2>4. CeilDiv(total, size) \in Nat \ {0} /\ (CeilDiv(total, size) - 1) * size < total
    BY <2>3, CeilDivFacts
  <2> QED BY <2>1, <2>4
<1>6. PICK a \in Nat : a = used - 1
  BY <1>5
<1>7. a * size < n * size
  BY <1>4, <1>5, <1>6
<1>8. a < n
  BY <1>7, Multiples
<1> QED BY <1>1, <1>5, <1>6, <1>8

\* The sizes depend on the arguments only.
LEMMA SizesNext ==
  ASSUME args' = args, NEW c \in Callers
  PROVE  /\ ShardsUsed(c)' = ShardsUsed(c)
         /\ OneThread(c)' <=> OneThread(c)
BY DEF ShardsUsed, BlockSize, NumShards, OneThread, MaxParallelism

\* Only DecrementCount changes the counter once it is made.
LEMMA ShardsNext ==
  ASSUME Inv, ShardsInv, [Next]_vars PROVE ShardsInv'
<1>1. Types
  BY DEF Inv
<1> SUFFICES ASSUME NEW c \in Callers, Busy(c)'
             PROVE  (~OneThread(c) /\ count[c] <= ShardsUsed(c) - 1 /\ args[c].total > 0)'
  BY DEF ShardsInv
<1>2. args' = args
  BY DEF Next, CallerStep, Shard, Do, Schedule, WorkFirst, Wait, PoolStep, Take, Compute,
         DecrementCount, PoolIdle, vars, loop
<1>3. ASSUME args[c].total > 0, ~OneThread(c), count'[c] <= ShardsUsed(c) - 1
      PROVE  (~OneThread(c) /\ count[c] <= ShardsUsed(c) - 1 /\ args[c].total > 0)'
  BY <1>2, <1>3, SizesNext
<1>4. CASE Busy(c) /\ count'[c] = count[c]
  BY <1>3, <1>4 DEF ShardsInv
<1>5. ASSUME NEW p \in Pool, DecrementCount(p)
      PROVE  (~OneThread(c) /\ count[c] <= ShardsUsed(c) - 1 /\ args[c].total > 0)'
  <2>1. Busy(c)
    BY <1>5 DEF DecrementCount, Busy
  <2>2. args[c].total > 0 /\ ~OneThread(c) /\ count[c] <= ShardsUsed(c) - 1 /\ ShardsUsed(c) \in Nat
    BY <1>1, <2>1, ShardsUsedBound DEF ShardsInv
  <2>3. count[c] \in Int /\ (count'[c] = count[c] \/ count'[c] = count[c] - 1)
    BY <1>1, <1>5 DEF DecrementCount, Types
  <2> QED BY <1>3, <2>2, <2>3
<1>6. ASSUME NEW d \in Callers, CallerStep(d)
      PROVE  (~OneThread(c) /\ count[c] <= ShardsUsed(c) - 1 /\ args[c].total > 0)'
  <2>1. CASE Do(d) /\ d = c
    <3>1. args[c].total > 0 /\ ~OneThread(c) /\ count'[c] = ShardsUsed(c) - 1
      BY <1>1, <2>1 DEF Do, Types
    <3>2. ShardsUsed(c) \in Nat
      BY <1>1, <3>1, ShardsUsedBound
    <3> QED BY <1>3, <3>1, <3>2
  <2>2. CASE Do(d) /\ d # c
    BY <1>1, <1>4, <2>2 DEF Do, Go, Types, Busy
  <2>3. CASE Shard(d) \/ Wait(d)
    BY <1>1, <1>4, <2>3 DEF Shard, Wait, Go, Types, Busy
  <2>4. CASE Schedule(d) \/ WorkFirst(d)
    BY <1>1, <1>4, <2>4 DEF Schedule, WorkFirst, Go, Types, Busy
  <2> QED BY <1>6, <2>1, <2>2, <2>3, <2>4 DEF CallerStep
<1>7. ASSUME NEW p \in Pool, PoolStep(p)
      PROVE  (~OneThread(c) /\ count[c] <= ShardsUsed(c) - 1 /\ args[c].total > 0)'
  <2>1. CASE (\E k \in queue : Take(p, k)) \/ Compute(p)
    BY <1>4, <2>1 DEF Take, Compute, Busy
  <2> QED BY <1>5, <1>7, <2>1 DEF PoolStep
<1>8. CASE UNCHANGED vars
  BY <1>4, <1>8 DEF vars, Busy
<1> QED BY <1>6, <1>7, <1>8 DEF Next, PoolIdle

\* A caller has one open shard for each closure.
LEMMA ClosuresOpen ==
  ASSUME Inv, NEW c \in Callers
  PROVE  IsFiniteSet(Closures(c)) /\ Cardinality(Closures(c)) <= Cardinality(Open(c))
<1>1. Types /\ RangeInv /\ DisjointInv
  BY DEF Inv
<1>2. \A k \in Closures(c) : k \in Pending /\ k.caller = c
  BY DEF Closures, Pending
<1>3. \A k \in Closures(c) : k.start \in Open(c) /\ k.start \in Nat /\ k.limit \in Nat /\ k.start < k.limit
  BY <1>1, <1>2, StartOpen, PendingFacts DEF RangeInv
<1>4. \A k, l \in Closures(c) : k.start = l.start => k = l
  BY <1>1, <1>2, <1>3 DEF DisjointInv
<1>5. PICK f : f = [k \in Closures(c) |-> k.start]
  OBVIOUS
<1>6. f \in Injection(Closures(c), Open(c))
  BY <1>3, <1>4, <1>5 DEF Injection, IsInjective
<1> QED BY <1>6, OpenFinite, FS_Injection

\* Without an overflow no more threads work for a call of Shard than it allows.
THEOREM LimitsParallelismHolds == Spec => []LimitsParallelism
<1>1. Init => ShardsInv
  BY DEF Init, ShardsInv, Busy
<1>2. ASSUME Inv, ShardsInv PROVE LimitsParallelism
  <2> SUFFICES ASSUME NEW c \in Callers, NoOverflow(c), Closures(c) # {}
               PROVE  Cardinality(Closures(c)) + 1 <= MaxParallelism(c)
    BY DEF LimitsParallelism
  <2>1. Types /\ RangeInv /\ CountInv
    BY <1>2 DEF Inv
  <2>2. Busy(c)
    <3>1. PICK k \in Pending : k.caller = c
      BY DEF Closures, Pending
    <3> QED BY <2>1, <3>1 DEF RangeInv
  <2>3. PICK used, j \in Nat : CountAt(c, used, j)
    BY <2>1, <2>2 DEF CountInv
  <2>4. Cardinality(Open(c)) \in Nat /\ Cardinality(Open(c)) <= count[c] /\ count[c] \in Int
    BY <2>1, <2>3, OpenFinite DEF CountAt, Types
  <2>5. ~OneThread(c) /\ count[c] <= ShardsUsed(c) - 1 /\ args[c].total > 0
    BY <1>2, <2>2 DEF ShardsInv
  <2>6. ShardsUsed(c) \in Nat /\ NumShards(c) \in Nat /\ ShardsUsed(c) <= NumShards(c)
    BY <2>1, <2>5, ShardsUsedBound, NumShardsPositive
  <2>7. MaxParallelism(c) \in Nat /\ NumShards(c) <= MaxParallelism(c)
    BY <2>1, <2>5, NumShardsBound
  <2>8. Cardinality(Closures(c)) \in Nat /\ Cardinality(Closures(c)) <= Cardinality(Open(c))
    BY <1>2, ClosuresOpen, FS_CardinalityType
  <2> QED BY <2>4, <2>5, <2>6, <2>7, <2>8
<1> QED BY <1>1, <1>2, Invariance, ShardsNext, PTL DEF Spec
=============================================================================
