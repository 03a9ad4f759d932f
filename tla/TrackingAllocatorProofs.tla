----------------------- MODULE TrackingAllocatorProofs -----------------------
(***************************************************************************)
(* The counts, the sizes and the deletion of TrackingAllocator, for any    *)
(* threads, memory and sizes.                                              *)
(***************************************************************************)
EXTENDS TrackingAllocator, FiniteSetTheorems, TLAPS

Block == Pointers \X Sizes

\* What a thread may be doing.
CallType(c) ==
  \/ c = Idle \/ c = [at |-> "delete"]
  \/ c \in [at : {"record", "find"}, block : Block]
  \/ c \in [at : {"unref"}, block : Block, bytes : Nat]
  \/ c \in [at : {"free"}, block : Block, ref : Nat]

Types ==
  /\ underlying \in BOOLEAN /\ locally \in BOOLEAN /\ ~(underlying /\ locally)
  /\ deleted \in BOOLEAN /\ open \in BOOLEAN
  /\ allocated \in Nat /\ highest \in Nat /\ total \in Nat /\ recorded \in Int
  /\ ref \in Nat
  /\ free \subseteq Pointers /\ owned \subseteq Block /\ inUse \subseteq Block
  /\ DOMAIN call = Threads
  /\ \A t \in Threads : CallType(call[t])

\* A thread with a block that no client has, from the underlying AllocateRaw to
\* the underlying DeallocateRaw.
Carries(t) == call[t].at \in {"record", "find", "unref", "free"}

\* A pointer is in one place: free, with a client, or with a thread.
PlaceInv ==
  /\ \A b \in owned : b[1] \notin free
  /\ \A b, c \in owned : b[1] = c[1] => b = c
  /\ \A t \in Threads : Carries(t) =>
       call[t].block[1] \notin free /\ \A b \in owned : b[1] # call[t].block[1]
  /\ \A t, u \in Threads :
       Carries(t) /\ Carries(u) /\ call[t].block[1] = call[u].block[1] => t = u

\* ref_ counts the blocks out, of which there are finitely many.
CountInv == IsFiniteSet(Outstanding) /\ RefCounted

\* The thread that dropped the last reference and has still to delete the wrapper.
Last(t) == call[t].at = "delete" \/ (call[t].at = "free" /\ call[t].ref = 0)

\* Either the wrapper is deleted or one thread will do it, once ref_ is zero.
LifeInv ==
  /\ \A t \in Threads : call[t].at = "record" => open
  /\ deleted => ref = 0
  /\ \A t \in Threads : Last(t) => ref = 0 /\ ~deleted
  /\ \A t, u \in Threads : Last(t) /\ Last(u) => t = u
  /\ ref = 0 => deleted \/ \E t \in Threads : Last(t)

\* What DeallocateRaw has found out is what AllocateRaw has counted.
SizeInv ==
  /\ SizesExact
  /\ IsFiniteSet(BytesOf(Outstanding))
  /\ \A t \in Threads : call[t].at = "unref" =>
       call[t].bytes = IF underlying \/ locally THEN call[t].block[2] ELSE 0

Inv == Types /\ PlaceInv /\ CountInv /\ LifeInv /\ SizeInv

-----------------------------------------------------------------------------
(* The operators *)

\* A block has a pointer and a size.
LEMMA BlockFacts ==
  /\ \A b \in Block : b[1] \in Pointers /\ b[2] \in Sizes /\ b[2] \in Nat \ {0}
  /\ \A p \in Pointers, n \in Sizes :
       <<p, n>> \in Block /\ <<p, n>>[1] = p /\ <<p, n>>[2] = n
BY TrackingAssumption DEF Block

\* What the state of a call has to do with its fields.
LEMMA CallFacts ==
  ASSUME NEW c, CallType(c)
  PROVE  /\ c.at \in {"idle", "delete", "record", "find", "unref", "free"}
         /\ c.at \in {"record", "find", "unref", "free"} => c.block \in Block
         /\ c.at = "unref" => c.bytes \in Nat
         /\ c.at = "free" => c.ref \in Nat
         /\ c.at = "idle" => c = Idle
BY DEF CallType, Idle

\* The calls that the actions leave behind are calls.
LEMMA CallMade ==
  /\ CallType(Idle) /\ Idle.at = "idle"
  /\ CallType([at |-> "delete"]) /\ [at |-> "delete"].at = "delete"
  /\ \A b \in Block :
       /\ CallType([at |-> "record", block |-> b]) /\ [at |-> "record", block |-> b].at = "record"
       /\ [at |-> "record", block |-> b].block = b
       /\ CallType([at |-> "find", block |-> b]) /\ [at |-> "find", block |-> b].at = "find"
       /\ [at |-> "find", block |-> b].block = b
BY DEF CallType, Idle

\* Become changes the call of one thread.
LEMMA Becomes ==
  ASSUME Types, NEW t \in Threads, NEW c, Become(t, c)
  PROVE  /\ DOMAIN call' = Threads
         /\ call'[t] = c
         /\ \A u \in Threads : u # t => call'[u] = call[u]
BY DEF Types, Become

\* The blocks out, one by one, before and after a step.
LEMMA OutstandingElement ==
  /\ \A b : b \in Outstanding <=>
       b \in owned \/ \E t \in Threads : call[t].at \in {"find", "unref"} /\ call[t].block = b
  /\ \A b : b \in Outstanding' <=>
       b \in owned' \/ \E t \in Threads : call'[t].at \in {"find", "unref"} /\ call'[t].block = b
BY DEF Outstanding, Blocks

\* The blocks that in_use_ should have, before and after a step.
LEMMA InUseElement ==
  /\ \A b : b \in owned \cup Blocks("find") <=>
       b \in owned \/ \E t \in Threads : call[t].at = "find" /\ call[t].block = b
  /\ \A b : b \in (owned \cup Blocks("find"))' <=>
       b \in owned' \/ \E t \in Threads : call'[t].at = "find" /\ call'[t].block = b
BY DEF Blocks

\* The larger of two numbers.
LEMMA MaxOfTwo ==
  ASSUME NEW a \in Nat, NEW b \in Nat
  PROVE  Max({a, b}) = IF a <= b THEN b ELSE a
<1>1. \A x \in {a, b} : (\A y \in {a, b} : y <= x) <=> x = IF a <= b THEN b ELSE a
  OBVIOUS
<1>2. \E x \in {a, b} : \A y \in {a, b} : y <= x
  OBVIOUS
<1> QED BY <1>1, <1>2 DEF Max

\* The numbers of the bytes of a block.
LEMMA IntervalSize ==
  ASSUME NEW n \in Nat
  PROVE  IsFiniteSet(1..n) /\ Cardinality(1..n) = n
<1>1. 1 \in Int /\ n \in Int
  OBVIOUS
<1>2. IsFiniteSet(1..n) /\ Cardinality(1..n) = IF 1 > n THEN 0 ELSE n - 1 + 1
  BY <1>1, FS_Interval, Zenon
<1> QED BY <1>2

\* Two disjoint sets.
LEMMA DisjointSize ==
  ASSUME NEW S, IsFiniteSet(S), NEW T, IsFiniteSet(T), S \cap T = {}
  PROVE  /\ IsFiniteSet(S \cup T)
         /\ Cardinality(S \cup T) = Cardinality(S) + Cardinality(T)
<1>1. Cardinality(S) \in Nat /\ Cardinality(T) \in Nat
  BY FS_CardinalityType
<1>2. /\ IsFiniteSet(S \cup T)
      /\ Cardinality(S \cup T) = Cardinality(S) + Cardinality(T) - Cardinality(S \cap T)
  BY FS_Union
<1>3. Cardinality(S \cap T) = 0
  BY FS_EmptySet
<1> QED BY <1>1, <1>2, <1>3

\* A block adds as many bytes as its size says.
LEMMA BytesOfBlock ==
  ASSUME NEW B, NEW b \in Block, b \notin B, IsFiniteSet(BytesOf(B))
  PROVE  /\ IsFiniteSet(BytesOf(B \cup {b}))
         /\ Cardinality(BytesOf(B \cup {b})) = Cardinality(BytesOf(B)) + b[2]
         /\ Cardinality(BytesOf(B)) \in Nat
<1>1. b[2] \in Nat
  BY BlockFacts
<1>2. PICK one : one = {b} \X (1..b[2])
  OBVIOUS
<1>3. IsFiniteSet(one) /\ Cardinality(one) = b[2]
  <2>1. IsFiniteSet({b}) /\ Cardinality({b}) = 1
    BY FS_Singleton
  <2>2. IsFiniteSet(1..b[2]) /\ Cardinality(1..b[2]) = b[2]
    BY <1>1, IntervalSize
  <2>3. IsFiniteSet(one) /\ Cardinality(one) = Cardinality({b}) * Cardinality(1..b[2])
    BY <1>2, <2>1, <2>2, FS_Product
  <2> QED BY <1>1, <2>1, <2>2, <2>3
<1>4. BytesOf(B \cup {b}) = BytesOf(B) \cup one
  BY <1>2 DEF BytesOf
<1>5. BytesOf(B) \cap one = {}
  BY <1>2 DEF BytesOf
<1>6. /\ IsFiniteSet(BytesOf(B) \cup one)
      /\ Cardinality(BytesOf(B) \cup one) = Cardinality(BytesOf(B)) + Cardinality(one)
  BY <1>3, <1>5, DisjointSize
<1> QED BY <1>3, <1>4, <1>6, FS_CardinalityType

-----------------------------------------------------------------------------
(* The steps *)

\* The constructor.
LEMMA InitInv == Init => Inv
<1> SUFFICES ASSUME Init PROVE Inv
  OBVIOUS
<1>1. \A t \in Threads : call[t] = Idle /\ call[t].at = "idle" /\ CallType(call[t])
  BY CallMade DEF Init
<1>2. Outstanding = {} /\ owned \cup Blocks("find") = {}
  <2>1. \A b : b \notin Outstanding
    BY <1>1, OutstandingElement DEF Init
  <2>2. \A b : b \notin owned \cup Blocks("find")
    BY <1>1, InUseElement DEF Init
  <2> QED BY <2>1, <2>2
<1>3. BytesOf({}) = {}
  BY DEF BytesOf
<1>4. Types
  <2>1. locally \in BOOLEAN /\ ~(underlying /\ locally)
    <3>1. PICK trackSizes \in BOOLEAN : locally = (trackSizes /\ ~underlying)
      BY DEF Init
    <3> QED BY <3>1
  <2>2. underlying \in BOOLEAN /\ deleted \in BOOLEAN /\ open \in BOOLEAN
    BY DEF Init
  <2>3. /\ allocated \in Nat /\ highest \in Nat /\ total \in Nat /\ recorded \in Int /\ ref \in Nat
        /\ free \subseteq Pointers /\ owned \subseteq Block /\ inUse \subseteq Block
        /\ DOMAIN call = Threads
    BY DEF Init
  <2> QED BY <1>1, <2>1, <2>2, <2>3 DEF Types
<1>5. PlaceInv
  BY <1>1 DEF Init, PlaceInv, Carries
<1>6. CountInv
  BY <1>2, FS_EmptySet DEF Init, CountInv, RefCounted
<1>7. LifeInv
  BY <1>1 DEF Init, LifeInv, Last
<1>8. SizeInv
  <2>1. IsFiniteSet(BytesOf(Outstanding)) /\ Cardinality(BytesOf(Outstanding)) = 0
    BY <1>2, <1>3, FS_EmptySet
  <2> QED BY <1>1, <1>2, <2>1 DEF Init, SizeInv, SizesExact
<1> QED BY <1>4, <1>5, <1>6, <1>7, <1>8 DEF Inv

\* What a step of one thread preserves that changes neither the blocks out nor
\* who deletes the wrapper.
LEMMA Quiet ==
  ASSUME Inv, UNCHANGED <<config, sizes, ref, deleted, open>>, Outstanding' = Outstanding,
         \A u \in Threads : Last(u)' <=> Last(u),
         \A u \in Threads : call'[u].at = "record" => open,
         \A u \in Threads : call'[u].at = "unref" =>
           call'[u].bytes = IF underlying \/ locally THEN call'[u].block[2] ELSE 0,
         locally => inUse' = (owned \cup Blocks("find"))'
  PROVE  CountInv' /\ LifeInv' /\ SizeInv'
<1>1. CountInv'
  BY DEF Inv, CountInv, RefCounted
<1>2. LifeInv'
  BY DEF Inv, LifeInv
<1>3. BytesOf(Outstanding)' = BytesOf(Outstanding)
  BY DEF BytesOf
<1>4. SizeInv'
  BY <1>3 DEF Inv, SizeInv, SizesExact, config, sizes
<1> QED BY <1>1, <1>2, <1>4

\* The underlying AllocateRaw gives a pointer that nobody has.
LEMMA AllocateStep ==
  ASSUME Inv, NEW t \in Threads, NEW p \in free, NEW n \in Sizes,
         AllocateUnderlying(t, p, n), UNCHANGED config
  PROVE  Inv'
<1> DEFINE b == <<p, n>>
           c == [at |-> "record", block |-> b]
<1>1. /\ open /\ call[t] = Idle /\ free' = free \ {p} /\ Become(t, c)
      /\ UNCHANGED <<sizes, ref, inUse, deleted, open, owned>>
  BY DEF AllocateUnderlying
<1>2. Types /\ b \in Block /\ b[1] = p
  BY BlockFacts DEF Inv, Types
<1>3. CallType(c) /\ c.at = "record" /\ c.block = b /\ call[t].at = "idle"
  BY <1>1, <1>2, CallMade
<1> HIDE DEF b, c
<1>4. call'[t] = c /\ DOMAIN call' = Threads /\ \A u \in Threads : u # t => call'[u] = call[u]
  BY <1>1, <1>2, Becomes
<1>5. Types'
  BY <1>1, <1>2, <1>3, <1>4 DEF Types, config, sizes
<1>6. PlaceInv'
  BY <1>1, <1>2, <1>3, <1>4 DEF Inv, PlaceInv, Carries
<1>7. Outstanding' = Outstanding
  <2>1. \A x : x \in Outstanding' <=> x \in Outstanding
    BY <1>1, <1>3, <1>4, OutstandingElement
  <2> QED BY <2>1
<1>8. (owned \cup Blocks("find"))' = owned \cup Blocks("find")
  <2>1. \A x : x \in (owned \cup Blocks("find"))' <=> x \in owned \cup Blocks("find")
    BY <1>1, <1>3, <1>4, InUseElement
  <2> QED BY <2>1
<1>9. CountInv' /\ LifeInv' /\ SizeInv'
  <2>1. \A u \in Threads : Last(u)' <=> Last(u)
    BY <1>3, <1>4 DEF Last
  <2>2. \A u \in Threads : call'[u].at = "unref" =>
          call'[u].bytes = IF underlying \/ locally THEN call'[u].block[2] ELSE 0
    BY <1>3, <1>4 DEF Inv, SizeInv
  <2>3. \A u \in Threads : call'[u].at = "record" => open
    BY <1>1
  <2>4. locally => inUse' = (owned \cup Blocks("find"))'
    BY <1>1, <1>8 DEF Inv, SizeInv, SizesExact
  <2> QED BY <1>1, <1>7, <2>1, <2>2, <2>3, <2>4, Quiet
<1> QED BY <1>5, <1>6, <1>9 DEF Inv

\* A block goes from a client to the thread that deallocates it.
LEMMA DeallocateStep ==
  ASSUME Inv, NEW t \in Threads, NEW b \in owned, Deallocate(t, b), UNCHANGED config
  PROVE  Inv'
<1> DEFINE c == [at |-> "find", block |-> b]
<1>1. /\ call[t] = Idle /\ owned' = owned \ {b} /\ free' = free /\ Become(t, c)
      /\ UNCHANGED <<sizes, ref, inUse, deleted, open, made>>
  BY DEF Deallocate, FreeLast
<1>2. Types /\ b \in Block
  BY DEF Inv, Types
<1>3. CallType(c) /\ c.at = "find" /\ c.block = b /\ call[t].at = "idle"
  BY <1>1, <1>2, CallMade
<1> HIDE DEF c
<1>4. call'[t] = c /\ DOMAIN call' = Threads /\ \A u \in Threads : u # t => call'[u] = call[u]
  BY <1>1, <1>2, Becomes
<1>5. Types'
  BY <1>1, <1>2, <1>3, <1>4 DEF Types, config, sizes
<1>6. PlaceInv'
  BY <1>1, <1>2, <1>3, <1>4 DEF Inv, PlaceInv, Carries
<1>7. Outstanding' = Outstanding
  <2>1. \A x : x \in Outstanding' <=> x \in Outstanding
    BY <1>1, <1>3, <1>4, OutstandingElement
  <2> QED BY <2>1
<1>8. (owned \cup Blocks("find"))' = owned \cup Blocks("find")
  <2>1. \A x : x \in (owned \cup Blocks("find"))' <=> x \in owned \cup Blocks("find")
    BY <1>1, <1>3, <1>4, InUseElement
  <2> QED BY <2>1
<1>9. CountInv' /\ LifeInv' /\ SizeInv'
  <2>1. \A u \in Threads : Last(u)' <=> Last(u)
    BY <1>3, <1>4 DEF Last
  <2>2. \A u \in Threads : call'[u].at = "unref" =>
          call'[u].bytes = IF underlying \/ locally THEN call'[u].block[2] ELSE 0
    BY <1>3, <1>4 DEF Inv, SizeInv
  <2>3. \A u \in Threads : call'[u].at = "record" => open
    BY <1>3, <1>4 DEF Inv, LifeInv
  <2>4. locally => inUse' = (owned \cup Blocks("find"))'
    BY <1>1, <1>8 DEF Inv, SizeInv, SizesExact
  <2> QED BY <1>1, <1>7, <2>1, <2>2, <2>3, <2>4, Quiet
<1> QED BY <1>5, <1>6, <1>9 DEF Inv

\* DeallocateRaw finds the size that AllocateRaw has counted.
LEMMA FindStep ==
  ASSUME Inv, NEW t \in Threads, Find(t), UNCHANGED config
  PROVE  Inv'
<1>1. PICK b : b = call[t].block
  OBVIOUS
<1>2. PICK chunks : chunks = {x \in inUse : locally /\ x[1] = b[1]}
  OBVIOUS
<1>3. PICK bytes : bytes = IF underlying THEN b[2]
                           ELSE IF chunks = {} THEN 0 ELSE (CHOOSE x \in chunks : TRUE)[2]
  OBVIOUS
<1> DEFINE c == [at |-> "unref", block |-> b, bytes |-> bytes]
<1>4. /\ call[t].at = "find" /\ inUse' = inUse \ chunks /\ Become(t, c)
      /\ UNCHANGED <<sizes, ref, deleted, open, made, owned, free>>
  BY <1>1, <1>2, <1>3 DEF Find
<1>5. Types /\ b \in Block /\ b[2] \in Nat
  <2>1. Types
    BY DEF Inv
  <2> QED BY <1>1, <1>4, <2>1, CallFacts, BlockFacts DEF Types
<1>6. chunks = IF locally THEN {b} ELSE {}
  <2>1. ASSUME locally, NEW x \in inUse, x[1] = b[1] PROVE x = b
    <3>1. x \in owned \/ \E u \in Threads : call[u].at = "find" /\ call[u].block = x
      BY <2>1, InUseElement DEF Inv, SizeInv, SizesExact
    <3>2. CASE x \in owned
      BY <1>1, <1>4, <2>1, <3>2 DEF Inv, PlaceInv, Carries
    <3>3. ASSUME NEW u \in Threads, call[u].at = "find", call[u].block = x PROVE x = b
      BY <1>1, <1>4, <2>1, <3>3 DEF Inv, PlaceInv, Carries
    <3> QED BY <3>1, <3>2, <3>3
  <2>2. locally => b \in inUse
    BY <1>1, <1>4, InUseElement DEF Inv, SizeInv, SizesExact
  <2> QED BY <1>2, <2>1, <2>2
<1>7. bytes = IF underlying \/ locally THEN b[2] ELSE 0
  <2>1. CASE locally
    <3>1. (CHOOSE x \in chunks : TRUE) = b
      BY <1>6, <2>1
    <3> QED BY <1>3, <1>6, <2>1, <3>1
  <2>2. CASE ~locally
    BY <1>3, <1>6, <2>2
  <2> QED BY <2>1, <2>2
<1>8. CallType(c) /\ c.at = "unref" /\ c.block = b /\ c.bytes = bytes
  BY <1>5, <1>7 DEF CallType
<1> HIDE DEF c
<1>9. call'[t] = c /\ DOMAIN call' = Threads /\ \A u \in Threads : u # t => call'[u] = call[u]
  BY <1>4, <1>5, Becomes
<1>10. Types'
  BY <1>4, <1>5, <1>8, <1>9 DEF Types, config, sizes
<1>11. PlaceInv'
  BY <1>1, <1>4, <1>8, <1>9 DEF Inv, PlaceInv, Carries
<1>12. Outstanding' = Outstanding
  <2>1. \A x : x \in Outstanding' <=> x \in Outstanding
    BY <1>1, <1>4, <1>8, <1>9, OutstandingElement
  <2> QED BY <2>1
<1>13. locally => inUse' = (owned \cup Blocks("find"))'
  <2> SUFFICES ASSUME locally PROVE \A x : x \in inUse' <=> x \in (owned \cup Blocks("find"))'
    OBVIOUS
  <2>1. \A x : x \in inUse <=>
          x \in owned \/ \E u \in Threads : call[u].at = "find" /\ call[u].block = x
    BY InUseElement DEF Inv, SizeInv, SizesExact
  <2>2. b \notin owned /\ \A u \in Threads : u # t /\ call[u].at = "find" => call[u].block # b
    BY <1>1, <1>4 DEF Inv, PlaceInv, Carries
  <2>3. \A x : x \in inUse' <=>
          x \in owned \/ \E u \in Threads : u # t /\ call[u].at = "find" /\ call[u].block = x
    BY <1>1, <1>4, <1>6, <2>1, <2>2
  <2>4. \A x : x \in (owned \cup Blocks("find"))' <=>
          x \in owned \/ \E u \in Threads : u # t /\ call[u].at = "find" /\ call[u].block = x
    BY <1>4, <1>8, <1>9, InUseElement
  <2> QED BY <2>3, <2>4
<1>14. CountInv' /\ LifeInv' /\ SizeInv'
  <2>1. \A u \in Threads : Last(u)' <=> Last(u)
    BY <1>4, <1>8, <1>9 DEF Last
  <2>2. \A u \in Threads : call'[u].at = "unref" =>
          call'[u].bytes = IF underlying \/ locally THEN call'[u].block[2] ELSE 0
    BY <1>7, <1>8, <1>9 DEF Inv, SizeInv
  <2>3. \A u \in Threads : call'[u].at = "record" => open
    BY <1>8, <1>9 DEF Inv, LifeInv
  <2> QED BY <1>4, <1>12, <1>13, <2>1, <2>2, <2>3, Quiet
<1> QED BY <1>10, <1>11, <1>14 DEF Inv

\* As long as a block is out there is a reference.
LEMMA OutKeepsAlive ==
  ASSUME Inv, NEW b \in Outstanding
  PROVE  /\ Cardinality(Outstanding) \in Nat \ {0} /\ ref > 0
         /\ ~deleted /\ \A u \in Threads : ~Last(u)
<1>1. Cardinality(Outstanding) \in Nat /\ Cardinality(Outstanding) # 0
  BY FS_CardinalityType, FS_EmptySet DEF Inv, CountInv
<1>2. ref > 0
  BY <1>1 DEF Inv, CountInv, RefCounted
<1> QED BY <1>1, <1>2 DEF Inv, LifeInv

\* The block is not out any more; the reference may be the last one.
LEMMA UnRefStep ==
  ASSUME Inv, NEW t \in Threads, UnRef(t), UNCHANGED config
  PROVE  Inv'
<1>1. PICK b, bytes : b = call[t].block /\ bytes = call[t].bytes
  OBVIOUS
<1> DEFINE c == [at |-> "free", block |-> b, ref |-> ref']
<1>2. /\ call[t].at = "unref" /\ allocated' = allocated - bytes /\ recorded' = recorded - bytes
      /\ ref' = ref - 1 /\ Become(t, c)
      /\ UNCHANGED <<highest, total, inUse, deleted, open, made, owned, free>>
  BY <1>1 DEF UnRef
<1>3. Types /\ b \in Block /\ b[2] \in Nat \ {0} /\ bytes = IF underlying \/ locally THEN b[2] ELSE 0
  <2>1. Types
    BY DEF Inv
  <2> QED BY <1>1, <1>2, <2>1, CallFacts, BlockFacts DEF Types, Inv, SizeInv
<1>4. b \in Outstanding
  BY <1>1, <1>2, OutstandingElement
<1>5. /\ ref > 0 /\ ~deleted /\ \A u \in Threads : ~Last(u)
  BY <1>4, OutKeepsAlive
<1>6. ref' \in Nat
  BY <1>2, <1>3, <1>5 DEF Types
<1>7. CallType(c) /\ c.at = "free" /\ c.block = b /\ c.ref = ref'
  BY <1>3, <1>6 DEF CallType
<1> HIDE DEF c
<1>8. call'[t] = c /\ DOMAIN call' = Threads /\ \A u \in Threads : u # t => call'[u] = call[u]
  BY <1>2, <1>3, Becomes
<1>9. Outstanding' = Outstanding \ {b}
  <2>1. b \notin owned /\ \A u \in Threads :
          u # t /\ call[u].at \in {"find", "unref"} => call[u].block # b
    BY <1>1, <1>2 DEF Inv, PlaceInv, Carries
  <2>2. \A x : x \in Outstanding' <=> x \in owned \/
          \E u \in Threads : u # t /\ call[u].at \in {"find", "unref"} /\ call[u].block = x
    BY <1>2, <1>7, <1>8, OutstandingElement
  <2>3. \A x : x \in Outstanding \ {b} <=> x \in owned \/
          \E u \in Threads : u # t /\ call[u].at \in {"find", "unref"} /\ call[u].block = x
    BY <1>1, <1>2, <2>1, OutstandingElement
  <2> QED BY <2>2, <2>3
<1>10. PlaceInv'
  BY <1>1, <1>2, <1>7, <1>8 DEF Inv, PlaceInv, Carries
<1>11. CountInv'
  <2>1. /\ IsFiniteSet(Outstanding) /\ Cardinality(Outstanding) \in Nat
        /\ ref = Cardinality(Outstanding) + (IF open THEN 1 ELSE 0)
    BY FS_CardinalityType DEF Inv, CountInv, RefCounted
  <2>2. IsFiniteSet(Outstanding') /\ Cardinality(Outstanding') = Cardinality(Outstanding) - 1
    BY <1>4, <1>9, <2>1, FS_RemoveElement
  <2> QED BY <1>2, <2>1, <2>2 DEF CountInv, RefCounted
<1>12. LifeInv'
  <2>1. Last(t)' <=> ref' = 0
    BY <1>7, <1>8 DEF Last
  <2>2. \A u \in Threads : u # t => ~Last(u)'
    BY <1>5, <1>8 DEF Last
  <2>3. \A u \in Threads : call'[u].at = "record" => open'
    BY <1>2, <1>7, <1>8 DEF Inv, LifeInv
  <2>4. ~deleted'
    BY <1>2, <1>5
  <2> QED BY <2>1, <2>2, <2>3, <2>4 DEF LifeInv
<1>13. /\ IsFiniteSet(BytesOf(Outstanding')) /\ Cardinality(BytesOf(Outstanding')) \in Nat
       /\ Cardinality(BytesOf(Outstanding)) = Cardinality(BytesOf(Outstanding')) + b[2]
  <2>1. IsFiniteSet(BytesOf(Outstanding'))
    <3>1. BytesOf(Outstanding') \in SUBSET BytesOf(Outstanding)
      BY <1>9 DEF BytesOf
    <3>2. IsFiniteSet(BytesOf(Outstanding))
      BY DEF Inv, SizeInv
    <3> QED BY <3>1, <3>2, FS_Subset
  <2>2. b \notin Outstanding' /\ Outstanding' \cup {b} = Outstanding
    BY <1>4, <1>9
  <2> QED BY <1>3, <2>1, <2>2, BytesOfBlock
<1>14. allocated' \in Nat /\ recorded' \in Int
  BY <1>2, <1>3, <1>13 DEF Types, Inv, SizeInv, SizesExact
<1>15. Types'
  BY <1>2, <1>3, <1>6, <1>7, <1>8, <1>14 DEF Types, config
<1>16. SizeInv'
  <2>1. BytesOf(Outstanding)' = BytesOf(Outstanding')
    BY DEF BytesOf
  <2>2. (owned \cup Blocks("find"))' = owned \cup Blocks("find")
    <3>1. \A x : x \in (owned \cup Blocks("find"))' <=> x \in owned \cup Blocks("find")
      BY <1>2, <1>7, <1>8, InUseElement
    <3> QED BY <3>1
  <2>3. \A u \in Threads : call'[u].at = "unref" =>
          call'[u].bytes = IF underlying \/ locally THEN call'[u].block[2] ELSE 0
    BY <1>7, <1>8 DEF Inv, SizeInv
  <2>4. underlying' = underlying /\ locally' = locally
    BY DEF config
  <2>5. SizesExact'
    BY <1>2, <1>3, <1>13, <1>14, <2>1, <2>2, <2>4 DEF Inv, SizeInv, SizesExact, Types
  <2> QED BY <1>13, <2>1, <2>3, <2>4, <2>5 DEF SizeInv
<1> QED BY <1>10, <1>11, <1>12, <1>15, <1>16 DEF Inv

\* The memory goes back; the thread with the last reference goes on to delete.
LEMMA FreeStep ==
  ASSUME Inv, NEW t \in Threads, FreeUnderlying(t), UNCHANGED config
  PROVE  Inv'
<1>1. PICK b, r : b = call[t].block /\ r = call[t].ref
  OBVIOUS
<1>2. PICK c : c = IF r = 0 THEN [at |-> "delete"] ELSE Idle
  OBVIOUS
<1>3. /\ call[t].at = "free" /\ free' = free \cup {b[1]} /\ Become(t, c)
      /\ UNCHANGED <<sizes, ref, inUse, deleted, open, made, owned>>
  BY <1>1, <1>2 DEF FreeUnderlying, DeleteIfZero
<1>4. Types /\ b \in Block /\ b[1] \in Pointers
  <2>1. Types
    BY DEF Inv
  <2> QED BY <1>1, <1>3, <2>1, CallFacts, BlockFacts DEF Types
<1>5. CallType(c) /\ c.at = IF r = 0 THEN "delete" ELSE "idle"
  BY <1>2, CallMade
<1>6. call'[t] = c /\ DOMAIN call' = Threads /\ \A u \in Threads : u # t => call'[u] = call[u]
  BY <1>3, <1>4, Becomes
<1>7. Types'
  BY <1>3, <1>4, <1>5, <1>6 DEF Types, config, sizes
<1>8. PlaceInv'
  BY <1>1, <1>3, <1>5, <1>6 DEF Inv, PlaceInv, Carries
<1>9. Outstanding' = Outstanding
  <2>1. \A x : x \in Outstanding' <=> x \in Outstanding
    BY <1>3, <1>5, <1>6, OutstandingElement
  <2> QED BY <2>1
<1>10. (owned \cup Blocks("find"))' = owned \cup Blocks("find")
  <2>1. \A x : x \in (owned \cup Blocks("find"))' <=> x \in owned \cup Blocks("find")
    BY <1>3, <1>5, <1>6, InUseElement
  <2> QED BY <2>1
<1>11. CountInv' /\ LifeInv' /\ SizeInv'
  <2>1. \A u \in Threads : Last(u)' <=> Last(u)
    BY <1>1, <1>3, <1>5, <1>6 DEF Last
  <2>2. \A u \in Threads : call'[u].at = "unref" =>
          call'[u].bytes = IF underlying \/ locally THEN call'[u].block[2] ELSE 0
    BY <1>5, <1>6 DEF Inv, SizeInv
  <2>3. \A u \in Threads : call'[u].at = "record" => open
    BY <1>5, <1>6 DEF Inv, LifeInv
  <2>4. locally => inUse' = (owned \cup Blocks("find"))'
    BY <1>3, <1>10 DEF Inv, SizeInv, SizesExact
  <2> QED BY <1>3, <1>9, <2>1, <2>2, <2>3, <2>4, Quiet
<1> QED BY <1>7, <1>8, <1>11 DEF Inv

\* delete this
LEMMA DeleteStep ==
  ASSUME Inv, NEW t \in Threads, DeleteThis(t), UNCHANGED config
  PROVE  Inv'
<1>1. /\ call[t].at = "delete" /\ deleted' = TRUE /\ Become(t, Idle)
      /\ UNCHANGED <<sizes, ref, inUse, open, made, owned, free>>
  BY DEF DeleteThis
<1>2. Types /\ CallType(Idle) /\ Idle.at = "idle"
  BY CallMade DEF Inv
<1>3. call'[t] = Idle /\ DOMAIN call' = Threads /\ \A u \in Threads : u # t => call'[u] = call[u]
  BY <1>1, <1>2, Becomes
<1>4. Types'
  BY <1>1, <1>2, <1>3 DEF Types, config, sizes
<1>5. PlaceInv'
  BY <1>1, <1>2, <1>3 DEF Inv, PlaceInv, Carries
<1>6. Outstanding' = Outstanding
  <2>1. \A x : x \in Outstanding' <=> x \in Outstanding
    BY <1>1, <1>2, <1>3, OutstandingElement
  <2> QED BY <2>1
<1>7. (owned \cup Blocks("find"))' = owned \cup Blocks("find")
  <2>1. \A x : x \in (owned \cup Blocks("find"))' <=> x \in owned \cup Blocks("find")
    BY <1>1, <1>2, <1>3, InUseElement
  <2> QED BY <2>1
<1>8. CountInv'
  BY <1>1, <1>6 DEF Inv, CountInv, RefCounted
<1>9. LifeInv'
  <2>1. Last(t) /\ ref = 0 /\ \A u \in Threads : Last(u) => u = t
    BY <1>1 DEF Inv, LifeInv, Last
  <2>2. \A u \in Threads : ~Last(u)'
    BY <1>2, <1>3, <2>1 DEF Last
  <2>3. \A u \in Threads : call'[u].at = "record" => open'
    BY <1>1, <1>2, <1>3 DEF Inv, LifeInv
  <2> QED BY <1>1, <2>1, <2>2, <2>3 DEF LifeInv
<1>10. SizeInv'
  <2>1. BytesOf(Outstanding)' = BytesOf(Outstanding)
    BY <1>6 DEF BytesOf
  <2>2. \A u \in Threads : call'[u].at = "unref" =>
          call'[u].bytes = IF underlying \/ locally THEN call'[u].block[2] ELSE 0
    BY <1>2, <1>3 DEF Inv, SizeInv
  <2> QED BY <1>1, <1>7, <2>1, <2>2 DEF Inv, SizeInv, SizesExact, config, sizes
<1> QED BY <1>4, <1>5, <1>8, <1>9, <1>10 DEF Inv

\* AllocateRaw counts its block.
LEMMA RecordStep ==
  ASSUME Inv, NEW t \in Threads, Record(t), UNCHANGED config
  PROVE  Inv'
<1>1. PICK b : b = call[t].block
  OBVIOUS
<1>2. /\ call[t].at = "record" /\ total' = total + b[2] /\ recorded' = recorded + b[2]
      /\ IF underlying \/ locally
         THEN allocated' = allocated + b[2] /\ highest' = Max({highest, allocated'})
         ELSE UNCHANGED <<allocated, highest>>
      /\ inUse' = IF locally THEN Emplace(b) ELSE inUse
      /\ ref' = ref + 1 /\ owned' = owned \cup {b} /\ Become(t, Idle)
      /\ UNCHANGED <<deleted, open, made, free>>
  BY <1>1 DEF Record, IncrementRef
<1>3. Types /\ CallType(Idle) /\ Idle.at = "idle" /\ b \in Block /\ b[2] \in Nat \ {0}
  <2>1. Types
    BY DEF Inv
  <2> QED BY <1>1, <1>2, <2>1, CallMade, CallFacts, BlockFacts DEF Types
<1>4. call'[t] = Idle /\ DOMAIN call' = Threads /\ \A u \in Threads : u # t => call'[u] = call[u]
  BY <1>2, <1>3, Becomes
<1>5. b \notin Outstanding /\ \A x \in owned \cup Blocks("find") : x[1] # b[1]
  <2>1. b \notin owned /\ \A u \in Threads : call[u].at \in {"find", "unref"} => call[u].block # b
    BY <1>1, <1>2 DEF Inv, PlaceInv, Carries
  <2>2. /\ \A x \in owned : x[1] # b[1]
        /\ \A u \in Threads : call[u].at = "find" => call[u].block[1] # b[1]
    BY <1>1, <1>2 DEF Inv, PlaceInv, Carries
  <2>3. b \notin Outstanding
    BY <2>1, OutstandingElement
  <2>4. ASSUME NEW x \in owned \cup Blocks("find") PROVE x[1] # b[1]
    BY <2>2, InUseElement
  <2> QED BY <2>3, <2>4
<1>6. Outstanding' = Outstanding \cup {b}
  <2>1. \A x : x \in Outstanding' <=> x \in Outstanding \cup {b}
    BY <1>2, <1>3, <1>4, OutstandingElement
  <2> QED BY <2>1
<1>7. (owned \cup Blocks("find"))' = owned \cup Blocks("find") \cup {b}
  <2>1. \A x : x \in (owned \cup Blocks("find"))' <=> x \in owned \cup Blocks("find") \cup {b}
    BY <1>2, <1>3, <1>4, InUseElement
  <2> QED BY <2>1
<1>8. inUse' = IF locally THEN inUse \cup {b} ELSE inUse
  BY <1>2, <1>5 DEF Emplace, Inv, SizeInv, SizesExact
<1>9. /\ highest' \in Nat /\ allocated' \in Nat
      /\ (underlying \/ locally) => highest' = IF highest <= allocated' THEN allocated' ELSE highest
  <2>1. allocated' \in Nat /\ highest \in Nat
    BY <1>2, <1>3 DEF Types
  <2>2. Max({highest, allocated'}) = IF highest <= allocated' THEN allocated' ELSE highest
    BY <2>1, MaxOfTwo
  <2> QED BY <1>2, <2>1, <2>2
<1>10. Types'
  <2>1. total' \in Nat /\ recorded' \in Int /\ ref' \in Nat
    BY <1>2, <1>3 DEF Types
  <2>2. owned' \subseteq Block /\ inUse' \subseteq Block
    BY <1>2, <1>3, <1>8 DEF Types
  <2> QED BY <1>2, <1>3, <1>4, <1>9, <2>1, <2>2 DEF Types, config
<1>11. PlaceInv'
  <2>1. b[1] \notin free /\ \A x \in owned : x[1] # b[1]
    BY <1>1, <1>2 DEF Inv, PlaceInv, Carries
  <2>2. \A u \in Threads : u # t /\ Carries(u) => call[u].block[1] # b[1]
    BY <1>1, <1>2 DEF Inv, PlaceInv, Carries
  <2> QED BY <1>2, <1>3, <1>4, <2>1, <2>2 DEF Inv, PlaceInv, Carries
<1>12. CountInv'
  <2>1. /\ IsFiniteSet(Outstanding) /\ Cardinality(Outstanding) \in Nat
        /\ ref = Cardinality(Outstanding) + (IF open THEN 1 ELSE 0)
    BY FS_CardinalityType DEF Inv, CountInv, RefCounted
  <2>2. IsFiniteSet(Outstanding') /\ Cardinality(Outstanding') = Cardinality(Outstanding) + 1
    BY <1>5, <1>6, <2>1, FS_AddElement
  <2> QED BY <1>2, <2>1, <2>2 DEF CountInv, RefCounted
<1>13. LifeInv'
  <2>1. open /\ ref > 0
    <3>1. open
      BY <1>2 DEF Inv, LifeInv
    <3>2. Cardinality(Outstanding) \in Nat
      BY FS_CardinalityType DEF Inv, CountInv
    <3> QED BY <3>1, <3>2 DEF Inv, CountInv, RefCounted
  <2>2. ~deleted /\ \A u \in Threads : ~Last(u)
    BY <2>1 DEF Inv, LifeInv
  <2>3. \A u \in Threads : ~Last(u)'
    BY <1>3, <1>4, <2>2 DEF Last
  <2>4. ref' # 0 /\ ~deleted' /\ open'
    BY <1>2, <2>1, <2>2, <1>3 DEF Types
  <2> QED BY <2>3, <2>4 DEF LifeInv
<1>14. /\ IsFiniteSet(BytesOf(Outstanding')) /\ Cardinality(BytesOf(Outstanding)) \in Nat
       /\ Cardinality(BytesOf(Outstanding')) = Cardinality(BytesOf(Outstanding)) + b[2]
  <2>1. IsFiniteSet(BytesOf(Outstanding))
    BY DEF Inv, SizeInv
  <2> QED BY <1>3, <1>5, <1>6, <2>1, BytesOfBlock
<1>15. SizeInv'
  <2>1. BytesOf(Outstanding)' = BytesOf(Outstanding')
    BY DEF BytesOf
  <2>2. \A u \in Threads : call'[u].at = "unref" =>
          call'[u].bytes = IF underlying \/ locally THEN call'[u].block[2] ELSE 0
    BY <1>3, <1>4 DEF Inv, SizeInv
  <2>3. underlying' = underlying /\ locally' = locally
    BY DEF config
  <2>4. locally => inUse' = (owned \cup Blocks("find"))'
    BY <1>7, <1>8 DEF Inv, SizeInv, SizesExact
  <2>5. SizesExact'
    <3>1. CASE underlying \/ locally
      <4>1. /\ allocated = Cardinality(BytesOf(Outstanding)) /\ highest >= allocated
            /\ highest <= total /\ (open => recorded = allocated)
        BY <3>1 DEF Inv, SizeInv, SizesExact
      <4>2. /\ allocated' = Cardinality(BytesOf(Outstanding')) /\ highest' >= allocated'
            /\ highest' <= total' /\ (open' => recorded' = allocated')
        BY <1>2, <1>3, <1>9, <1>14, <3>1, <4>1 DEF Types
      <4> QED BY <2>1, <2>3, <2>4, <3>1, <4>2 DEF SizesExact
    <3>2. CASE ~(underlying \/ locally)
      BY <1>2, <2>3, <2>4, <3>2 DEF Inv, SizeInv, SizesExact
    <3> QED BY <3>1, <3>2
  <2> QED BY <1>14, <2>1, <2>2, <2>3, <2>5 DEF SizeInv
<1> QED BY <1>10, <1>11, <1>12, <1>13, <1>15 DEF Inv

\* The executor drops its reference, when no AllocateRaw is under way.
LEMMA GetRecordsStep ==
  ASSUME Inv, NEW t \in Threads, GetRecordsAndUnRef(t), UNCHANGED config
  PROVE  Inv'
<1>1. PICK c : c = IF ref' = 0 THEN [at |-> "delete"] ELSE Idle
  OBVIOUS
<1>2. /\ open /\ call[t] = Idle /\ \A u \in Threads : call[u].at # "record"
      /\ open' = FALSE /\ recorded' = 0 /\ ref' = ref - 1 /\ Become(t, c)
      /\ UNCHANGED <<allocated, highest, total, inUse, deleted, made, owned, free>>
  BY <1>1 DEF GetRecordsAndUnRef, DeleteIfZero
<1>3. Types /\ CallType(c) /\ c.at = (IF ref' = 0 THEN "delete" ELSE "idle") /\ call[t].at = "idle"
  BY <1>1, <1>2, CallMade DEF Inv
<1>4. call'[t] = c /\ DOMAIN call' = Threads /\ \A u \in Threads : u # t => call'[u] = call[u]
  BY <1>2, <1>3, Becomes
<1>5. Outstanding' = Outstanding
  <2>1. \A x : x \in Outstanding' <=> x \in Outstanding
    BY <1>2, <1>3, <1>4, OutstandingElement
  <2> QED BY <2>1
<1>6. (owned \cup Blocks("find"))' = owned \cup Blocks("find")
  <2>1. \A x : x \in (owned \cup Blocks("find"))' <=> x \in owned \cup Blocks("find")
    BY <1>2, <1>3, <1>4, InUseElement
  <2> QED BY <2>1
<1>7. /\ IsFiniteSet(Outstanding) /\ Cardinality(Outstanding) \in Nat
      /\ ref = Cardinality(Outstanding) + 1
  BY <1>2, FS_CardinalityType DEF Inv, CountInv, RefCounted
<1>8. Types'
  <2>1. open' \in BOOLEAN
    BY <1>2
  <2>2. ref' \in Nat /\ recorded' \in Int
    BY <1>2, <1>7
  <2> QED BY <1>2, <1>3, <1>4, <2>1, <2>2 DEF Types, config
<1>9. PlaceInv'
  BY <1>2, <1>3, <1>4 DEF Inv, PlaceInv, Carries
<1>10. CountInv'
  BY <1>2, <1>5, <1>7 DEF CountInv, RefCounted
<1>11. LifeInv'
  <2>1. ~deleted /\ \A u \in Threads : ~Last(u)
    <3>1. ref # 0
      BY <1>7
    <3> QED BY <3>1 DEF Inv, LifeInv
  <2>2. Last(t)' <=> ref' = 0
    BY <1>3, <1>4 DEF Last
  <2>3. \A u \in Threads : u # t => ~Last(u)'
    BY <1>4, <2>1 DEF Last
  <2>4. \A u \in Threads : call'[u].at # "record"
    BY <1>2, <1>3, <1>4
  <2>5. ~deleted'
    BY <1>2, <2>1
  <2> QED BY <2>2, <2>3, <2>4, <2>5 DEF LifeInv
<1>12. SizeInv'
  <2>1. BytesOf(Outstanding)' = BytesOf(Outstanding)
    BY <1>5 DEF BytesOf
  <2>2. \A u \in Threads : call'[u].at = "unref" =>
          call'[u].bytes = IF underlying \/ locally THEN call'[u].block[2] ELSE 0
    BY <1>3, <1>4 DEF Inv, SizeInv
  <2> QED BY <1>2, <1>6, <2>1, <2>2 DEF Inv, SizeInv, SizesExact, config
<1> QED BY <1>8, <1>9, <1>10, <1>11, <1>12 DEF Inv

\* A step that changes nothing.
LEMMA StutterStep ==
  ASSUME Inv, UNCHANGED vars
  PROVE  Inv'
<1>1. /\ underlying' = underlying /\ locally' = locally /\ ref' = ref /\ allocated' = allocated
      /\ highest' = highest /\ total' = total /\ recorded' = recorded /\ inUse' = inUse
      /\ deleted' = deleted /\ open' = open /\ owned' = owned /\ free' = free /\ call' = call
  BY DEF vars, config, sizes
<1>2. Outstanding' = Outstanding /\ (owned \cup Blocks("find"))' = owned \cup Blocks("find")
  BY <1>1 DEF Outstanding, Blocks
<1>3. Types' /\ PlaceInv'
  BY <1>1 DEF Inv, Types, PlaceInv, Carries
<1>4. CountInv' /\ LifeInv' /\ SizeInv'
  <2>1. UNCHANGED <<config, sizes, ref, deleted, open>>
    BY <1>1 DEF config, sizes
  <2>2. \A u \in Threads : Last(u)' <=> Last(u)
    BY <1>1 DEF Last
  <2>3. \A u \in Threads : call'[u].at = "record" => open
    BY <1>1 DEF Inv, LifeInv
  <2>4. \A u \in Threads : call'[u].at = "unref" =>
          call'[u].bytes = IF underlying \/ locally THEN call'[u].block[2] ELSE 0
    BY <1>1 DEF Inv, SizeInv
  <2>5. locally => inUse' = (owned \cup Blocks("find"))'
    BY <1>1, <1>2 DEF Inv, SizeInv, SizesExact
  <2> QED BY <1>2, <2>1, <2>2, <2>3, <2>4, <2>5, Quiet
<1> QED BY <1>3, <1>4 DEF Inv

\* Every step preserves the invariant.
LEMMA NextInv == Inv /\ [Next]_vars => Inv'
<1> SUFFICES ASSUME Inv, [Next]_vars PROVE Inv'
  OBVIOUS
<1>1. CASE UNCHANGED vars
  BY <1>1, StutterStep
<1>2. CASE Step /\ UNCHANGED config
  BY <1>2, AllocateStep, DeallocateStep, RecordStep, FindStep, UnRefStep, FreeStep,
     DeleteStep, GetRecordsStep DEF Step
<1> QED BY <1>1, <1>2 DEF Next, Finished

-----------------------------------------------------------------------------
\* The invariant holds of every behaviour.
THEOREM Invariance == Spec => []Inv
BY InitInv, NextInv, PTL DEF Spec

\* ref_ is the number of the calls of AllocateRaw that DeallocateRaw has not
\* matched, and one more until the executor has read the records.
THEOREM RefCountedHolds == Spec => []RefCounted
<1>1. Inv => RefCounted
  BY DEF Inv, CountInv
<1> QED BY <1>1, Invariance, PTL

\* in_use_, allocated_, the watermark and the records are exact, whichever way
\* sizes are tracked, although the underlying allocator gives a pointer out
\* again while DeallocateRaw is not over.
THEOREM SizesExactHolds == Spec => []SizesExact
<1>1. Inv => SizesExact
  BY DEF Inv, SizeInv
<1> QED BY <1>1, Invariance, PTL

\* The wrapper is deleted when nobody has a block or touches it, by one thread,
\* and is not forgotten.
THEOREM DeletedOnceHolds == Spec => []DeletedOnce
<1>1. Inv => DeletedOnce
  <2> SUFFICES ASSUME Inv PROVE DeletedOnce
    OBVIOUS
  <2>1. ref = 0 <=> Outstanding = {} /\ ~open
    <3>1. Cardinality(Outstanding) \in Nat /\ (Cardinality(Outstanding) = 0 <=> Outstanding = {})
      BY FS_CardinalityType, FS_EmptySet DEF Inv, CountInv
    <3> QED BY <3>1 DEF Inv, CountInv, RefCounted
  <2>2. ASSUME deleted
        PROVE  owned = {} /\ \A t \in Threads : call[t].at \in {"idle", "free"}
    <3>1. Outstanding = {} /\ ~open /\ \A t \in Threads : ~Last(t)
      BY <2>1, <2>2 DEF Inv, LifeInv
    <3>2. owned = {} /\ \A t \in Threads : call[t].at \notin {"find", "unref"}
      BY <3>1, OutstandingElement
    <3>3. \A t \in Threads : call[t].at \notin {"record", "delete"}
      BY <3>1 DEF Inv, LifeInv, Last
    <3> QED BY <3>2, <3>3, CallFacts DEF Inv, Types
  <2>3. Cardinality({t \in Threads : call[t].at = "delete"}) <= 1
    <3>1. PICK D : D = {t \in Threads : call[t].at = "delete"}
      OBVIOUS
    <3>2. \A t, u \in D : t = u
      BY <3>1 DEF Inv, LifeInv, Last
    <3>3. D = {} \/ \E t : D = {t}
      BY <3>2
    <3>4. Cardinality(D) = 0 \/ Cardinality(D) = 1
      BY <3>3, FS_EmptySet, FS_Singleton
    <3> QED BY <3>1, <3>4
  <2>4. ASSUME ~open, owned = {}, \A t \in Threads : call[t] = Idle
        PROVE  deleted
    <3>1. \A t \in Threads : call[t].at = "idle"
      BY <2>4, CallMade
    <3>2. \A b : b \notin Outstanding
      BY <2>4, <3>1, OutstandingElement
    <3>3. ref = 0
      BY <2>1, <2>4, <3>2
    <3> QED BY <3>1, <3>3 DEF Inv, LifeInv, Last
  <2> QED BY <2>2, <2>3, <2>4 DEF DeletedOnce
<1> QED BY <1>1, Invariance, PTL

\* The assertions of DeallocateRaw and UnRef, CHECK_GE(allocated_,
\* allocated_bytes) and CHECK_GE(ref_, 1), in the states in which they are
\* evaluated.
ChecksHold ==
  /\ \A t \in Threads : call[t].at = "unref" =>
       allocated >= call[t].bytes /\ ref >= 1
  /\ open => ref >= 1

\* A thread that has found a size, given the pointer up and let others count
\* and uncount meanwhile, subtracts no more than allocated_ and ref_ have.
THEOREM ChecksHoldAlways == Spec => []ChecksHold
<1>1. Inv => ChecksHold
  <2> SUFFICES ASSUME Inv PROVE ChecksHold
    OBVIOUS
  <2>1. Cardinality(Outstanding) \in Nat
    BY FS_CardinalityType DEF Inv, CountInv
  <2>2. open => ref >= 1
    BY <2>1 DEF Inv, CountInv, RefCounted
  <2>3. ASSUME NEW t \in Threads, call[t].at = "unref"
        PROVE  allocated >= call[t].bytes /\ ref >= 1
    <3>1. PICK b : b = call[t].block
      OBVIOUS
    <3>2. Types /\ b \in Block /\ b[2] \in Nat
      BY <2>3, <3>1, CallFacts, BlockFacts DEF Inv, Types
    <3>3. b \in Outstanding
      BY <2>3, <3>1, OutstandingElement
    <3>4. ref >= 1
      BY <3>2, <3>3, OutKeepsAlive DEF Types
    <3>5. Cardinality(BytesOf(Outstanding)) >= b[2]
      <4>1. PICK rest : rest = Outstanding \ {b}
        OBVIOUS
      <4>2. b \notin rest /\ rest \cup {b} = Outstanding
        BY <3>3, <4>1
      <4>3. BytesOf(rest) \in SUBSET BytesOf(Outstanding)
        BY <4>1 DEF BytesOf
      <4>4. IsFiniteSet(BytesOf(rest))
        BY <4>3, FS_Subset DEF Inv, SizeInv
      <4>5. /\ Cardinality(BytesOf(rest)) \in Nat
            /\ Cardinality(BytesOf(Outstanding)) = Cardinality(BytesOf(rest)) + b[2]
        BY <3>2, <4>2, <4>4, BytesOfBlock, FS_CardinalityType
      <4> QED BY <3>2, <4>5
    <3> QED BY <2>3, <3>1, <3>2, <3>4, <3>5 DEF Inv, SizeInv, SizesExact, Types
  <2> QED BY <2>2, <2>3 DEF ChecksHold
<1> QED BY <1>1, Invariance, PTL
=============================================================================
