-------------------------- MODULE RendezvousProofs --------------------------
(***************************************************************************)
(* LocalRendezvousImpl keeps its table sorted out, invokes every callback  *)
(* at most once, gives no message to two requests, and implements the      *)
(* channels of RendezvousChannel, for any number of keys, producers,       *)
(* consumers, aborts and calls.                                            *)
(***************************************************************************)
EXTENDS Rendezvous, TLAPS

\* The call of request r was made.
Begun(r) == r[2] <= begun[r[1]]

\* q is what y has in excess of x, when it has.
Excess(q, x, y) ==
  Len(x) <= Len(y) => /\ Len(q) = Len(y) - Len(x)
                      /\ \A i \in 1..Len(q) : q[i] = y[Len(x) + i]

\* A queue holds what was sent and not asked for, or what was asked for and
\* not sent; an aborted rendezvous has nothing left to hand over.
QueueAt(q, snt, ask, st) ==
  IF st = OK THEN Excess(q, snt, ask) /\ Excess(q, ask, snt)
             ELSE q = <<>> /\ Len(snt) <= Len(ask)

QueueInv == \A k \in Keys : QueueAt(table[k], sent[k], asked[k], status)

\* A request is made once, under one key.
AskedInv ==
  /\ \A k \in Keys : \A i \in 1..Len(asked[k]) : Begun(asked[k][i])
  /\ \A k, l \in Keys : \A i \in 1..Len(asked[k]), j \in 1..Len(asked[l]) :
       asked[k][i] = asked[l][j] => k = l /\ i = j

\* A request is completed after it was made, and when there is something to
\* complete it with.
OutcomeInv ==
  /\ \A r \in Requests : outcome[r] # None => Begun(r)
  /\ \A k \in Keys : \A i \in 1..Len(asked[k]) :
       outcome[asked[k][i]] # None => i <= Len(sent[k]) \/ status # OK

\* A callback that is due carries the message with the number of its request,
\* or the status of the abort when there is no such message.
Owed(d) ==
  \E k \in Keys : \E i \in 1..Len(asked[k]) :
    /\ d.to = asked[k][i]
    /\ \/ i <= Len(sent[k]) /\ d.result = sent[k][i]
       \/ i > Len(sent[k]) /\ d.result = status /\ status # OK

DutyInv ==
  \A t \in Threads : \A d \in work[t] :
    d.to # None => outcome[d.to] = None /\ Owed(d)

UniqueInv ==
  \A t, u \in Threads : \A d \in work[t], e \in work[u] :
    d.to # None /\ e.to = d.to => u = t /\ e = d

Inv == TypeOK /\ QueueInv /\ AskedInv /\ OutcomeInv /\ DutyInv /\ UniqueInv

-----------------------------------------------------------------------------
\* What Append does to a queue or to a history.
LEMMA AppendFacts ==
  ASSUME NEW S, NEW s \in Seq(S), NEW e \in S
  PROVE  /\ Append(s, e) \in Seq(S)
         /\ Len(Append(s, e)) = Len(s) + 1
         /\ \A i \in 1..Len(s) : Append(s, e)[i] = s[i]
         /\ Append(s, e)[Len(s) + 1] = e
OBVIOUS

\* What taking the earliest item does to a queue.
LEMMA TailFacts ==
  ASSUME NEW S, NEW s \in Seq(S), s # <<>>
  PROVE  /\ Head(s) = s[1] /\ Head(s) \in S
         /\ Len(s) > 0
         /\ Tail(s) \in Seq(S)
         /\ Len(Tail(s)) = Len(s) - 1
         /\ \A i \in 1..Len(Tail(s)) : Tail(s)[i] = s[i + 1]
OBVIOUS

\* What keeping a prefix does to a history.
LEMMA PrefixFacts ==
  ASSUME NEW S, NEW s \in Seq(S), NEW n \in 0..Len(s)
  PROVE  /\ SubSeq(s, 1, n) \in Seq(S)
         /\ Len(SubSeq(s, 1, n)) = n
         /\ \A i \in 1..n : SubSeq(s, 1, n)[i] = s[i]
         /\ n = Len(s) => SubSeq(s, 1, n) = s
OBVIOUS

\* A message is not a request: no thread is a producer and a consumer.
LEMMA Disjoint ==
  /\ \A x \in Messages : x \notin Requests
  /\ None \notin Messages /\ None \notin Requests /\ None \notin Statuses
  /\ OK \notin Statuses
BY RendezvousAssumption DEF Messages, Requests, Items

\* A call that begins is a new one, and calls that were made stay made.
LEMMA CountFacts ==
  ASSUME TypeOK, NEW t \in Threads, Count(t)
  PROVE  /\ begun' \in [Threads -> Nat]
         /\ \A r \in Requests : Begun(r) => Begun(r)'
BY DEF TypeOK, Count, Begun, Requests, Threads

\* The call of a producer stands for a message.
LEMMA NextMessage ==
  ASSUME TypeOK, NEW p \in Producers, CanCall(p)
  PROVE  NextCall(p) \in Messages /\ p \in Threads /\ work[p] = {}
BY RendezvousAssumption DEF TypeOK, CanCall, Idle, NextCall, Messages, Threads

\* The call of a consumer stands for a request nobody has made.
LEMMA NextRequest ==
  ASSUME TypeOK, NEW c \in Consumers, CanCall(c), Count(c), NEW r, r = NextCall(c)
  PROVE  r \in Requests /\ ~Begun(r) /\ Begun(r)' /\ c \in Threads /\ work[c] = {}
BY RendezvousAssumption
   DEF TypeOK, CanCall, Idle, NextCall, Requests, Threads, Begun, Count

\* What the front of a queue says about the channel.
LEMMA QueueShape ==
  ASSUME TypeOK, QueueInv, NEW k \in Keys
  PROVE  /\ MessagesWait(k) =>
              /\ status = OK
              /\ Len(asked[k]) < Len(sent[k])
              /\ Len(table[k]) = Len(sent[k]) - Len(asked[k])
              /\ \A i \in 1..Len(table[k]) : table[k][i] \in Messages
              /\ Head(table[k]) = sent[k][Len(asked[k]) + 1]
         /\ RequestsWait(k) =>
              /\ status = OK
              /\ Len(sent[k]) < Len(asked[k])
              /\ Len(table[k]) = Len(asked[k]) - Len(sent[k])
              /\ \A i \in 1..Len(table[k]) : table[k][i] \in Requests
              /\ Head(table[k]) = asked[k][Len(sent[k]) + 1]
         /\ ~MessagesWait(k) => Len(sent[k]) <= Len(asked[k])
         /\ ~RequestsWait(k) /\ status = OK => Len(asked[k]) <= Len(sent[k])
<1> DEFINE S == Len(sent[k])  A == Len(asked[k])  N == Len(table[k])
<1>1. /\ S \in Nat /\ A \in Nat /\ N \in Nat
      /\ \A i \in 1..S : sent[k][i] \in Messages
      /\ \A i \in 1..A : asked[k][i] \in Requests
      /\ table[k] = <<>> <=> N = 0
      /\ table[k] # <<>> => Head(table[k]) = table[k][1]
  BY DEF TypeOK
<1>2. /\ status = OK /\ S <= A =>
           N = A - S /\ \A i \in 1..N : table[k][i] = asked[k][S + i]
      /\ status = OK /\ A <= S =>
           N = S - A /\ \A i \in 1..N : table[k][i] = sent[k][A + i]
      /\ status # OK => table[k] = <<>> /\ S <= A
  BY DEF QueueInv, QueueAt, Excess
<1> HIDE DEF S, A, N
<1>3. CASE status # OK
  BY <1>1, <1>2, <1>3 DEF MessagesWait, RequestsWait, S, A, N
<1>4. CASE status = OK /\ S < A
  <2>1. N = A - S /\ N > 0 /\ \A i \in 1..N : table[k][i] = asked[k][S + i]
    BY <1>1, <1>2, <1>4
  <2>2. \A i \in 1..N : S + i \in 1..A
    BY <1>1, <1>4, <2>1
  <2>3. \A i \in 1..N : table[k][i] \in Requests
    BY <1>1, <2>1, <2>2
  <2>4. table[k] # <<>> /\ Head(table[k]) = asked[k][S + 1]
        /\ Head(table[k]) \in Requests
    BY <1>1, <2>1, <2>3
  <2>5. RequestsWait(k) /\ ~MessagesWait(k)
    BY <2>4, Disjoint DEF RequestsWait, MessagesWait, IsSendValue
  <2> QED BY <1>1, <1>4, <2>1, <2>3, <2>4, <2>5 DEF S, A, N
<1>5. CASE status = OK /\ A < S
  <2>1. N = S - A /\ N > 0 /\ \A i \in 1..N : table[k][i] = sent[k][A + i]
    BY <1>1, <1>2, <1>5
  <2>2. \A i \in 1..N : A + i \in 1..S
    BY <1>1, <1>5, <2>1
  <2>3. \A i \in 1..N : table[k][i] \in Messages
    BY <1>1, <2>1, <2>2
  <2>4. table[k] # <<>> /\ Head(table[k]) = sent[k][A + 1]
        /\ Head(table[k]) \in Messages
    BY <1>1, <2>1, <2>3
  <2>5. MessagesWait(k) /\ ~RequestsWait(k)
    BY <2>4, Disjoint DEF RequestsWait, MessagesWait, IsSendValue
  <2> QED BY <1>1, <1>5, <2>1, <2>3, <2>4, <2>5 DEF S, A, N
<1>6. CASE status = OK /\ A = S
  <2>1. table[k] = <<>> /\ S <= A /\ A <= S
    BY <1>1, <1>2, <1>6
  <2> QED BY <1>6, <2>1 DEF RequestsWait, MessagesWait, S, A, N
<1>7. S < A \/ A < S \/ A = S
  BY <1>1
<1> QED BY <1>3, <1>4, <1>5, <1>6, <1>7

-----------------------------------------------------------------------------
\* An element of x goes behind the excess of x, or cancels the earliest element
\* of the excess of y.  With x the messages and y the requests, or the other
\* way round, this is what Send and RecvAsync do.
LEMMA ExcessStep ==
  ASSUME NEW X, NEW x \in Seq(X), NEW Y, NEW y \in Seq(Y), NEW I, NEW q \in Seq(I),
         NEW e \in X, e \in I, Excess(q, x, y), Excess(q, y, x)
  PROVE  /\ Len(y) <= Len(x) => /\ Excess(Append(q, e), Append(x, e), y)
                                /\ Excess(Append(q, e), y, Append(x, e))
         /\ Len(x) < Len(y) => /\ Excess(Tail(q), Append(x, e), y)
                               /\ Excess(Tail(q), y, Append(x, e))
<1>1. /\ Len(Append(x, e)) = Len(x) + 1
      /\ \A i \in 1..Len(x) : Append(x, e)[i] = x[i]
      /\ Append(x, e)[Len(x) + 1] = e
  BY AppendFacts
<1>2. Len(q) \in Nat /\ Len(x) \in Nat /\ Len(y) \in Nat
  OBVIOUS
<1>3. ASSUME Len(y) <= Len(x)
      PROVE  Excess(Append(q, e), Append(x, e), y) /\ Excess(Append(q, e), y, Append(x, e))
  <2>1. Len(q) = Len(x) - Len(y) /\ \A i \in 1..Len(q) : q[i] = x[Len(y) + i]
    BY <1>3 DEF Excess
  <2>2. /\ Len(Append(q, e)) = Len(q) + 1
        /\ \A i \in 1..Len(q) : Append(q, e)[i] = q[i]
        /\ Append(q, e)[Len(q) + 1] = e
    BY AppendFacts
  <2>3. ASSUME NEW i \in 1..(Len(q) + 1)
        PROVE  Append(q, e)[i] = Append(x, e)[Len(y) + i]
    <3>1. CASE i = Len(q) + 1
      BY <3>1, <1>1, <1>2, <2>1, <2>2
    <3>2. CASE i \in 1..Len(q)
      <4>1. Len(y) + i \in 1..Len(x)
        BY <3>2, <1>2, <1>3, <2>1
      <4> QED BY <3>2, <4>1, <1>1, <2>1, <2>2
    <3>3. i = Len(q) + 1 \/ i \in 1..Len(q)
      BY <1>2
    <3> QED BY <3>1, <3>2, <3>3
  <2>4. Len(q) + 1 = Len(Append(x, e)) - Len(y) /\ ~(Len(Append(x, e)) <= Len(y))
    BY <1>1, <1>2, <1>3, <2>1
  <2> QED BY <2>2, <2>3, <2>4 DEF Excess
<1>4. ASSUME Len(x) < Len(y)
      PROVE  Excess(Tail(q), Append(x, e), y) /\ Excess(Tail(q), y, Append(x, e))
  <2>1. Len(q) = Len(y) - Len(x) /\ \A i \in 1..Len(q) : q[i] = y[Len(x) + i]
    BY <1>2, <1>4 DEF Excess
  <2>2. q # <<>>
    BY <1>2, <1>4, <2>1
  <2>3. /\ Len(Tail(q)) = Len(q) - 1
        /\ \A i \in 1..Len(Tail(q)) : Tail(q)[i] = q[i + 1]
    BY <2>2, TailFacts
  <2>4. ASSUME NEW i \in 1..Len(Tail(q))
        PROVE  Tail(q)[i] = y[Len(Append(x, e)) + i]
    <3>1. i + 1 \in 1..Len(q) /\ Len(x) + (i + 1) = Len(Append(x, e)) + i
      BY <1>1, <1>2, <2>3
    <3> QED BY <3>1, <2>1, <2>3
  <2>5. Len(Append(x, e)) <= Len(y) /\ Len(Tail(q)) = Len(y) - Len(Append(x, e))
    BY <1>1, <1>2, <1>4, <2>1, <2>3
  <2>6. Len(y) <= Len(Append(x, e)) =>
           Len(Tail(q)) = Len(Append(x, e)) - Len(y) /\ 1..Len(Tail(q)) = {}
    BY <1>1, <1>2, <1>4, <2>5
  <2> QED BY <2>4, <2>5, <2>6 DEF Excess
<1> QED BY <1>3, <1>4

\* A message goes behind the other messages, or takes the earliest request out.
LEMMA QueueSend ==
  ASSUME NEW q \in Seq(Items), NEW snt \in Seq(Messages), NEW ask \in Seq(Requests),
         NEW m \in Messages, QueueAt(q, snt, ask, OK)
  PROVE  /\ Len(ask) <= Len(snt) => QueueAt(Append(q, m), Append(snt, m), ask, OK)
         /\ Len(snt) < Len(ask) => QueueAt(Tail(q), Append(snt, m), ask, OK)
<1>1. m \in Items
  BY DEF Items
<1> QED BY <1>1, ExcessStep DEF QueueAt

\* A request goes behind the other requests, or takes the earliest message out.
LEMMA QueueAsk ==
  ASSUME NEW q \in Seq(Items), NEW snt \in Seq(Messages), NEW ask \in Seq(Requests),
         NEW r \in Requests, QueueAt(q, snt, ask, OK)
  PROVE  /\ Len(snt) <= Len(ask) => QueueAt(Append(q, r), snt, Append(ask, r), OK)
         /\ Len(ask) < Len(snt) => QueueAt(Tail(q), snt, Append(ask, r), OK)
<1>1. r \in Items
  BY DEF Items
<1> QED BY <1>1, ExcessStep DEF QueueAt

-----------------------------------------------------------------------------
\* What a step may do to the histories and to the status: they grow, and an
\* abort drops only messages that nobody has asked for.
Grows ==
  /\ status # OK => status' = status
  /\ \A k \in Keys :
       /\ Len(asked[k]) <= Len(asked'[k])
       /\ \A i \in 1..Len(asked[k]) : asked'[k][i] = asked[k][i]
       /\ \A i \in 1..Len(asked[k]) : i <= Len(sent[k]) =>
            i <= Len(sent'[k]) /\ sent'[k][i] = sent[k][i]
       /\ status # OK => sent'[k] = sent[k]

\* A callback stays due, with the same result, while the histories grow.
LEMMA OwedStays ==
  ASSUME TypeOK, TypeOK', Grows, NEW d, Owed(d)
  PROVE  Owed(d)'
<1>1. PICK k \in Keys : \E i \in 1..Len(asked[k]) :
        /\ d.to = asked[k][i]
        /\ \/ i <= Len(sent[k]) /\ d.result = sent[k][i]
           \/ i > Len(sent[k]) /\ d.result = status /\ status # OK
  BY DEF Owed
<1>2. PICK i \in 1..Len(asked[k]) :
        /\ d.to = asked[k][i]
        /\ \/ i <= Len(sent[k]) /\ d.result = sent[k][i]
           \/ i > Len(sent[k]) /\ d.result = status /\ status # OK
  BY <1>1
<1>3. Len(asked[k]) \in Nat /\ Len(asked'[k]) \in Nat
  BY DEF TypeOK
<1>4. i \in 1..Len(asked'[k]) /\ d.to = asked'[k][i]
  BY <1>2, <1>3 DEF Grows
<1>5. \/ i <= Len(sent'[k]) /\ d.result = sent'[k][i]
      \/ i > Len(sent'[k]) /\ d.result = status' /\ status' # OK
  BY <1>2 DEF Grows
<1> QED BY <1>4, <1>5 DEF Owed

\* Nobody owes a callback to a request that was not made, or that still waits.
LEMMA NotOwed ==
  ASSUME Inv, NEW t \in Threads, NEW d \in work[t], d.to # None
  PROVE  /\ d.to \in Requests /\ Begun(d.to)
         /\ \A k \in Keys : \A i \in 1..Len(asked[k]) :
              d.to = asked[k][i] => i <= Len(sent[k]) \/ status # OK
<1>1. PICK k \in Keys : \E i \in 1..Len(asked[k]) :
        d.to = asked[k][i] /\ (i <= Len(sent[k]) \/ status # OK)
  BY DEF Inv, DutyInv, Owed
<1>2. PICK i \in 1..Len(asked[k]) :
        d.to = asked[k][i] /\ (i <= Len(sent[k]) \/ status # OK)
  BY <1>1
<1>3. d.to \in Requests
  BY DEF Inv, TypeOK
<1> QED BY <1>2, <1>3 DEF Inv, AskedInv

-----------------------------------------------------------------------------
\* A new rendezvous satisfies the invariant.
LEMMA InitInv == Init => Inv
<1> SUFFICES ASSUME Init PROVE Inv
  OBVIOUS
<1>1. TypeOK
  BY DEF Init, TypeOK, Threads, Requests, Statuses, Items
<1>2. \A k \in Keys : table[k] = <<>> /\ sent[k] = <<>> /\ asked[k] = <<>>
  BY DEF Init
<1>3. QueueInv
  BY <1>2 DEF QueueInv, QueueAt, Excess, Init
<1>4. AskedInv /\ OutcomeInv
  BY <1>2 DEF AskedInv, OutcomeInv, Init
<1>5. DutyInv /\ UniqueInv
  BY DEF DutyInv, UniqueInv, Init
<1> QED BY <1>1, <1>3, <1>4, <1>5 DEF Inv

\* A step that leaves the table, the duties and the histories alone.
LEMMA FrameInv ==
  ASSUME Inv, TypeOK', UNCHANGED <<table, status, work, outcome, sent, asked>>,
         \A r \in Requests : Begun(r) => Begun(r)'
  PROVE  Inv'
<1>1. \A k \in Keys : \A i \in 1..Len(asked[k]) : asked[k][i] \in Requests
  BY DEF Inv, TypeOK
<1>2. QueueInv'
  BY DEF Inv, QueueInv
<1>3. AskedInv' /\ OutcomeInv'
  BY <1>1 DEF Inv, AskedInv, OutcomeInv
<1>4. DutyInv' /\ UniqueInv'
  BY DEF Inv, DutyInv, UniqueInv, Owed
<1> QED BY <1>2, <1>3, <1>4 DEF Inv

\* What an accepted message does to the histories.
LEMMA SentFacts ==
  ASSUME Inv, NEW k \in Keys, NEW m \in Messages, status = OK,
         sent' = [sent EXCEPT ![k] = Append(@, m)],
         UNCHANGED <<asked, status, outcome>>,
         \A r \in Requests : Begun(r) => Begun(r)'
  PROVE  /\ sent' \in [Keys -> Seq(Messages)]
         /\ sent'[k] = Append(sent[k], m)
         /\ \A l \in Keys : l # k => sent'[l] = sent[l]
         /\ Len(sent'[k]) = Len(sent[k]) + 1
         /\ sent'[k][Len(sent[k]) + 1] = m
         /\ Grows /\ AskedInv' /\ OutcomeInv'
<1>1. sent \in [Keys -> Seq(Messages)] /\ asked \in [Keys -> Seq(Requests)]
  BY DEF Inv, TypeOK
<1>2. /\ sent'[k] = Append(sent[k], m)
      /\ \A l \in Keys : l # k => sent'[l] = sent[l]
  BY <1>1
<1>3. /\ Append(sent[k], m) \in Seq(Messages)
      /\ Len(sent'[k]) = Len(sent[k]) + 1
      /\ \A i \in 1..Len(sent[k]) : sent'[k][i] = sent[k][i]
      /\ sent'[k][Len(sent[k]) + 1] = m
  BY <1>1, <1>2, AppendFacts
<1>4. sent' \in [Keys -> Seq(Messages)]
  BY <1>1, <1>3
<1>5. \A l \in Keys : /\ Len(sent[l]) \in Nat /\ Len(sent[l]) <= Len(sent'[l])
                      /\ Len(sent'[l]) \in Nat
                      /\ \A i \in 1..Len(sent[l]) : sent'[l][i] = sent[l][i]
  BY <1>1, <1>2, <1>3, <1>4
<1>6. \A l \in Keys : Len(asked[l]) \in Nat /\
                      \A i \in 1..Len(asked[l]) : asked[l][i] \in Requests
  BY <1>1
<1>7. Grows
  <2>1. ASSUME NEW l \in Keys, NEW i \in 1..Len(asked[l]), i <= Len(sent[l])
        PROVE  i <= Len(sent'[l]) /\ sent'[l][i] = sent[l][i]
    BY <2>1, <1>5, <1>6
  <2> QED BY <2>1, <1>6 DEF Grows
<1>8. AskedInv'
  BY <1>6 DEF Inv, AskedInv
<1>9. OutcomeInv'
  <2>1. ASSUME NEW l \in Keys, NEW i \in 1..Len(asked[l]), outcome[asked[l][i]] # None
        PROVE  i <= Len(sent'[l]) \/ status' # OK
    <3>1. i <= Len(sent[l])
      BY <2>1 DEF Inv, OutcomeInv
    <3> QED BY <3>1, <1>5, <1>6
  <2> QED BY <2>1 DEF Inv, OutcomeInv
<1> QED BY <1>2, <1>3, <1>4, <1>7, <1>8, <1>9

\* Send without a waiting request preserves the invariant.
LEMMA SendQueueInv ==
  ASSUME Inv, NEW p \in Producers, NEW k \in Keys, SendQueue(p, k)
  PROVE  Inv'
<1>1. PICK m \in Messages : m = NextCall(p)
  BY NextMessage DEF Inv, Enqueue, SendQueue
<1>2. /\ status = OK /\ ~RequestsWait(k) /\ Count(p)
      /\ table' = [table EXCEPT ![k] = Append(@, m)]
      /\ contexts' = contexts \cup {m}
      /\ sent' = [sent EXCEPT ![k] = Append(@, m)]
      /\ UNCHANGED <<status, work, outcome, expired, asked>>
  BY <1>1 DEF Enqueue, SendQueue
<1>3. p \in Threads
  BY DEF Threads
<1>4. begun' \in [Threads -> Nat] /\ \A r \in Requests : Begun(r) => Begun(r)'
  BY <1>2, <1>3, CountFacts DEF Inv
<1>5. /\ sent' \in [Keys -> Seq(Messages)]
      /\ sent'[k] = Append(sent[k], m)
      /\ \A l \in Keys : l # k => sent'[l] = sent[l]
      /\ Grows /\ AskedInv' /\ OutcomeInv'
  BY <1>2, <1>4, SentFacts
<1>6. m \in Items
  BY DEF Items
<1>7. TypeOK'
  BY <1>2, <1>4, <1>5, <1>6 DEF Inv, TypeOK
<1>8. QueueInv'
  <2>1. /\ table[k] \in Seq(Items) /\ sent[k] \in Seq(Messages)
        /\ asked[k] \in Seq(Requests) /\ QueueAt(table[k], sent[k], asked[k], OK)
    BY <1>2 DEF Inv, TypeOK, QueueInv
  <2>2. Len(asked[k]) <= Len(sent[k])
    BY <1>2, QueueShape DEF Inv
  <2>3. QueueAt(Append(table[k], m), Append(sent[k], m), asked[k], OK)
    BY <2>1, <2>2, QueueSend
  <2>4. /\ table'[k] = Append(table[k], m)
        /\ \A l \in Keys : l # k => table'[l] = table[l]
    BY <1>2 DEF Inv, TypeOK
  <2> QED BY <1>2, <1>5, <2>3, <2>4 DEF Inv, QueueInv
<1>9. DutyInv'
  BY <1>2, <1>5, <1>7, OwedStays DEF Inv, DutyInv
<1>10. UniqueInv'
  BY <1>2 DEF Inv, UniqueInv
<1> QED BY <1>5, <1>7, <1>8, <1>9, <1>10 DEF Inv

\* Send with a waiting request preserves the invariant.
LEMMA SendMatchInv ==
  ASSUME Inv, NEW p \in Producers, NEW k \in Keys, SendMatch(p, k)
  PROVE  Inv'
<1>1. PICK m \in Messages : m = NextCall(p)
  BY NextMessage DEF Inv, SendMatch
<1>2. PICK d : d = Duty(Head(table[k]), m, Head(table[k]))
  OBVIOUS
<1>3. /\ status = OK /\ RequestsWait(k) /\ Count(p)
      /\ table' = [table EXCEPT ![k] = Tail(@)]
      /\ work' = [work EXCEPT ![p] = {d}]
      /\ sent' = [sent EXCEPT ![k] = Append(@, m)]
      /\ UNCHANGED <<status, outcome, contexts, expired, asked>>
  BY <1>1, <1>2 DEF SendMatch
<1>4. p \in Threads
  BY DEF Threads
<1>5. begun' \in [Threads -> Nat] /\ \A r \in Requests : Begun(r) => Begun(r)'
  BY <1>3, <1>4, CountFacts DEF Inv
<1>6. /\ sent' \in [Keys -> Seq(Messages)]
      /\ sent'[k] = Append(sent[k], m)
      /\ \A l \in Keys : l # k => sent'[l] = sent[l]
      /\ Len(sent'[k]) = Len(sent[k]) + 1
      /\ sent'[k][Len(sent[k]) + 1] = m
      /\ Grows /\ AskedInv' /\ OutcomeInv'
  BY <1>3, <1>5, SentFacts
<1>7. /\ table[k] \in Seq(Items) /\ sent[k] \in Seq(Messages)
      /\ asked[k] \in Seq(Requests) /\ QueueAt(table[k], sent[k], asked[k], OK)
      /\ table[k] # <<>>
  BY <1>3 DEF Inv, TypeOK, QueueInv, RequestsWait
<1>8. /\ Len(sent[k]) < Len(asked[k])
      /\ Head(table[k]) = asked[k][Len(sent[k]) + 1]
  BY <1>3, QueueShape DEF Inv
<1>9. PICK i \in 1..Len(asked[k]) : i = Len(sent[k]) + 1 /\ ~(i <= Len(sent[k]))
  BY <1>7, <1>8
<1>10. /\ d.to = asked[k][i] /\ d.result = m /\ d.item = asked[k][i]
       /\ d \in [to : Requests \cup {None}, result : Messages \cup Statuses,
                 item : Items \cup {None}]
       /\ d.to # None
  <2>1. asked[k][i] \in Requests
    BY <1>7
  <2> QED BY <1>2, <1>8, <1>9, <2>1, Disjoint DEF Duty, Items
<1>11. /\ Tail(table[k]) \in Seq(Items)
       /\ table'[k] = Tail(table[k])
       /\ \A l \in Keys : l # k => table'[l] = table[l]
       /\ table' \in [Keys -> Seq(Items)]
  BY <1>3, <1>7, TailFacts DEF Inv, TypeOK
<1>12. work'[p] = {d} /\ \A t \in Threads : t # p => work'[t] = work[t]
  BY <1>3, <1>4 DEF Inv, TypeOK
<1>13. TypeOK'
  BY <1>3, <1>5, <1>6, <1>10, <1>11 DEF Inv, TypeOK
<1>14. QueueInv'
  <2>1. QueueAt(Tail(table[k]), Append(sent[k], m), asked[k], OK)
    BY <1>7, <1>8, QueueSend
  <2> QED BY <1>3, <1>6, <1>11, <2>1 DEF Inv, QueueInv
<1>15. outcome[d.to] = None
  BY <1>3, <1>9, <1>10 DEF Inv, OutcomeInv
<1>16. Owed(d)'
  <2>1. i <= Len(sent'[k]) /\ d.result = sent'[k][i] /\ d.to = asked'[k][i]
        /\ i \in 1..Len(asked'[k])
    BY <1>3, <1>6, <1>9, <1>10
  <2> QED BY <2>1 DEF Owed
<1>17. DutyInv'
  <2>1. ASSUME NEW t \in Threads, NEW e \in work'[t], e.to # None
        PROVE  outcome'[e.to] = None /\ Owed(e)'
    <3>1. CASE t = p
      BY <3>1, <1>3, <1>12, <1>15, <1>16
    <3>2. CASE t # p
      BY <3>2, <2>1, <1>3, <1>6, <1>12, <1>13, OwedStays DEF Inv, DutyInv
    <3> QED BY <3>1, <3>2
  <2> QED BY <2>1 DEF DutyInv
<1>18. \A t \in Threads : \A e \in work[t] : e.to # d.to
  BY <1>3, <1>9, <1>10, NotOwed
<1>19. UniqueInv'
  BY <1>12, <1>18 DEF Inv, UniqueInv
<1> QED BY <1>6, <1>13, <1>14, <1>17, <1>19 DEF Inv

-----------------------------------------------------------------------------
\* What a new request does to the histories.
LEMMA AskedFacts ==
  ASSUME Inv, NEW k \in Keys, NEW r \in Requests, ~Begun(r), Begun(r)',
         asked' = [asked EXCEPT ![k] = Append(@, r)],
         UNCHANGED <<sent, status, outcome>>,
         \A x \in Requests : Begun(x) => Begun(x)'
  PROVE  /\ asked' \in [Keys -> Seq(Requests)]
         /\ asked'[k] = Append(asked[k], r)
         /\ \A l \in Keys : l # k => asked'[l] = asked[l]
         /\ Len(asked'[k]) = Len(asked[k]) + 1
         /\ asked'[k][Len(asked[k]) + 1] = r
         /\ outcome[r] = None
         /\ \A t \in Threads : \A d \in work[t] : d.to # r
         /\ Grows /\ AskedInv' /\ OutcomeInv'
<1>1. sent \in [Keys -> Seq(Messages)] /\ asked \in [Keys -> Seq(Requests)]
  BY DEF Inv, TypeOK
<1>2. /\ asked'[k] = Append(asked[k], r)
      /\ \A l \in Keys : l # k => asked'[l] = asked[l]
  BY <1>1
<1>3. /\ Append(asked[k], r) \in Seq(Requests)
      /\ Len(asked'[k]) = Len(asked[k]) + 1
      /\ \A i \in 1..Len(asked[k]) : asked'[k][i] = asked[k][i]
      /\ asked'[k][Len(asked[k]) + 1] = r
  BY <1>1, <1>2, AppendFacts
<1>4. asked' \in [Keys -> Seq(Requests)]
  BY <1>1, <1>3
<1>5. \A l \in Keys : /\ Len(asked[l]) \in Nat /\ Len(asked'[l]) \in Nat
                      /\ Len(asked[l]) <= Len(asked'[l])
                      /\ \A i \in 1..Len(asked[l]) :
                           asked'[l][i] = asked[l][i] /\ asked[l][i] \in Requests
  BY <1>1, <1>2, <1>3, <1>4
<1>6. Grows
  BY <1>5 DEF Grows
<1>7. outcome[r] = None
  BY DEF Inv, OutcomeInv
\* An element of a history is an old one, or the new request at the end.
<1>8. ASSUME NEW l \in Keys, NEW i \in 1..Len(asked'[l])
      PROVE  \/ i \in 1..Len(asked[l]) /\ asked'[l][i] = asked[l][i]
             \/ l = k /\ i = Len(asked[k]) + 1 /\ asked'[l][i] = r
  BY <1>2, <1>3, <1>5
<1>9. AskedInv'
  <2>1. ASSUME NEW l \in Keys, NEW i \in 1..Len(asked'[l]), NEW x, x = asked'[l][i]
        PROVE  Begun(x)'
    <3>1. CASE i \in 1..Len(asked[l]) /\ asked'[l][i] = asked[l][i]
      BY <2>1, <3>1, <1>5 DEF Inv, AskedInv
    <3>2. CASE asked'[l][i] = r
      BY <2>1, <3>2
    <3> QED BY <3>1, <3>2, <1>8
  <2>2. ASSUME NEW l \in Keys, NEW n \in Keys,
               NEW i \in 1..Len(asked'[l]), NEW j \in 1..Len(asked'[n]),
               asked'[l][i] = asked'[n][j]
        PROVE  l = n /\ i = j
    <3>1. \A x \in Keys : \A y \in 1..Len(asked[x]) : asked[x][y] # r
      BY DEF Inv, AskedInv
    <3> QED BY <2>2, <3>1, <1>8 DEF Inv, AskedInv
  <2> QED BY <2>1, <2>2 DEF AskedInv, Begun
<1>10. OutcomeInv'
  <2>1. ASSUME NEW l \in Keys, NEW i \in 1..Len(asked'[l]),
               outcome[asked'[l][i]] # None
        PROVE  i <= Len(sent[l]) \/ status # OK
    BY <2>1, <1>7, <1>8 DEF Inv, OutcomeInv
  <2> QED BY <2>1 DEF Inv, OutcomeInv
<1>11. \A t \in Threads : \A d \in work[t] : d.to # r
  BY NotOwed, Disjoint
<1> QED BY <1>2, <1>3, <1>4, <1>6, <1>7, <1>9, <1>10, <1>11

\* A request that is answered by the thread that makes it, with a message or
\* with the status of the abort, preserves the invariant.
LEMMA AnswerInv ==
  ASSUME Inv, NEW c \in Threads, NEW k \in Keys, NEW r \in Requests,
         ~Begun(r), Begun(r)', \A x \in Requests : Begun(x) => Begun(x)',
         asked' = [asked EXCEPT ![k] = Append(@, r)],
         UNCHANGED <<sent, status, outcome>>,
         TypeOK', QueueInv',
         NEW d, work' = [work EXCEPT ![c] = {d}], d.to = r,
         \/ Len(asked[k]) < Len(sent[k]) /\ d.result = sent[k][Len(asked[k]) + 1]
         \/ Len(sent[k]) <= Len(asked[k]) /\ d.result = status /\ status # OK
  PROVE  Inv'
<1>1. /\ Len(asked'[k]) = Len(asked[k]) + 1
      /\ asked'[k][Len(asked[k]) + 1] = r
      /\ outcome[r] = None
      /\ \A t \in Threads : \A e \in work[t] : e.to # r
      /\ Grows /\ AskedInv' /\ OutcomeInv'
  BY AskedFacts
<1>2. work'[c] = {d} /\ \A t \in Threads : t # c => work'[t] = work[t]
  BY DEF Inv, TypeOK
<1>3. Len(asked[k]) \in Nat /\ Len(sent[k]) \in Nat
  BY DEF Inv, TypeOK
<1>4. Owed(d)'
  <2>1. PICK i \in 1..Len(asked'[k]) : i = Len(asked[k]) + 1
    BY <1>1, <1>3
  <2>2. d.to = asked'[k][i]
    BY <2>1, <1>1
  <2>3. \/ i <= Len(sent'[k]) /\ d.result = sent'[k][i]
        \/ i > Len(sent'[k]) /\ d.result = status' /\ status' # OK
    BY <2>1, <1>3
  <2> QED BY <2>2, <2>3 DEF Owed
<1>5. DutyInv'
  <2>1. ASSUME NEW t \in Threads, NEW e \in work'[t], e.to # None
        PROVE  outcome'[e.to] = None /\ Owed(e)'
    <3>1. CASE t = c
      BY <3>1, <1>1, <1>2, <1>4
    <3>2. CASE t # c
      BY <3>2, <2>1, <1>1, <1>2, OwedStays DEF Inv, DutyInv
    <3> QED BY <3>1, <3>2
  <2> QED BY <2>1 DEF DutyInv
<1>6. UniqueInv'
  BY <1>1, <1>2 DEF Inv, UniqueInv
<1> QED BY <1>1, <1>5, <1>6 DEF Inv

\* RecvAsync on an aborted rendezvous preserves the invariant.
LEMMA RecvAbortedInv ==
  ASSUME Inv, NEW c \in Consumers, NEW k \in Keys, RecvAborted(c, k)
  PROVE  Inv'
<1>1. PICK r : r = NextCall(c)
  OBVIOUS
<1>2. /\ r \in Requests /\ ~Begun(r) /\ Begun(r)' /\ c \in Threads
      /\ begun' \in [Threads -> Nat] /\ \A x \in Requests : Begun(x) => Begun(x)'
  <2>1. r \in Requests /\ ~Begun(r) /\ Begun(r)' /\ c \in Threads
    BY <1>1, NextRequest DEF Inv, RecvAborted
  <2> QED BY <2>1, CountFacts DEF Inv, RecvAborted
<1>3. PICK d : d = Duty(r, status, None)
  OBVIOUS
<1>4. /\ status # OK
      /\ work' = [work EXCEPT ![c] = {d}]
      /\ asked' = [asked EXCEPT ![k] = Append(@, r)]
      /\ UNCHANGED <<table, status, outcome, contexts, expired, sent>>
  BY <1>1, <1>3 DEF RecvAborted
<1>5. /\ asked' \in [Keys -> Seq(Requests)]
      /\ Len(asked'[k]) = Len(asked[k]) + 1
      /\ \A l \in Keys : l # k => asked'[l] = asked[l]
  BY <1>2, <1>4, AskedFacts
<1>6. d \in [to : Requests \cup {None}, result : Messages \cup Statuses,
             item : Items \cup {None}] /\ d.to = r /\ d.result = status
  BY <1>2, <1>3, <1>4 DEF Duty, Inv, TypeOK
<1>7. TypeOK'
  BY <1>2, <1>4, <1>5, <1>6 DEF Inv, TypeOK
<1>8. \A l \in Keys : table[l] = <<>> /\ Len(sent[l]) <= Len(asked[l])
                      /\ Len(sent[l]) \in Nat /\ Len(asked[l]) \in Nat
  BY <1>4 DEF Inv, QueueInv, QueueAt, TypeOK
<1>9. QueueInv'
  BY <1>4, <1>5, <1>8 DEF QueueInv, QueueAt
<1> QED BY <1>2, <1>4, <1>6, <1>7, <1>8, <1>9, AnswerInv

\* RecvAsync without a waiting message preserves the invariant.
LEMMA RecvQueueInv ==
  ASSUME Inv, NEW c \in Consumers, NEW k \in Keys, RecvQueue(c, k)
  PROVE  Inv'
<1>1. PICK r : r = NextCall(c)
  OBVIOUS
<1>2. /\ r \in Requests /\ ~Begun(r) /\ Begun(r)' /\ c \in Threads
      /\ begun' \in [Threads -> Nat] /\ \A x \in Requests : Begun(x) => Begun(x)'
  <2>1. r \in Requests /\ ~Begun(r) /\ Begun(r)' /\ c \in Threads
    BY <1>1, NextRequest DEF Inv, Enqueue, Accepts, RecvQueue
  <2> QED BY <2>1, CountFacts DEF Inv, Enqueue, Accepts, RecvQueue
<1>3. /\ status = OK /\ ~MessagesWait(k)
      /\ table' = [table EXCEPT ![k] = Append(@, r)]
      /\ contexts' = contexts \cup {r}
      /\ asked' = [asked EXCEPT ![k] = Append(@, r)]
      /\ UNCHANGED <<status, work, outcome, expired, sent>>
  BY <1>1 DEF Enqueue, Accepts, RecvQueue
<1>4. /\ asked' \in [Keys -> Seq(Requests)]
      /\ asked'[k] = Append(asked[k], r)
      /\ \A l \in Keys : l # k => asked'[l] = asked[l]
      /\ Grows /\ AskedInv' /\ OutcomeInv'
  BY <1>2, <1>3, AskedFacts
<1>5. r \in Items
  BY <1>2 DEF Items
<1>6. TypeOK'
  BY <1>2, <1>3, <1>4, <1>5 DEF Inv, TypeOK
<1>7. QueueInv'
  <2>1. /\ table[k] \in Seq(Items) /\ sent[k] \in Seq(Messages)
        /\ asked[k] \in Seq(Requests) /\ QueueAt(table[k], sent[k], asked[k], OK)
    BY <1>3 DEF Inv, TypeOK, QueueInv
  <2>2. Len(sent[k]) <= Len(asked[k])
    BY <1>3, QueueShape DEF Inv
  <2>3. QueueAt(Append(table[k], r), sent[k], Append(asked[k], r), OK)
    BY <1>2, <2>1, <2>2, QueueAsk
  <2>4. /\ table'[k] = Append(table[k], r)
        /\ \A l \in Keys : l # k => table'[l] = table[l]
    BY <1>3 DEF Inv, TypeOK
  <2> QED BY <1>3, <1>4, <2>3, <2>4 DEF Inv, QueueInv
<1>8. DutyInv'
  BY <1>3, <1>4, <1>6, OwedStays DEF Inv, DutyInv
<1>9. UniqueInv'
  BY <1>3 DEF Inv, UniqueInv
<1> QED BY <1>4, <1>6, <1>7, <1>8, <1>9 DEF Inv

\* RecvAsync with a waiting message preserves the invariant.
LEMMA RecvMatchInv ==
  ASSUME Inv, NEW c \in Consumers, NEW k \in Keys, RecvMatch(c, k)
  PROVE  Inv'
<1>1. PICK r : r = NextCall(c)
  OBVIOUS
<1>2. /\ r \in Requests /\ ~Begun(r) /\ Begun(r)' /\ c \in Threads
      /\ begun' \in [Threads -> Nat] /\ \A x \in Requests : Begun(x) => Begun(x)'
  <2>1. r \in Requests /\ ~Begun(r) /\ Begun(r)' /\ c \in Threads
    BY <1>1, NextRequest DEF Inv, RecvMatch
  <2> QED BY <2>1, CountFacts DEF Inv, RecvMatch
<1>3. PICK d : d = Duty(r, Head(table[k]), Head(table[k]))
  OBVIOUS
<1>4. /\ status = OK /\ MessagesWait(k)
      /\ table' = [table EXCEPT ![k] = Tail(@)]
      /\ work' = [work EXCEPT ![c] = {d}]
      /\ asked' = [asked EXCEPT ![k] = Append(@, r)]
      /\ UNCHANGED <<status, outcome, contexts, expired, sent>>
  BY <1>1, <1>3 DEF RecvMatch
<1>5. /\ asked' \in [Keys -> Seq(Requests)]
      /\ asked'[k] = Append(asked[k], r)
      /\ \A l \in Keys : l # k => asked'[l] = asked[l]
  BY <1>2, <1>4, AskedFacts
<1>6. /\ table[k] \in Seq(Items) /\ sent[k] \in Seq(Messages)
      /\ asked[k] \in Seq(Requests) /\ QueueAt(table[k], sent[k], asked[k], OK)
      /\ table[k] # <<>>
  BY <1>4 DEF Inv, TypeOK, QueueInv, MessagesWait
<1>7. /\ Len(asked[k]) < Len(sent[k])
      /\ Head(table[k]) = sent[k][Len(asked[k]) + 1]
      /\ Head(table[k]) \in Messages
  BY <1>4, QueueShape DEF Inv, MessagesWait, IsSendValue
<1>8. d \in [to : Requests \cup {None}, result : Messages \cup Statuses,
             item : Items \cup {None}]
      /\ d.to = r /\ d.result = sent[k][Len(asked[k]) + 1]
  BY <1>2, <1>3, <1>7 DEF Duty, Items
<1>9. /\ Tail(table[k]) \in Seq(Items)
      /\ table'[k] = Tail(table[k])
      /\ \A l \in Keys : l # k => table'[l] = table[l]
      /\ table' \in [Keys -> Seq(Items)]
  BY <1>4, <1>6, TailFacts DEF Inv, TypeOK
<1>10. TypeOK'
  BY <1>2, <1>4, <1>5, <1>8, <1>9 DEF Inv, TypeOK
<1>11. QueueInv'
  <2>1. QueueAt(Tail(table[k]), sent[k], Append(asked[k], r), OK)
    BY <1>2, <1>6, <1>7, QueueAsk
  <2> QED BY <1>4, <1>5, <1>9, <2>1 DEF Inv, QueueInv
<1> QED BY <1>2, <1>4, <1>7, <1>8, <1>10, <1>11, AnswerInv

-----------------------------------------------------------------------------
\* An item in the table is a message, or a request for which no message was
\* sent, to which nobody owes a callback and which is not completed.
LEMMA QueuedItem ==
  ASSUME Inv, NEW x \in Queued
  PROVE  /\ x \in Items
         /\ ~IsSendValue(x) =>
              /\ x \in Requests /\ status = OK /\ outcome[x] = None
              /\ \E k \in Keys : \E i \in 1..Len(asked[k]) :
                   x = asked[k][i] /\ i > Len(sent[k])
              /\ \A t \in Threads : \A d \in work[t] : d.to # x
<1>0. PICK k \in Keys : x \in {table[k][i] : i \in 1..Len(table[k])}
  BY DEF Queued
<1>1. PICK n \in 1..Len(table[k]) : x = table[k][n]
  BY <1>0
<1>2. table[k] \in Seq(Items) /\ sent[k] \in Seq(Messages) /\ asked[k] \in Seq(Requests)
  BY DEF Inv, TypeOK
<1>3. x \in Items /\ table[k] # <<>>
  BY <1>1, <1>2
<1>4. ASSUME ~IsSendValue(x)
      PROVE  /\ x \in Requests /\ status = OK /\ outcome[x] = None
             /\ \E l \in Keys : \E i \in 1..Len(asked[l]) :
                  x = asked[l][i] /\ i > Len(sent[l])
             /\ \A t \in Threads : \A d \in work[t] : d.to # x
  <2>1. RequestsWait(k)
    BY <1>1, <1>3, <1>4, QueueShape DEF Inv, RequestsWait, MessagesWait, IsSendValue
  <2>2. /\ status = OK /\ Len(sent[k]) < Len(asked[k])
        /\ Len(table[k]) = Len(asked[k]) - Len(sent[k])
        /\ x \in Requests
    BY <1>1, <2>1, QueueShape DEF Inv
  <2>3. Len(sent[k]) \in Nat /\ Len(asked[k]) \in Nat
    BY <1>2
  <2>4. x = asked[k][Len(sent[k]) + n]
    <3>1. Excess(table[k], sent[k], asked[k]) /\ Len(sent[k]) <= Len(asked[k])
      BY <2>2, <2>3 DEF Inv, QueueInv, QueueAt
    <3> QED BY <1>1, <3>1 DEF Excess
  <2>5. PICK i \in 1..Len(asked[k]) :
          x = asked[k][i] /\ i > Len(sent[k]) /\ ~(i <= Len(sent[k]))
    BY <2>2, <2>3, <2>4
  <2>6. outcome[x] = None
    BY <2>2, <2>5 DEF Inv, OutcomeInv
  <2>7. \A t \in Threads : \A d \in work[t] : d.to # x
    BY <2>2, <2>5, NotOwed, Disjoint
  <2> QED BY <2>2, <2>5, <2>6, <2>7
<1> QED BY <1>3, <1>4

\* What an abort keeps of the histories: the messages that were asked for.
LEMMA ClaimedFacts ==
  ASSUME Inv, NEW s \in Statuses, AbortTable(s), NEW k \in Keys
  PROVE  /\ sent'[k] = Channel!Claimed(k) /\ sent'[k] \in Seq(Messages)
         /\ Len(sent'[k]) <= Len(asked[k])
         /\ \A i \in 1..Len(asked[k]) :
              /\ i <= Len(sent[k]) <=> i <= Len(sent'[k])
              /\ i <= Len(sent[k]) => sent'[k][i] = sent[k][i]
         /\ status # OK => sent'[k] = sent[k]
<1> DEFINE S == Len(sent[k])  A == Len(asked[k])
<1>1. sent[k] \in Seq(Messages) /\ S \in Nat /\ A \in Nat
  BY DEF Inv, TypeOK
<1>2. sent'[k] = IF MessagesWait(k) THEN SubSeq(sent[k], 1, S - Len(table[k]))
                                    ELSE sent[k]
  BY DEF AbortTable, Update, Swapped, AbortDuty
<1>3. CASE MessagesWait(k)
  <2>a. status = OK /\ A < S /\ Len(table[k]) = S - A
    BY <1>3, QueueShape DEF Inv
  <2>1. status = OK /\ A < S /\ S - Len(table[k]) = A /\ A \in 0..S
    <3> HIDE DEF S, A
    <3> QED BY <1>1, <2>a
  <2>2. sent'[k] = SubSeq(sent[k], 1, A) /\ A \in 0..S
    <3> HIDE DEF S, A
    <3> QED BY <1>2, <1>3, <2>1
  <2>3. /\ sent'[k] \in Seq(Messages) /\ Len(sent'[k]) = A
        /\ \A i \in 1..A : sent'[k][i] = sent[k][i]
    BY <1>1, <2>2, PrefixFacts
  <2>4. sent'[k] = Channel!Claimed(k)
    BY <1>1, <2>1, <2>2 DEF Channel!Claimed
  <2> QED BY <1>1, <2>1, <2>3, <2>4
<1>4. CASE ~MessagesWait(k)
  <2>1. S <= A /\ sent'[k] = sent[k]
    BY <1>2, <1>4, QueueShape DEF Inv
  <2>2. SubSeq(sent[k], 1, S) = sent[k]
    BY <1>1, PrefixFacts
  <2>3. S = A \/ S < A
    BY <1>1, <2>1
  <2>4. sent'[k] = Channel!Claimed(k)
    BY <2>1, <2>2, <2>3 DEF Channel!Claimed
  <2> QED BY <1>1, <2>1, <2>4
<1> QED BY <1>3, <1>4

\* StartAbort, and the destructor's abort, preserve the invariant.
LEMMA AbortInv ==
  ASSUME Inv, NEW s \in Statuses, AbortTable(s), Count(s),
         UNCHANGED <<outcome, contexts, expired, asked>>
  PROVE  Inv'
<1>1. s \in Threads /\ s # OK
  BY Disjoint DEF Statuses, Threads
<1>2. begun' \in [Threads -> Nat] /\ \A r \in Requests : Begun(r) => Begun(r)'
  BY <1>1, CountFacts DEF Inv
<1>3. /\ status' = (IF status = OK THEN s ELSE status)
      /\ table' = [k \in Keys |-> <<>>]
      /\ work' = [work EXCEPT ![s] =
           {Duty(IF IsSendValue(i) THEN None ELSE i, s, i) : i \in Queued}]
      /\ DOMAIN sent' = Keys
      /\ sent' = [k \in Keys |-> sent'[k]]
  BY DEF AbortTable, Update, Swapped, AbortDuty
<1>4. status' \in Statuses /\ status' # OK /\ (status # OK => status' = status)
  BY <1>1, <1>3 DEF Inv, TypeOK
<1>5. /\ \A t \in Threads : t # s => work'[t] = work[t]
      /\ \A d \in work'[s] : \E x \in Queued :
           d = Duty(IF IsSendValue(x) THEN None ELSE x, s, x)
  BY <1>1, <1>3 DEF Inv, TypeOK
<1>6. TypeOK'
  <2>1. ASSUME NEW x \in Queued
        PROVE  Duty(IF IsSendValue(x) THEN None ELSE x, s, x) \in
                 [to : Requests \cup {None}, result : Messages \cup Statuses,
                  item : Items \cup {None}]
    BY QueuedItem DEF Duty
  <2>2. work' \in [Threads -> SUBSET [to : Requests \cup {None},
                                      result : Messages \cup Statuses,
                                      item : Items \cup {None}]]
    <3> DEFINE W == {Duty(IF IsSendValue(i) THEN None ELSE i, s, i) : i \in Queued}
    <3>1. W \subseteq [to : Requests \cup {None}, result : Messages \cup Statuses,
                       item : Items \cup {None}]
      BY <2>1
    <3>2. work' = [work EXCEPT ![s] = W]
      BY <1>3
    <3> HIDE DEF W
    <3> QED BY <3>1, <3>2 DEF Inv, TypeOK
  <2>3. sent' \in [Keys -> Seq(Messages)]
    BY <1>3, ClaimedFacts
  <2>4. table' \in [Keys -> Seq(Items)]
    BY <1>3
  <2> QED BY <1>2, <1>4, <2>2, <2>3, <2>4 DEF Inv, TypeOK
<1>7. QueueInv'
  BY <1>3, <1>4, ClaimedFacts DEF QueueInv, QueueAt
<1>8. AskedInv' /\ OutcomeInv'
  <2>1. \A k \in Keys : \A i \in 1..Len(asked[k]) : asked[k][i] \in Requests
    BY DEF Inv, TypeOK
  <2> QED BY <1>2, <1>4, <2>1 DEF Inv, AskedInv, OutcomeInv
<1>9. Grows
  <2>1. \A k \in Keys : Len(asked[k]) \in Nat
    BY DEF Inv, TypeOK
  <2> QED BY <1>4, <2>1, ClaimedFacts DEF Grows
<1>10. ASSUME NEW d \in work'[s], d.to # None
       PROVE  /\ outcome[d.to] = None /\ Owed(d)' /\ d = Duty(d.to, s, d.to)
              /\ \A t \in Threads : \A e \in work[t] : e.to # d.to
  <2>1. PICK x \in Queued : d = Duty(IF IsSendValue(x) THEN None ELSE x, s, x)
    BY <1>5
  <2>2. ~IsSendValue(x) /\ d = Duty(x, s, x) /\ d.to = x /\ d.result = s
    BY <2>1, <1>10 DEF Duty
  <2>3. /\ status = OK /\ outcome[x] = None
        /\ \E k \in Keys : \E i \in 1..Len(asked[k]) :
             x = asked[k][i] /\ i > Len(sent[k])
        /\ \A t \in Threads : \A e \in work[t] : e.to # x
    BY <2>2, QueuedItem
  <2>a. PICK k \in Keys : \E i \in 1..Len(asked[k]) : x = asked[k][i] /\ i > Len(sent[k])
    BY <2>3
  <2>4. PICK i \in 1..Len(asked[k]) : x = asked[k][i] /\ i > Len(sent[k])
    BY <2>a
  <2>5. i > Len(sent'[k])
    <3>1. Len(sent[k]) \in Nat /\ Len(sent'[k]) \in Nat /\ Len(asked[k]) \in Nat
      BY <1>6 DEF Inv, TypeOK
    <3> QED BY <2>4, <3>1, ClaimedFacts
  <2>6. Owed(d)'
    BY <2>2, <2>3, <2>4, <2>5, <1>3, <1>4 DEF Owed
  <2> QED BY <2>2, <2>3, <2>6
<1>11. DutyInv'
  <2>1. ASSUME NEW t \in Threads, NEW e \in work'[t], e.to # None
        PROVE  outcome'[e.to] = None /\ Owed(e)'
    <3>1. CASE t = s
      BY <2>1, <3>1, <1>10
    <3>2. CASE t # s
      BY <3>2, <2>1, <1>5, <1>6, <1>9, OwedStays DEF Inv, DutyInv
    <3> QED BY <3>1, <3>2
  <2> QED BY <2>1 DEF DutyInv
<1>12. UniqueInv'
  <2>1. ASSUME NEW t \in Threads, NEW u \in Threads,
               NEW d \in work'[t], NEW e \in work'[u], d.to # None, e.to = d.to
        PROVE  u = t /\ e = d
    <3>1. CASE t = s /\ u = s
      BY <2>1, <3>1, <1>10
    <3>2. CASE t = s /\ u # s
      BY <2>1, <3>2, <1>5, <1>10
    <3>3. CASE t # s /\ u = s
      BY <2>1, <3>3, <1>5, <1>10
    <3>4. CASE t # s /\ u # s
      BY <2>1, <3>4, <1>5 DEF Inv, UniqueInv
    <3> QED BY <3>1, <3>2, <3>3, <3>4
  <2> QED BY <2>1 DEF UniqueInv
<1> QED BY <1>6, <1>7, <1>8, <1>11, <1>12 DEF Inv

\* A callback, and the deletion of its item, preserve the invariant.
LEMMA InvokeInv ==
  ASSUME Inv, NEW t \in Threads, Invoke(t)
  PROVE  Inv'
<1>1. PICK d \in work[t] :
        /\ work' = [work EXCEPT ![t] = @ \ {d}]
        /\ outcome' = IF d.to = None THEN outcome
                                     ELSE [outcome EXCEPT ![d.to] = d.result]
        /\ contexts' = contexts \ {d.item}
        /\ UNCHANGED <<table, status, begun, expired, sent, asked>>
  BY DEF Invoke
<1>2. d \in [to : Requests \cup {None}, result : Messages \cup Statuses,
             item : Items \cup {None}]
  BY DEF Inv, TypeOK
<1>3. TypeOK'
  BY <1>1, <1>2 DEF Inv, TypeOK
<1>4. QueueInv' /\ AskedInv'
  BY <1>1 DEF Inv, QueueInv, AskedInv, Begun
<1>5. /\ d.to # None => outcome'[d.to] = d.result
      /\ \A r \in Requests : r # d.to => outcome'[r] = outcome[r]
  BY <1>1, <1>2 DEF Inv, TypeOK
<1>6. OutcomeInv'
  <2>1. ASSUME NEW r \in Requests, outcome'[r] # None PROVE Begun(r)'
    BY <2>1, <1>1, <1>5, NotOwed DEF Inv, OutcomeInv, Begun
  <2>2. ASSUME NEW k \in Keys, NEW i \in 1..Len(asked[k]), outcome'[asked[k][i]] # None
        PROVE  i <= Len(sent[k]) \/ status # OK
    <3>1. asked[k][i] \in Requests
      BY DEF Inv, TypeOK
    <3>2. asked[k][i] = d.to => d.to # None
      BY <3>1, Disjoint
    <3> QED BY <2>2, <3>1, <3>2, <1>5, NotOwed DEF Inv, OutcomeInv
  <2> QED BY <2>1, <2>2, <1>1 DEF OutcomeInv
<1>7. \A u \in Threads : \A e \in work'[u] : e \in work[u] /\ (u = t => e # d)
  BY <1>1 DEF Inv, TypeOK
<1>8. DutyInv'
  <2>1. ASSUME NEW u \in Threads, NEW e \in work'[u], e.to # None
        PROVE  outcome'[e.to] = None /\ Owed(e)'
    <3>1. e \in work[u] /\ e.to \in Requests
      BY <2>1, <1>7 DEF Inv, TypeOK
    <3>2. e.to # d.to
      BY <2>1, <3>1, <1>7 DEF Inv, UniqueInv
    <3>3. outcome[e.to] = None /\ Owed(e)
      BY <2>1, <3>1 DEF Inv, DutyInv
    <3> QED BY <3>1, <3>2, <3>3, <1>1, <1>5 DEF Owed
  <2> QED BY <2>1 DEF DutyInv
<1>9. UniqueInv'
  BY <1>7 DEF Inv, UniqueInv
<1> QED BY <1>3, <1>4, <1>6, <1>8, <1>9 DEF Inv

-----------------------------------------------------------------------------
\* No consumer makes more calls than the bound of the model.
CallsInv ==
  begun \in [Threads -> Nat] /\ \A c \in Consumers : begun[c] <= MaxCalls

\* A thread counts a call only when it may make one.
LEMMA CallsBounded == Spec => []CallsInv
<1>1. Init => CallsInv
  BY RendezvousAssumption DEF Init, CallsInv, Threads
<1>2. CallsInv /\ [Next]_vars => CallsInv'
  <2> SUFFICES ASSUME CallsInv, [Next]_vars PROVE CallsInv'
    OBVIOUS
  <2>1. ASSUME NEW t \in Threads, Count(t), t \in Consumers => begun[t] < MaxCalls
        PROVE  CallsInv'
    BY <2>1, RendezvousAssumption DEF CallsInv, Count, Threads
  <2>2. ASSUME UNCHANGED begun PROVE CallsInv'
    BY <2>2 DEF CallsInv
  <2>3. ASSUME NEW p \in Producers, CanCall(p), Count(p) PROVE CallsInv'
    BY <2>1, <2>3 DEF CanCall, Threads
  <2>4. ASSUME NEW c \in Consumers, CanCall(c), Count(c) PROVE CallsInv'
    BY <2>1, <2>4 DEF CanCall, Threads
  <2>5. ASSUME NEW s \in Statuses, Count(s) PROVE CallsInv'
    BY <2>1, <2>5, RendezvousAssumption DEF Statuses, Threads
  <2>6. ASSUME NEW p \in Producers, SendAborted(p) PROVE CallsInv'
    BY <2>3, <2>6 DEF SendAborted
  <2>7. ASSUME NEW p \in Producers, NEW k \in Keys, SendQueue(p, k) \/ SendMatch(p, k)
        PROVE  CallsInv'
    BY <2>3, <2>7 DEF Enqueue, SendQueue, SendMatch
  <2>8. ASSUME NEW c \in Consumers, NEW k \in Keys,
               RecvAborted(c, k) \/ RecvQueue(c, k) \/ RecvMatch(c, k)
        PROVE  CallsInv'
    BY <2>4, <2>8 DEF RecvAborted, Enqueue, Accepts, RecvQueue, RecvMatch
  <2>9. ASSUME NEW a \in Aborters, StartAbort(a) PROVE CallsInv'
    BY <2>5, <2>9 DEF StartAbort, Statuses
  <2>10. ASSUME Destroy PROVE CallsInv'
    BY <2>5, <2>10 DEF Destroy, Statuses
  <2>11. ASSUME NEW c \in Consumers, Expire(c) PROVE CallsInv'
    BY <2>2, <2>11 DEF Expire
  <2>12. ASSUME NEW t \in Threads, Invoke(t) PROVE CallsInv'
    BY <2>2, <2>12 DEF Invoke
  <2>13. ASSUME Finished \/ UNCHANGED vars PROVE CallsInv'
    BY <2>2, <2>13 DEF Finished, vars
  <2> QED BY <2>6, <2>7, <2>8, <2>9, <2>10, <2>11, <2>12, <2>13 DEF Next
<1> QED BY <1>1, <1>2, PTL DEF Spec

\* Every step of every thread preserves the invariant.
LEMMA NextInv == Inv /\ CallsInv /\ [Next]_vars => Inv'
<1> SUFFICES ASSUME Inv, CallsInv, [Next]_vars PROVE Inv'
  OBVIOUS
<1>1. ASSUME NEW p \in Producers, SendAborted(p) PROVE Inv'
  <2>1. p \in Threads /\ Count(p)
    BY <1>1 DEF SendAborted, Threads
  <2>2. begun' \in [Threads -> Nat] /\ \A r \in Requests : Begun(r) => Begun(r)'
    BY <2>1, CountFacts DEF Inv
  <2>3. TypeOK'
    BY <1>1, <2>2 DEF SendAborted, Inv, TypeOK
  <2> QED BY <1>1, <2>2, <2>3, FrameInv DEF SendAborted
<1>2. ASSUME NEW c \in Consumers, Expire(c) PROVE Inv'
  <2>1. <<c, begun[c]>> \in Requests
    <3>1. begun[c] \in 1..MaxCalls
      BY <1>2, RendezvousAssumption DEF Expire, Blocked, CallsInv, Threads
    <3> QED BY <3>1 DEF Requests
  <2>2. TypeOK'
    BY <1>2, <2>1 DEF Expire, Inv, TypeOK
  <2> QED BY <1>2, <2>2, FrameInv DEF Expire, Begun
<1>3. ASSUME NEW a \in Aborters, StartAbort(a) PROVE Inv'
  <2>1. a \in Statuses
    BY DEF Statuses
  <2> QED BY <1>3, <2>1, AbortInv DEF StartAbort
<1>4. ASSUME Destroy PROVE Inv'
  <2>1. Owner \in Statuses /\ Owner \in Threads
    BY DEF Statuses, Threads
  <2>2. CASE TableEmpty
    <3>1. Count(Owner) /\ UNCHANGED <<table, status, work, outcome, contexts,
                                      expired, sent, asked>>
      BY <1>4, <2>2 DEF Destroy
    <3>2. begun' \in [Threads -> Nat] /\ \A r \in Requests : Begun(r) => Begun(r)'
      BY <2>1, <3>1, CountFacts DEF Inv
    <3>3. TypeOK'
      BY <3>1, <3>2 DEF Inv, TypeOK
    <3> QED BY <3>1, <3>2, <3>3, FrameInv
  <2>3. CASE ~TableEmpty
    BY <1>4, <2>1, <2>3, AbortInv DEF Destroy
  <2> QED BY <2>2, <2>3
<1>5. CASE UNCHANGED vars
  <2>1. TypeOK'
    BY <1>5 DEF Inv, TypeOK, vars
  <2> QED BY <1>5, <2>1, FrameInv DEF vars, Begun
<1>6. CASE Finished
  BY <1>5, <1>6 DEF Finished
<1> QED BY <1>1, <1>2, <1>3, <1>4, <1>5, <1>6, SendQueueInv, SendMatchInv,
           RecvAbortedInv, RecvQueueInv, RecvMatchInv, InvokeInv DEF Next

\* The invariant holds in every state of every run.
LEMMA Invariance == Spec => []Inv
<1> QED BY InitInv, NextInv, CallsBounded, PTL DEF Spec

\* Send, RecvAsync, Recv, StartAbort and the destructor keep table_, status_ and
\* the pending callbacks well typed: a callback goes to a request, with a message
\* or with the status of an abort, never to a message, which has none.
THEOREM TypeCorrect == Spec => []TypeOK
<1>1. Inv => TypeOK
  BY DEF Inv
<1> QED BY <1>1, Invariance, PTL

\* What the comment on ItemQueue says: a key never has messages and requests at
\* the same time, so that Send and RecvAsync may look at the front only.
THEOREM Homogeneous == Spec => []QueueHomogeneous
<1>1. ASSUME Inv PROVE QueueHomogeneous
  <2>1. ASSUME NEW k \in Keys, NEW i \in 1..Len(table[k]), NEW j \in 1..Len(table[k])
        PROVE  IsSendValue(table[k][i]) <=> IsSendValue(table[k][j])
    <3>1. table[k] # <<>>
      BY <1>1 DEF Inv, TypeOK
    <3>2. MessagesWait(k) \/ RequestsWait(k)
      BY <3>1 DEF MessagesWait, RequestsWait
    <3> QED BY <1>1, <3>2, QueueShape, Disjoint DEF Inv, IsSendValue
  <2> QED BY <2>1 DEF QueueHomogeneous
<1> QED BY <1>1, Invariance, PTL

\* Send, RecvAsync and StartAbort invoke a done callback at most once between
\* them, although they do so after they have released mu_.
THEOREM CallbacksOnce == Spec => []CalledOnce
<1>1. ASSUME Inv PROVE CalledOnce
  <2>1. ASSUME NEW t \in Threads, NEW d \in work[t], d.to # None
        PROVE  /\ outcome[d.to] = None
               /\ d.to \notin Queued
               /\ \A u \in Threads : \A e \in work[u] : e.to = d.to => u = t /\ e = d
    <3>1. outcome[d.to] = None
      BY <1>1, <2>1 DEF Inv, DutyInv
    <3>2. d.to \in Requests
      BY <1>1, <2>1, NotOwed
    <3>3. d.to \notin Queued
      BY <1>1, <2>1, <3>2, QueuedItem, Disjoint DEF IsSendValue
    <3> QED BY <1>1, <2>1, <3>1, <3>3 DEF Inv, UniqueInv
  <2> QED BY <2>1 DEF CalledOnce
<1> QED BY <1>1, Invariance, PTL

-----------------------------------------------------------------------------
\* Every step of the rendezvous is a step of the channels, or none.
LEMMA ChannelStep == Inv /\ [Next]_vars => [Channel!Next]_(Channel!channelVars)
<1> SUFFICES ASSUME Inv, [Next]_vars PROVE [Channel!Next]_(Channel!channelVars)
  OBVIOUS
<1>1. ASSUME NEW p \in Producers, NEW k \in Keys, SendQueue(p, k) \/ SendMatch(p, k)
      PROVE  Channel!Next
  <2>1. NextCall(p) \in Messages
    BY <1>1, NextMessage DEF Inv, Enqueue, SendQueue, SendMatch
  <2>2. Channel!Send(NextCall(p), k)
    BY <1>1 DEF Enqueue, SendQueue, SendMatch, Channel!Send
  <2> QED BY <2>1, <2>2 DEF Channel!Next
<1>2. ASSUME NEW c \in Consumers, NEW k \in Keys,
             RecvAborted(c, k) \/ RecvQueue(c, k) \/ RecvMatch(c, k)
      PROVE  Channel!Next
  <2>1. NextCall(c) \in Requests
    BY <1>2, NextRequest DEF Inv, RecvAborted, Enqueue, Accepts, RecvQueue, RecvMatch
  <2>2. Channel!Ask(NextCall(c), k)
    BY <1>2 DEF RecvAborted, Enqueue, Accepts, RecvQueue, RecvMatch, Channel!Ask
  <2> QED BY <2>1, <2>2 DEF Channel!Next
<1>3. ASSUME NEW s \in Statuses, AbortTable(s), UNCHANGED <<outcome, asked>>
      PROVE  Channel!Next
  <2>1. status' = IF status = OK THEN s ELSE status
    BY <1>3 DEF AbortTable, Update, Swapped, AbortDuty
  <2>2. sent' = [k \in Keys |-> Channel!Claimed(k)]
    <3>1. sent' = [k \in Keys |-> sent'[k]]
      BY <1>3 DEF AbortTable, Update, Swapped, AbortDuty
    <3>2. \A k \in Keys : sent'[k] = Channel!Claimed(k)
      BY <1>3, ClaimedFacts
    <3> QED BY <3>1, <3>2
  <2>3. Channel!Abort(s)
    BY <1>3, <2>1, <2>2 DEF Channel!Abort
  <2> QED BY <2>3 DEF Channel!Next
<1>4. ASSUME NEW t \in Threads, Invoke(t)
      PROVE  Channel!Next \/ UNCHANGED Channel!channelVars
  <2>1. PICK d \in work[t] :
          /\ outcome' = IF d.to = None THEN outcome
                                       ELSE [outcome EXCEPT ![d.to] = d.result]
          /\ UNCHANGED <<status, sent, asked>>
    BY <1>4 DEF Invoke
  <2>2. CASE d.to = None
    BY <2>1, <2>2 DEF Channel!channelVars
  <2>3. CASE d.to # None
    <3>1. outcome[d.to] = None /\ Owed(d)
      BY <2>3 DEF Inv, DutyInv
    <3>2. PICK k \in Keys : \E i \in 1..Len(asked[k]) :
            /\ d.to = asked[k][i]
            /\ \/ i <= Len(sent[k]) /\ d.result = sent[k][i]
               \/ i > Len(sent[k]) /\ d.result = status /\ status # OK
      BY <3>1 DEF Owed
    <3>3. PICK i \in 1..Len(asked[k]) :
            /\ d.to = asked[k][i]
            /\ \/ i <= Len(sent[k]) /\ d.result = sent[k][i]
               \/ i > Len(sent[k]) /\ d.result = status /\ status # OK
      BY <3>2
    <3>4. Channel!Deliver(k, i) \/ Channel!Fail(k, i)
      BY <2>1, <2>3, <3>1, <3>3 DEF Channel!Deliver, Channel!Fail
    <3> QED BY <3>4 DEF Channel!Next
  <2> QED BY <2>2, <2>3
<1>5. ASSUME NEW a \in Aborters, StartAbort(a) PROVE Channel!Next
  <2>1. a \in Statuses
    BY DEF Statuses
  <2> QED BY <1>3, <1>5, <2>1 DEF StartAbort
<1>6. ASSUME Destroy PROVE Channel!Next \/ UNCHANGED Channel!channelVars
  <2>1. Owner \in Statuses
    BY DEF Statuses
  <2> QED BY <1>3, <1>6, <2>1 DEF Destroy, Channel!channelVars
<1>7. ASSUME NEW p \in Producers, SendAborted(p) PROVE UNCHANGED Channel!channelVars
  BY <1>7 DEF SendAborted, Channel!channelVars
<1>8. ASSUME NEW c \in Consumers, Expire(c) PROVE UNCHANGED Channel!channelVars
  BY <1>8 DEF Expire, Channel!channelVars
<1>9. ASSUME Finished \/ UNCHANGED vars PROVE UNCHANGED Channel!channelVars
  BY <1>9 DEF Finished, vars, Channel!channelVars
<1> QED BY <1>1, <1>2, <1>4, <1>5, <1>6, <1>7, <1>8, <1>9 DEF Next

\* LocalRendezvousImpl implements the channels that rendezvous.h describes: the
\* i-th request under a key gets the i-th message, and a request without a
\* message gets the status of the first abort, whatever threads do in between.
THEOREM Implements == Spec => ChannelSpec
<1>1. Init => Channel!Init
  BY DEF Init, Channel!Init
<1> QED BY <1>1, ChannelStep, Invariance, PTL DEF Spec, ChannelSpec, Channel!Spec

-----------------------------------------------------------------------------
(* Device contexts: every item is in one place *)

InTable(x) == \E k \in Keys : \E i \in 1..Len(table[k]) : x = table[k][i]
TakenOut(x) == \E t \in Threads : \E d \in work[t] : d.item = x

\* The items in the table and the items that are to be deleted hold contexts.
HeldInv == \A x \in Items : x \in contexts <=> InTable(x) \/ TakenOut(x)

\* An item is new when it is made, is in one place of the table, or is to be
\* deleted by one thread.
FreshInv == \A x \in contexts : Begun(x)

PlaceInv ==
  /\ \A k, l \in Keys : \A i \in 1..Len(table[k]), j \in 1..Len(table[l]) :
       table[k][i] = table[l][j] => k = l /\ i = j
  /\ \A t \in Threads : \A d \in work[t] : d.item # None => ~InTable(d.item)
  /\ \A t, u \in Threads : \A d \in work[t], e \in work[u] :
       d.item # None /\ e.item = d.item => u = t /\ e = d

ItemInv == HeldInv /\ FreshInv /\ PlaceInv

\* A thread that has not called StartAbort owes nothing.
AborterInv == \A a \in Aborters : begun[a] = 0 => work[a] = {}

\* Queued, one item at a time.
LEMMA QueuedFacts == \A x : x \in Queued <=> InTable(x)
BY DEF Queued, InTable

\* The calls that were made stay made.
LEMMA CountItems ==
  ASSUME TypeOK, NEW t \in Threads, Count(t)
  PROVE  \A x \in Items : Begun(x) => Begun(x)'
BY DEF TypeOK, Count, Begun, Items, Messages, Requests, Threads

\* The call of a producer or of a consumer stands for a new item.
LEMMA NextItem ==
  ASSUME TypeOK, NEW t \in Producers \cup Consumers, CanCall(t), Count(t),
         NEW x, x = NextCall(t)
  PROVE  x \in Items /\ ~Begun(x) /\ Begun(x)' /\ t \in Threads /\ work[t] = {}
BY RendezvousAssumption
   DEF TypeOK, CanCall, Idle, NextCall, Items, Messages, Requests, Threads, Begun, Count

\* A step that leaves the items where they are.
LEMMA ItemFrame ==
  ASSUME Inv, ItemInv, UNCHANGED <<table, work, contexts>>,
         \A x \in Items : Begun(x) => Begun(x)'
  PROVE  ItemInv'
<1>1. contexts \subseteq Items
  BY DEF Inv, TypeOK
<1>2. \A x : (InTable(x) <=> InTable(x)') /\ (TakenOut(x) <=> TakenOut(x)')
  BY DEF InTable, TakenOut
<1>3. HeldInv' /\ FreshInv'
  BY <1>1, <1>2 DEF ItemInv, HeldInv, FreshInv
<1>4. PlaceInv'
  BY <1>2 DEF ItemInv, PlaceInv
<1> QED BY <1>3, <1>4 DEF ItemInv

\* A new item goes into the table, with its context.
LEMMA ItemQueued ==
  ASSUME Inv, ItemInv, NEW k \in Keys, NEW y \in Items, ~Begun(y), Begun(y)',
         \A x \in Items : Begun(x) => Begun(x)',
         table' = [table EXCEPT ![k] = Append(@, y)],
         contexts' = contexts \cup {y}, UNCHANGED work
  PROVE  ItemInv'
<1>1. contexts \subseteq Items /\ table \in [Keys -> Seq(Items)]
  BY DEF Inv, TypeOK
<1>2. y \notin contexts /\ ~InTable(y) /\ ~TakenOut(y)
  BY DEF ItemInv, HeldInv, FreshInv
<1>3. /\ table'[k] = Append(table[k], y)
      /\ \A l \in Keys : l # k => table'[l] = table[l]
  BY <1>1
<1>4. /\ Len(table'[k]) = Len(table[k]) + 1 /\ Len(table[k]) \in Nat
      /\ \A i \in 1..Len(table[k]) : table'[k][i] = table[k][i]
      /\ table'[k][Len(table[k]) + 1] = y
  BY <1>1, <1>3, AppendFacts
\* An element of a queue is an old one, or the new item at the end.
<1>5. ASSUME NEW l \in Keys, NEW i \in 1..Len(table'[l])
      PROVE  \/ i \in 1..Len(table[l]) /\ table'[l][i] = table[l][i]
             \/ l = k /\ i = Len(table[k]) + 1 /\ table'[l][i] = y
  BY <1>3, <1>4
<1>6. \A x : InTable(x)' <=> InTable(x) \/ x = y
  <2>1. ASSUME NEW x, InTable(x)' PROVE InTable(x) \/ x = y
    BY <2>1, <1>5 DEF InTable
  <2>2. ASSUME NEW x, InTable(x) PROVE InTable(x)'
    <3>1. PICK l \in Keys : \E i \in 1..Len(table[l]) : x = table[l][i]
      BY <2>2 DEF InTable
    <3>2. PICK i \in 1..Len(table[l]) : x = table[l][i]
      BY <3>1
    <3>3. i \in 1..Len(table'[l]) /\ table'[l][i] = x
      BY <3>2, <1>3, <1>4
    <3> QED BY <3>3 DEF InTable
  <2>3. InTable(y)'
    <3>1. Len(table[k]) + 1 \in 1..Len(table'[k])
      BY <1>4
    <3> QED BY <3>1, <1>4 DEF InTable
  <2> QED BY <2>1, <2>2, <2>3
<1>7. \A x : TakenOut(x) <=> TakenOut(x)'
  BY DEF TakenOut
<1>8. HeldInv' /\ FreshInv'
  BY <1>1, <1>6, <1>7 DEF ItemInv, HeldInv, FreshInv
<1>9. PlaceInv'
  <2>1. ASSUME NEW l \in Keys, NEW n \in Keys,
               NEW i \in 1..Len(table'[l]), NEW j \in 1..Len(table'[n]),
               table'[l][i] = table'[n][j]
        PROVE  l = n /\ i = j
    <3>1. \A x \in Keys : \A z \in 1..Len(table[x]) : table[x][z] # y
      BY <1>2 DEF InTable
    <3> QED BY <2>1, <3>1, <1>5 DEF ItemInv, PlaceInv
  <2>2. \A t \in Threads : \A d \in work'[t] : d.item # None => ~InTable(d.item)'
    <3>1. \A t \in Threads : \A d \in work[t] : d.item # y
      BY <1>2 DEF TakenOut
    <3> QED BY <3>1, <1>6 DEF ItemInv, PlaceInv
  <2> QED BY <2>1, <2>2 DEF ItemInv, PlaceInv
<1> QED BY <1>8, <1>9 DEF ItemInv

\* The earliest item of a queue is taken out by a thread that owed nothing.
LEMMA ItemMatched ==
  ASSUME Inv, ItemInv, NEW k \in Keys, table[k] # <<>>, NEW t \in Threads,
         work[t] = {}, NEW d, d.item = Head(table[k]),
         \A x \in Items : Begun(x) => Begun(x)',
         table' = [table EXCEPT ![k] = Tail(@)],
         work' = [work EXCEPT ![t] = {d}], UNCHANGED contexts
  PROVE  ItemInv'
<1>1. contexts \subseteq Items /\ table \in [Keys -> Seq(Items)]
  BY DEF Inv, TypeOK
<1>2. /\ table'[k] = Tail(table[k])
      /\ \A l \in Keys : l # k => table'[l] = table[l]
  BY <1>1
<1>3. /\ d.item = table[k][1] /\ d.item \in Items
      /\ Len(table[k]) \in Nat /\ 1 \in 1..Len(table[k])
      /\ Len(table'[k]) = Len(table[k]) - 1
      /\ \A i \in 1..Len(table'[k]) : table'[k][i] = table[k][i + 1]
  BY <1>1, <1>2, TailFacts
<1>4. work'[t] = {d} /\ \A u \in Threads : u # t => work'[u] = work[u]
  BY DEF Inv, TypeOK
<1>5. d.item # None
  BY <1>3, RendezvousAssumption
\* An element of a queue was one place further back.
<1>6. ASSUME NEW l \in Keys, NEW i \in 1..Len(table'[l])
      PROVE  \/ l = k /\ i + 1 \in 1..Len(table[k]) /\ table'[l][i] = table[k][i + 1]
             \/ l # k /\ i \in 1..Len(table[l]) /\ table'[l][i] = table[l][i]
  BY <1>2, <1>3
<1>7. ASSUME NEW l \in Keys, NEW n \in Keys,
             NEW i \in 1..Len(table'[l]), NEW j \in 1..Len(table'[n]),
             table'[l][i] = table'[n][j]
      PROVE  l = n /\ i = j
  BY <1>6, <1>7 DEF ItemInv, PlaceInv
<1>8. ~InTable(d.item)'
  <2>1. ASSUME NEW l \in Keys, NEW i \in 1..Len(table'[l]) PROVE table'[l][i] # d.item
    <3>1. CASE l = k
      <4>1. i + 1 \in 1..Len(table[k]) /\ i + 1 # 1 /\ table'[l][i] = table[k][i + 1]
        BY <1>3, <1>6, <3>1
      <4> QED BY <4>1, <1>3 DEF ItemInv, PlaceInv
    <3>2. CASE l # k
      BY <1>3, <1>6, <3>2 DEF ItemInv, PlaceInv
    <3> QED BY <3>1, <3>2
  <2> QED BY <2>1 DEF InTable
<1>9. \A x : InTable(x) <=> InTable(x)' \/ x = d.item
  <2>1. ASSUME NEW x, InTable(x)' PROVE InTable(x)
    BY <2>1, <1>6 DEF InTable
  <2>2. ASSUME NEW x, InTable(x), x # d.item PROVE InTable(x)'
    <3>1. PICK l \in Keys : \E i \in 1..Len(table[l]) : x = table[l][i]
      BY <2>2 DEF InTable
    <3>2. PICK i \in 1..Len(table[l]) : x = table[l][i]
      BY <3>1
    <3>3. CASE l = k
      <4>1. i # 1
        BY <2>2, <3>2, <3>3, <1>3
      <4>2. i - 1 \in 1..Len(table'[k]) /\ table'[k][i - 1] = x
        BY <4>1, <3>2, <3>3, <1>3
      <4> QED BY <4>2 DEF InTable
    <3>4. CASE l # k
      BY <3>2, <3>4, <1>2 DEF InTable
    <3> QED BY <3>3, <3>4
  <2>3. InTable(d.item)
    BY <1>3 DEF InTable
  <2> QED BY <2>1, <2>2, <2>3
<1>10. \A x : TakenOut(x)' <=> TakenOut(x) \/ x = d.item
  BY <1>4 DEF TakenOut
<1>11. HeldInv' /\ FreshInv'
  BY <1>1, <1>9, <1>10 DEF ItemInv, HeldInv, FreshInv
<1>12. \A u \in Threads : \A e \in work[u] : e.item # d.item
  BY <1>5, <1>9 DEF ItemInv, PlaceInv
<1>13. PlaceInv'
  <2>1. \A u \in Threads : \A e \in work'[u] : e.item # None => ~InTable(e.item)'
    BY <1>4, <1>8, <1>9 DEF ItemInv, PlaceInv
  <2>2. \A u, v \in Threads : \A e \in work'[u], f \in work'[v] :
          e.item # None /\ f.item = e.item => v = u /\ f = e
    BY <1>4, <1>12 DEF ItemInv, PlaceInv
  <2> QED BY <1>7, <2>1, <2>2 DEF PlaceInv
<1> QED BY <1>11, <1>13 DEF ItemInv

\* A thread that owed nothing owes a callback, and no item goes with it.
LEMMA ItemRefused ==
  ASSUME Inv, ItemInv, NEW t \in Threads, work[t] = {}, NEW d, d.item = None,
         \A x \in Items : Begun(x) => Begun(x)',
         work' = [work EXCEPT ![t] = {d}], UNCHANGED <<table, contexts>>
  PROVE  ItemInv'
<1>1. contexts \subseteq Items /\ None \notin Items
  BY RendezvousAssumption DEF Inv, TypeOK
<1>2. work'[t] = {d} /\ \A u \in Threads : u # t => work'[u] = work[u]
  BY DEF Inv, TypeOK
<1>3. \A x : InTable(x) <=> InTable(x)'
  BY DEF InTable
<1>4. \A x \in Items : TakenOut(x) <=> TakenOut(x)'
  BY <1>1, <1>2 DEF TakenOut
<1>5. HeldInv' /\ FreshInv'
  BY <1>1, <1>3, <1>4 DEF ItemInv, HeldInv, FreshInv
<1>6. PlaceInv'
  BY <1>2, <1>3 DEF ItemInv, PlaceInv
<1> QED BY <1>5, <1>6 DEF ItemInv

\* An abort takes all items out of the table, and owes the deletion of each once.
LEMMA ItemAborted ==
  ASSUME Inv, ItemInv, NEW s \in Statuses, AbortTable(s), work[s] = {},
         \A x \in Items : Begun(x) => Begun(x)', UNCHANGED contexts
  PROVE  ItemInv'
<1>1. s \in Threads /\ contexts \subseteq Items
  BY DEF Statuses, Threads, Inv, TypeOK
<1>2. work'[s] = {AbortDuty(x, s) : x \in Queued}
  BY <1>1 DEF AbortTable, Inv, TypeOK
<1>3. \A u \in Threads : u # s => work'[u] = work[u]
  BY <1>1 DEF AbortTable, Inv, TypeOK
<1>4. \A x : AbortDuty(x, s).item = x
  BY DEF AbortDuty, Duty
<1>5. ASSUME NEW d \in work'[s] PROVE InTable(d.item) /\ d = AbortDuty(d.item, s)
  BY <1>2, <1>4, QueuedFacts
<1>6. ASSUME NEW x, InTable(x) PROVE \E d \in work'[s] : d.item = x
  <2>1. AbortDuty(x, s) \in work'[s]
    BY <1>2, <1>6, QueuedFacts
  <2> QED BY <2>1, <1>4
<1>7. \A k \in Keys : table'[k] = <<>> /\ Len(table'[k]) = 0
  BY DEF AbortTable, Swapped
<1>8. \A x : ~InTable(x)'
  BY <1>7 DEF InTable
<1>9. \A x : TakenOut(x)' <=> InTable(x) \/ TakenOut(x)
  <2>1. ASSUME NEW x, TakenOut(x)' PROVE InTable(x) \/ TakenOut(x)
    BY <2>1, <1>3, <1>5 DEF TakenOut
  <2>2. ASSUME NEW x, InTable(x) PROVE TakenOut(x)'
    BY <2>2, <1>1, <1>6 DEF TakenOut
  <2>3. ASSUME NEW x, TakenOut(x) PROVE TakenOut(x)'
    BY <2>3, <1>3 DEF TakenOut
  <2> QED BY <2>1, <2>2, <2>3
<1>10. HeldInv' /\ FreshInv'
  BY <1>1, <1>8, <1>9 DEF ItemInv, HeldInv, FreshInv
<1>11. ASSUME NEW t \in Threads, NEW u \in Threads, NEW d \in work'[t],
              NEW e \in work'[u], d.item # None, e.item = d.item
       PROVE  u = t /\ e = d
  <2>1. CASE t = s /\ u = s
    BY <2>1, <1>5, <1>11
  <2>2. CASE t = s /\ u # s
    BY <2>2, <1>3, <1>5, <1>11 DEF ItemInv, PlaceInv
  <2>3. CASE t # s /\ u = s
    BY <2>3, <1>3, <1>5, <1>11 DEF ItemInv, PlaceInv
  <2>4. CASE t # s /\ u # s
    BY <2>4, <1>3, <1>11 DEF ItemInv, PlaceInv
  <2> QED BY <2>1, <2>2, <2>3, <2>4
<1>12. PlaceInv'
  <2>1. \A k, l \in Keys : \A i \in 1..Len(table'[k]), j \in 1..Len(table'[l]) :
          table'[k][i] = table'[l][j] => k = l /\ i = j
    BY <1>7
  <2> QED BY <1>8, <1>11, <2>1 DEF PlaceInv
<1> QED BY <1>10, <1>12 DEF ItemInv

\* The callback has run and the item is deleted.
LEMMA ItemDeleted ==
  ASSUME Inv, ItemInv, NEW t \in Threads, Invoke(t)
  PROVE  ItemInv'
<1>1. PICK d \in work[t] :
        /\ work' = [work EXCEPT ![t] = @ \ {d}]
        /\ contexts' = contexts \ {d.item}
        /\ UNCHANGED <<table, begun>>
  BY DEF Invoke
<1>2. /\ work'[t] = work[t] \ {d}
      /\ \A u \in Threads : u # t => work'[u] = work[u]
  BY <1>1 DEF Inv, TypeOK
<1>3. contexts \subseteq Items /\ None \notin Items /\ d.item \in Items \cup {None}
  BY RendezvousAssumption DEF Inv, TypeOK
<1>4. \A x : InTable(x) <=> InTable(x)'
  BY <1>1 DEF InTable
<1>5. \A x \in Items : TakenOut(x)' <=> TakenOut(x) /\ x # d.item
  <2>1. ASSUME NEW x \in Items, TakenOut(x)' PROVE TakenOut(x) /\ x # d.item
    <3>1. PICK u \in Threads : \E e \in work'[u] : e.item = x
      BY <2>1 DEF TakenOut
    <3>2. PICK e \in work'[u] : e.item = x
      BY <3>1
    <3>3. e \in work[u] /\ (u = t => e # d)
      BY <3>2, <1>2
    <3>4. x # d.item
      BY <1>3, <3>2, <3>3 DEF ItemInv, PlaceInv
    <3> QED BY <3>2, <3>3, <3>4 DEF TakenOut
  <2>2. ASSUME NEW x \in Items, TakenOut(x), x # d.item PROVE TakenOut(x)'
    BY <2>2, <1>2 DEF TakenOut
  <2> QED BY <2>1, <2>2
<1>6. \A x \in Items : x = d.item => ~InTable(x)
  BY <1>3 DEF ItemInv, PlaceInv
<1>7. HeldInv' /\ FreshInv'
  BY <1>1, <1>3, <1>4, <1>5, <1>6 DEF ItemInv, HeldInv, FreshInv, Begun
<1>8. PlaceInv'
  <2>1. \A u \in Threads : \A e \in work'[u] : e \in work[u]
    BY <1>2
  <2> QED BY <1>1, <1>4, <2>1 DEF ItemInv, PlaceInv
<1> QED BY <1>7, <1>8 DEF ItemInv

\* Only StartAbort gives an aborter something to do, and it counts.
LEMMA AborterStep == TypeOK /\ AborterInv /\ [Next]_vars => AborterInv'
<1> SUFFICES ASSUME TypeOK, AborterInv, [Next]_vars, NEW a \in Aborters, begun'[a] = 0
             PROVE  work'[a] = {}
  BY DEF AborterInv
<1>1. ASSUME NEW t \in Threads, Count(t) PROVE begun[a] = 0 /\ t # a
  BY <1>1 DEF TypeOK, Count, Threads
<1>2. ASSUME begun[a] = 0 PROVE work[a] = {}
  BY <1>2 DEF AborterInv
<1>3. ASSUME NEW p \in Producers, NEW k \in Keys,
             SendAborted(p) \/ SendQueue(p, k) \/ SendMatch(p, k)
      PROVE  work'[a] = {}
  BY <1>1, <1>2, <1>3 DEF SendAborted, SendQueue, SendMatch, Threads, TypeOK
<1>4. ASSUME NEW c \in Consumers, NEW k \in Keys,
             RecvAborted(c, k) \/ RecvQueue(c, k) \/ RecvMatch(c, k)
      PROVE  work'[a] = {}
  BY <1>1, <1>2, <1>4 DEF RecvAborted, RecvQueue, RecvMatch, Threads, TypeOK
<1>5. ASSUME NEW b \in Aborters, StartAbort(b) PROVE work'[a] = {}
  BY <1>1, <1>2, <1>5 DEF StartAbort, AbortTable, Threads, TypeOK
<1>6. ASSUME Destroy PROVE work'[a] = {}
  BY <1>1, <1>2, <1>6 DEF Destroy, AbortTable, Threads, TypeOK
<1>7. ASSUME NEW t \in Threads, Invoke(t) PROVE work'[a] = {}
  BY <1>2, <1>7 DEF Invoke, Threads, TypeOK
<1>8. ASSUME NEW c \in Consumers, Expire(c) PROVE work'[a] = {}
  BY <1>2, <1>8 DEF Expire
<1>9. ASSUME Finished \/ UNCHANGED vars PROVE work'[a] = {}
  BY <1>2, <1>9 DEF Finished, vars
<1>10. ASSUME NEW p \in Producers, SendAborted(p) PROVE work'[a] = {}
  BY <1>1, <1>2, <1>10 DEF SendAborted, Threads
<1> QED BY <1>3, <1>4, <1>5, <1>6, <1>7, <1>8, <1>9, <1>10 DEF Next

\* Every step leaves every item in one place.
LEMMA ItemStep == Inv /\ ItemInv /\ AborterInv /\ [Next]_vars => ItemInv'
<1> SUFFICES ASSUME Inv, ItemInv, AborterInv, [Next]_vars PROVE ItemInv'
  OBVIOUS
<1>0. TypeOK
  BY DEF Inv
<1>1. ASSUME NEW p \in Producers, SendAborted(p) PROVE ItemInv'
  BY <1>0, <1>1, CountItems, ItemFrame DEF SendAborted, Threads
<1>2. ASSUME NEW p \in Producers, NEW k \in Keys, SendQueue(p, k) PROVE ItemInv'
  <2>1. PICK m : m = NextCall(p)
    OBVIOUS
  <2>2. m \in Items /\ ~Begun(m) /\ Begun(m)' /\ \A x \in Items : Begun(x) => Begun(x)'
    BY <1>0, <1>2, <2>1, NextItem, CountItems DEF SendQueue
  <2> QED BY <1>2, <2>1, <2>2, ItemQueued DEF SendQueue, Enqueue
<1>3. ASSUME NEW p \in Producers, NEW k \in Keys, SendMatch(p, k) PROVE ItemInv'
  <2>1. p \in Threads /\ work[p] = {} /\ \A x \in Items : Begun(x) => Begun(x)'
    BY <1>0, <1>3, NextMessage, CountItems DEF SendMatch
  <2>2. PICK d : d = Duty(Head(table[k]), NextCall(p), Head(table[k]))
    OBVIOUS
  <2>3. d.item = Head(table[k]) /\ table[k] # <<>>
    BY <1>3, <2>2 DEF Duty, SendMatch, RequestsWait
  <2> QED BY <1>3, <2>1, <2>2, <2>3, ItemMatched DEF SendMatch
<1>4. ASSUME NEW c \in Consumers, NEW k \in Keys, RecvAborted(c, k) PROVE ItemInv'
  <2>1. PICK d : d = Duty(NextCall(c), status, None)
    OBVIOUS
  <2>2. c \in Threads /\ work[c] = {} /\ \A x \in Items : Begun(x) => Begun(x)'
    BY <1>0, <1>4, NextItem, CountItems DEF RecvAborted
  <2>3. d.item = None
    BY <2>1 DEF Duty
  <2> QED BY <1>4, <2>1, <2>2, <2>3, ItemRefused DEF RecvAborted
<1>5. ASSUME NEW c \in Consumers, NEW k \in Keys, RecvQueue(c, k) PROVE ItemInv'
  <2>1. PICK r : r = NextCall(c)
    OBVIOUS
  <2>2. r \in Items /\ ~Begun(r) /\ Begun(r)' /\ \A x \in Items : Begun(x) => Begun(x)'
    BY <1>0, <1>5, <2>1, NextItem, CountItems DEF RecvQueue
  <2> QED BY <1>5, <2>1, <2>2, ItemQueued DEF RecvQueue, Enqueue
<1>6. ASSUME NEW c \in Consumers, NEW k \in Keys, RecvMatch(c, k) PROVE ItemInv'
  <2>1. c \in Threads /\ work[c] = {} /\ \A x \in Items : Begun(x) => Begun(x)'
    BY <1>0, <1>6, NextItem, CountItems DEF RecvMatch
  <2>2. PICK d : d = Duty(NextCall(c), Head(table[k]), Head(table[k]))
    OBVIOUS
  <2>3. d.item = Head(table[k]) /\ table[k] # <<>>
    BY <1>6, <2>2 DEF Duty, RecvMatch, MessagesWait
  <2> QED BY <1>6, <2>1, <2>2, <2>3, ItemMatched DEF RecvMatch
<1>7. ASSUME NEW c \in Consumers, Expire(c) PROVE ItemInv'
  BY <1>7, ItemFrame DEF Expire, Begun
<1>8. ASSUME NEW s \in Statuses, AbortTable(s), work[s] = {}, Count(s), UNCHANGED contexts
      PROVE  ItemInv'
  <2>1. \A x \in Items : Begun(x) => Begun(x)'
    BY <1>0, <1>8, CountItems DEF Statuses, Threads
  <2> QED BY <1>8, <2>1, ItemAborted
<1>9. ASSUME NEW a \in Aborters, StartAbort(a) PROVE ItemInv'
  BY <1>8, <1>9 DEF StartAbort, Statuses, AborterInv
<1>10. ASSUME Destroy PROVE ItemInv'
  <2>1. Owner \in Threads /\ Owner \in Statuses /\ Count(Owner) /\ UNCHANGED contexts
    BY <1>10 DEF Destroy, Threads, Statuses
  <2>2. work[Owner] = {}
    BY <1>10, <2>1 DEF Destroy, Idle
  <2>3. CASE TableEmpty
    BY <1>0, <1>10, <2>1, <2>3, CountItems, ItemFrame DEF Destroy
  <2>4. CASE ~TableEmpty
    BY <1>8, <1>10, <2>1, <2>2, <2>4 DEF Destroy
  <2> QED BY <2>3, <2>4
<1>11. ASSUME Finished \/ UNCHANGED vars PROVE ItemInv'
  BY <1>11, ItemFrame DEF Finished, vars, Begun
<1> QED BY <1>1, <1>2, <1>3, <1>4, <1>5, <1>6, <1>7, <1>9, <1>10, <1>11, ItemDeleted
        DEF Next

\* Every item is in one place in every state of every run.
LEMMA ItemsInOnePlace == Spec => []ItemInv
<1>1. Init => ItemInv /\ AborterInv
  <2> SUFFICES ASSUME Init PROVE ItemInv /\ AborterInv
    OBVIOUS
  <2>1. /\ contexts = {} /\ \A k \in Keys : Len(table[k]) = 0
        /\ \A t \in Threads : work[t] = {}
    BY DEF Init
  <2>2. HeldInv /\ FreshInv
    BY <2>1 DEF HeldInv, FreshInv, InTable, TakenOut
  <2>3. PlaceInv /\ AborterInv
    BY <2>1 DEF PlaceInv, AborterInv, Threads
  <2> QED BY <2>2, <2>3 DEF ItemInv
<1>2. Inv => TypeOK
  BY DEF Inv
<1> QED BY <1>1, <1>2, ItemStep, AborterStep, Invariance, PTL DEF Spec

\* A device context is referenced from when Send or RecvAsync queues the item to
\* when the item is deleted after its callback has run, by whichever of Send,
\* RecvAsync, StartAbort and the destructor: none is given back too early, none
\* twice, and none is leaked.
THEOREM ContextsExact == Spec => []ContextsHeld
<1>1. ASSUME Inv, ItemInv PROVE ContextsHeld
  <2>1. contexts \subseteq Items /\ table \in [Keys -> Seq(Items)] /\ None \notin Items
    BY <1>1, RendezvousAssumption DEF Inv, TypeOK
  <2>2. \A t \in Threads : \A d \in work[t] : d.item \in Items \cup {None}
    BY <1>1 DEF Inv, TypeOK
  <2>3. \A x : InTable(x) => x \in Items
    BY <2>1 DEF InTable
  <2>4. \A x : x \in {d.item : d \in UNION {work[t] : t \in Threads}} <=> TakenOut(x)
    BY DEF TakenOut
  <2>5. \A x : TakenOut(x) /\ x # None => x \in Items
    BY <2>2 DEF TakenOut
  <2>6. \A x : x \in contexts <=> InTable(x) \/ (TakenOut(x) /\ x # None)
    BY <1>1, <2>1, <2>3, <2>5 DEF ItemInv, HeldInv
  <2> QED BY <2>4, <2>6, QueuedFacts DEF ContextsHeld
<1> QED BY <1>1, Invariance, ItemsInOnePlace, PTL

-----------------------------------------------------------------------------
(* The order on a channel *)

\* A request is completed with the message of its number or, if there is none,
\* with the status of an abort.
ResultInv ==
  \A k \in Keys : \A i \in 1..Len(asked[k]) : outcome[asked[k][i]] # None =>
    \/ i <= Len(sent[k]) /\ outcome[asked[k][i]] = sent[k][i]
    \/ i > Len(sent[k]) /\ outcome[asked[k][i]] \in Statuses

\* Nothing that thread t put into the history comes after number i.
LastOf(t, history, i) == \A j \in 1..Len(history) : j > i => history[j][1] # t

\* The thread that brought the i-th message and the i-th request of a channel
\* together, the later one of the two, and has not invoked the callback yet: it
\* has not made another call.
HandsOver(t, k, i) ==
  /\ \E d \in work[t] : d.to = asked[k][i]
  /\ \/ t = sent[k][i][1] /\ LastOf(t, sent[k], i)
     \/ t = asked[k][i][1] /\ LastOf(t, asked[k], i)

HandoverInv ==
  \A k \in Keys : \A i \in 1..Len(asked[k]) :
    i <= Len(sent[k]) /\ outcome[asked[k][i]] = None =>
      \E t \in Threads : HandsOver(t, k, i)

\* What a step does to a handover that it does not end: the calls it adds to the
\* histories are those of threads that owe nothing.
LEMMA HandoverStays ==
  ASSUME TypeOK, TypeOK', NEW k \in Keys, NEW i \in 1..Len(asked[k]), i <= Len(sent[k]),
         NEW t \in Threads, HandsOver(t, k, i),
         i <= Len(asked'[k]), asked'[k][i] = asked[k][i], sent'[k][i] = sent[k][i],
         \E d \in work'[t] : d.to = asked[k][i],
         \A j \in 1..Len(sent'[k]) :
           (j <= Len(sent[k]) /\ sent'[k][j] = sent[k][j]) \/ sent'[k][j][1] # t,
         \A j \in 1..Len(asked'[k]) :
           (j <= Len(asked[k]) /\ asked'[k][j] = asked[k][j]) \/ asked'[k][j][1] # t
  PROVE  HandsOver(t, k, i)'
<1>1. LastOf(t, sent[k], i) => LastOf(t, sent'[k], i)
  BY DEF LastOf, TypeOK
<1>2. LastOf(t, asked[k], i) => LastOf(t, asked'[k], i)
  BY DEF LastOf, TypeOK
<1> QED BY <1>1, <1>2 DEF HandsOver

\* A message that is accepted: by a thread that owed nothing, and when it takes a
\* request out of the table, the thread now owes the callback.
LEMMA OrderSend ==
  ASSUME Inv, Inv', ResultInv, HandoverInv, status = OK,
         NEW p \in Threads, work[p] = {}, NEW m \in Messages, m[1] = p, NEW k \in Keys,
         sent' = [sent EXCEPT ![k] = Append(@, m)],
         \A t \in Threads : t # p => work'[t] = work[t],
         Len(sent[k]) < Len(asked[k]) =>
           \E d \in work'[p] : d.to = asked[k][Len(sent[k]) + 1],
         UNCHANGED <<asked, outcome, status>>
  PROVE  ResultInv' /\ HandoverInv'
<1>1. sent \in [Keys -> Seq(Messages)] /\ asked \in [Keys -> Seq(Requests)]
      /\ TypeOK /\ TypeOK'
  BY DEF Inv, TypeOK
<1>2. /\ sent'[k] = Append(sent[k], m)
      /\ \A l \in Keys : l # k => sent'[l] = sent[l]
  BY <1>1
<1>3. /\ Len(sent'[k]) = Len(sent[k]) + 1
      /\ \A i \in 1..Len(sent[k]) : sent'[k][i] = sent[k][i]
      /\ sent'[k][Len(sent[k]) + 1] = m
  BY <1>1, <1>2, AppendFacts
<1>4. \A l \in Keys : Len(sent[l]) \in Nat /\ Len(asked[l]) \in Nat
  BY <1>1
<1>5. ASSUME NEW l \in Keys, NEW i \in 1..Len(asked[l]), outcome[asked[l][i]] # None
      PROVE  i <= Len(sent[l])
  BY <1>5 DEF Inv, OutcomeInv
<1>6. ResultInv'
  <2>1. ASSUME NEW l \in Keys, NEW i \in 1..Len(asked[l]), outcome[asked[l][i]] # None
        PROVE  i <= Len(sent'[l]) /\ outcome[asked[l][i]] = sent'[l][i]
    <3>1. i <= Len(sent[l]) /\ outcome[asked[l][i]] = sent[l][i]
      BY <2>1, <1>4, <1>5 DEF ResultInv
    <3> QED BY <3>1, <1>2, <1>3, <1>4
  <2> QED BY <2>1 DEF ResultInv
<1>7. ASSUME NEW l \in Keys, NEW i \in 1..Len(asked[l]),
             i <= Len(sent'[l]), outcome[asked[l][i]] = None
      PROVE  \E t \in Threads : HandsOver(t, l, i)'
  <2>1. CASE i <= Len(sent[l])
    <3>1. PICK t \in Threads : HandsOver(t, l, i)
      BY <1>7, <2>1 DEF HandoverInv
    <3>2. t # p /\ work'[t] = work[t]
      BY <3>1 DEF HandsOver
    <3>3. \A j \in 1..Len(sent'[l]) :
            (j <= Len(sent[l]) /\ sent'[l][j] = sent[l][j]) \/ sent'[l][j][1] # t
      BY <3>2, <1>2, <1>3, <1>4
    <3>4. sent'[l][i] = sent[l][i]
      BY <2>1, <1>2, <1>3, <1>4
    <3>5. \E d \in work'[t] : d.to = asked[l][i]
      BY <3>1, <3>2 DEF HandsOver
    <3>6. /\ i <= Len(asked'[l]) /\ asked'[l][i] = asked[l][i]
          /\ \A j \in 1..Len(asked'[l]) :
               (j <= Len(asked[l]) /\ asked'[l][j] = asked[l][j]) \/ asked'[l][j][1] # t
      BY <1>4
    <3>7. HandsOver(t, l, i)'
      BY <1>1, <2>1, <3>1, <3>3, <3>4, <3>5, <3>6, HandoverStays
    <3> QED BY <3>7
  <2>2. CASE ~(i <= Len(sent[l]))
    <3>1. l = k /\ i = Len(sent[k]) + 1 /\ Len(sent[k]) < Len(asked[k])
      BY <1>2, <1>3, <1>4, <1>7, <2>2
    <3>2. \E d \in work'[p] : d.to = asked[l][i]
      BY <3>1
    <3>3. p = sent'[l][i][1] /\ LastOf(p, sent'[l], i)
      BY <3>1, <1>3, <1>4 DEF LastOf
    <3>4. HandsOver(p, l, i)'
      BY <3>2, <3>3 DEF HandsOver
    <3> QED BY <3>4
  <2> QED BY <2>1, <2>2
<1>8. HandoverInv'
  BY <1>7 DEF HandoverInv
<1> QED BY <1>6, <1>8

\* A request: made by a thread that owed nothing, and when it takes a message out
\* of the table, the thread now owes the callback.
LEMMA OrderAsk ==
  ASSUME Inv, Inv', ResultInv, HandoverInv,
         NEW c \in Threads, work[c] = {}, NEW r \in Requests, r[1] = c, outcome[r] = None,
         NEW k \in Keys, asked' = [asked EXCEPT ![k] = Append(@, r)],
         \A t \in Threads : t # c => work'[t] = work[t],
         Len(asked[k]) < Len(sent[k]) => \E d \in work'[c] : d.to = r,
         UNCHANGED <<sent, outcome, status>>
  PROVE  ResultInv' /\ HandoverInv'
<1>1. sent \in [Keys -> Seq(Messages)] /\ asked \in [Keys -> Seq(Requests)]
      /\ TypeOK /\ TypeOK'
  BY DEF Inv, TypeOK
<1>2. /\ asked'[k] = Append(asked[k], r)
      /\ \A l \in Keys : l # k => asked'[l] = asked[l]
  BY <1>1
<1>3. /\ Len(asked'[k]) = Len(asked[k]) + 1
      /\ \A i \in 1..Len(asked[k]) : asked'[k][i] = asked[k][i]
      /\ asked'[k][Len(asked[k]) + 1] = r
  BY <1>1, <1>2, AppendFacts
<1>4. \A l \in Keys : Len(sent[l]) \in Nat /\ Len(asked[l]) \in Nat
  BY <1>1
<1>5. ASSUME NEW l \in Keys, NEW i \in 1..Len(asked'[l])
      PROVE  \/ i \in 1..Len(asked[l]) /\ asked'[l][i] = asked[l][i]
             \/ l = k /\ i = Len(asked[k]) + 1 /\ asked'[l][i] = r
  BY <1>2, <1>3, <1>4
<1>6. ResultInv'
  <2>1. ASSUME NEW l \in Keys, NEW i \in 1..Len(asked'[l]), outcome[asked'[l][i]] # None
        PROVE  \/ i <= Len(sent[l]) /\ outcome[asked'[l][i]] = sent[l][i]
               \/ i > Len(sent[l]) /\ outcome[asked'[l][i]] \in Statuses
    BY <2>1, <1>5 DEF ResultInv
  <2> QED BY <2>1 DEF ResultInv
<1>7. ASSUME NEW l \in Keys, NEW i \in 1..Len(asked'[l]),
             i <= Len(sent[l]), outcome[asked'[l][i]] = None
      PROVE  \E t \in Threads : HandsOver(t, l, i)'
  <2>1. CASE i \in 1..Len(asked[l]) /\ asked'[l][i] = asked[l][i]
    <3>1. PICK t \in Threads : HandsOver(t, l, i)
      BY <1>7, <2>1 DEF HandoverInv
    <3>2. t # c /\ work'[t] = work[t]
      BY <3>1 DEF HandsOver
    <3>3. \A j \in 1..Len(asked'[l]) :
            (j <= Len(asked[l]) /\ asked'[l][j] = asked[l][j]) \/ asked'[l][j][1] # t
      BY <3>2, <1>4, <1>5
    <3>4. \E d \in work'[t] : d.to = asked[l][i]
      BY <3>1, <3>2 DEF HandsOver
    <3>5. i <= Len(asked'[l])
      BY <2>1, <1>2, <1>3, <1>4
    <3>6. \A j \in 1..Len(sent'[l]) :
            (j <= Len(sent[l]) /\ sent'[l][j] = sent[l][j]) \/ sent'[l][j][1] # t
      BY <1>4
    <3>7. HandsOver(t, l, i)'
      BY <1>1, <1>7, <2>1, <3>1, <3>3, <3>4, <3>5, <3>6, HandoverStays
    <3> QED BY <3>7
  <2>2. CASE l = k /\ i = Len(asked[k]) + 1 /\ asked'[l][i] = r
    <3>1. \E d \in work'[c] : d.to = asked'[l][i]
      BY <1>4, <1>7, <2>2
    <3>2. c = asked'[l][i][1] /\ LastOf(c, asked'[l], i)
      BY <2>2, <1>3, <1>4 DEF LastOf
    <3>3. HandsOver(c, l, i)'
      BY <3>1, <3>2 DEF HandsOver
    <3> QED BY <3>3
  <2> QED BY <1>5, <2>1, <2>2
<1>8. HandoverInv'
  BY <1>7 DEF HandoverInv
<1> QED BY <1>6, <1>8

\* An abort drops no message that was asked for, and the threads that hand one
\* over are not those that abort.
LEMMA OrderAbort ==
  ASSUME Inv, Inv', ResultInv, HandoverInv, NEW s \in Statuses, AbortTable(s),
         UNCHANGED <<asked, outcome>>
  PROVE  ResultInv' /\ HandoverInv'
<1>1. /\ TypeOK /\ TypeOK'
      /\ \A k \in Keys : /\ Len(asked[k]) \in Nat /\ Len(sent[k]) \in Nat
                         /\ Len(sent'[k]) \in Nat
  BY DEF Inv, TypeOK
<1>2. \A k \in Keys : \A i \in 1..Len(asked[k]) :
        /\ i <= Len(sent[k]) <=> i <= Len(sent'[k])
        /\ i <= Len(sent[k]) => sent'[k][i] = sent[k][i]
  BY ClaimedFacts
<1>3. \A k \in Keys : Len(sent'[k]) <= Len(asked[k])
  BY ClaimedFacts
<1>4. ResultInv'
  <2>1. ASSUME NEW k \in Keys, NEW i \in 1..Len(asked[k]), outcome[asked[k][i]] # None
        PROVE  \/ i <= Len(sent'[k]) /\ outcome[asked[k][i]] = sent'[k][i]
               \/ i > Len(sent'[k]) /\ outcome[asked[k][i]] \in Statuses
    BY <2>1, <1>1, <1>2 DEF ResultInv
  <2> QED BY <2>1 DEF ResultInv
<1>5. ASSUME NEW k \in Keys, NEW i \in 1..Len(asked[k]),
             i <= Len(sent'[k]), outcome[asked[k][i]] = None
      PROVE  \E t \in Threads : HandsOver(t, k, i)'
  <2>1. i <= Len(sent[k]) /\ sent'[k][i] = sent[k][i]
    BY <1>2, <1>5
  <2>2. PICK t \in Threads : HandsOver(t, k, i)
    BY <1>5, <2>1 DEF HandoverInv
  <2>3. i \in 1..Len(sent[k])
    BY <1>1, <2>1
  <2>4. sent[k][i] \in Messages /\ asked[k][i] \in Requests
    BY <1>1, <2>3 DEF TypeOK
  <2>5. t # s
    BY <2>2, <2>4, RendezvousAssumption DEF HandsOver, Messages, Requests
  <2>6. work'[t] = work[t]
    BY <1>1, <2>5 DEF AbortTable, TypeOK
  <2>7. \E d \in work'[t] : d.to = asked[k][i]
    BY <2>2, <2>6 DEF HandsOver
  <2>8. \A j \in 1..Len(sent'[k]) : j <= Len(sent[k]) /\ sent'[k][j] = sent[k][j]
    <3>1. ASSUME NEW j \in 1..Len(sent'[k]) PROVE j \in 1..Len(asked[k]) /\ j <= Len(sent'[k])
      BY <1>1, <1>3
    <3> QED BY <3>1, <1>2
  <2>9. /\ i <= Len(asked'[k]) /\ asked'[k][i] = asked[k][i]
        /\ \A j \in 1..Len(asked'[k]) : j <= Len(asked[k]) /\ asked'[k][j] = asked[k][j]
    BY <1>1
  <2>10. HandsOver(t, k, i)'
    BY <1>1, <2>1, <2>2, <2>7, <2>8, <2>9, HandoverStays
  <2> QED BY <2>10
<1>6. HandoverInv'
  BY <1>5 DEF HandoverInv
<1> QED BY <1>4, <1>6

\* A callback ends the handover of its request, and no other.
LEMMA OrderInvoke ==
  ASSUME Inv, ResultInv, HandoverInv, NEW t \in Threads, Invoke(t)
  PROVE  ResultInv' /\ HandoverInv'
<1>1. PICK d \in work[t] :
        /\ work' = [work EXCEPT ![t] = @ \ {d}]
        /\ outcome' = IF d.to = None THEN outcome
                                     ELSE [outcome EXCEPT ![d.to] = d.result]
        /\ UNCHANGED <<status, sent, asked>>
  BY DEF Invoke
<1>2. /\ \A k \in Keys : \A i \in 1..Len(asked[k]) : asked[k][i] \in Requests
      /\ d.to \in Requests \cup {None}
  BY DEF Inv, TypeOK
<1>3. /\ d.to # None => outcome'[d.to] = d.result /\ outcome[d.to] = None /\ Owed(d)
      /\ \A r \in Requests : r # d.to => outcome'[r] = outcome[r]
  BY <1>1, <1>2 DEF Inv, TypeOK, DutyInv
<1>4. ASSUME NEW k \in Keys, NEW i \in 1..Len(asked[k]), d.to = asked[k][i]
      PROVE  \/ i <= Len(sent[k]) /\ d.result = sent[k][i]
             \/ i > Len(sent[k]) /\ d.result \in Statuses
  <2>1. Owed(d)
    BY <1>2, <1>3, <1>4, Disjoint
  <2>2. status # OK => status \in Statuses
    BY DEF Inv, TypeOK
  <2>3. PICK l \in Keys : \E j \in 1..Len(asked[l]) :
          /\ d.to = asked[l][j]
          /\ \/ j <= Len(sent[l]) /\ d.result = sent[l][j]
             \/ j > Len(sent[l]) /\ d.result = status /\ status # OK
    BY <2>1 DEF Owed
  <2>4. PICK j \in 1..Len(asked[l]) :
          /\ d.to = asked[l][j]
          /\ \/ j <= Len(sent[l]) /\ d.result = sent[l][j]
             \/ j > Len(sent[l]) /\ d.result = status /\ status # OK
    BY <2>3
  <2>5. l = k /\ j = i
    <3>1. asked[k][i] = asked[l][j]
      BY <1>4, <2>4
    <3> QED BY <3>1 DEF Inv, AskedInv
  <2> QED BY <2>2, <2>4, <2>5
<1>5. d.to # None => d.result # None
  BY Disjoint DEF Inv, TypeOK
<1>6. ResultInv'
  <2>1. ASSUME NEW k \in Keys, NEW i \in 1..Len(asked[k]), outcome'[asked[k][i]] # None
        PROVE  \/ i <= Len(sent[k]) /\ outcome'[asked[k][i]] = sent[k][i]
               \/ i > Len(sent[k]) /\ outcome'[asked[k][i]] \in Statuses
    <3>1. CASE asked[k][i] = d.to
      BY <3>1, <1>2, <1>3, <1>4, Disjoint
    <3>2. CASE asked[k][i] # d.to
      BY <2>1, <3>2, <1>2, <1>3 DEF ResultInv
    <3> QED BY <3>1, <3>2
  <2> QED BY <1>1, <2>1 DEF ResultInv
<1>7. ASSUME NEW k \in Keys, NEW i \in 1..Len(asked[k]),
             i <= Len(sent[k]), outcome'[asked[k][i]] = None
      PROVE  \E u \in Threads : HandsOver(u, k, i)'
  <2>1. asked[k][i] # d.to /\ outcome[asked[k][i]] = None
    BY <1>2, <1>3, <1>5, <1>7, Disjoint
  <2>2. PICK u \in Threads : HandsOver(u, k, i)
    BY <1>7, <2>1 DEF HandoverInv
  <2>3. PICK e \in work[u] : e.to = asked[k][i]
    BY <2>2 DEF HandsOver
  <2>4. e \in work'[u]
    BY <1>1, <2>1, <2>3 DEF Inv, TypeOK
  <2>5. HandsOver(u, k, i)'
    BY <1>1, <2>2, <2>3, <2>4 DEF HandsOver
  <2> QED BY <2>5
<1>8. HandoverInv'
  BY <1>1, <1>7 DEF HandoverInv
<1> QED BY <1>6, <1>8

\* Every step keeps the order.
LEMMA OrderStep ==
  Inv /\ Inv' /\ ResultInv /\ HandoverInv /\ [Next]_vars => ResultInv' /\ HandoverInv'
<1> SUFFICES ASSUME Inv, Inv', ResultInv, HandoverInv, [Next]_vars
             PROVE  ResultInv' /\ HandoverInv'
  OBVIOUS
<1>0. TypeOK
  BY DEF Inv
<1>1. ASSUME UNCHANGED <<status, work, outcome, sent, asked>>
      PROVE  ResultInv' /\ HandoverInv'
  BY <1>1 DEF ResultInv, HandoverInv, HandsOver
<1>2. ASSUME NEW p \in Producers, NEW k \in Keys, SendQueue(p, k)
      PROVE  ResultInv' /\ HandoverInv'
  <2>1. PICK m \in Messages : m = NextCall(p)
    BY <1>0, <1>2, NextMessage DEF SendQueue
  <2>2. m[1] = p /\ p \in Threads /\ work[p] = {}
    BY <1>0, <1>2, <2>1, NextMessage DEF SendQueue, NextCall
  <2>3. ~(Len(sent[k]) < Len(asked[k]))
    <3>1. Len(sent[k]) \in Nat /\ Len(asked[k]) \in Nat
      BY DEF Inv, TypeOK
    <3>2. Len(asked[k]) <= Len(sent[k])
      BY <1>0, <1>2, QueueShape DEF SendQueue, Inv
    <3> QED BY <3>1, <3>2
  <2> QED BY <1>2, <2>1, <2>2, <2>3, OrderSend DEF SendQueue
<1>3. ASSUME NEW p \in Producers, NEW k \in Keys, SendMatch(p, k)
      PROVE  ResultInv' /\ HandoverInv'
  <2>1. PICK m \in Messages : m = NextCall(p)
    BY <1>0, <1>3, NextMessage DEF SendMatch
  <2>2. m[1] = p /\ p \in Threads /\ work[p] = {}
    BY <1>0, <1>3, <2>1, NextMessage DEF SendMatch, NextCall
  <2>3. Head(table[k]) = asked[k][Len(sent[k]) + 1]
    BY <1>0, <1>3, QueueShape DEF SendMatch, Inv
  <2>4. /\ \A t \in Threads : t # p => work'[t] = work[t]
        /\ work'[p] = {Duty(Head(table[k]), m, Head(table[k]))}
    BY <1>0, <1>3, <2>1, <2>2 DEF SendMatch, TypeOK
  <2>5. \E d \in work'[p] : d.to = asked[k][Len(sent[k]) + 1]
    BY <2>3, <2>4 DEF Duty
  <2> QED BY <1>3, <2>1, <2>2, <2>4, <2>5, OrderSend DEF SendMatch
<1>4. ASSUME NEW c \in Consumers, NEW k \in Keys,
             RecvAborted(c, k) \/ RecvQueue(c, k) \/ RecvMatch(c, k)
      PROVE  ResultInv' /\ HandoverInv'
  <2>1. PICK r : r = NextCall(c)
    OBVIOUS
  <2>2. /\ CanCall(c) /\ Count(c) /\ asked' = [asked EXCEPT ![k] = Append(@, r)]
        /\ UNCHANGED <<sent, outcome, status>>
    BY <1>4, <2>1 DEF RecvAborted, RecvQueue, RecvMatch
  <2>3. r \in Requests /\ ~Begun(r) /\ r[1] = c /\ c \in Threads /\ work[c] = {}
    BY <1>0, <2>1, <2>2, NextRequest DEF NextCall
  <2>4. outcome[r] = None
    BY <2>3 DEF Inv, OutcomeInv
  <2>5. \A t \in Threads : t # c => work'[t] = work[t]
    BY <1>0, <1>4, <2>3 DEF RecvAborted, RecvQueue, RecvMatch, TypeOK
  <2>6. Len(asked[k]) < Len(sent[k]) => \E d \in work'[c] : d.to = r
    <3>1. Len(sent[k]) \in Nat /\ Len(asked[k]) \in Nat
      BY DEF Inv, TypeOK
    <3>2. CASE RecvAborted(c, k)
      BY <3>1, <3>2 DEF RecvAborted, Inv, QueueInv, QueueAt
    <3>3. CASE RecvQueue(c, k)
      <4>1. ~MessagesWait(k)
        BY <3>3 DEF RecvQueue
      <4>2. Len(sent[k]) <= Len(asked[k])
        BY <1>0, <4>1, QueueShape DEF Inv
      <4> QED BY <3>1, <4>2
    <3>4. CASE RecvMatch(c, k)
      <4>1. work'[c] = {Duty(r, Head(table[k]), Head(table[k]))}
        BY <1>0, <2>1, <2>3, <3>4 DEF RecvMatch, TypeOK
      <4> QED BY <4>1 DEF Duty
    <3> QED BY <1>4, <3>2, <3>3, <3>4
  <2> QED BY <2>2, <2>3, <2>4, <2>5, <2>6, OrderAsk
<1>5. ASSUME NEW a \in Aborters, StartAbort(a) PROVE ResultInv' /\ HandoverInv'
  BY <1>5, OrderAbort DEF StartAbort, Statuses
<1>6. ASSUME Destroy PROVE ResultInv' /\ HandoverInv'
  BY <1>1, <1>6, OrderAbort DEF Destroy, Statuses
<1>7. ASSUME \/ \E p \in Producers : SendAborted(p)
             \/ \E c \in Consumers : Expire(c)
             \/ Finished \/ UNCHANGED vars
      PROVE  ResultInv' /\ HandoverInv'
  BY <1>1, <1>7 DEF SendAborted, Expire, Finished, vars
<1> QED BY <1>2, <1>3, <1>4, <1>5, <1>6, <1>7, OrderInvoke DEF Next

\* On a channel with one producer and one consumer Send, RecvAsync and Recv
\* deliver in order, as rendezvous.h says: no callback of the channel gets its
\* message before the callback of an earlier request has got its own, although
\* the callbacks run outside mu_, in two threads.
THEOREM DeliveredInOrder == Spec => []InOrder
<1>1. Init => ResultInv /\ HandoverInv
  BY DEF Init, ResultInv, HandoverInv
<1>2. ASSUME Inv, ResultInv, HandoverInv PROVE InOrder
  <2>1. ASSUME NEW k \in Keys, OneOnOne(k),
               NEW i \in 1..Len(asked[k]), NEW j \in 1..Len(asked[k]), i < j,
               outcome[asked[k][j]] \in Messages
        PROVE  outcome[asked[k][i]] = sent[k][i] /\ outcome[asked[k][j]] = sent[k][j]
    <3>1. \A x \in Messages : x # None /\ x \notin Statuses
      BY Disjoint, RendezvousAssumption DEF Items
    <3>2. j <= Len(sent[k]) /\ outcome[asked[k][j]] = sent[k][j]
      BY <1>2, <2>1, <3>1 DEF ResultInv
    <3>3. /\ Len(sent[k]) \in Nat /\ Len(asked[k]) \in Nat
          /\ i \in 1..Len(sent[k]) /\ j \in 1..Len(sent[k]) /\ ~(i > Len(sent[k]))
      BY <1>2, <2>1, <3>2 DEF Inv, TypeOK
    <3>4. sent[k][i][1] = sent[k][j][1] /\ asked[k][i][1] = asked[k][j][1]
      BY <2>1, <3>3 DEF OneOnOne
    <3>5. outcome[asked[k][i]] # None
      BY <1>2, <2>1, <3>3, <3>4 DEF HandoverInv, HandsOver, LastOf
    <3> QED BY <1>2, <3>2, <3>3, <3>5 DEF ResultInv
  <2> QED BY <2>1 DEF InOrder
<1> QED BY <1>1, <1>2, OrderStep, Invariance, PTL DEF Spec

-----------------------------------------------------------------------------
(* One message, one request *)

\* With any number of producers and consumers under one key a tensor goes to
\* one request at most, and to one that asked under the key it was sent under.
DeliveredOnce ==
  /\ \A r \in Requests : outcome[r] \in Messages =>
       \E k \in Keys : /\ \E i \in 1..Len(asked[k]) : asked[k][i] = r
                       /\ \E i \in 1..Len(sent[k]) : sent[k][i] = outcome[r]
  /\ \A r, q \in Requests : outcome[r] \in Messages /\ outcome[q] = outcome[r] => q = r

\* A message is sent once, under one key.
SentInv ==
  /\ \A k \in Keys : \A i \in 1..Len(sent[k]) : Begun(sent[k][i])
  /\ \A k, l \in Keys : \A i \in 1..Len(sent[k]), j \in 1..Len(sent[l]) :
       sent[k][i] = sent[l][j] => k = l /\ i = j

\* What is completed was asked for.
CompletedInv ==
  \A r \in Requests : outcome[r] # None =>
    \E k \in Keys : \E i \in 1..Len(asked[k]) : asked[k][i] = r

\* The histories of a step that accepts the message of a call.
LEMMA SentAppend ==
  ASSUME Inv, SentInv, NEW p \in Producers, NEW k \in Keys, CanCall(p), Count(p),
         sent' = [sent EXCEPT ![k] = Append(@, NextCall(p))]
  PROVE  SentInv'
<1>1. TypeOK
  BY DEF Inv
<1>2. PICK m \in Messages : m = NextCall(p)
  BY <1>1, NextMessage
<1>3. ~Begun(m) /\ Begun(m)' /\ \A x \in Messages : Begun(x) => Begun(x)'
  BY <1>1, <1>2 DEF Begun, NextCall, Count, TypeOK, Messages, Threads
<1>4. /\ sent'[k] = Append(sent[k], m) /\ sent[k] \in Seq(Messages)
      /\ \A l \in Keys : l # k => sent'[l] = sent[l]
  BY <1>1, <1>2 DEF TypeOK
<1>5. \A l \in Keys : Len(sent[l]) \in Nat /\ \A i \in 1..Len(sent[l]) : sent[l][i] \in Messages
  BY <1>1 DEF TypeOK
<1>6. ASSUME NEW l \in Keys, NEW i \in 1..Len(sent'[l])
      PROVE  \/ i \in 1..Len(sent[l]) /\ sent'[l][i] = sent[l][i] /\ Begun(sent[l][i])
             \/ l = k /\ i = Len(sent[k]) + 1 /\ sent'[l][i] = m
  <2>1. /\ Len(sent'[k]) = Len(sent[k]) + 1 /\ sent'[k][Len(sent[k]) + 1] = m
        /\ \A j \in 1..Len(sent[k]) : sent'[k][j] = sent[k][j]
    BY <1>4, AppendFacts
  <2>2. \/ i \in 1..Len(sent[l]) /\ sent'[l][i] = sent[l][i]
        \/ l = k /\ i = Len(sent[k]) + 1 /\ sent'[l][i] = m
    BY <1>4, <1>5, <2>1
  <2> QED BY <2>2 DEF SentInv
<1>7. ASSUME NEW l \in Keys, NEW i \in 1..Len(sent'[l]) PROVE Begun(sent[l][i])'
  <2>1. PICK x : x = sent'[l][i]
    OBVIOUS
  <2>2. Begun(x)'
    BY <1>3, <1>5, <1>6, <2>1
  <2> QED BY <2>1, <2>2 DEF Begun
<1>8. ASSUME NEW l \in Keys, NEW h \in Keys, NEW i \in 1..Len(sent'[l]),
             NEW j \in 1..Len(sent'[h]), sent'[l][i] = sent'[h][j]
      PROVE  l = h /\ i = j
  <2>1. CASE sent'[l][i] = m
    BY <1>3, <1>6, <1>8, <2>1
  <2>2. CASE sent'[l][i] # m
    BY <1>6, <1>8, <2>2 DEF SentInv
  <2> QED BY <2>1, <2>2
<1> QED BY <1>7, <1>8 DEF SentInv

\* A step after which the histories hold no more messages than before.
LEMMA SentKept ==
  ASSUME TypeOK, TypeOK', SentInv,
         \A k \in Keys : \A i \in 1..Len(sent'[k]) :
           i \in 1..Len(sent[k]) /\ sent'[k][i] = sent[k][i],
         \A x \in Messages : Begun(x) => Begun(x)'
  PROVE  SentInv'
<1>1. ASSUME NEW k \in Keys, NEW i \in 1..Len(sent'[k]) PROVE Begun(sent[k][i])'
  <2>1. PICK x : x = sent'[k][i]
    OBVIOUS
  <2>2. i \in 1..Len(sent[k]) /\ x = sent[k][i]
    BY <2>1
  <2>3. x \in Messages /\ Begun(x)
    BY <2>2 DEF TypeOK, SentInv
  <2>4. Begun(x)'
    BY <2>3
  <2> QED BY <2>1, <2>4 DEF Begun
<1>2. \A k, l \in Keys : \A i \in 1..Len(sent'[k]), j \in 1..Len(sent'[l]) :
        sent'[k][i] = sent'[l][j] => k = l /\ i = j
  BY DEF SentInv
<1> QED BY <1>1, <1>2 DEF SentInv

\* An abort drops messages from the end of a history.
LEMMA SentAbort ==
  ASSUME Inv, Inv', SentInv, NEW s \in Statuses, AbortTable(s), UNCHANGED asked,
         \A x \in Messages : Begun(x) => Begun(x)'
  PROVE  SentInv'
<1>1. TypeOK /\ TypeOK'
  BY DEF Inv
<1>2. \A k \in Keys : /\ Len(asked[k]) \in Nat /\ Len(sent[k]) \in Nat
                      /\ Len(sent'[k]) \in Nat
  BY <1>1 DEF TypeOK
<1>3. ASSUME NEW k \in Keys, NEW i \in 1..Len(sent'[k])
      PROVE  i \in 1..Len(sent[k]) /\ sent'[k][i] = sent[k][i]
  <2>1. Len(sent'[k]) <= Len(asked[k])
    BY ClaimedFacts
  <2>2. i \in 1..Len(asked[k]) /\ i <= Len(sent'[k])
    BY <1>2, <2>1
  <2>3. i <= Len(sent[k]) /\ sent'[k][i] = sent[k][i]
    BY <2>2, ClaimedFacts
  <2> QED BY <1>2, <2>2, <2>3
<1> QED BY <1>1, <1>3, SentKept

\* Every step keeps the messages apart.
LEMMA SentStep ==
  ASSUME Inv, Inv', SentInv, [Next]_vars PROVE SentInv'
<1>1. TypeOK /\ TypeOK'
  BY DEF Inv
<1>2. ASSUME UNCHANGED sent, begun' = begun \/ \E t \in Threads : Count(t) PROVE SentInv'
  <2>1. \A x \in Messages : Begun(x) => Begun(x)'
    BY <1>1, <1>2 DEF Begun, Count, TypeOK, Messages, Threads
  <2> QED BY <1>1, <1>2, <2>1, SentKept
<1>3. ASSUME NEW s \in Statuses, AbortTable(s), UNCHANGED asked, Count(s) PROVE SentInv'
  <2>1. \A x \in Messages : Begun(x) => Begun(x)'
    BY <1>1, <1>3 DEF Begun, Count, TypeOK, Messages, Threads
  <2> QED BY <1>3, <2>1, SentAbort
<1>4. ASSUME NEW p \in Producers, NEW k \in Keys, SendQueue(p, k) \/ SendMatch(p, k)
      PROVE  SentInv'
  BY <1>4, SentAppend DEF SendQueue, SendMatch
<1>5. ASSUME \/ \E p \in Producers : SendAborted(p)
             \/ \E c \in Consumers, k \in Keys :
                  RecvAborted(c, k) \/ RecvQueue(c, k) \/ RecvMatch(c, k)
             \/ \E c \in Consumers : Expire(c)
             \/ \E t \in Threads : Invoke(t)
             \/ Finished \/ UNCHANGED vars
      PROVE  SentInv'
  <2>1. UNCHANGED sent /\ (begun' = begun \/ \E t \in Threads : Count(t))
    BY <1>5 DEF SendAborted, RecvAborted, RecvQueue, RecvMatch, Expire, Invoke, Finished,
                vars, Threads
  <2> QED BY <1>2, <2>1
<1>6. ASSUME NEW a \in Aborters, StartAbort(a) PROVE SentInv'
  BY <1>3, <1>6 DEF StartAbort, Statuses
<1>7. ASSUME Destroy PROVE SentInv'
  BY <1>2, <1>3, <1>7 DEF Destroy, Statuses, Threads
<1> QED BY <1>4, <1>5, <1>6, <1>7 DEF Next

\* Every step completes requests that were made.
LEMMA CompletedStep ==
  ASSUME Inv, Inv', CompletedInv, [Next]_vars PROVE CompletedInv'
<1>1. TypeOK /\ TypeOK'
  BY DEF Inv
<1>2. ASSUME UNCHANGED outcome,
             \A k \in Keys : \A i \in 1..Len(asked[k]) :
               i \in 1..Len(asked'[k]) /\ asked'[k][i] = asked[k][i]
      PROVE  CompletedInv'
  BY <1>2 DEF CompletedInv
<1>3. ASSUME UNCHANGED <<outcome, asked>> PROVE CompletedInv'
  BY <1>3 DEF CompletedInv
<1>4. ASSUME NEW c \in Consumers, NEW k \in Keys,
             RecvAborted(c, k) \/ RecvQueue(c, k) \/ RecvMatch(c, k)
      PROVE  CompletedInv'
  <2>1. PICK r : r = NextCall(c)
    OBVIOUS
  <2>2. CanCall(c) /\ Count(c) /\ asked' = [asked EXCEPT ![k] = Append(@, r)] /\ UNCHANGED outcome
    BY <1>4, <2>1 DEF RecvAborted, RecvQueue, RecvMatch
  <2>3. r \in Requests
    BY <1>1, <2>1, <2>2, NextRequest
  <2>4. ASSUME NEW l \in Keys, NEW i \in 1..Len(asked[l])
        PROVE  i \in 1..Len(asked'[l]) /\ asked'[l][i] = asked[l][i]
    <3>1. asked[k] \in Seq(Requests) /\ asked'[k] = Append(asked[k], r)
          /\ (l # k => asked'[l] = asked[l])
      BY <1>1, <2>2 DEF TypeOK
    <3>2. Len(asked[k]) \in Nat /\ Len(asked'[k]) = Len(asked[k]) + 1
          /\ \A j \in 1..Len(asked[k]) : asked'[k][j] = asked[k][j]
      BY <2>3, <3>1, AppendFacts
    <3> QED BY <3>1, <3>2
  <2> QED BY <1>2, <2>2, <2>4
<1>5. ASSUME NEW t \in Threads, Invoke(t) PROVE CompletedInv'
  <2>1. PICK d \in work[t] :
          /\ outcome' = IF d.to = None THEN outcome ELSE [outcome EXCEPT ![d.to] = d.result]
          /\ UNCHANGED asked
    BY <1>5 DEF Invoke
  <2>2. d.to # None => \E k \in Keys : \E i \in 1..Len(asked[k]) : asked[k][i] = d.to
    BY DEF Inv, DutyInv, Owed
  <2>3. \A r \in Requests : r # d.to => outcome'[r] = outcome[r]
    BY <1>1, <2>1 DEF TypeOK
  <2>4. ASSUME NEW r \in Requests, outcome'[r] # None
        PROVE  \E k \in Keys : \E i \in 1..Len(asked[k]) : asked[k][i] = r
    <3>1. CASE r = d.to
      BY <2>2, <3>1, Disjoint
    <3>2. CASE r # d.to
      BY <2>3, <2>4, <3>2 DEF CompletedInv
    <3> QED BY <3>1, <3>2
  <2> QED BY <2>1, <2>4 DEF CompletedInv
<1>6. ASSUME \/ \E p \in Producers : SendAborted(p)
             \/ \E p \in Producers, k \in Keys : SendQueue(p, k) \/ SendMatch(p, k)
             \/ \E c \in Consumers : Expire(c)
             \/ \E a \in Aborters : StartAbort(a)
             \/ Destroy \/ Finished \/ UNCHANGED vars
      PROVE  CompletedInv'
  <2>1. UNCHANGED <<outcome, asked>>
    BY <1>6 DEF SendAborted, SendQueue, SendMatch, Expire, StartAbort, Destroy, Finished, vars
  <2> QED BY <1>3, <2>1
<1> QED BY <1>4, <1>5, <1>6 DEF Next

\* However many producers and consumers share a key, and whenever the rendezvous
\* is aborted, no tensor is given to two requests.
THEOREM DeliveredToOne == Spec => []DeliveredOnce
<1>1. Init => ResultInv /\ HandoverInv /\ SentInv /\ CompletedInv
  BY DEF Init, ResultInv, HandoverInv, SentInv, CompletedInv
<1>2. ASSUME Inv, ResultInv, SentInv, CompletedInv PROVE DeliveredOnce
  <2>1. \A x \in Messages : x # None /\ x \notin Statuses
    BY Disjoint, RendezvousAssumption DEF Items
  <2>2. ASSUME NEW r \in Requests, outcome[r] \in Messages
        PROVE  \E k \in Keys : \E i \in 1..Len(asked[k]) :
                 asked[k][i] = r /\ i \in 1..Len(sent[k]) /\ sent[k][i] = outcome[r]
    <3>1. PICK k \in Keys : \E i \in 1..Len(asked[k]) : asked[k][i] = r
      BY <1>2, <2>1, <2>2 DEF CompletedInv
    <3>2. PICK i \in 1..Len(asked[k]) : asked[k][i] = r
      BY <3>1
    <3>3. i <= Len(sent[k]) /\ outcome[r] = sent[k][i]
      BY <1>2, <2>1, <2>2, <3>2 DEF ResultInv
    <3>4. Len(sent[k]) \in Nat /\ Len(asked[k]) \in Nat
      BY <1>2 DEF Inv, TypeOK
    <3>5. i \in 1..Len(sent[k])
      BY <3>2, <3>3, <3>4
    <3> QED BY <3>2, <3>3, <3>5
  <2>3. ASSUME NEW r \in Requests, NEW q \in Requests, outcome[r] \in Messages,
               outcome[q] = outcome[r]
        PROVE  q = r
    <3>1. PICK k \in Keys, i \in Nat :
            /\ i \in 1..Len(asked[k]) /\ asked[k][i] = r
            /\ i \in 1..Len(sent[k]) /\ sent[k][i] = outcome[r]
      BY <2>2, <2>3
    <3>2. PICK l \in Keys, j \in Nat :
            /\ j \in 1..Len(asked[l]) /\ asked[l][j] = q
            /\ j \in 1..Len(sent[l]) /\ sent[l][j] = outcome[r]
      BY <2>2, <2>3
    <3>3. k = l /\ i = j
      BY <1>2, <3>1, <3>2 DEF SentInv
    <3> QED BY <3>1, <3>2, <3>3
  <2>4. ASSUME NEW r \in Requests, outcome[r] \in Messages
        PROVE  \E k \in Keys : /\ \E i \in 1..Len(asked[k]) : asked[k][i] = r
                               /\ \E i \in 1..Len(sent[k]) : sent[k][i] = outcome[r]
    BY <2>2, <2>4
  <2> QED BY <2>3, <2>4 DEF DeliveredOnce
<1> QED BY <1>1, <1>2, OrderStep, SentStep, CompletedStep, Invariance, PTL DEF Spec
=============================================================================
