----------------------------- MODULE Rendezvous -----------------------------
(***************************************************************************)
(* LocalRendezvousImpl and Rendezvous::Recv, of                            *)
(* tensorflow/core/framework/rendezvous.cc.                                *)
(*                                                                         *)
(* The table holds, under each key, a queue of items: messages that wait   *)
(* for a request, or requests that wait for a message.  Send, RecvAsync    *)
(* and StartAbort look at the table in one critical section of mu_, take   *)
(* the items they need out of it, and invoke the done callbacks and delete *)
(* the items after they have released mu_.  A critical section is one      *)
(* step, every callback another: any call may come in between.             *)
(*                                                                         *)
(* A call is a pair <<thread, n>>, the n-th call of a thread.  The call of *)
(* a producer stands for the message it sends, the call of a consumer for  *)
(* its done callback, and both for the device context in their Args.  An   *)
(* abort's status is the thread that aborts.  Two keys have two hashes.    *)
(***************************************************************************)
EXTENDS Naturals, Sequences, FiniteSets

CONSTANTS
  Keys,
  Producers,  \* threads that call Send
  Consumers,  \* threads that call RecvAsync or Recv
  Blocking,   \* the consumers that call Recv, the synchronous wrapper
  Timed,      \* the blocking consumers that give Recv a timeout
  Aborters,   \* threads that call StartAbort
  Owner,      \* drops the last reference, which runs the destructor
  MaxCalls,   \* bound on the calls of a producer and of a consumer
  OK,         \* the status of a rendezvous that is not aborted
  None        \* nothing

Threads == Producers \cup Consumers \cup Aborters \cup {Owner}
Statuses == Aborters \cup {Owner}
Messages == Producers \X (1..MaxCalls)
Requests == Consumers \X (1..MaxCalls)
Items == Messages \cup Requests

ASSUME RendezvousAssumption ==
  /\ MaxCalls \in Nat
  /\ Timed \subseteq Blocking /\ Blocking \subseteq Consumers
  /\ Producers \cap Consumers = {}
  /\ Statuses \cap (Producers \cup Consumers) = {}
  /\ Owner \notin Aborters
  /\ OK \notin Statuses
  /\ Statuses \cap Items = {}
  /\ None \notin Items \cup Statuses

VARIABLES
  table,     \* table_: key -> queue of items
  status,    \* status_
  begun,     \* how many calls each thread has made
  work,      \* the callbacks and deletions a thread still owes, outside mu_
  outcome,   \* what the done callback of a request was invoked with
  contexts,  \* the calls whose device context an item holds a reference to
  expired,   \* the calls of Recv that returned DEADLINE_EXCEEDED
  sent,      \* history: the messages accepted under each key
  asked      \* history: the requests made under each key

vars == <<table, status, begun, work, outcome, contexts, expired, sent, asked>>

\* One callback and the item to delete after it; to = None: only the deletion.
Duty(to, result, item) == [to |-> to, result |-> result, item |-> item]

IsSendValue(item) == item \in Messages

\* Seeded fault: a request does not look at the queue.
MessagesIgnored(k) == FALSE

\* What the front of the queue says of the whole queue.
MessagesWait(k) == table[k] # <<>> /\ IsSendValue(Head(table[k]))
RequestsWait(k) == table[k] # <<>> /\ ~IsSendValue(Head(table[k]))

Init ==
  /\ table = [k \in Keys |-> <<>>]
  /\ status = OK
  /\ begun = [t \in Threads |-> 0]
  /\ work = [t \in Threads |-> {}]
  /\ outcome = [r \in Requests |-> None]
  /\ contexts = {}
  /\ expired = {}
  /\ sent = [k \in Keys |-> <<>>]
  /\ asked = [k \in Keys |-> <<>>]

-----------------------------------------------------------------------------
Deleted == begun[Owner] # 0

\* The thread is inside Recv and its notification has not come.
Blocked(t) ==
  /\ t \in Blocking
  /\ begun[t] # 0
  /\ outcome[<<t, begun[t]>>] = None
  /\ <<t, begun[t]>> \notin expired

Idle(t) == work[t] = {} /\ ~Blocked(t)

\* A thread that can call has a reference, so the rendezvous is not deleted.
CanCall(t) == Idle(t) /\ begun[t] < MaxCalls /\ ~Deleted

NextCall(t) == <<t, begun[t] + 1>>
Count(t) == begun' = [begun EXCEPT ![t] = @ + 1]

\* Seeded faults: status_ is not looked at; an item is put in at the front.
AcceptsAlways == TRUE
EnqueueFront(k, item) == table' = [table EXCEPT ![k] = <<item>> \o @]

Accepts == status = OK
Enqueue(k, item) == table' = [table EXCEPT ![k] = Append(@, item)]

-----------------------------------------------------------------------------
(* Send *)

\* Aborted: the status is returned, the message is not taken.
SendAborted(p) ==
  /\ CanCall(p)
  /\ status # OK
  /\ Count(p)
  /\ UNCHANGED <<table, status, work, outcome, contexts, expired, sent, asked>>

\* No request waits: the message is queued, with a reference to its context.
SendQueue(p, k) ==
  /\ CanCall(p)
  /\ status = OK
  /\ ~RequestsWait(k)
  /\ Count(p)
  /\ Enqueue(k, NextCall(p))
  /\ contexts' = contexts \cup {NextCall(p)}
  /\ sent' = [sent EXCEPT ![k] = Append(@, NextCall(p))]
  /\ UNCHANGED <<status, work, outcome, expired, asked>>

\* The earliest request is taken out and will be completed outside mu_.
SendMatch(p, k) ==
  /\ CanCall(p)
  /\ status = OK
  /\ RequestsWait(k)
  /\ Count(p)
  /\ table' = [table EXCEPT ![k] = Tail(@)]
  /\ work' = [work EXCEPT ![p] =
                {Duty(Head(table[k]), NextCall(p), Head(table[k]))}]
  /\ sent' = [sent EXCEPT ![k] = Append(@, NextCall(p))]
  /\ UNCHANGED <<status, outcome, contexts, expired, asked>>

-----------------------------------------------------------------------------
(* RecvAsync, and the first half of Recv *)

\* Aborted: the callback is invoked with the status, outside mu_.
RecvAborted(c, k) ==
  /\ CanCall(c)
  /\ status # OK
  /\ Count(c)
  /\ work' = [work EXCEPT ![c] = {Duty(NextCall(c), status, None)}]
  /\ asked' = [asked EXCEPT ![k] = Append(@, NextCall(c))]
  /\ UNCHANGED <<table, status, outcome, contexts, expired, sent>>

\* No message to pick up: the request is queued.
RecvQueue(c, k) ==
  /\ CanCall(c)
  /\ Accepts
  /\ ~MessagesWait(k)
  /\ Count(c)
  /\ Enqueue(k, NextCall(c))
  /\ contexts' = contexts \cup {NextCall(c)}
  /\ asked' = [asked EXCEPT ![k] = Append(@, NextCall(c))]
  /\ UNCHANGED <<status, work, outcome, expired, sent>>

\* The earliest message is taken out and will be handed over outside mu_.
RecvMatch(c, k) ==
  /\ CanCall(c)
  /\ status = OK
  /\ MessagesWait(k)
  /\ Count(c)
  /\ table' = [table EXCEPT ![k] = Tail(@)]
  /\ work' = [work EXCEPT ![c] =
                {Duty(NextCall(c), Head(table[k]), Head(table[k]))}]
  /\ asked' = [asked EXCEPT ![k] = Append(@, NextCall(c))]
  /\ UNCHANGED <<status, outcome, contexts, expired, sent>>

\* Recv gives up waiting.  Its callback stays in the table.
Expire(c) ==
  /\ c \in Timed
  /\ work[c] = {}
  /\ Blocked(c)
  /\ expired' = expired \cup {<<c, begun[c]>>}
  /\ UNCHANGED <<table, status, begun, work, outcome, contexts, sent, asked>>

-----------------------------------------------------------------------------
(* StartAbort and the destructor *)

Queued == UNION {{table[k][i] : i \in 1..Len(table[k])} : k \in Keys}

\* Seeded faults: a later abort wins; the table is copied; a message, which has
\* no callback, is called back; a message is not deleted.
UpdateLast(s) == s
SwappedCopy == table
AbortDutyCall(i, s) == Duty(i, s, i)
AbortDutyLeak(i, s) == IF IsSendValue(i) THEN Duty(None, s, None) ELSE Duty(i, s, i)

Update(s) == IF status = OK THEN s ELSE status
Swapped == [k \in Keys |-> <<>>]
AbortDuty(i, s) == Duty(IF IsSendValue(i) THEN None ELSE i, s, i)

\* status_.Update(status); table_.swap(table): the first status stays, and
\* the thread owes a callback to every request and a deletion to every item.
AbortTable(s) ==
  /\ status' = Update(s)
  /\ table' = Swapped
  /\ work' = [work EXCEPT ![s] = {AbortDuty(i, s) : i \in Queued}]
  /\ sent' = [k \in Keys |->
                IF MessagesWait(k)
                THEN SubSeq(sent[k], 1, Len(sent[k]) - Len(table[k]))
                ELSE sent[k]]

StartAbort(a) ==
  /\ begun[a] = 0 /\ ~Deleted
  /\ Count(a)
  /\ AbortTable(a)
  /\ UNCHANGED <<outcome, contexts, expired, asked>>

\* The queue of a key that was used stays in table_, empty or not, until an
\* abort swaps it away.
TableEmpty == status # OK \/ \A k \in Keys : sent[k] = <<>> /\ asked[k] = <<>>

\* The last reference is gone: nobody is in a call.  An empty table needs no
\* abort.
Destroy ==
  /\ ~Deleted
  /\ \A t \in Threads : Idle(t)
  /\ Count(Owner)
  /\ IF TableEmpty THEN UNCHANGED <<status, table, work, sent>>
                   ELSE AbortTable(Owner)
  /\ UNCHANGED <<outcome, contexts, expired, asked>>

-----------------------------------------------------------------------------
\* Outside mu_: the done callback is invoked, then the item is deleted, which
\* gives its reference to the device context back.
Invoke(t) ==
  \E d \in work[t] :
    /\ work' = [work EXCEPT ![t] = @ \ {d}]
    /\ outcome' = IF d.to = None THEN outcome
                                 ELSE [outcome EXCEPT ![d.to] = d.result]
    /\ contexts' = contexts \ {d.item}
    /\ UNCHANGED <<table, status, begun, expired, sent, asked>>

\* The rendezvous is deleted and every thread has done what it owed.
Finished ==
  /\ Deleted
  /\ \A t \in Threads : work[t] = {}
  /\ UNCHANGED vars

Next ==
  \/ \E p \in Producers : SendAborted(p)
  \/ \E p \in Producers, k \in Keys : SendQueue(p, k) \/ SendMatch(p, k)
  \/ \E c \in Consumers, k \in Keys :
       RecvAborted(c, k) \/ RecvQueue(c, k) \/ RecvMatch(c, k)
  \/ \E c \in Consumers : Expire(c)
  \/ \E a \in Aborters : StartAbort(a)
  \/ Destroy
  \/ \E t \in Threads : Invoke(t)
  \/ Finished

Spec == Init /\ [][Next]_vars

\* A thread that owes a callback runs on until it has made it.  No call has
\* to happen.
FairSpec == Spec /\ \A t \in Threads : WF_vars(Invoke(t))

-----------------------------------------------------------------------------
TypeOK ==
  /\ table \in [Keys -> Seq(Items)]
  /\ status \in Statuses \cup {OK}
  /\ begun \in [Threads -> Nat]
  /\ work \in [Threads -> SUBSET [to : Requests \cup {None},
                                  result : Messages \cup Statuses,
                                  item : Items \cup {None}]]
  /\ outcome \in [Requests -> Messages \cup Statuses \cup {None}]
  /\ contexts \subseteq Items
  /\ expired \subseteq Requests
  /\ sent \in [Keys -> Seq(Messages)]
  /\ asked \in [Keys -> Seq(Requests)]

\* The comment on ItemQueue: the items under a key are all messages or all
\* requests, so that a message and a request never wait for each other.
QueueHomogeneous ==
  \A k \in Keys : \A i, j \in 1..Len(table[k]) :
    IsSendValue(table[k][i]) <=> IsSendValue(table[k][j])

\* A done callback is invoked at most once: nobody owes a callback to a
\* request that is completed, that still waits in the table, or that somebody
\* else is about to complete.
CalledOnce ==
  \A t \in Threads : \A d \in work[t] :
    d.to # None =>
      /\ outcome[d.to] = None
      /\ d.to \notin Queued
      /\ \A u \in Threads : \A e \in work[u] : e.to = d.to => u = t /\ e = d

\* The device context of an item lives until the item's callback has run, and
\* no reference is leaked: exactly the items in the table and the items taken
\* out of it but not deleted hold one.
ContextsHeld ==
  contexts = Queued \cup ({d.item : d \in UNION {work[t] : t \in Threads}} \ {None})

\* "The consumer receives them in the order as the producer sends them": on a
\* channel with one producer and one consumer, no request gets its tensor
\* before an earlier request of the channel has got its own.
OneOnOne(k) ==
  /\ \A i, j \in 1..Len(sent[k]) : sent[k][i][1] = sent[k][j][1]
  /\ \A i, j \in 1..Len(asked[k]) : asked[k][i][1] = asked[k][j][1]

InOrder ==
  \A k \in Keys : OneOnOne(k) =>
    \A i, j \in 1..Len(asked[k]) :
      /\ i < j
      /\ outcome[asked[k][j]] \in Messages
      => /\ outcome[asked[k][i]] = sent[k][i]
         /\ outcome[asked[k][j]] = sent[k][j]

\* "Aborts all pending and future Send/Recv with the given status": once the
\* rendezvous is aborted every request is completed.  And with or without an
\* abort a tensor that was sent and asked for arrives.
Paired(k, n) == n \in 1..Len(asked[k]) /\ n <= Len(sent[k])

RequestsComplete ==
  /\ \A r \in Requests : status # OK /\ r[2] <= begun[r[1]] ~> outcome[r] # None
  /\ \A k \in Keys : \A n \in 1..(MaxCalls * Cardinality(Consumers)) :
       Paired(k, n) ~> Paired(k, n) /\ outcome[asked[k][n]] = sent[k][n]

\* A tensor reaches the consumer that asked for it: the callback of a Recv
\* that has returned is not given one.
ReachesConsumer ==
  [][\A r \in Requests :
       outcome[r] # outcome'[r] /\ outcome'[r] \in Messages => r \notin expired]_vars

\* The rendezvous implements the channels of RendezvousChannel.
Channel == INSTANCE RendezvousChannel
  WITH sent <- sent, asked <- asked, outcome <- outcome, status <- status

ChannelSpec == Channel!Spec
=============================================================================
