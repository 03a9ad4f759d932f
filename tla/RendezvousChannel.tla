-------------------------- MODULE RendezvousChannel --------------------------
(***************************************************************************)
(* What tensorflow/core/framework/rendezvous.h promises: a table of        *)
(* channels, each keyed by a rendezvous key.  The i-th tensor sent over a  *)
(* channel goes to the i-th request made on it, whichever comes first, and *)
(* an abort completes every request that has no tensor with the status of  *)
(* the abort.  There is no lock, no queue and no callback here.            *)
(***************************************************************************)
EXTENDS Naturals, Sequences

CONSTANTS
  Keys, Messages, Requests,
  Statuses,  \* what StartAbort may be called with
  OK,        \* not aborted
  None       \* a request that is not completed

VARIABLES
  sent,     \* sent[k]: the messages accepted on channel k, in order
  asked,    \* asked[k]: the requests made on channel k, in order
  outcome,  \* outcome[r]: what request r was completed with
  status    \* the status of the first abort, or OK

channelVars == <<sent, asked, outcome, status>>

Init ==
  /\ sent = [k \in Keys |-> <<>>]
  /\ asked = [k \in Keys |-> <<>>]
  /\ outcome = [r \in Requests |-> None]
  /\ status = OK

\* Send never blocks; after an abort it only returns the status.
Send(m, k) ==
  /\ status = OK
  /\ sent' = [sent EXCEPT ![k] = Append(@, m)]
  /\ UNCHANGED <<asked, outcome, status>>

\* A request may come before or after its message.
Ask(r, k) ==
  /\ asked' = [asked EXCEPT ![k] = Append(@, r)]
  /\ UNCHANGED <<sent, outcome, status>>

\* The i-th request of a channel is completed with its i-th message.
Deliver(k, i) ==
  /\ i \in 1..Len(asked[k]) /\ i <= Len(sent[k])
  /\ outcome[asked[k][i]] = None
  /\ outcome' = [outcome EXCEPT ![asked[k][i]] = sent[k][i]]
  /\ UNCHANGED <<sent, asked, status>>

\* A request without a message is completed with the status of the abort.
Fail(k, i) ==
  /\ status # OK
  /\ i \in 1..Len(asked[k]) /\ i > Len(sent[k])
  /\ outcome[asked[k][i]] = None
  /\ outcome' = [outcome EXCEPT ![asked[k][i]] = status]
  /\ UNCHANGED <<sent, asked, status>>

\* The messages that no request has claimed so far.
Claimed(k) == SubSeq(sent[k], 1, IF Len(sent[k]) < Len(asked[k])
                                 THEN Len(sent[k]) ELSE Len(asked[k]))

\* The first abort fixes the status and drops the messages nobody asked for.
Abort(s) ==
  /\ status' = IF status = OK THEN s ELSE status
  /\ sent' = [k \in Keys |-> Claimed(k)]
  /\ UNCHANGED <<asked, outcome>>

Next ==
  \/ \E m \in Messages, k \in Keys : Send(m, k)
  \/ \E r \in Requests, k \in Keys : Ask(r, k)
  \/ \E k \in Keys : \E i \in 1..Len(asked[k]) : Deliver(k, i) \/ Fail(k, i)
  \/ \E s \in Statuses : Abort(s)

Spec == Init /\ [][Next]_channelVars
=============================================================================
