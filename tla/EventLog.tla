------------------------------ MODULE EventLog ------------------------------
(***************************************************************************)
(* What an events file promises to a reader: a log to which events are     *)
(* appended, a part of which is durable, and which is read in order.  What *)
(* is not durable may be lost; a reader gets only what is durable.         *)
(*                                                                         *)
(* Two accidents end the promise: a reader may lose its place, and a log   *)
(* may end in a bare header, which makes one more record of what follows.  *)
(***************************************************************************)
EXTENDS Naturals, Sequences

VARIABLES
  log,       \* the events written
  durable,   \* how many of them are durable
  delivered, \* the events that the reader has got
  misplaced, \* the reader has lost its place
  bare       \* behind the log is a bare header

vars == <<log, durable, delivered, misplaced, bare>>

Init ==
  /\ log = <<>> /\ durable = 0 /\ delivered = <<>>
  /\ misplaced = FALSE /\ bare = FALSE

Write ==
  /\ Len(log') = Len(log) + 1
  /\ SubSeq(log', 1, Len(log)) = log
  /\ UNCHANGED <<durable, delivered, misplaced, bare>>

Sync ==
  /\ durable' \in (durable + 1)..Len(log)
  /\ UNCHANGED <<log, delivered, misplaced, bare>>

Lose ==
  /\ log' = SubSeq(log, 1, durable)
  /\ UNCHANGED <<durable, delivered, misplaced, bare>>

Deliver ==
  /\ Len(delivered) < durable
  /\ delivered' = Append(delivered, log[Len(delivered) + 1])
  /\ UNCHANGED <<log, durable, misplaced, bare>>

\* One of the accidents: neither is ever undone.
Accident ==
  /\ misplaced => misplaced'
  /\ bare => bare'
  /\ UNCHANGED <<log, durable, delivered>>

\* Something that is not the next event, from a reader that is not where it
\* believes to be, or behind the whole log.
Misdeliver ==
  /\ misplaced \/ (bare /\ Len(delivered) >= Len(log))
  /\ Len(delivered') = Len(delivered) + 1
  /\ SubSeq(delivered', 1, Len(delivered)) = delivered
  /\ UNCHANGED <<log, durable, misplaced, bare>>

Next == Write \/ Sync \/ Lose \/ Deliver \/ Accident \/ Misdeliver

Spec == Init /\ [][Next]_vars
=============================================================================
