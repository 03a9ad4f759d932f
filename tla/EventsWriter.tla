---------------------------- MODULE EventsWriter ----------------------------
(***************************************************************************)
(* EventsWriter of tensorflow/core/util/events_writer.cc, with             *)
(* RecordWriter::WriteRecord and PosixWritableFile below it, from the      *)
(* opening of one events file to its end.                                  *)
(*                                                                         *)
(* An event is a record in the buffer of stdio, which reaches the disk     *)
(* cell by cell, at the latest in fflush or fclose.  An Append may fail    *)
(* and take a part of the record: WriteSerializedEvent ignores that, and   *)
(* so does a later Flush.  A cell of data has the size of a length.        *)
(* Another process may remove the file, and the writer's process may       *)
(* crash.  A file that the writer has left it does not open again: the     *)
(* name of the next one has a later second in it.                          *)
(***************************************************************************)
EXTENDS RecordFile

CONSTANTS
  VersionLength,  \* length of the first event
  Lengths,        \* lengths of the others
  MaxEvents,      \* bound on the events written, beside the first
  MaxLost         \* bound on the events whose Append fails

ASSUME EventsAssumption ==
  /\ VersionLength \in Nat /\ Lengths \subseteq Nat
  /\ MaxEvents \in Nat /\ MaxLost \in Nat

VARIABLES
  buffer,       \* what stdio has not written yet
  at,           \* where the writer is
  linked,       \* the file has its name
  outstanding,  \* num_outstanding_events_
  made,         \* events written so far
  lost,         \* those of them whose Append failed
  log,          \* the events in disk and buffer that a reader can get at
  ends,         \* where in the file each event of log ends
  torn,         \* a part of a record is in the file
  bare,         \* the first such part is the header of an event of one cell
  promised      \* how far into the file a Flush that returned OK has covered it

writerVars ==
  <<buffer, at, linked, outstanding, made, lost, log, ends, torn, bare, promised>>

WriterInit ==
  /\ disk = <<>> /\ buffer = <<>>
  /\ at = "new"
  /\ linked = FALSE
  /\ outstanding = 0 /\ made = 0 /\ lost = 0
  /\ log = <<>> /\ ends = <<>> /\ torn = FALSE /\ bare = FALSE /\ promised = 0

\* The data of the next event: no two have the same, unless they are empty.
Data(length) == [i \in 1..length |-> <<"data", <<made, i>>>>]

\* How many events of log are on the disk.
Durable == Cardinality({k \in 1..Len(log) : ends[k] <= Len(disk)})

\* Seeded fault: Flush does not call Sync.
NotSynced == TRUE

\* recordio_file_->Sync() is fflush.
Synced == buffer = <<>>

-----------------------------------------------------------------------------
\* Three calls of Append; each of them may fail, after a part of its data.
WriteRecord(data) ==
  \/ /\ buffer' = buffer \o Encode(data)
     /\ IF torn THEN UNCHANGED <<log, ends>>
        ELSE /\ log' = Append(log, data)
             /\ ends' = Append(ends, Len(disk) + Len(buffer) + EncodedSize(data))
     /\ UNCHANGED <<lost, torn, bare>>
  \/ \E n \in 0..(EncodedSize(data) - 1) :
       /\ lost < MaxLost /\ lost' = lost + 1
       /\ buffer' = buffer \o SubSeq(Encode(data), 1, n)
       /\ torn' = (torn \/ n > 0)
       /\ bare' = (bare \/ (~torn /\ n = HeaderSize /\ Len(data) = 1))
       /\ UNCHANGED <<log, ends>>

\* InitIfNeeded, from Init or from the first WriteSerializedEvent: opens the
\* file, writes the version and calls Flush.
InitIfNeeded ==
  /\ at = "new" /\ at' = "init"
  /\ linked' = TRUE
  /\ outstanding' = 1
  /\ made' = 1
  /\ WriteRecord(Data(VersionLength))
  /\ UNCHANGED <<disk, promised>>

WriteSerializedEvent(length) ==
  /\ at = "idle"
  /\ made <= MaxEvents /\ made' = made + 1
  /\ outstanding' = outstanding + 1
  /\ WriteRecord(Data(length))
  /\ UNCHANGED <<disk, at, linked, promised>>

\* Flush returns OK: it answers for all that Append has taken.
Promise == promised' = Len(disk) + Len(buffer)

\* Flush, by itself or from Close, begins; with no event out it returns OK.
Flush ==
  /\ at = "idle"
  /\ \/ outstanding > 0 /\ at' \in {"flush", "close"} /\ UNCHANGED promised
     \/ outstanding = 0 /\ at' \in {"idle", "fclose"} /\ Promise
  /\ UNCHANGED <<disk, buffer, linked, outstanding, made, lost, log, ends, torn, bare>>

Return == at' = IF at = "close" THEN "fclose" ELSE "idle"

\* Sync has returned; FileStillExists decides.
FlushReturns ==
  /\ at \in {"init", "flush", "close"} /\ Return
  /\ Synced
  /\ outstanding' = IF linked THEN 0 ELSE outstanding
  /\ IF linked THEN Promise ELSE UNCHANGED promised
  /\ UNCHANGED <<disk, buffer, linked, made, lost, log, ends, torn, bare>>

SyncFails ==
  /\ at \in {"init", "flush", "close"} /\ Return
  /\ UNCHANGED <<disk, buffer, linked, outstanding, made, lost, log, ends, torn, bare, promised>>

-----------------------------------------------------------------------------
(* The file *)

\* stdio writes its buffer, in pieces of any size.
Drain ==
  /\ buffer # <<>>
  /\ disk' = Append(disk, Head(buffer))
  /\ buffer' = Tail(buffer)
  /\ UNCHANGED <<at, linked, outstanding, made, lost, log, ends, torn, bare, promised>>

\* Nothing more will reach the disk: what is not there is lost.
Leave ==
  /\ at' = "gone"
  /\ buffer' = <<>>
  /\ outstanding' = 0
  /\ log' = SubSeq(log, 1, Durable)
  /\ ends' = SubSeq(ends, 1, Durable)
  /\ UNCHANGED <<disk, linked, made, lost, torn, bare, promised>>

\* fclose, from Close or because InitIfNeeded has found that the file is gone
\* and opens another.  What it cannot write is lost.
FClose == (at = "fclose" \/ (at = "idle" /\ ~linked)) /\ Leave

\* The writer's process ends.
Crash == at \notin {"new", "gone"} /\ Leave

\* Another process removes the file; who has it open can go on, and only the
\* writer looks for its name.
Remove ==
  /\ at # "gone"
  /\ linked /\ linked' = FALSE
  /\ UNCHANGED <<disk, buffer, at, outstanding, made, lost, log, ends, torn, bare, promised>>

WriterStep ==
  \/ InitIfNeeded \/ \E n \in Lengths : WriteSerializedEvent(n)
  \/ Flush \/ FlushReturns \/ SyncFails
  \/ Drain \/ FClose \/ Crash \/ Remove
=============================================================================
