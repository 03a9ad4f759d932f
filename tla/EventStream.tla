---------------------------- MODULE EventStream -----------------------------
(***************************************************************************)
(* An EventsWriter and a reader of another process that follows its file,  *)
(* as TensorBoard does; together they implement EventLog.                  *)
(***************************************************************************)
EXTENDS EventsWriter, RecordReader

vars == <<disk, writerVars, readerVars>>

Init == WriterInit /\ ReaderInit

\* The file can be read when it has been opened for writing.
ReaderStep == at # "new" /\ ReadRecord /\ UNCHANGED <<disk, writerVars>>

Next ==
  \/ WriterStep /\ UNCHANGED readerVars
  \/ ReaderStep
  \/ at # "new" /\ Resume /\ UNCHANGED <<disk, writerVars>>

Spec == Init /\ [][Next]_vars

\* The reader calls ReadRecord again and again; nobody has to write.
FairSpec == Spec /\ WF_vars(ReaderStep)

-----------------------------------------------------------------------------
\* "Flush() pushes outstanding events to disk": all that Append had taken when
\* a Flush returned OK is on the disk, behind a torn record too, whatever
\* happens to the writer or the name of the file then.  This is not every event
\* written before: one whose Append failed is not in the file, or in part only,
\* and Flush returns OK all the same.
FlushedOnDisk == promised <= Len(disk)

\* The reader takes no other record for a damaged one: in a file without a torn
\* record, and unless the reader is misplaced, "corrupted record" is returned
\* only by a ReadRecord whose buffer was filled twice from one position after
\* an I/O error, and "truncated record" only where a header is on the disk.
DataLossJustified ==
  torn \/ misplaced
  \/ /\ error = "corrupted" => doubled
     /\ error = "truncated" => offset + HeaderSize <= Len(disk)

Log ==
  INSTANCE EventLog WITH
    log <- log, durable <- Durable, delivered <- delivered,
    misplaced <- misplaced, bare <- bare

\* The reader gets the events that were written, in their order, none twice,
\* none that was not written, and none that is not on the disk, until it skips
\* within cells that an I/O error left in its buffer, or has got the whole log
\* and finds a bare header of an event of one cell behind it.
ImplementsLog == Log!Spec

\* A reader that keeps calling has, again and again, all the events that have
\* reached the disk, also after it has met the end of the file or an I/O error,
\* or it is misplaced.
ReaderCatchesUp == []<>(Len(delivered) >= Durable \/ misplaced)
=============================================================================
