---------------------------- MODULE RecordReader ----------------------------
(***************************************************************************)
(* SequentialRecordReader of tensorflow/core/lib/io/record_reader.{h,cc},  *)
(* on a RandomAccessInputStream, or on a BufferedInputStream over one,     *)
(* without compression.                                                    *)
(*                                                                         *)
(* The reader follows a file that may still grow: it calls ReadRecord      *)
(* again when that fails.  Each access to the file is a step, and each may *)
(* fail with an I/O error, some cells of the answer having been read.      *)
(***************************************************************************)
EXTENDS RecordFile, Integers

CONSTANTS
  BufferSizes,   \* values of options.buffer_size
  Numbers,       \* what a cell of data may spell when it is taken for a length
  MaxReadErrors  \* bound on the I/O errors that the reader meets

ASSUME ReaderAssumption ==
  BufferSizes \subseteq Nat /\ Numbers \subseteq Nat /\ MaxReadErrors \in Nat

VARIABLES
  bufferSize,  \* options_.buffer_size
  offset,      \* offset_ of the SequentialRecordReader
  failed,      \* last_read_failed_
  pos,         \* pos_ of the RandomAccessInputStream
  ahead,       \* buf_[pos_, limit_) of the BufferedInputStream
  fileStatus,  \* file_status_ of the BufferedInputStream
  call,        \* the part of ReadRecord in progress: [part, want, got]
  delivered,   \* the records returned
  error,       \* what the last ReadRecord failed with, if it failed
  readErrors,  \* I/O errors so far
  doubled,     \* in this ReadRecord the buffer got cells that pos does not count
  misplaced    \* the reader has skipped within cells that pos does not count

readerVars ==
  <<bufferSize, offset, failed, pos, ahead, fileStatus, call, delivered, error,
    readErrors, doubled, misplaced>>

Idle == [part |-> "none", want |-> 0, got |-> <<>>]
Reading(part, want) == [part |-> part, want |-> want, got |-> <<>>]

ReaderInit ==
  /\ bufferSize \in BufferSizes
  /\ offset = 0 /\ failed = FALSE
  /\ pos = 0 /\ ahead = <<>> /\ fileStatus = "ok"
  /\ call = Idle
  /\ delivered = <<>> /\ error = "none"
  /\ readErrors = 0 /\ doubled = FALSE /\ misplaced = FALSE

\* Tell of the stream; below zero when pos does not count what is ahead.
Tell == pos - Len(ahead)

\* Seeded faults: last_read_failed_ is not looked at; the checksum is not
\* looked at; the footer is forgotten.
ResetIfBehind == Tell > offset \/ Tell < 0
AnyChecksum(data, sum) == TRUE
HeaderAndData(n) == HeaderSize + n

MustReset == Tell > offset \/ Tell < 0 \/ (Tell = offset /\ failed)
ChecksumOk(data, sum) == sum = Crc(data)
RecordSize(n) == HeaderSize + n + FooterSize

\* DecodeFixed64 of the data of a header.
DecodeFixed64(cell) == IF cell[1] = "length" THEN {cell[2]} ELSE Numbers

-----------------------------------------------------------------------------
(* The position of the stream *)

\* Reset of the stream, and SkipNBytes of all that was read before.
Reset == pos' = offset /\ ahead' = <<>> /\ fileStatus' = "ok" /\ failed' = FALSE

\* Within the buffer, or in the file.
SkipNBytes(n) ==
  IF n < Len(ahead)
  THEN ahead' = SubSeq(ahead, n + 1, Len(ahead)) /\ UNCHANGED pos
  ELSE ahead' = <<>> /\ pos' = pos + n - Len(ahead)

\* After an I/O error, what is ahead was read from pos on, not up to pos.
Uncounted == error = "io" /\ offset - Tell < Len(ahead)

\* ReadRecord positions the stream; the file has offset cells at least.
Position ==
  /\ call = Idle
  /\ \/ MustReset /\ Reset /\ UNCHANGED misplaced
     \/ /\ ~MustReset
        /\ SkipNBytes(offset - Tell)
        /\ misplaced' = (misplaced \/ Uncounted)
        /\ UNCHANGED <<fileStatus, failed>>
  /\ call' = Reading("header", HeaderSize)
  /\ error' = "none" /\ doubled' = FALSE
  /\ UNCHANGED <<bufferSize, offset, delivered, readErrors>>

\* SkipNBytes in the file ends in an I/O error, and ReadRecord with it.
PositionFails ==
  /\ call = Idle
  /\ readErrors < MaxReadErrors /\ readErrors' = readErrors + 1
  /\ \/ /\ MustReset
        /\ pos' \in 0..(offset - 1)
        /\ fileStatus' = "ok" /\ failed' = FALSE
     \/ /\ ~MustReset /\ offset - Tell >= Len(ahead)
        /\ pos' \in pos..(offset - 1)
        /\ UNCHANGED <<fileStatus, failed>>
  /\ ahead' = <<>>
  /\ error' = "io" /\ doubled' = FALSE
  /\ UNCHANGED <<bufferSize, offset, call, delivered, misplaced>>

-----------------------------------------------------------------------------
(* ReadChecksummed *)

Missing == call.want - Len(call.got)

\* An end of the file behind the header is "truncated record", a DataLoss.
Fail(status) ==
  /\ failed' = TRUE
  /\ call' = Idle
  /\ error' = IF status = "eof" /\ call.part = "data" THEN "truncated" ELSE status

\* What Read may return within the bound on I/O errors.
Answers(n) ==
  {r \in Read(pos, n) : r.status = "io" => readErrors < MaxReadErrors}

\* FillBuffer reads the file only while file_status_ is OK.
FillBuffer ==
  IF fileStatus = "ok" THEN Answers(bufferSize)
  ELSE {[data |-> <<>>, status |-> fileStatus]}

Chunks == IF ahead = <<>> THEN FillBuffer ELSE {[data |-> ahead, status |-> "ok"]}

\* The loop of ReadNBytes of the BufferedInputStream.  With an I/O error pos
\* stays where it is and the buffer keeps the cells; the call fails if they
\* are the last it needs, and else fills the buffer again from pos on.
ReadBuffered ==
  /\ bufferSize > 0 /\ Missing > 0
  /\ \E r \in Chunks :
       LET n == Min({Missing, Len(r.data)}) IN
       /\ pos' = IF ahead = <<>> /\ r.status # "io" THEN pos + Len(r.data) ELSE pos
       /\ ahead' = SubSeq(r.data, n + 1, Len(r.data))
       /\ fileStatus' = IF r.data = <<>> THEN r.status ELSE fileStatus
       /\ readErrors' = IF fileStatus = "ok" /\ r.status = "io"
                        THEN readErrors + 1 ELSE readErrors
       /\ doubled' = (doubled \/ (r.status = "io" /\ r.data # <<>>))
       /\ \/ /\ r.data = <<>> \/ (r.status = "io" /\ n = Missing)
             /\ Fail(r.status)
          \/ /\ r.data # <<>> /\ ~(r.status = "io" /\ n = Missing)
             /\ call' = [call EXCEPT !.got = @ \o SubSeq(r.data, 1, n)]
             /\ UNCHANGED <<failed, error>>
  /\ UNCHANGED <<bufferSize, offset, delivered, misplaced>>

\* ReadNBytes of the RandomAccessInputStream: pos stays after an I/O error.
ReadUnbuffered ==
  /\ bufferSize = 0 /\ Missing > 0
  /\ \E r \in Answers(Missing) :
       /\ pos' = IF r.status = "io" THEN pos ELSE pos + Len(r.data)
       /\ readErrors' = IF r.status = "io" THEN readErrors + 1 ELSE readErrors
       /\ \/ r.status # "ok" /\ Fail(r.status)
          \/ /\ r.status = "ok"
             /\ call' = [call EXCEPT !.got = r.data]
             /\ UNCHANGED <<failed, error>>
  /\ UNCHANGED <<bufferSize, offset, ahead, fileStatus, delivered, doubled, misplaced>>

\* The rest of ReadChecksummed and of ReadRecord, for the header or the data.
Check ==
  LET n == call.want - 1
      data == SubSeq(call.got, 1, n)
  IN /\ call # Idle /\ Missing = 0
     /\ \/ /\ ~ChecksumOk(data, call.got[n + 1])
           /\ Fail("corrupted")
           /\ UNCHANGED <<offset, delivered>>
        \/ /\ ChecksumOk(data, call.got[n + 1])
           /\ call.part = "header"
           /\ \E length \in DecodeFixed64(data[1]) :
                call' = Reading("data", length + FooterSize)
           /\ UNCHANGED <<failed, offset, delivered, error>>
        \/ /\ ChecksumOk(data, call.got[n + 1])
           /\ call.part = "data"
           /\ delivered' = Append(delivered, data)
           /\ offset' = offset + RecordSize(n)
           /\ call' = Idle
           /\ UNCHANGED <<failed, error>>
     /\ UNCHANGED <<bufferSize, pos, ahead, fileStatus, readErrors, doubled, misplaced>>

\* A new reader goes on where an earlier one stopped, with SeekOffset.
Resume ==
  /\ call = Idle
  /\ pos' = 0 /\ ahead' = <<>> /\ fileStatus' = "ok" /\ failed' = FALSE
  /\ error' = "none" /\ doubled' = FALSE
  /\ UNCHANGED <<bufferSize, offset, call, delivered, readErrors, misplaced>>

ReadRecord == Position \/ PositionFails \/ ReadBuffered \/ ReadUnbuffered \/ Check
=============================================================================
