----------------------------- MODULE RecordFile -----------------------------
(***************************************************************************)
(* The file that tensorflow/core/lib/io/record_writer.cc writes and        *)
(* record_reader.cc reads, in cells: a length, a checksum, a piece of      *)
(* data.  A checksum names what it was computed from, so that two          *)
(* different contents never have the same one.                             *)
(***************************************************************************)
EXTENDS Naturals, Sequences, FiniteSetsExt

VARIABLE disk  \* the cells that have reached the operating system

Crc(cells) == <<"crc", cells>>
HeaderSize == 2
FooterSize == 1

\* Header with the checksum of the length, data, checksum of the data.
Encode(data) ==
  LET length == <<"length", Len(data)>>
  IN <<length, Crc(<<length>>)>> \o data \o <<Crc(data)>>

EncodedSize(data) == HeaderSize + Len(data) + FooterSize

\* The cells from offset on, less than n at the end of the file.
Stored(offset, n) == SubSeq(disk, offset + 1, Min({offset + n, Len(disk)}))

\* PosixRandomAccessFile::Read: all the cells there are, and OUT_OF_RANGE when
\* they are less than n, or an I/O error after a part of them.
Read(offset, n) ==
  LET cells == Stored(offset, n)
  IN {[data |-> cells, status |-> IF Len(cells) < n THEN "eof" ELSE "ok"]}
     \cup {[data |-> SubSeq(cells, 1, k), status |-> "io"] :
              k \in 0..Min({n - 1, Len(cells)})}
=============================================================================
