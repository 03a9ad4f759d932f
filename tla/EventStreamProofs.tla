------------------------- MODULE EventStreamProofs --------------------------
(***************************************************************************)
(* What is proved of EventStream, for all lengths of events, sizes of the  *)
(* reader's buffer and numbers of events, of lost events and of I/O errors.*)
(***************************************************************************)
EXTENDS EventStream, FiniteSetTheorems, SequenceTheorems, TLAPS

\* The cells that a file can hold, and the events.
Sizes == Lengths \cup {VersionLength}
LengthCell == {<<"length", n>> : n \in Sizes}
DataCell == {"data"} \X (Nat \X Nat)
Datum == {d \in Seq(DataCell) : Len(d) \in Sizes}
Cell == LengthCell \cup DataCell \cup {Crc(<<c>>) : c \in LengthCell} \cup {Crc(d) : d \in Datum}

Call == [part : {"none", "header", "data"}, want : Nat, got : Seq(Cell)]

Places == {"new", "init", "idle", "flush", "close", "fclose", "gone"}

WriterTypes ==
  /\ disk \in Seq(Cell) /\ buffer \in Seq(Cell)
  /\ at \in Places
  /\ made \in Nat /\ outstanding \in Nat
  /\ log \in Seq(Datum) /\ ends \in Seq(Nat) /\ Len(ends) = Len(log)
  /\ torn \in BOOLEAN /\ bare \in BOOLEAN
  /\ promised \in Nat

Statuses == {"ok", "eof", "io"}
Errors == {"none", "eof", "truncated", "corrupted", "io"}

ReaderTypes ==
  /\ bufferSize \in Nat /\ offset \in Nat /\ pos \in Nat
  /\ ahead \in Seq(Cell)
  /\ fileStatus \in Statuses /\ error \in Errors
  /\ call \in Call
  /\ delivered \in Seq(Datum)

\* What the writer has put in the file: on the disk, or still to be written.
File == disk \o buffer

\* Where the first k events end.
EndOf(e, k) == IF k = 0 THEN 0 ELSE e[k]
End(k) == EndOf(ends, k)
LogEnd == End(Len(log))

\* As far as file f goes, the n cells after s are the first of the record of d.
RecordAt(f, s, d, n) == \A j \in 1..n : s + j <= Len(f) => f[s + j] = Encode(d)[j]

\* The events of log follow one another.
EndsInv ==
  /\ \A k \in 1..Len(log) : ends[k] = End(k - 1) + EncodedSize(log[k])
  /\ \A i, k \in 1..Len(log) : i < k => ends[i] < ends[k]
  /\ \A k \in 1..Len(log) : ends[k] <= Len(File)

\* Flush need not do anything when no event is out.
PromisedInv ==
  /\ promised <= Len(disk)
  /\ outstanding = 0 => buffer = <<>>

\* Their records are in the file.
RecordsInv ==
  \A k \in 1..Len(log) : RecordAt(File, End(k - 1), log[k], EncodedSize(log[k]))

\* After them, a part of a record at most, then the length of another one.
CutAt(d, n) ==
  /\ n < EncodedSize(d)
  /\ RecordAt(File, LogEnd, d, n)
  /\ Len(File) > LogEnd + n => torn /\ File[LogEnd + n + 1] \in LengthCell
  /\ at # "gone" => Len(File) >= LogEnd + n
  /\ at # "gone" \/ Len(File) > LogEnd + n => (Len(d) = 1 /\ n = 2 => bare)

TailInv ==
  /\ Len(File) > LogEnd => \E d \in Datum, n \in Nat \ {0} : CutAt(d, n)
  /\ at # "gone" => (torn <=> Len(File) > LogEnd)
  /\ bare => torn

\* The reader is behind the last record that it has returned.
PlaceInv ==
  /\ Len(delivered) <= Len(log)
  /\ \A k \in 1..Len(delivered) : delivered[k] = log[k]
  /\ offset = End(Len(delivered))
  /\ offset <= Len(disk)

\* A ReadRecord has failed with an I/O error: pos may not count what is ahead.
Loose == call.part = "none" /\ error = "io"

\* Else its stream has what the file has.
StreamInv ==
  /\ pos <= Len(disk)
  /\ ~Loose => Len(ahead) <= pos /\ \A j \in 1..Len(ahead) : ahead[j] = disk[Tell + j]
  /\ bufferSize = 0 => ahead = <<>>

\* Where the part of the record begins that a call is reading.
Base == IF call.part = "header" THEN offset ELSE offset + HeaderSize

\* A call has what the file has,
Straight ==
  /\ Tell = Base + Len(call.got)
  /\ \A j \in 1..Len(call.got) : call.got[j] = disk[Base + j]

\* or, after an I/O error, some of it more than once: all the same from its
\* first cell on up to where the stream is, which is where its last cell comes
\* from once it is complete.
Skewed ==
  /\ doubled /\ bufferSize > 0
  /\ Len(call.got) > 0 /\ call.got[1] = disk[Base + 1]
  /\ Base <= Tell /\ Tell < Base + Len(call.got) /\ Base < Len(disk)
  /\ \A p \in (Base + 1)..Tell : \E i \in 1..Len(call.got) : call.got[i] = disk[p]
  /\ Missing = 0 => Tell > Base /\ call.got[Len(call.got)] = disk[Tell]
  /\ Missing # 0 => ahead = <<>>

\* It reads data behind a header that is right.
CallInv ==
  /\ call.part = "none" => call = Idle
  /\ call.part # "none" =>
       /\ error = "none"
       /\ Len(call.got) <= call.want
       /\ bufferSize = 0 => Len(call.got) \in {0, call.want}
       /\ Straight \/ Skewed
  /\ call.part = "header" => call.want = HeaderSize
  /\ call.part = "data" =>
       /\ Base <= Len(disk)
       /\ call.want - 1 \in Sizes
       /\ disk[offset + 1] = <<"length", call.want - 1>>
       /\ disk[offset + 2] = Crc(<<disk[offset + 1]>>)

WriterInv == WriterTypes /\ EndsInv /\ PromisedInv /\ RecordsInv /\ TailInv
ReaderInv == ReaderTypes /\ PlaceInv /\ StreamInv /\ CallInv /\ DataLossJustified
OnTrack == WriterInv /\ ReaderInv

\* What the reader has got is a sequence, whatever it is.
Listed == \E S : delivered \in Seq(S)

\* The reader has skipped within cells that an I/O error left in its buffer, or
\* has returned a record that begins with a bare header behind the log.
Astray == misplaced \/ (bare /\ Len(delivered) > Len(log))

Inv == WriterInv /\ Listed /\ (Astray \/ ReaderInv)

-----------------------------------------------------------------------------
(* Operators *)

\* The smaller of two numbers
LEMMA MinOfTwo ==
  ASSUME NEW a \in Nat, NEW b \in Nat
  PROVE  Min({a, b}) = IF a <= b THEN a ELSE b
<1> DEFINE m == IF a <= b THEN a ELSE b
<1>1. m \in {a, b} /\ \A y \in {a, b} : m <= y
  OBVIOUS
<1>2. \A x \in {a, b} : (\A y \in {a, b} : x <= y) => x = m
  OBVIOUS
<1>3. QED
  BY <1>1, <1>2 DEF Min

\* One piece of a file after another.
LEMMA Concat ==
  ASSUME NEW s \in Seq(Cell), NEW t \in Seq(Cell)
  PROVE  \E u : /\ u = s \o t
                /\ u \in Seq(Cell) /\ Len(u) = Len(s) + Len(t)
                /\ \A i \in 1..Len(s) : u[i] = s[i]
                /\ \A i \in 1..Len(t) : u[Len(s) + i] = t[i]
<1>1. PICK u : u = s \o t
  OBVIOUS
<1>2. /\ u \in Seq(Cell) /\ Len(u) = Len(s) + Len(t)
      /\ \A i \in 1..(Len(s) + Len(t)) : u[i] = IF i <= Len(s) THEN s[i] ELSE t[i - Len(s)]
  BY <1>1, ConcatProperties, Zenon
<1>3. Len(s) \in Nat /\ Len(t) \in Nat
  OBVIOUS
<1>4. \A i \in 1..Len(s) : u[i] = s[i]
  BY <1>2, <1>3
<1>5. ASSUME NEW i \in 1..Len(t)
      PROVE  u[Len(s) + i] = t[i]
  <2>1. Len(s) + i \in 1..(Len(s) + Len(t)) /\ ~(Len(s) + i <= Len(s)) /\ Len(s) + i - Len(s) = i
    BY <1>3
  <2>2. QED
    BY <1>2, <2>1
<1>6. QED
  BY <1>1, <1>2, <1>4, <1>5

\* The cells of an event.
LEMMA DatumCells ==
  ASSUME NEW d \in Datum
  PROVE  /\ d \in Seq(Cell) /\ Len(d) \in Nat /\ Len(d) \in Sizes
         /\ EncodedSize(d) = Len(d) + 3 /\ EncodedSize(d) \in Nat /\ EncodedSize(d) > 0
         /\ \A i \in 1..Len(d) : d[i] \in DataCell
<1>1. d \in Seq(DataCell) /\ Len(d) \in Sizes
  BY DEF Datum
<1>2. DataCell \subseteq Cell
  BY DEF Cell
<1>3. \A i \in 1..Len(d) : d[i] \in DataCell
  BY <1>1
<1>4. d \in Seq(Cell)
  BY <1>1, <1>2
<1>5. QED
  BY <1>1, <1>3, <1>4, EventsAssumption DEF EncodedSize, HeaderSize, FooterSize, Sizes

\* What WriteRecord appends: length, its checksum, data, their checksum.
LEMMA EncodeCells ==
  ASSUME NEW d \in Datum
  PROVE  /\ Encode(d) \in Seq(Cell)
         /\ Len(Encode(d)) = EncodedSize(d)
         /\ Encode(d)[1] = <<"length", Len(d)>> /\ Encode(d)[1] \in LengthCell
         /\ Encode(d)[2] = Crc(<<<<"length", Len(d)>>>>)
         /\ \A i \in 1..Len(d) : Encode(d)[2 + i] = d[i]
         /\ Encode(d)[Len(d) + 3] = Crc(d)
<1> DEFINE c == <<"length", Len(d)>>
<1>1. d \in Seq(Cell) /\ Len(d) \in Nat /\ Len(d) \in Sizes
  BY DatumCells
<1>2. c \in LengthCell
  BY <1>1 DEF LengthCell
<1>3. c \in Cell /\ Crc(<<c>>) \in Cell /\ Crc(d) \in Cell
  BY <1>2 DEF Cell
<1> DEFINE h == <<c, Crc(<<c>>)>>
           t == <<Crc(d)>>
<1>4. h \in Seq(Cell) /\ Len(h) = 2 /\ h[1] = c /\ h[2] = Crc(<<c>>)
  BY <1>3
<1>5. t \in Seq(Cell) /\ Len(t) = 1 /\ t[1] = Crc(d)
  BY <1>3
<1>6. Encode(d) = h \o d \o t
  BY DEF Encode
<1>7. EncodedSize(d) = Len(d) + 3
  BY DatumCells
<1> HIDE DEF c, h, t
<1>8. PICK g : /\ g = h \o d
               /\ g \in Seq(Cell) /\ Len(g) = Len(h) + Len(d)
               /\ \A i \in 1..Len(h) : g[i] = h[i]
               /\ \A i \in 1..Len(d) : g[Len(h) + i] = d[i]
  BY <1>1, <1>4, Concat
<1>9. PICK r : /\ r = g \o t
               /\ r \in Seq(Cell) /\ Len(r) = Len(g) + Len(t)
               /\ \A i \in 1..Len(g) : r[i] = g[i]
               /\ \A i \in 1..Len(t) : r[Len(g) + i] = t[i]
  BY <1>5, <1>8, Concat
<1>10. r = Encode(d)
  BY <1>6, <1>8, <1>9
<1>11. r[1] = c /\ r[2] = Crc(<<c>>)
  BY <1>1, <1>4, <1>8, <1>9
<1>12. \A i \in 1..Len(d) : r[2 + i] = d[i]
  BY <1>1, <1>4, <1>8, <1>9
<1>13. r[Len(d) + 3] = Crc(d)
  BY <1>1, <1>4, <1>5, <1>8, <1>9
<1>14. Len(r) = Len(d) + 3
  BY <1>1, <1>4, <1>5, <1>8, <1>9
<1>15. QED
  BY <1>2, <1>7, <1>9, <1>10, <1>11, <1>12, <1>13, <1>14 DEF c

\* How many of n numbers that increase are not above m, as a set.
LEMMA CountBelow ==
  ASSUME NEW n \in Nat, NEW e, \A k \in 1..n : e[k] \in Nat,
         \A i, k \in 1..n : i < k => e[i] < e[k],
         NEW m \in Nat, NEW c, c = Cardinality({k \in 1..n : e[k] <= m})
  PROVE  /\ c \in 0..n
         /\ \A k \in 1..n : e[k] <= m <=> k <= c
<1> DEFINE S == {k \in 1..n : e[k] <= m}
<1>1. IsFiniteSet(1..n) /\ Cardinality(1..n) = n
  BY FS_Interval
<1>2. IsFiniteSet(S) /\ c \in Nat /\ c <= n
  BY <1>1, FS_Subset, FS_CardinalityType
<1>3. ASSUME NEW k \in S
      PROVE  k <= c
  <2>1. 1..k \subseteq S
    OBVIOUS
  <2>2. Cardinality(1..k) = k
    BY FS_Interval
  <2>3. QED
    BY <1>2, <2>1, <2>2, FS_Subset
<1>4. S \subseteq 1..c
  BY <1>2, <1>3
<1>5. IsFiniteSet(1..c) /\ Cardinality(1..c) = c
  BY <1>2, FS_Interval
<1>6. S = 1..c
  BY <1>4, <1>5, FS_Subset
<1>7. QED
  BY <1>2, <1>6

\* A piece of a sequence.
LEMMA Piece ==
  ASSUME NEW S, NEW s \in Seq(S), NEW m \in Nat, NEW n \in Nat, m <= n, n <= Len(s)
  PROVE  /\ SubSeq(s, m + 1, n) \in Seq(S)
         /\ Len(SubSeq(s, m + 1, n)) = n - m
         /\ \A i \in 1..(n - m) : SubSeq(s, m + 1, n)[i] = s[m + i]
<1>1. SubSeq(s, m + 1, n) \in Seq(S)
  OBVIOUS
<1>2. Len(SubSeq(s, m + 1, n)) = n - m
  OBVIOUS
<1>3. \A i \in 1..(n - m) : SubSeq(s, m + 1, n)[i] = s[m + i]
  OBVIOUS
<1>4. QED
  BY <1>1, <1>2, <1>3

\* The first elements of a sequence.
LEMMA FirstOf ==
  ASSUME NEW S, NEW s \in Seq(S), NEW n \in 0..Len(s)
  PROVE  /\ SubSeq(s, 1, n) \in Seq(S)
         /\ Len(SubSeq(s, 1, n)) = n
         /\ \A i \in 1..n : SubSeq(s, 1, n)[i] = s[i]
<1>1. SubSeq(s, 1, n) \in Seq(S)
  OBVIOUS
<1>2. Len(SubSeq(s, 1, n)) = n
  OBVIOUS
<1>3. \A i \in 1..n : SubSeq(s, 1, n)[i] = s[i]
  OBVIOUS
<1>4. QED
  BY <1>1, <1>2, <1>3

\* What a file that reaches beyond o holds there.
LEMMA StoredFacts ==
  ASSUME disk \in Seq(Cell), NEW o \in Nat, NEW n \in Nat, o <= Len(disk)
  PROVE  \E u : /\ u = Stored(o, n)
                /\ u \in Seq(Cell)
                /\ Len(u) = IF o + n <= Len(disk) THEN n ELSE Len(disk) - o
                /\ \A i \in 1..Len(u) : u[i] = disk[o + i]
<1> DEFINE e == IF o + n <= Len(disk) THEN o + n ELSE Len(disk)
<1>1. Len(disk) \in Nat /\ o + n \in Nat
  OBVIOUS
<1>2. Min({o + n, Len(disk)}) = e
  BY <1>1, MinOfTwo
<1>3. e \in Nat /\ o <= e /\ e <= Len(disk)
  BY <1>1
<1> HIDE DEF e
<1>4. PICK u : u = SubSeq(disk, o + 1, e)
  OBVIOUS
<1>5. /\ u \in Seq(Cell) /\ Len(u) = e - o
      /\ \A i \in 1..(e - o) : u[i] = disk[o + i]
  BY <1>3, <1>4, Piece
<1>6. u = Stored(o, n)
  BY <1>2, <1>4 DEF Stored
<1>7. Len(u) = IF o + n <= Len(disk) THEN n ELSE Len(disk) - o
  BY <1>1, <1>5 DEF e
<1>8. QED
  BY <1>5, <1>6, <1>7

\* What Read returns: cells of the file, n of them if its status is OK, and
\* less otherwise.
LEMMA ReadFacts ==
  ASSUME disk \in Seq(Cell), NEW o \in Nat, NEW n \in Nat \ {0}, o <= Len(disk),
         NEW r \in Read(o, n)
  PROVE  /\ r.status \in Statuses
         /\ r.data \in Seq(Cell) /\ Len(r.data) \in Nat
         /\ Len(r.data) <= n /\ o + Len(r.data) <= Len(disk)
         /\ \A i \in 1..Len(r.data) : r.data[i] = disk[o + i]
         /\ r.status = "ok" <=> Len(r.data) = n
<1>1. PICK u : /\ u = Stored(o, n)
               /\ u \in Seq(Cell)
               /\ Len(u) = IF o + n <= Len(disk) THEN n ELSE Len(disk) - o
               /\ \A i \in 1..Len(u) : u[i] = disk[o + i]
  BY StoredFacts
<1>2. Len(u) \in Nat /\ Len(u) <= n /\ o + Len(u) <= Len(disk)
  BY <1>1
<1>3. CASE r = [data |-> u, status |-> IF Len(u) < n THEN "eof" ELSE "ok"]
  <2>1. r.data = u /\ r.status = IF Len(u) < n THEN "eof" ELSE "ok"
    BY <1>3
  <2>2. r.status \in Statuses /\ (r.status = "ok" <=> Len(u) = n)
    BY <1>2, <2>1 DEF Statuses
  <2>3. QED
    BY <1>1, <1>2, <2>1, <2>2
<1>4. ASSUME NEW k \in 0..Min({n - 1, Len(u)}), r = [data |-> SubSeq(u, 1, k), status |-> "io"]
      PROVE  /\ r.status \in Statuses
             /\ r.data \in Seq(Cell) /\ Len(r.data) \in Nat
             /\ Len(r.data) <= n /\ o + Len(r.data) <= Len(disk)
             /\ \A i \in 1..Len(r.data) : r.data[i] = disk[o + i]
             /\ r.status = "ok" <=> Len(r.data) = n
  <2>1. n - 1 \in Nat
    OBVIOUS
  <2>2. k \in 0..Len(u) /\ k \in Nat /\ k < n
    <3>1. Min({n - 1, Len(u)}) = IF n - 1 <= Len(u) THEN n - 1 ELSE Len(u)
      BY <1>2, <2>1, MinOfTwo
    <3>2. QED
      BY <1>2, <2>1, <3>1
  <2>3. r.data = SubSeq(u, 1, k) /\ r.status = "io"
    BY <1>4
  <2>4. r.data \in Seq(Cell) /\ Len(r.data) = k /\ \A i \in 1..k : r.data[i] = u[i]
    BY <1>1, <2>2, <2>3, FirstOf
  <2>5. \A i \in 1..k : i \in 1..Len(u)
    BY <1>2, <2>2
  <2>6. o + k <= Len(disk) /\ k <= n /\ k # n
    BY <1>2, <2>2
  <2>7. QED
    BY <1>1, <2>2, <2>3, <2>4, <2>5, <2>6 DEF Statuses
<1>5. \/ r = [data |-> u, status |-> IF Len(u) < n THEN "eof" ELSE "ok"]
      \/ \E k \in 0..Min({n - 1, Len(u)}) : r = [data |-> SubSeq(u, 1, k), status |-> "io"]
  BY <1>1 DEF Read
<1>6. QED
  BY <1>3, <1>4, <1>5

\* What the file is, in the cells.
LEMMA FileFacts ==
  ASSUME WriterTypes
  PROVE  /\ File \in Seq(Cell) /\ Len(File) = Len(disk) + Len(buffer)
         /\ Len(disk) \in Nat /\ Len(buffer) \in Nat /\ Len(File) \in Nat
         /\ \A i \in 1..Len(disk) : File[i] = disk[i]
         /\ \A i \in 1..Len(buffer) : File[Len(disk) + i] = buffer[i]
<1>1. disk \in Seq(Cell) /\ buffer \in Seq(Cell)
  BY DEF WriterTypes
<1>2. PICK u : /\ u = disk \o buffer
               /\ u \in Seq(Cell) /\ Len(u) = Len(disk) + Len(buffer)
               /\ \A i \in 1..Len(disk) : u[i] = disk[i]
               /\ \A i \in 1..Len(buffer) : u[Len(disk) + i] = buffer[i]
  BY <1>1, Concat
<1>3. Len(disk) \in Nat /\ Len(buffer) \in Nat
  BY <1>1
<1>4. QED
  BY <1>2, <1>3 DEF File

\* Where events begin and end.
LEMMA EndFacts ==
  ASSUME WriterTypes, EndsInv
  PROVE  /\ Len(log) \in Nat
         /\ \A k \in 0..Len(log) : End(k) \in Nat /\ End(k) <= LogEnd
         /\ LogEnd \in Nat /\ LogEnd <= Len(File)
         /\ End(0) = 0
         /\ \A k \in 1..Len(log) : End(k) = ends[k] /\ ends[k] \in Nat
<1>1. Len(log) \in Nat /\ \A k \in 1..Len(log) : ends[k] \in Nat
  BY DEF WriterTypes
<1>2. End(0) = 0 /\ \A k \in 1..Len(log) : End(k) = ends[k] /\ ends[k] \in Nat
  BY <1>1 DEF End, EndOf
<1>3. \A k \in 0..Len(log) : End(k) \in Nat
  BY <1>1, <1>2
<1>4. \A k \in 0..Len(log) : End(k) <= LogEnd
  BY <1>1, <1>2, <1>3 DEF LogEnd, EndsInv
<1>5. LogEnd <= Len(File)
  BY <1>1, <1>2, FileFacts DEF LogEnd, EndsInv
<1>6. QED
  BY <1>1, <1>2, <1>3, <1>4, <1>5 DEF LogEnd

\* Durable counts the events whose end is on the disk.
LEMMA DurableFacts ==
  ASSUME WriterTypes, EndsInv
  PROVE  /\ Durable \in 0..Len(log)
         /\ \A k \in 1..Len(log) : ends[k] <= Len(disk) <=> k <= Durable
<1>1. /\ Len(log) \in Nat /\ Len(disk) \in Nat
      /\ \A k \in 1..Len(log) : ends[k] \in Nat
      /\ \A i, k \in 1..Len(log) : i < k => ends[i] < ends[k]
  BY FileFacts DEF WriterTypes, EndsInv
<1>2. QED
  BY <1>1, CountBelow DEF Durable

-----------------------------------------------------------------------------
(* The writer *)

\* A record that is whole in a file is whole in a longer one.
LEMMA RecordStays ==
  ASSUME NEW f \in Seq(Cell), NEW g \in Seq(Cell), Len(f) <= Len(g),
         \A i \in 1..Len(f) : g[i] = f[i],
         NEW s \in Nat, NEW n \in Nat, s + n <= Len(f), NEW d,
         RecordAt(f, s, d, n)
  PROVE  RecordAt(g, s, d, n)
<1>1. ASSUME NEW j \in 1..n
      PROVE  g[s + j] = Encode(d)[j]
  <2>1. s + j \in 1..Len(f) /\ s + j <= Len(f)
    OBVIOUS
  <2>2. f[s + j] = Encode(d)[j]
    BY <2>1 DEF RecordAt
  <2>3. QED
    BY <2>1, <2>2
<1>2. QED
  BY <1>1 DEF RecordAt

\* What is appended comes after the file.
LEMMA FileGrows ==
  ASSUME WriterTypes, NEW r \in Seq(Cell), buffer' = buffer \o r, disk' = disk
  PROVE  /\ buffer' \in Seq(Cell) /\ File' \in Seq(Cell)
         /\ Len(File') = Len(File) + Len(r)
         /\ \A i \in 1..Len(File) : File'[i] = File[i]
         /\ \A i \in 1..Len(r) : File'[Len(File) + i] = r[i]
<1>1. disk \in Seq(Cell) /\ buffer \in Seq(Cell) /\ Len(r) \in Nat
  BY DEF WriterTypes
<1>2. PICK b : /\ b = buffer \o r
               /\ b \in Seq(Cell) /\ Len(b) = Len(buffer) + Len(r)
               /\ \A i \in 1..Len(buffer) : b[i] = buffer[i]
               /\ \A i \in 1..Len(r) : b[Len(buffer) + i] = r[i]
  BY <1>1, Concat
<1>3. PICK f : /\ f = disk \o b
               /\ f \in Seq(Cell) /\ Len(f) = Len(disk) + Len(b)
               /\ \A i \in 1..Len(disk) : f[i] = disk[i]
               /\ \A i \in 1..Len(b) : f[Len(disk) + i] = b[i]
  BY <1>1, <1>2, Concat
<1>4. b = buffer' /\ f = File'
  BY <1>2, <1>3 DEF File
<1>5. Len(f) = Len(File) + Len(r)
  BY <1>1, <1>2, <1>3, FileFacts
<1>6. ASSUME NEW i \in 1..Len(File)
      PROVE  f[i] = File[i]
  <2>1. CASE i <= Len(disk)
    BY <1>3, <2>1, FileFacts
  <2>2. CASE ~(i <= Len(disk))
    <3>1. i - Len(disk) \in 1..Len(buffer) /\ i = Len(disk) + (i - Len(disk))
      BY <2>2, FileFacts
    <3>2. i - Len(disk) \in 1..Len(b)
      BY <1>1, <1>2, <3>1, FileFacts
    <3>3. f[i] = b[i - Len(disk)] /\ b[i - Len(disk)] = buffer[i - Len(disk)]
      BY <1>2, <1>3, <3>1, <3>2
    <3>4. File[i] = buffer[i - Len(disk)]
      BY <3>1, FileFacts
    <3>5. QED
      BY <3>3, <3>4
  <2>3. QED
    BY <2>1, <2>2
<1>7. ASSUME NEW i \in 1..Len(r)
      PROVE  f[Len(File) + i] = r[i]
  <2>1. Len(buffer) \in Nat /\ Len(disk) \in Nat /\ Len(File) = Len(disk) + Len(buffer)
    BY FileFacts
  <2>2. PICK j : j = Len(buffer) + i
    OBVIOUS
  <2>3. j \in 1..Len(b) /\ Len(File) + i = Len(disk) + j
    BY <1>1, <1>2, <2>1, <2>2
  <2>4. f[Len(disk) + j] = b[j] /\ b[j] = r[i]
    BY <1>2, <1>3, <2>2, <2>3
  <2>5. QED
    BY <2>3, <2>4
<1>8. QED
  BY <1>2, <1>3, <1>4, <1>5, <1>6, <1>7

\* The records of log stay where they are in a file that has grown.
LEMMA RecordsStay ==
  ASSUME WriterTypes, EndsInv, RecordsInv,
         NEW g \in Seq(Cell), Len(File) <= Len(g), \A i \in 1..Len(File) : g[i] = File[i],
         NEW k \in 1..Len(log)
  PROVE  RecordAt(g, End(k - 1), log[k], EncodedSize(log[k]))
<1>1. log[k] \in Datum
  BY DEF WriterTypes
<1>2. EncodedSize(log[k]) \in Nat
  BY <1>1, DatumCells
<1>3. k - 1 \in 0..Len(log)
  BY EndFacts
<1>4. End(k - 1) \in Nat
  BY <1>3, EndFacts
<1>5. End(k - 1) + EncodedSize(log[k]) <= Len(File)
  BY DEF EndsInv
<1>6. RecordAt(File, End(k - 1), log[k], EncodedSize(log[k]))
  BY DEF RecordsInv
<1>7. PICK f, s, n, d : f = File /\ s = End(k - 1) /\ n = EncodedSize(log[k]) /\ d = log[k]
  OBVIOUS
<1>8. RecordAt(g, s, d, n)
  BY <1>2, <1>4, <1>5, <1>6, <1>7, FileFacts, RecordStays
<1>9. QED
  BY <1>7, <1>8

\* While a writer can still write, an intact file ends with the last event.
LEMMA WholeFile ==
  ASSUME WriterInv, at # "gone", ~torn
  PROVE  Len(File) = LogEnd
BY EndFacts, FileFacts DEF WriterInv, TailInv

\* A record that is written whole, to an intact file.
LEMMA WholeInv ==
  ASSUME WriterInv, at # "gone", ~torn, NEW d \in Datum,
         buffer' = buffer \o Encode(d),
         log' = Append(log, d),
         ends' = Append(ends, Len(disk) + Len(buffer) + EncodedSize(d)),
         UNCHANGED <<disk, torn, bare, promised>>, at' \in Places, at' # "gone", made' \in Nat,
         outstanding' \in Nat \ {0}
  PROVE  WriterInv'
<1> USE DEF WriterInv
<1>1. /\ Encode(d) \in Seq(Cell) /\ Len(Encode(d)) = EncodedSize(d)
      /\ EncodedSize(d) \in Nat /\ EncodedSize(d) > 0
  <2>1. Encode(d) \in Seq(Cell) /\ Len(Encode(d)) = EncodedSize(d)
    BY EncodeCells
  <2>2. EncodedSize(d) \in Nat /\ EncodedSize(d) > 0
    BY DatumCells
  <2>3. QED
    BY <2>1, <2>2
<1>2. /\ buffer' \in Seq(Cell) /\ File' \in Seq(Cell)
      /\ Len(File') = Len(File) + EncodedSize(d)
      /\ \A i \in 1..Len(File) : File'[i] = File[i]
      /\ \A i \in 1..EncodedSize(d) : File'[Len(File) + i] = Encode(d)[i]
  BY <1>1, FileGrows
<1>3. Len(File) = LogEnd /\ Len(File) = Len(disk) + Len(buffer) /\ Len(File) \in Nat /\ Len(log) \in Nat
  BY WholeFile, FileFacts, EndFacts
<1>4. /\ log' \in Seq(Datum) /\ Len(log') = Len(log) + 1
      /\ log'[Len(log) + 1] = d /\ \A k \in 1..Len(log) : log'[k] = log[k]
  BY DEF WriterTypes
<1>5. /\ ends' \in Seq(Nat) /\ Len(ends') = Len(log) + 1
      /\ ends'[Len(log) + 1] = Len(File) + EncodedSize(d)
      /\ \A k \in 1..Len(log) : ends'[k] = ends[k]
  <2>1. ends \in Seq(Nat) /\ Len(ends) = Len(log)
    BY DEF WriterTypes
  <2>2. PICK e : e = Len(disk) + Len(buffer) + EncodedSize(d)
    OBVIOUS
  <2>3. e \in Nat /\ e = Len(File) + EncodedSize(d)
    BY <1>1, <1>3, <2>2
  <2>4. QED
    BY <2>1, <2>2, <2>3, AppendProperties
<1>6. WriterTypes'
  BY <1>2, <1>4, <1>5 DEF WriterTypes
<1>7. \A k \in 0..Len(log) : End(k)' = End(k)
  BY <1>3, <1>5 DEF End, EndOf
<1>8. LogEnd' = Len(File')
  BY <1>2, <1>3, <1>4, <1>5 DEF LogEnd, End, EndOf
<1>9. ASSUME NEW k \in 1..Len(log')
      PROVE  /\ ends'[k] = End(k - 1)' + EncodedSize(log'[k])
             /\ ends'[k] <= Len(File')
             /\ RecordAt(File', End(k - 1)', log'[k], EncodedSize(log'[k]))
  <2>1. k \in 1..(Len(log) + 1) /\ k - 1 \in 0..Len(log)
    BY <1>3, <1>4
  <2>2. End(k - 1)' = End(k - 1)
    BY <1>7, <2>1
  <2>3. CASE k \in 1..Len(log)
    <3>1. ends'[k] = End(k - 1) + EncodedSize(log'[k]) /\ ends'[k] <= Len(File)
      BY <1>4, <1>5, <2>3 DEF EndsInv
    <3>2. RecordAt(File', End(k - 1), log[k], EncodedSize(log[k]))
      <4>1. PICK g : g = File'
        OBVIOUS
      <4>2. g \in Seq(Cell) /\ Len(File) <= Len(g) /\ \A i \in 1..Len(File) : g[i] = File[i]
        BY <1>1, <1>2, <1>3, <4>1
      <4>3. RecordAt(g, End(k - 1), log[k], EncodedSize(log[k]))
        BY <2>3, <4>2, RecordsStay
      <4>4. QED
        BY <4>1, <4>3
    <3>3. ends'[k] <= Len(File')
      <4>1. ends[k] \in Nat /\ ends'[k] = ends[k]
        BY <1>5, <2>3, EndFacts
      <4>2. Len(File) <= Len(File')
        BY <1>1, <1>2, <1>3
      <4>3. Len(File') \in Nat
        BY <1>2
      <4>4. PICK a \in Nat, b \in Nat, c \in Nat : a = ends'[k] /\ b = Len(File) /\ c = Len(File')
        BY <1>3, <4>1, <4>3
      <4>5. a <= b /\ b <= c
        BY <3>1, <4>2, <4>4
      <4>6. a <= c
        BY <4>5
      <4>7. QED
        BY <4>4, <4>6, Zenon
    <3>4. QED
      BY <1>4, <2>2, <2>3, <3>1, <3>2, <3>3
  <2>4. CASE k = Len(log) + 1
    <3>1. End(k - 1) = Len(File)
      <4>1. k - 1 = Len(log)
        BY <1>3, <2>4
      <4>2. QED
        BY <1>3, <4>1 DEF LogEnd
    <3>2. RecordAt(File', Len(File), d, EncodedSize(d))
      BY <1>2 DEF RecordAt
    <3>3. QED
      BY <1>2, <1>4, <1>5, <2>2, <2>4, <3>1, <3>2
  <2>5. k \in 1..Len(log) \/ k = Len(log) + 1
    BY <1>3, <2>1
  <2>6. QED
    BY <2>3, <2>4, <2>5
<1>10. \A i, k \in 1..Len(log') : i < k => ends'[i] < ends'[k]
  <2>1. SUFFICES ASSUME NEW i \in 1..Len(log'), NEW k \in 1..Len(log'), i < k
                 PROVE  ends'[i] < ends'[k]
    OBVIOUS
  <2>2. i \in 1..Len(log) /\ k \in 1..(Len(log) + 1)
    BY <1>3, <1>4, <2>1
  <2>3. CASE k \in 1..Len(log)
    BY <1>5, <2>1, <2>2, <2>3 DEF EndsInv
  <2>4. CASE k = Len(log) + 1
    <3>1. ends[i] <= Len(File) /\ ends[i] \in Nat
      BY <2>2, EndFacts DEF EndsInv
    <3>2. QED
      BY <1>1, <1>3, <1>5, <2>2, <2>4, <3>1, SMTT(40)
  <2>5. k \in 1..Len(log) \/ k = Len(log) + 1
    <3>1. PICK n \in Nat : n = Len(log)
      BY <1>3
    <3>2. k \in 1..(n + 1)
      BY <2>2, <3>1
    <3>3. k \in 1..n \/ k = n + 1
      BY <3>2
    <3>4. QED
      BY <3>1, <3>3
  <2>6. QED
    BY <2>3, <2>4, <2>5
<1>11. EndsInv'
  BY <1>9, <1>10 DEF EndsInv
<1>12. PromisedInv'
  BY DEF PromisedInv
<1>13. RecordsInv'
  BY <1>9 DEF RecordsInv
<1>14. TailInv'
  BY <1>2, <1>8, <1>3, <1>1 DEF TailInv
<1>15. QED
  BY <1>6, <1>11, <1>12, <1>13, <1>14

\* Ends and records of log, when the file has only grown.
LEMMA SameLog ==
  ASSUME WriterInv, log' = log, ends' = ends,
         File' \in Seq(Cell), Len(File) <= Len(File'), \A i \in 1..Len(File) : File'[i] = File[i]
  PROVE  EndsInv' /\ RecordsInv' /\ LogEnd' = LogEnd
<1> USE DEF WriterInv
<1>1. \A k : End(k)' = End(k)
  BY DEF End, EndOf
<1>2. LogEnd' = LogEnd
  BY <1>1 DEF LogEnd, End
<1>3. ASSUME NEW k \in 1..Len(log)
      PROVE  ends[k] <= Len(File')
  <2>1. ends[k] \in Nat /\ ends[k] <= Len(File) /\ Len(File) \in Nat /\ Len(File') \in Nat
    BY EndFacts, FileFacts DEF EndsInv
  <2>2. QED
    BY <2>1
<1>4. EndsInv'
  BY <1>1, <1>3 DEF EndsInv
<1>5. PICK g : g = File'
  OBVIOUS
<1>6. g \in Seq(Cell) /\ Len(File) <= Len(g) /\ \A i \in 1..Len(File) : g[i] = File[i]
  BY <1>5
<1>7. \A k \in 1..Len(log) : RecordAt(g, End(k - 1), log[k], EncodedSize(log[k]))
  BY <1>6, RecordsStay
<1>8. RecordsInv'
  BY <1>1, <1>5, <1>7 DEF RecordsInv
<1>9. QED
  BY <1>2, <1>4, <1>8

\* A record that is written in part, or to a file that is torn already: the
\* first cell that is appended, if there is one, is a length.
LEMMA TornInv ==
  ASSUME WriterInv, at # "gone", NEW d \in Datum, NEW r \in Seq(Cell),
         Len(r) <= EncodedSize(d), \A i \in 1..Len(r) : r[i] = Encode(d)[i],
         torn \/ Len(r) < EncodedSize(d), torn' = (torn \/ Len(r) > 0),
         bare' = (bare \/ (~torn /\ Len(r) = 2 /\ Len(d) = 1)),
         buffer' \in Seq(Cell), File' \in Seq(Cell), Len(File') = Len(File) + Len(r),
         \A i \in 1..Len(File) : File'[i] = File[i],
         \A i \in 1..Len(r) : File'[Len(File) + i] = r[i],
         UNCHANGED <<disk, log, ends, promised>>, at' \in Places, at' # "gone", made' \in Nat,
         outstanding' \in Nat \ {0}
  PROVE  WriterInv'
<1> USE DEF WriterInv
<1>1. Len(r) \in Nat /\ Len(File) \in Nat /\ Len(File) <= Len(File')
  BY FileFacts
<1>2. EndsInv' /\ RecordsInv' /\ LogEnd' = LogEnd
  BY <1>1, SameLog
<1>3. WriterTypes'
  BY DEF WriterTypes
<1>4. PromisedInv'
  BY DEF PromisedInv
<1>5. LogEnd \in Nat /\ LogEnd <= Len(File) /\ EncodedSize(d) \in Nat
  BY EndFacts, DatumCells
<1>6. Len(r) > 0 => r[1] \in LengthCell /\ File'[Len(File) + 1] = r[1]
  <2>1. SUFFICES ASSUME Len(r) > 0
                 PROVE  r[1] \in LengthCell /\ File'[Len(File) + 1] = r[1]
    OBVIOUS
  <2>2. 1 \in 1..Len(r)
    BY <1>1, <2>1
  <2>3. r[1] = Encode(d)[1] /\ Encode(d)[1] \in LengthCell
    BY <2>2, EncodeCells
  <2>4. QED
    BY <2>2, <2>3
<1>7. torn' <=> Len(File') > LogEnd
  <2>1. torn <=> Len(File) > LogEnd
    BY DEF TailInv
  <2>2. torn' <=> torn \/ Len(r) > 0
    OBVIOUS
  <2>3. Len(File') > LogEnd <=> Len(File) > LogEnd \/ Len(r) > 0
    BY <1>1, <1>5
  <2>4. QED
    BY <2>1, <2>2, <2>3
<1>8. ASSUME Len(File') > LogEnd
      PROVE  \E d0 \in Datum, n \in Nat \ {0} : CutAt(d0, n)'
  <2>1. CASE torn
    <3>1. PICK d0 \in Datum, n \in Nat \ {0} : CutAt(d0, n)
      BY <1>1, <1>5, <2>1 DEF TailInv
    <3>2. LogEnd + n <= Len(File) /\ n < EncodedSize(d0) /\ RecordAt(File, LogEnd, d0, n)
      BY <1>1, <1>5, <3>1 DEF CutAt
    <3>3. RecordAt(File', LogEnd, d0, n)
      <4>1. PICK f, g, s : f = File /\ g = File' /\ s = LogEnd
        OBVIOUS
      <4>2. RecordAt(g, s, d0, n)
        BY <1>1, <1>5, <3>2, <4>1, FileFacts, RecordStays
      <4>3. QED
        BY <4>1, <4>2
    <3>4. ASSUME Len(File') > LogEnd + n
          PROVE  File'[LogEnd + n + 1] \in LengthCell
      <4>1. CASE Len(File) > LogEnd + n
        <5>1. File[LogEnd + n + 1] \in LengthCell
          BY <3>1, <4>1 DEF CutAt
        <5>2. LogEnd + n + 1 \in 1..Len(File)
          BY <1>1, <1>5, <4>1
        <5>3. QED
          BY <5>1, <5>2
      <4>2. CASE ~(Len(File) > LogEnd + n)
        <5>1. Len(File) = LogEnd + n
          BY <1>1, <1>5, <3>2, <4>2
        <5>2. Len(r) > 0
          BY <1>1, <1>5, <3>4, <5>1
        <5>3. QED
          BY <1>6, <5>1, <5>2
      <4>3. QED
        BY <4>1, <4>2
    <3>5. LogEnd + n <= Len(File')
      BY <1>1, <1>5, <3>2
    <3>6. Len(d0) = 1 /\ n = 2 => bare /\ bare'
      BY <3>1 DEF CutAt
    <3>7. CutAt(d0, n)'
      BY <1>2, <2>1, <3>2, <3>3, <3>4, <3>5, <3>6 DEF CutAt
    <3>8. QED
      BY <3>7
  <2>2. CASE ~torn
    <3>1. Len(File) = LogEnd
      BY <2>2, WholeFile
    <3>2. Len(r) \in Nat \ {0} /\ Len(r) < EncodedSize(d)
      BY <1>1, <1>5, <1>8, <2>2, <3>1
    <3>3. RecordAt(File', LogEnd, d, Len(r))
      BY <3>1 DEF RecordAt
    <3>4. Len(d) = 1 /\ Len(r) = 2 => bare'
      BY <2>2
    <3>5. CutAt(d, Len(r))'
      BY <1>2, <1>1, <1>5, <3>1, <3>2, <3>3, <3>4 DEF CutAt
    <3>6. QED
      BY <3>2, <3>5
  <2>3. QED
    BY <2>1, <2>2
<1>9. bare' => torn'
  <2>1. bare => torn
    BY DEF TailInv
  <2>2. bare' <=> bare \/ (~torn /\ Len(r) = 2 /\ Len(d) = 1)
    OBVIOUS
  <2>3. torn' <=> torn \/ Len(r) > 0
    OBVIOUS
  <2>4. Len(r) = 2 => Len(r) > 0
    OBVIOUS
  <2>5. QED
    BY <2>1, <2>2, <2>3, <2>4
<1>10. TailInv'
  BY <1>2, <1>7, <1>8, <1>9 DEF TailInv
<1>11. QED
  BY <1>2, <1>3, <1>4, <1>10

\* WriteRecord, whether its calls of Append fail or not.
LEMMA WriteRecordInv ==
  ASSUME WriterInv, at # "gone", NEW d \in Datum, WriteRecord(d),
         UNCHANGED <<disk, promised>>, at' \in Places, at' # "gone", made' \in Nat,
         outstanding' \in Nat \ {0}
  PROVE  WriterInv'
<1>1. Encode(d) \in Seq(Cell) /\ Len(Encode(d)) = EncodedSize(d) /\ torn \in BOOLEAN /\ bare \in BOOLEAN
  BY EncodeCells DEF WriterInv, WriterTypes
<1>2. EncodedSize(d) \in Nat /\ EncodedSize(d) > 0
  BY DatumCells
<1>3. ASSUME buffer' = buffer \o Encode(d), torn, UNCHANGED <<log, ends, torn, bare>>
      PROVE  WriterInv'
  <2>1. PICK r : r = Encode(d)
    OBVIOUS
  <2>2. /\ buffer' \in Seq(Cell) /\ File' \in Seq(Cell)
        /\ Len(File') = Len(File) + Len(r)
        /\ \A i \in 1..Len(File) : File'[i] = File[i]
        /\ \A i \in 1..Len(r) : File'[Len(File) + i] = r[i]
    BY <1>1, <1>3, <2>1, FileGrows DEF WriterInv
  <2>3. /\ torn' = (torn \/ Len(r) > 0)
        /\ bare' = (bare \/ (~torn /\ Len(r) = 2 /\ Len(d) = 1))
    BY <1>1, <1>3
  <2>4. r \in Seq(Cell) /\ Len(r) <= EncodedSize(d) /\ \A i \in 1..Len(r) : r[i] = Encode(d)[i]
    BY <1>1, <1>2, <2>1
  <2>5. QED
    BY <1>3, <2>2, <2>3, <2>4, TornInv
<1>4. ASSUME buffer' = buffer \o Encode(d), ~torn, UNCHANGED <<torn, bare>>, log' = Append(log, d),
             ends' = Append(ends, Len(disk) + Len(buffer) + EncodedSize(d))
      PROVE  WriterInv'
  BY <1>4, WholeInv
<1>5. ASSUME NEW n \in 0..(EncodedSize(d) - 1), buffer' = buffer \o SubSeq(Encode(d), 1, n),
             torn' = (torn \/ n > 0), UNCHANGED <<log, ends>>,
             bare' = (bare \/ (~torn /\ n = 2 /\ Len(d) = 1))
      PROVE  WriterInv'
  <2>1. PICK r : r = SubSeq(Encode(d), 1, n)
    OBVIOUS
  <2>2. n \in 0..Len(Encode(d)) /\ n \in Nat /\ n < EncodedSize(d)
    BY <1>1, <1>2
  <2>3. r \in Seq(Cell) /\ Len(r) = n /\ \A i \in 1..n : r[i] = Encode(d)[i]
    BY <1>1, <2>1, <2>2, FirstOf
  <2>4. /\ buffer' \in Seq(Cell) /\ File' \in Seq(Cell)
        /\ Len(File') = Len(File) + Len(r)
        /\ \A i \in 1..Len(File) : File'[i] = File[i]
        /\ \A i \in 1..Len(r) : File'[Len(File) + i] = r[i]
    BY <1>5, <2>1, <2>3, FileGrows DEF WriterInv
  <2>5. Len(r) <= EncodedSize(d) /\ Len(r) < EncodedSize(d)
    BY <1>2, <2>2, <2>3
  <2>6. QED
    BY <1>5, <2>3, <2>4, <2>5, TornInv
<1>6. QED
  BY <1>3, <1>4, <1>5 DEF WriteRecord, HeaderSize

\* The data of the next event are an event.
LEMMA DataFacts ==
  ASSUME made \in Nat, NEW n \in Sizes
  PROVE  Data(n) \in Datum
<1>1. n \in Nat
  BY EventsAssumption DEF Sizes
<1>2. \A i \in 1..n : <<"data", <<made, i>>>> \in DataCell
  BY <1>1 DEF DataCell
<1>3. Data(n) \in Seq(DataCell) /\ Len(Data(n)) = n
  BY <1>1, <1>2 DEF Data
<1>4. QED
  BY <1>3 DEF Datum

\* The writer moves on, or the file loses its name.
LEMMA SameFileInv ==
  ASSUME WriterInv, UNCHANGED <<disk, buffer, made, log, ends, torn, bare>>, outstanding' \in Nat,
         at' \in Places, at' = "gone" <=> at = "gone", promised' \in Nat, PromisedInv'
  PROVE  WriterInv'
<1> USE DEF WriterInv
<1>1. File' = File
  BY DEF File
<1>2. WriterTypes'
  BY DEF WriterTypes
<1>3. File' \in Seq(Cell) /\ Len(File) <= Len(File') /\ \A i \in 1..Len(File) : File'[i] = File[i]
  BY <1>1, FileFacts
<1>4. EndsInv' /\ RecordsInv' /\ LogEnd' = LogEnd
  BY <1>3, SameLog
<1>5. \A d, n : CutAt(d, n)' <=> CutAt(d, n)
  BY <1>1, <1>4 DEF CutAt
<1>6. TailInv'
  BY <1>1, <1>4, <1>5 DEF TailInv
<1>7. QED
  BY <1>2, <1>4, <1>6

\* Drain moves a cell from the buffer to the disk.
LEMMA DrainInv ==
  ASSUME WriterInv, Drain
  PROVE  /\ WriterInv'
         /\ disk' \in Seq(Cell) /\ Len(disk') = Len(disk) + 1
         /\ \A i \in 1..Len(disk) : disk'[i] = disk[i]
<1> USE DEF WriterInv
<1>1. disk \in Seq(Cell) /\ buffer \in Seq(Cell) /\ buffer # <<>>
  BY DEF WriterTypes, Drain
<1>2. Len(buffer) \in Nat /\ Len(buffer) > 0 /\ Len(disk) \in Nat
  BY <1>1
<1>3. /\ buffer' \in Seq(Cell) /\ Len(buffer') = Len(buffer) - 1
      /\ \A i \in 1..(Len(buffer) - 1) : buffer'[i] = buffer[i + 1]
  BY <1>1, HeadTailProperties DEF Drain
<1>4. Head(buffer) \in Cell /\ Head(buffer) = buffer[1]
  BY <1>1
<1>5. /\ disk' \in Seq(Cell) /\ Len(disk') = Len(disk) + 1
      /\ \A i \in 1..Len(disk) : disk'[i] = disk[i]
      /\ disk'[Len(disk) + 1] = buffer[1]
  <2>1. disk' = Append(disk, Head(buffer))
    BY DEF Drain
  <2>2. QED
    BY <1>1, <1>4, <2>1, AppendProperties
<1>6. PICK f : /\ f = disk' \o buffer'
               /\ f \in Seq(Cell) /\ Len(f) = Len(disk') + Len(buffer')
               /\ \A i \in 1..Len(disk') : f[i] = disk'[i]
               /\ \A i \in 1..Len(buffer') : f[Len(disk') + i] = buffer'[i]
  BY <1>3, <1>5, Concat
<1>7. f = File'
  BY <1>6 DEF File
<1>8. Len(f) = Len(File)
  <2>1. Len(File) = Len(disk) + Len(buffer)
    BY FileFacts
  <2>2. Len(f) = (Len(disk) + 1) + (Len(buffer) - 1)
    BY <1>3, <1>5, <1>6
  <2>3. QED
    BY <1>2, <2>1, <2>2
<1>9. ASSUME NEW i \in 1..Len(File)
      PROVE  f[i] = File[i]
  <2>1. Len(File) = Len(disk) + Len(buffer)
    BY FileFacts
  <2>2. CASE i \in 1..Len(disk)
    <3>1. i \in 1..Len(disk')
      BY <1>2, <1>5, <2>2
    <3>2. QED
      BY <1>5, <1>6, <2>2, <3>1, FileFacts
  <2>3. CASE i = Len(disk) + 1
    <3>1. f[i] = buffer[1]
      BY <1>2, <1>5, <1>6, <2>3
    <3>2. File[i] = buffer[1]
      BY <1>2, <2>3, FileFacts
    <3>3. QED
      BY <3>1, <3>2
  <2>4. CASE i > Len(disk) + 1
    <3>1. PICK j : j = i - (Len(disk) + 1)
      OBVIOUS
    <3>2. j \in 1..(Len(buffer) - 1) /\ j + 1 \in 1..Len(buffer) /\ i = Len(disk') + j /\ i = Len(disk) + (j + 1)
      BY <1>2, <1>5, <2>1, <2>4, <3>1
    <3>3. f[i] = buffer'[j] /\ buffer'[j] = buffer[j + 1]
      BY <1>3, <1>6, <3>2
    <3>4. File[i] = buffer[j + 1]
      BY <3>2, FileFacts
    <3>5. QED
      BY <3>3, <3>4
  <2>5. QED
    BY <1>2, <2>1, <2>2, <2>3, <2>4
<1>10. f = File
  BY <1>6, <1>8, <1>9, FileFacts, SeqEqual
<1>11. WriterTypes'
  BY <1>3, <1>5 DEF WriterTypes, Drain
<1>12. File' \in Seq(Cell) /\ Len(File) <= Len(File') /\ \A i \in 1..Len(File) : File'[i] = File[i]
  BY <1>7, <1>10, FileFacts
<1>13. EndsInv' /\ RecordsInv' /\ LogEnd' = LogEnd
  BY <1>12, SameLog DEF Drain
<1>14. \A d, n : CutAt(d, n)' <=> CutAt(d, n)
  BY <1>7, <1>10, <1>13 DEF CutAt, Drain
<1>15. TailInv'
  BY <1>7, <1>10, <1>13, <1>14 DEF TailInv, Drain
<1>16. PromisedInv'
  <2>1. promised \in Nat /\ promised <= Len(disk) /\ promised' = promised
    BY DEF PromisedInv, WriterTypes, Drain
  <2>2. promised <= Len(disk')
    BY <1>2, <1>5, <2>1
  <2>3. outstanding' # 0
    BY <1>1 DEF PromisedInv, Drain
  <2>4. QED
    BY <2>1, <2>2, <2>3 DEF PromisedInv
<1>17. QED
  BY <1>5, <1>11, <1>13, <1>15, <1>16

\* Leave keeps what is on the disk, which may end within a record.
LEMMA LeaveInv ==
  ASSUME WriterInv, Leave
  PROVE  /\ WriterInv'
         /\ Len(log') = Durable
         /\ \A k \in 1..Durable : log'[k] = log[k] /\ ends'[k] = ends[k]
<1> USE DEF WriterInv
<1>1. PICK m : m = Durable
  OBVIOUS
<1>2. m \in 0..Len(log) /\ m \in Nat /\ \A k \in 1..Len(log) : ends[k] <= Len(disk) <=> k <= m
  BY <1>1, DurableFacts, EndFacts
<1>3. Len(log) \in Nat /\ Len(disk) \in Nat /\ Len(File) \in Nat /\ Len(disk) <= Len(File)
  BY EndFacts, FileFacts
<1>4. /\ log' \in Seq(Datum) /\ Len(log') = m
      /\ \A k \in 1..m : log'[k] = log[k]
  <2>1. log \in Seq(Datum)
    BY DEF WriterTypes
  <2>2. log' = SubSeq(log, 1, m)
    BY <1>1 DEF Leave
  <2>3. QED
    BY <1>2, <2>1, <2>2, FirstOf
<1>5. /\ ends' \in Seq(Nat) /\ Len(ends') = m
      /\ \A k \in 1..m : ends'[k] = ends[k]
  <2>1. ends \in Seq(Nat) /\ Len(ends) = Len(log)
    BY DEF WriterTypes
  <2>2. ends' = SubSeq(ends, 1, m)
    BY <1>1 DEF Leave
  <2>3. QED
    BY <1>2, <2>1, <2>2, FirstOf
<1>6. disk' = disk /\ disk \in Seq(Cell) /\ buffer' = <<>> /\ at' = "gone" /\ torn' = torn /\ bare' = bare
      /\ promised' = promised /\ outstanding' = 0
  BY DEF Leave, WriterTypes
<1>7. File' = disk
  BY <1>6, ConcatEmptySeq DEF File
<1>8. WriterTypes'
  BY <1>4, <1>5, <1>6 DEF WriterTypes, Places, Leave
<1>9. \A k \in 0..m : End(k)' = End(k)
  BY <1>2, <1>5 DEF End, EndOf
<1>10. LogEnd' = End(m)
  BY <1>2, <1>4, <1>9 DEF LogEnd, End
<1>11. \A k \in 1..m : k \in 1..Len(log) /\ k - 1 \in 0..m /\ ends[k] <= Len(disk)
  BY <1>2, <1>3
<1>12. EndsInv'
  <2>1. \A k \in 1..m : ends'[k] = End(k - 1)' + EncodedSize(log'[k])
    BY <1>4, <1>5, <1>9, <1>11 DEF EndsInv
  <2>2. \A i, k \in 1..m : i < k => ends'[i] < ends'[k]
    BY <1>5, <1>11 DEF EndsInv
  <2>3. \A k \in 1..m : ends'[k] <= Len(File')
    BY <1>5, <1>7, <1>11
  <2>4. QED
    BY <1>4, <2>1, <2>2, <2>3 DEF EndsInv
<1>13. PromisedInv'
  BY <1>6 DEF PromisedInv
<1>14. \A s, d, n : RecordAt(File, s, d, n) /\ s \in Nat /\ n \in Nat => RecordAt(disk, s, d, n)
  <2>1. SUFFICES ASSUME NEW s \in Nat, NEW d, NEW n \in Nat, RecordAt(File, s, d, n)
                 PROVE  RecordAt(disk, s, d, n)
    OBVIOUS
  <2>2. SUFFICES ASSUME NEW j \in 1..n, s + j <= Len(disk)
                 PROVE  disk[s + j] = Encode(d)[j]
    BY DEF RecordAt
  <2>3. s + j \in 1..Len(disk) /\ s + j <= Len(File)
    BY <1>3, <2>2
  <2>4. QED
    BY <2>1, <2>3, FileFacts DEF RecordAt
<1>15. RecordsInv'
  <2>1. SUFFICES ASSUME NEW k \in 1..m
                 PROVE  RecordAt(disk, End(k - 1), log[k], EncodedSize(log[k]))
    BY <1>4, <1>7, <1>9, <1>11 DEF RecordsInv
  <2>2. k \in 1..Len(log) /\ k - 1 \in 0..Len(log) /\ log[k] \in Datum
    BY <1>2, <1>3, <1>11 DEF WriterTypes
  <2>3. End(k - 1) \in Nat /\ EncodedSize(log[k]) \in Nat
    BY <2>2, EndFacts, DatumCells
  <2>4. QED
    BY <1>14, <2>2, <2>3 DEF RecordsInv
<1>16. ASSUME Len(disk) > End(m)
       PROVE  \E d \in Datum, n \in Nat \ {0} : CutAt(d, n)'
  <2>1. End(m) \in Nat
    BY <1>2, EndFacts
  <2>2. CASE m < Len(log)
    <3>1. PICK k, d : k = m + 1 /\ d = log[k]
      OBVIOUS
    <3>2. k \in 1..Len(log) /\ k - 1 = m /\ d \in Datum
      BY <1>2, <1>3, <2>2, <3>1 DEF WriterTypes
    <3>3. /\ ends[k] = End(m) + EncodedSize(d) /\ ends[k] \in Nat /\ ~(ends[k] <= Len(disk))
          /\ RecordAt(File, End(m), d, EncodedSize(d)) /\ EncodedSize(d) \in Nat
      BY <1>2, <1>3, <3>1, <3>2, EndFacts, DatumCells, SMTT(40) DEF EndsInv, RecordsInv
    <3>4. PICK n : n = Len(disk) - End(m)
      OBVIOUS
    <3>5. n \in Nat \ {0} /\ n < EncodedSize(d) /\ End(m) + n = Len(disk)
      BY <1>3, <1>16, <2>1, <3>3, <3>4
    <3>6. RecordAt(disk, End(m), d, EncodedSize(d))
      BY <1>14, <2>1, <3>3
    <3>7. RecordAt(disk, End(m), d, n)
      BY <3>3, <3>5, <3>6 DEF RecordAt
    <3>8. CutAt(d, n)'
      BY <1>3, <1>6, <1>7, <1>10, <3>5, <3>7 DEF CutAt
    <3>9. QED
      BY <3>2, <3>5, <3>8
  <2>3. CASE m = Len(log)
    <3>1. LogEnd = End(m)
      BY <2>3 DEF LogEnd
    <3>2. PICK d \in Datum, n \in Nat \ {0} : CutAt(d, n)
      BY <1>3, <1>16, <2>1, <3>1 DEF TailInv
    <3>3. RecordAt(disk, End(m), d, n)
      BY <1>14, <2>1, <3>1, <3>2 DEF CutAt
    <3>4. ASSUME Len(disk) > End(m) + n
          PROVE  torn /\ disk[End(m) + n + 1] \in LengthCell
      <4>1. Len(File) > LogEnd + n /\ End(m) + n + 1 \in 1..Len(disk)
        BY <1>3, <2>1, <3>1, <3>4
      <4>2. QED
        BY <3>1, <3>2, <4>1, FileFacts DEF CutAt
    <3>5. Len(disk) > End(m) + n => Len(File) > LogEnd + n
      BY <1>3, <2>1, <3>1
    <3>6. CutAt(d, n)'
      BY <1>6, <1>7, <1>10, <3>2, <3>3, <3>4, <3>5 DEF CutAt
    <3>7. QED
      BY <3>2, <3>6
  <2>4. QED
    BY <1>2, <1>3, <2>2, <2>3
<1>17. TailInv'
  BY <1>6, <1>7, <1>10, <1>16 DEF TailInv
<1>18. QED
  BY <1>1, <1>4, <1>5, <1>8, <1>12, <1>13, <1>15, <1>17

-----------------------------------------------------------------------------
(* The reader *)

\* The numbers of the reader's stream.
LEMMA ReaderFacts ==
  ASSUME OnTrack
  PROVE  /\ disk \in Seq(Cell) /\ Len(disk) \in Nat
         /\ ahead \in Seq(Cell) /\ Len(ahead) \in Nat
         /\ pos \in Nat /\ offset \in Nat /\ Tell \in Int /\ Tell + Len(ahead) = pos
         /\ ~Loose => Tell \in Nat
         /\ call.got \in Seq(Cell) /\ Len(call.got) \in Nat /\ call.want \in Nat
         /\ call.part \in {"none", "header", "data"} /\ Base \in Nat
         /\ delivered \in Seq(Datum) /\ Len(delivered) \in Nat
<1>1. /\ disk \in Seq(Cell) /\ ahead \in Seq(Cell) /\ pos \in Nat /\ offset \in Nat
      /\ call \in Call /\ delivered \in Seq(Datum) /\ (~Loose => Len(ahead) <= pos)
  BY DEF OnTrack, WriterInv, ReaderInv, WriterTypes, ReaderTypes, StreamInv
<1>2. call.got \in Seq(Cell) /\ call.want \in Nat /\ call.part \in {"none", "header", "data"}
  BY <1>1 DEF Call
<1>3. Len(ahead) \in Nat /\ Len(disk) \in Nat /\ Len(call.got) \in Nat /\ Len(delivered) \in Nat
  BY <1>1, <1>2
<1>4. Tell \in Int /\ Tell + Len(ahead) = pos
  BY <1>1, <1>3 DEF Tell
<1>5. ~Loose => Tell \in Nat
  BY <1>1, <1>3, <1>4
<1>6. Base \in Nat
  BY <1>1 DEF Base, HeaderSize
<1>7. QED
  BY <1>1, <1>2, <1>3, <1>4, <1>5, <1>6

\* While a call is in progress, its stream has what the file has.
LEMMA StreamFacts ==
  ASSUME OnTrack, call.part # "none"
  PROVE  /\ ~Loose /\ Tell \in Nat /\ Tell <= pos /\ pos <= Len(disk)
         /\ \A j \in 1..Len(ahead) : ahead[j] = disk[Tell + j]
<1>1. ~Loose
  BY DEF Loose
<1>2. Tell \in Nat /\ Tell <= pos
  BY <1>1, ReaderFacts
<1>3. QED
  BY <1>1, <1>2 DEF OnTrack, ReaderInv, StreamInv

\* What was returned to the reader is durable.
LEMMA DeliveredDurable ==
  ASSUME OnTrack
  PROVE  Len(delivered) <= Durable /\ Len(delivered) \in Nat /\ Durable \in 0..Len(log) /\ Len(log) \in Nat
<1>1. Len(delivered) \in Nat /\ Len(delivered) <= Len(log) /\ Len(log) \in Nat
  BY ReaderFacts, EndFacts DEF OnTrack, ReaderInv, WriterInv, PlaceInv
<1>2. Durable \in 0..Len(log) /\ \A k \in 1..Len(log) : ends[k] <= Len(disk) <=> k <= Durable
  BY DurableFacts DEF OnTrack, WriterInv
<1>3. CASE Len(delivered) = 0
  BY <1>1, <1>2, <1>3
<1>4. CASE Len(delivered) \in 1..Len(log)
  <2>1. offset = ends[Len(delivered)] /\ offset <= Len(disk)
    BY <1>4, EndFacts DEF OnTrack, ReaderInv, WriterInv, PlaceInv
  <2>2. QED
    BY <1>1, <1>2, <1>4, <2>1
<1>5. QED
  BY <1>1, <1>3, <1>4

\* The writer does not change what the reader has read.
LEMMA ReaderStays ==
  ASSUME OnTrack, UNCHANGED readerVars,
         disk' \in Seq(Cell), Len(disk) <= Len(disk'), \A i \in 1..Len(disk) : disk'[i] = disk[i],
         Len(delivered) <= Len(log'),
         \A k \in 1..Len(delivered) : log'[k] = log[k] /\ ends'[k] = ends[k],
         torn => torn'
  PROVE  ReaderInv'
<1> USE DEF OnTrack, ReaderInv
<1>1. /\ bufferSize' = bufferSize /\ offset' = offset /\ failed' = failed /\ pos' = pos
      /\ ahead' = ahead /\ fileStatus' = fileStatus /\ call' = call /\ delivered' = delivered
      /\ error' = error /\ doubled' = doubled /\ misplaced' = misplaced
  BY DEF readerVars
<1>2. Tell' = Tell /\ Base' = Base /\ Loose' = Loose /\ Missing' = Missing
  BY <1>1 DEF Tell, Base, Loose, Missing
<1>3. Len(disk) \in Nat /\ Len(disk') \in Nat /\ Len(delivered) \in Nat /\ offset \in Nat /\ pos \in Nat
  BY ReaderFacts
<1>4. ReaderTypes'
  BY <1>1 DEF ReaderTypes
<1>5. PlaceInv'
  <2>1. End(Len(delivered))' = End(Len(delivered))
    BY <1>1, <1>3 DEF End, EndOf
  <2>2. offset <= Len(disk')
    BY <1>3 DEF PlaceInv
  <2>3. QED
    BY <1>1, <2>1, <2>2 DEF PlaceInv
<1>6. StreamInv'
  <2>1. pos <= Len(disk')
    BY <1>3 DEF StreamInv
  <2>2. ASSUME ~Loose, NEW j \in 1..Len(ahead)
        PROVE  ahead[j] = disk'[Tell + j]
    <3>1. Tell \in Nat /\ Len(ahead) \in Nat /\ pos \in Nat /\ Tell + Len(ahead) = pos
      BY <2>2, ReaderFacts
    <3>2. pos <= Len(disk) /\ ahead[j] = disk[Tell + j]
      BY <2>2 DEF StreamInv
    <3>3. Tell + j \in 1..Len(disk)
      BY <3>1, <3>2, <1>3
    <3>4. QED
      BY <3>2, <3>3
  <2>3. QED
    BY <1>1, <1>2, <2>1, <2>2 DEF StreamInv
<1>7. CallInv'
  <2>1. ASSUME call.part # "none", Straight
        PROVE  Straight'
    <3>1. ASSUME NEW j \in 1..Len(call.got)
          PROVE  call.got[j] = disk'[Base + j]
      <4>1. Tell = Base + Len(call.got) /\ pos <= Len(disk) /\ call.got[j] = disk[Base + j]
        BY <2>1, StreamFacts DEF Straight
      <4>2. Base \in Nat /\ Tell <= pos /\ Len(call.got) \in Nat /\ Tell \in Nat
        BY <2>1, ReaderFacts, StreamFacts
      <4>3. j <= Len(call.got) /\ j >= 1 /\ j \in Nat
        BY <3>1, <4>2
      <4>4. Base + j <= Tell
        BY <4>1, <4>2, <4>3
      <4>5. Base + j \in 1..Len(disk)
        BY <1>3, <4>1, <4>2, <4>3, <4>4
      <4>6. QED
        BY <4>1, <4>5
    <3>2. QED
      BY <1>1, <1>2, <2>1, <3>1 DEF Straight
  <2>2. ASSUME call.part # "none", Skewed
        PROVE  Skewed'
    <3>1. Base \in Nat /\ Tell \in Nat /\ Tell <= pos /\ pos <= Len(disk) /\ Base < Len(disk)
      BY <2>2, ReaderFacts, StreamFacts DEF Skewed
    <3>2. Base + 1 \in 1..Len(disk) /\ Base < Len(disk') /\ \A p \in (Base + 1)..Tell : p \in 1..Len(disk)
      BY <1>3, <3>1
    <3>3. disk'[Base + 1] = disk[Base + 1] /\ \A p \in (Base + 1)..Tell : disk'[p] = disk[p]
      BY <3>2
    <3>4. Tell > Base => disk'[Tell] = disk[Tell]
      BY <3>1, <3>3
    <3>5. QED
      BY <1>1, <1>2, <2>2, <3>2, <3>3, <3>4 DEF Skewed
  <2>3. ASSUME call.part = "data"
        PROVE  /\ Base <= Len(disk') /\ disk'[offset + 1] = disk[offset + 1]
               /\ disk'[offset + 2] = disk[offset + 2]
    <3>1. Base = offset + 2 /\ Base <= Len(disk)
      BY <2>3 DEF CallInv, Base, HeaderSize
    <3>2. offset + 1 \in 1..Len(disk) /\ offset + 2 \in 1..Len(disk) /\ Base <= Len(disk')
      BY <1>3, <3>1
    <3>3. QED
      BY <3>2
  <2>4. call.part # "none" => Straight' \/ Skewed'
    BY <2>1, <2>2 DEF CallInv
  <2>5. QED
    BY <1>1, <1>2, <2>3, <2>4 DEF CallInv
<1>8. DataLossJustified'
  <2>1. offset + 2 <= Len(disk) => offset + 2 <= Len(disk')
    BY <1>3
  <2>2. QED
    BY <1>1, <2>1 DEF DataLossJustified, HeaderSize
<1>9. QED
  BY <1>4, <1>5, <1>6, <1>7, <1>8

\* What WriteRecord does to log.
LEMMA WriteRecordLog ==
  ASSUME WriterInv, NEW d \in Datum, WriteRecord(d)
  PROVE  /\ Len(log) <= Len(log') /\ Len(log') \in Nat
         /\ \A k \in 1..Len(log) : log'[k] = log[k] /\ ends'[k] = ends[k]
         /\ torn => torn' /\ Len(log') = Len(log)
         /\ bare => bare'
<1>1. log \in Seq(Datum) /\ ends \in Seq(Nat) /\ Len(ends) = Len(log) /\ Len(log) \in Nat
  BY DEF WriterInv, WriterTypes
<1>2. CASE log' = log /\ ends' = ends
  <2>1. torn => torn'
    BY DEF WriteRecord
  <2>2. bare => bare'
    BY DEF WriteRecord
  <2>3. QED
    BY <1>1, <1>2, <2>1, <2>2
<1>3. CASE /\ ~torn /\ log' = Append(log, d)
           /\ ends' = Append(ends, Len(disk) + Len(buffer) + EncodedSize(d))
  <2>1. Len(log') = Len(log) + 1 /\ \A k \in 1..Len(log) : log'[k] = log[k]
    BY <1>1, <1>3
  <2>2. \A k \in 1..Len(log) : ends'[k] = ends[k]
    BY <1>1, <1>3
  <2>3. bare => bare'
    BY DEF WriteRecord
  <2>4. QED
    BY <1>1, <1>3, <2>1, <2>2, <2>3
<1>4. QED
  BY <1>2, <1>3 DEF WriteRecord

\* Every step of the writer: what is on the disk stays there, log grows or loses
\* what is not durable, and a torn file does not heal.
LEMMA WriterStepFacts ==
  ASSUME WriterInv, WriterStep
  PROVE  /\ WriterInv'
         /\ disk' \in Seq(Cell) /\ Len(disk) <= Len(disk')
         /\ \A i \in 1..Len(disk) : disk'[i] = disk[i]
         /\ \/ Len(log) <= Len(log') /\ \A k \in 1..Len(log) : log'[k] = log[k] /\ ends'[k] = ends[k]
            \/ Len(log') = Durable /\ \A k \in 1..Durable : log'[k] = log[k] /\ ends'[k] = ends[k]
         /\ torn => torn' /\ Len(log') <= Len(log)
         /\ bare => bare'
         /\ Len(log') \in Nat
<1>1. /\ disk \in Seq(Cell) /\ Len(disk) \in Nat /\ Len(log) \in Nat /\ made \in Nat /\ promised \in Nat
      /\ at \in Places /\ outstanding \in Nat /\ buffer \in Seq(Cell)
      /\ promised <= Len(disk) /\ (outstanding = 0 => buffer = <<>>)
  BY FileFacts, EndFacts DEF WriterInv, WriterTypes, PromisedInv
<1>2. ASSUME NEW n \in Sizes, WriteRecord(Data(n)), UNCHANGED <<disk, promised>>,
             at # "gone", at' \in Places, at' # "gone", made' \in Nat, outstanding' \in Nat \ {0}
      PROVE  /\ WriterInv'
             /\ disk' = disk
             /\ Len(log) <= Len(log') /\ \A k \in 1..Len(log) : log'[k] = log[k] /\ ends'[k] = ends[k]
             /\ torn => torn' /\ Len(log') <= Len(log)
             /\ bare => bare'
             /\ Len(log') \in Nat
  <2>1. Data(n) \in Datum
    BY <1>1, DataFacts
  <2>2. WriterInv'
    BY <1>2, <2>1, WriteRecordInv
  <2>3. QED
    BY <1>1, <1>2, <2>1, <2>2, WriteRecordLog
<1>3. CASE InitIfNeeded
  <2>1. /\ at = "new" /\ at' = "init" /\ made' = 1 /\ outstanding' = 1
        /\ WriteRecord(Data(VersionLength)) /\ UNCHANGED <<disk, promised>>
    BY <1>3 DEF InitIfNeeded
  <2>2. VersionLength \in Sizes /\ at' \in Places
    BY <2>1 DEF Sizes, Places
  <2>3. QED
    BY <1>1, <1>2, <2>1, <2>2
<1>4. ASSUME NEW n \in Lengths, WriteSerializedEvent(n)
      PROVE  /\ WriterInv'
             /\ disk' = disk
             /\ Len(log) <= Len(log') /\ \A k \in 1..Len(log) : log'[k] = log[k] /\ ends'[k] = ends[k]
             /\ torn => torn' /\ Len(log') <= Len(log)
             /\ bare => bare'
             /\ Len(log') \in Nat
  <2>1. /\ at = "idle" /\ at' = "idle" /\ made' = made + 1 /\ outstanding' = outstanding + 1
        /\ WriteRecord(Data(n)) /\ UNCHANGED <<disk, promised>>
    BY <1>4 DEF WriteSerializedEvent
  <2>2. n \in Sizes /\ at' \in Places /\ made' \in Nat /\ outstanding' \in Nat \ {0}
    BY <1>1, <2>1 DEF Sizes, Places
  <2>3. QED
    BY <1>2, <2>1, <2>2
<1>5. CASE Flush \/ FlushReturns \/ SyncFails \/ Remove
  <2>1. UNCHANGED <<disk, buffer, made, log, ends, torn, bare>>
    BY <1>5 DEF Flush, FlushReturns, SyncFails, Remove
  <2>2. at' \in Places /\ (at' = "gone" <=> at = "gone")
    BY <1>1, <1>5 DEF Flush, FlushReturns, SyncFails, Remove, Return, Places
  <2>3. outstanding' = outstanding \/ (outstanding' = 0 /\ buffer = <<>>)
    BY <1>5 DEF Flush, FlushReturns, SyncFails, Remove, Synced
  <2>4. promised' = promised \/ (buffer = <<>> /\ promised' = Len(disk) + Len(buffer))
    BY <1>1, <1>5 DEF Flush, FlushReturns, SyncFails, Remove, Synced, Promise
  <2>5. buffer = <<>> => Len(buffer) = 0
    OBVIOUS
  <2>6. promised' \in Nat /\ promised' <= Len(disk)
    BY <1>1, <2>4, <2>5
  <2>7. PromisedInv' /\ outstanding' \in Nat
    BY <1>1, <2>1, <2>3, <2>6 DEF PromisedInv
  <2>8. WriterInv'
    BY <2>1, <2>2, <2>6, <2>7, SameFileInv
  <2>9. QED
    BY <1>1, <2>1, <2>8
<1>6. CASE Drain
  <2>1. /\ WriterInv' /\ disk' \in Seq(Cell) /\ Len(disk') = Len(disk) + 1
        /\ \A i \in 1..Len(disk) : disk'[i] = disk[i]
    BY <1>6, DrainInv
  <2>2. log' = log /\ ends' = ends /\ torn' = torn /\ bare' = bare
    BY <1>6 DEF Drain
  <2>3. Len(disk) <= Len(disk')
    BY <1>1, <2>1
  <2>4. QED
    BY <1>1, <2>1, <2>2, <2>3
<1>7. CASE FClose \/ Crash
  <2>1. Leave
    BY <1>7 DEF FClose, Crash
  <2>2. WriterInv' /\ Len(log') = Durable /\ \A k \in 1..Durable : log'[k] = log[k] /\ ends'[k] = ends[k]
    BY <2>1, LeaveInv
  <2>3. disk' = disk /\ torn' = torn /\ bare' = bare
    BY <2>1 DEF Leave
  <2>4. Durable \in 0..Len(log)
    BY DurableFacts DEF WriterInv
  <2>5. Durable \in Nat /\ Durable <= Len(log)
    BY <1>1, <2>4
  <2>6. QED
    BY <1>1, <2>2, <2>3, <2>5
<1>8. QED
  BY <1>1, <1>3, <1>4, <1>5, <1>6, <1>7 DEF WriterStep

\* The writer leaves a reader on its track.
LEMMA WriterStepInv ==
  ASSUME OnTrack, WriterStep, UNCHANGED readerVars
  PROVE  OnTrack'
<1>1. Len(delivered) <= Durable /\ Len(delivered) \in Nat /\ Durable \in 0..Len(log) /\ Len(log) \in Nat
  BY DeliveredDurable
<1>2. /\ WriterInv'
      /\ disk' \in Seq(Cell) /\ Len(disk) <= Len(disk')
      /\ \A i \in 1..Len(disk) : disk'[i] = disk[i]
      /\ torn => torn'
      /\ Len(log') \in Nat
  BY WriterStepFacts DEF OnTrack
<1>3. \/ Len(log) <= Len(log') /\ \A k \in 1..Len(log) : log'[k] = log[k] /\ ends'[k] = ends[k]
      \/ Len(log') = Durable /\ \A k \in 1..Durable : log'[k] = log[k] /\ ends'[k] = ends[k]
  BY WriterStepFacts DEF OnTrack
<1>4. Len(delivered) <= Len(log') /\ \A k \in 1..Len(delivered) : log'[k] = log[k] /\ ends'[k] = ends[k]
  <2>1. \A k \in 1..Len(delivered) : k \in 1..Len(log) /\ k \in 1..Durable
    BY <1>1
  <2>2. Len(delivered) <= Len(log')
    BY <1>1, <1>2, <1>3
  <2>3. QED
    BY <1>3, <2>1, <2>2
<1>5. ReaderInv'
  BY <1>2, <1>4, ReaderStays
<1>6. QED
  BY <1>2, <1>5 DEF OnTrack

\* Where the cells of a piece of the file are.
LEMMA Between ==
  ASSUME NEW b \in Nat, NEW a \in Nat, NEW m \in Nat, NEW t \in Nat, m > 0, b <= t, t < b + a
  PROVE  b <= t + m /\ t + m < b + (a + m) /\ t + m > b /\ m \in 1..m
OBVIOUS

\* The same, when there is no gap.
LEMMA Sums ==
  ASSUME NEW b \in Nat, NEW a \in Nat, NEW m \in Nat, NEW t, NEW u, NEW l,
         t = b + a, u = t + m, l = a + m
  PROVE  u = b + l
OBVIOUS

\* Which of a cells behind b is at p.
LEMMA Difference ==
  ASSUME NEW b \in Nat, NEW a \in Nat, NEW p \in (b + 1)..(b + a)
  PROVE  p - b \in 1..a /\ b + (p - b) = p
OBVIOUS

\* Where a cell is when a cells are before it.
LEMMA Shifted ==
  ASSUME NEW a \in Nat, NEW m \in Nat, NEW j \in 1..m
  PROVE  a + j \in 1..(a + m)
OBVIOUS

\* A length, a piece of data and a checksum are not the same; a checksum in the
\* file was computed from a length, or from an event.
LEMMA CellKinds ==
  /\ \A c \in LengthCell : c[1] = "length" /\ \E n \in Sizes : c = <<"length", n>>
  /\ \A c \in DataCell : c[1] = "data"
  /\ \A s : Crc(s)[1] = "crc" /\ Crc(s)[2] = s
  /\ \A s : Crc(s) \in Cell => s \in Datum \/ \E c \in LengthCell : s = <<c>>
<1>1. \A c \in LengthCell : c[1] = "length" /\ \E n \in Sizes : c = <<"length", n>>
  BY DEF LengthCell
<1>2. \A c \in DataCell : c[1] = "data"
  BY DEF DataCell
<1>3. \A s : Crc(s)[1] = "crc" /\ Crc(s)[2] = s
  BY DEF Crc
<1>4. ASSUME NEW s, Crc(s) \in Cell
      PROVE  s \in Datum \/ \E c \in LengthCell : s = <<c>>
  <2>1. PICK x : x = Crc(s)
    OBVIOUS
  <2>2. x \notin LengthCell /\ x \notin DataCell
    BY <1>1, <1>2, <1>3, <2>1
  <2>3. (\E c \in LengthCell : x = Crc(<<c>>)) \/ \E d \in Datum : x = Crc(d)
    BY <1>4, <2>1, <2>2 DEF Cell
  <2>4. ASSUME NEW c \in LengthCell, x = Crc(<<c>>)
        PROVE  s = <<c>>
    <3>1. x[2] = s
      BY <1>3, <2>1
    <3>2. Crc(<<c>>)[2] = <<c>>
      BY <1>3
    <3>3. QED
      BY <2>4, <3>1, <3>2
  <2>5. ASSUME NEW d \in Datum, x = Crc(d)
        PROVE  s = d
    <3>1. x[2] = s
      BY <1>3, <2>1
    <3>2. Crc(d)[2] = d
      BY <1>3
    <3>3. QED
      BY <2>5, <3>1, <3>2
  <2>6. QED
    BY <2>3, <2>4, <2>5
<1>5. QED
  BY <1>1, <1>2, <1>3, <1>4

\* Data with a length among them do not have the right checksum, unless they are
\* one length and nothing else.
LEMMA LengthAmongData ==
  ASSUME NEW got \in Seq(Cell), NEW n \in Nat, Len(got) = n + 1,
         NEW data, data = SubSeq(got, 1, n), got[n + 1] = Crc(data),
         NEW i \in 1..(n + 1), got[i] \in LengthCell
  PROVE  n = 1 /\ i = 1
<1>1. data \in Seq(Cell) /\ Len(data) = n /\ \A j \in 1..n : data[j] = got[j]
  <2>1. n \in 0..Len(got)
    OBVIOUS
  <2>2. QED
    BY <2>1, FirstOf
<1>2. got[i][1] = "length"
  BY CellKinds
<1>3. i # n + 1
  BY <1>2, CellKinds
<1>4. i \in 1..n /\ data[i] = got[i]
  BY <1>1, <1>3
<1>5. Crc(data) \in Cell
  <2>1. n + 1 \in 1..Len(got)
    OBVIOUS
  <2>2. got[n + 1] \in Cell
    BY <2>1, ElementOfSeq
  <2>3. QED
    BY <2>2
<1>6. data \in Datum \/ \E c \in LengthCell : data = <<c>>
  BY <1>5, CellKinds
<1>7. data \notin Datum
  <2>1. ASSUME data \in Datum
        PROVE  data[i] \in DataCell
    BY <1>1, <1>4, <2>1, DatumCells
  <2>2. QED
    BY <1>2, <1>4, <2>1, CellKinds
<1>8. \A c : Len(<<c>>) = 1
  OBVIOUS
<1>9. n = 1
  BY <1>1, <1>6, <1>7, <1>8
<1>10. QED
  BY <1>4, <1>9

\* What the reader finds at its offset: the next event of log, or a part of a
\* record, after which there is more only when the file is torn.
Whole(d) ==
  /\ Len(delivered) < Len(log)
  /\ d = log[Len(delivered) + 1]
  /\ ends[Len(delivered) + 1] = offset + EncodedSize(d)
  /\ RecordAt(disk, offset, d, EncodedSize(d))

Cut(d, n) ==
  /\ Len(delivered) = Len(log)
  /\ n < EncodedSize(d)
  /\ RecordAt(disk, offset, d, n)
  /\ Len(disk) > offset + n =>
       torn /\ disk[offset + n + 1] \in LengthCell /\ (Len(d) = 1 /\ n = 2 => bare)

\* There is nothing else to find.
LEMMA NextRecord ==
  ASSUME OnTrack, offset < Len(disk)
  PROVE  \E d \in Datum : Whole(d) \/ \E n \in Nat \ {0} : Cut(d, n)
<1> USE DEF OnTrack, WriterInv, ReaderInv
<1>1. /\ Len(disk) \in Nat /\ Len(delivered) \in Nat /\ offset \in Nat
      /\ Len(log) \in Nat /\ Len(delivered) <= Len(log) /\ offset = End(Len(delivered))
      /\ Len(File) \in Nat /\ Len(disk) <= Len(File)
  BY ReaderFacts, EndFacts, FileFacts DEF PlaceInv
<1>2. \A s, d, n : RecordAt(File, s, d, n) /\ s \in Nat /\ n \in Nat => RecordAt(disk, s, d, n)
  <2>1. SUFFICES ASSUME NEW s \in Nat, NEW d, NEW n \in Nat, RecordAt(File, s, d, n)
                 PROVE  RecordAt(disk, s, d, n)
    OBVIOUS
  <2>2. SUFFICES ASSUME NEW j \in 1..n, s + j <= Len(disk)
                 PROVE  disk[s + j] = Encode(d)[j]
    BY DEF RecordAt
  <2>3. s + j \in 1..Len(disk) /\ s + j <= Len(File)
    BY <1>1, <2>2
  <2>4. QED
    BY <2>1, <2>3, FileFacts DEF RecordAt
<1>3. CASE Len(delivered) < Len(log)
  <2>1. PICK k, d : k = Len(delivered) + 1 /\ d = log[k]
    OBVIOUS
  <2>2. k \in 1..Len(log) /\ k - 1 = Len(delivered) /\ d \in Datum
    BY <1>1, <1>3, <2>1 DEF WriterTypes
  <2>3. ends[k] = offset + EncodedSize(d) /\ RecordAt(File, offset, d, EncodedSize(d))
    BY <1>1, <2>1, <2>2 DEF EndsInv, RecordsInv
  <2>4. EncodedSize(d) \in Nat
    BY <2>2, DatumCells
  <2>5. Whole(d)
    BY <1>1, <1>2, <1>3, <2>1, <2>3, <2>4 DEF Whole
  <2>6. QED
    BY <2>2, <2>5
<1>4. CASE Len(delivered) = Len(log)
  <2>1. offset = LogEnd
    BY <1>1, <1>4 DEF LogEnd
  <2>2. PICK d \in Datum, n \in Nat \ {0} : CutAt(d, n)
    BY <1>1, <2>1 DEF TailInv
  <2>3. n < EncodedSize(d) /\ RecordAt(disk, offset, d, n)
    BY <1>1, <1>2, <2>1, <2>2 DEF CutAt
  <2>4. ASSUME Len(disk) > offset + n
        PROVE  torn /\ disk[offset + n + 1] \in LengthCell /\ (Len(d) = 1 /\ n = 2 => bare)
    <3>1. Len(File) > LogEnd + n /\ offset + n + 1 \in 1..Len(disk)
      BY <1>1, <2>1, <2>4
    <3>2. QED
      BY <2>1, <2>2, <3>1, FileFacts DEF CutAt
  <2>5. Cut(d, n)
    BY <1>4, <2>3, <2>4 DEF Cut
  <2>6. QED
    BY <2>5
<1>5. QED
  BY <1>1, <1>3, <1>4

\* It begins with a length.
LEMMA FirstCell ==
  ASSUME OnTrack, offset < Len(disk)
  PROVE  disk[offset + 1] \in LengthCell
<1>1. PICK d \in Datum : Whole(d) \/ \E n \in Nat \ {0} : Cut(d, n)
  BY NextRecord
<1>2. Encode(d)[1] \in LengthCell /\ EncodedSize(d) \in Nat /\ EncodedSize(d) > 0
  BY EncodeCells, DatumCells
<1>3. Len(disk) \in Nat /\ offset \in Nat /\ offset + 1 <= Len(disk)
  BY ReaderFacts
<1>4. ASSUME NEW n \in Nat \ {0}, RecordAt(disk, offset, d, n)
      PROVE  disk[offset + 1] = Encode(d)[1]
  <2>1. 1 \in 1..n
    OBVIOUS
  <2>2. QED
    BY <1>3, <1>4, <2>1 DEF RecordAt
<1>5. CASE Whole(d)
  <2>1. EncodedSize(d) \in Nat \ {0}
    BY <1>2
  <2>2. QED
    BY <1>2, <1>4, <1>5, <2>1 DEF Whole
<1>6. ASSUME NEW n \in Nat \ {0}, Cut(d, n)
      PROVE  disk[offset + 1] \in LengthCell
  BY <1>2, <1>4, <1>6 DEF Cut
<1>7. QED
  BY <1>1, <1>5, <1>6

\* What a call that has all it wants has got.
LEMMA CallDone ==
  ASSUME OnTrack, call # Idle, Missing = 0
  PROVE  /\ Len(call.got) = call.want /\ Tell <= Len(disk)
         /\ call.part \in {"header", "data"} /\ (Straight \/ Skewed)
         /\ Straight =>
              /\ Base + call.want <= Len(disk)
              /\ \A j \in 1..call.want : call.got[j] = disk[Base + j]
         /\ Skewed =>
              /\ doubled /\ Base < Tell /\ Tell < Base + call.want
              /\ call.got[1] = disk[Base + 1]
              /\ call.got[call.want] = disk[Tell]
              /\ \A p \in (Base + 1)..Tell : \E i \in 1..call.want : call.got[i] = disk[p]
<1>1. call.part \in {"header", "data"}
  BY ReaderFacts DEF OnTrack, ReaderInv, CallInv
<1>2. Len(call.got) = call.want
  BY ReaderFacts DEF Missing
<1>3. Straight \/ Skewed
  BY <1>1 DEF OnTrack, ReaderInv, CallInv
<1>4. Tell <= Len(disk) /\ Tell \in Nat /\ Base \in Nat
  BY <1>1, ReaderFacts, StreamFacts
<1>5. QED
  BY <1>1, <1>2, <1>3, <1>4 DEF Straight, Skewed

\* A header that is complete: it has a length, and its checksum unless the file
\* is torn or the buffer was filled twice.
LEMMA HeaderRead ==
  ASSUME OnTrack, call.part = "header", Missing = 0
  PROVE  /\ Len(call.got) = 2 /\ call.want = 2
         /\ call.got[1] = disk[offset + 1] /\ call.got[1] \in LengthCell
         /\ call.got[2] = Crc(<<call.got[1]>>) =>
              /\ offset + 2 <= Len(disk) /\ call.got[2] = disk[offset + 2]
              /\ Tell = offset + 2
         /\ call.got[2] = Crc(<<call.got[1]>>) \/ torn \/ doubled
<1>1. call # Idle
  BY DEF Idle
<1>2. call.want = 2 /\ Base = offset
  BY DEF OnTrack, ReaderInv, CallInv, Base, HeaderSize
<1>3. Len(disk) \in Nat /\ offset \in Nat /\ Tell \in Nat /\ Tell <= Len(disk) /\ Len(call.got) = 2
  BY <1>1, <1>2, CallDone, ReaderFacts, StreamFacts
<1>4. CASE Straight
  <2>1. /\ offset + 2 <= Len(disk) /\ Tell = offset + 2
        /\ call.got[1] = disk[offset + 1] /\ call.got[2] = disk[offset + 2]
    BY <1>1, <1>2, <1>3, <1>4, CallDone DEF Straight
  <2>2. call.got[1] \in LengthCell
    BY <1>3, <2>1, FirstCell
  <2>3. PICK d \in Datum : Whole(d) \/ \E n \in Nat \ {0} : Cut(d, n)
    BY <1>3, <2>1, NextRecord
  <2>4. Encode(d)[2] = Crc(<<Encode(d)[1]>>)
    BY EncodeCells
  <2>5. EncodedSize(d) \in Nat /\ EncodedSize(d) >= 3
    BY DatumCells
  <2>6. ASSUME NEW n \in Nat, n > 1, RecordAt(disk, offset, d, n)
        PROVE  call.got[2] = Crc(<<call.got[1]>>)
    <3>1. disk[offset + 1] = Encode(d)[1] /\ disk[offset + 2] = Encode(d)[2]
      BY <1>3, <2>1, <2>6 DEF RecordAt
    <3>2. QED
      BY <2>1, <2>4, <3>1
  <2>7. CASE Whole(d)
    <3>1. RecordAt(disk, offset, d, EncodedSize(d))
      BY <2>7 DEF Whole
    <3>2. call.got[2] = Crc(<<call.got[1]>>)
      BY <2>5, <2>6, <3>1
    <3>3. QED
      BY <1>2, <1>3, <2>1, <2>2, <3>2
  <2>8. ASSUME NEW n \in Nat \ {0}, Cut(d, n)
        PROVE  call.got[2] = Crc(<<call.got[1]>>) \/ torn
    <3>1. n = 1 => Len(disk) > offset + n
      BY <1>3, <2>1
    <3>2. QED
      BY <2>6, <2>8, <3>1 DEF Cut
  <2>9. QED
    BY <1>2, <1>3, <2>1, <2>2, <2>3, <2>7, <2>8
<1>5. CASE Skewed
  <2>1. /\ doubled /\ offset < Tell /\ Tell < offset + 2
        /\ call.got[1] = disk[offset + 1] /\ call.got[2] = disk[Tell]
    BY <1>1, <1>2, <1>5, CallDone
  <2>2. Tell = offset + 1 /\ offset < Len(disk)
    BY <1>3, <2>1
  <2>3. call.got[1] \in LengthCell /\ call.got[2] \in LengthCell
    BY <2>1, <2>2, FirstCell
  <2>4. call.got[2] # Crc(<<call.got[1]>>)
    BY <2>3, CellKinds
  <2>5. QED
    BY <1>2, <1>3, <2>1, <2>3, <2>4
<1>6. QED
  BY <1>1, <1>4, <1>5, CallDone

\* What lies behind a header that is right.
LEMMA RecordOfHeader ==
  ASSUME OnTrack, call.part = "data", NEW n \in Nat, call.want = n + 1,
         offset + 2 < Len(disk)
  PROVE  \E d \in Datum : /\ Len(d) = n
                          /\ Whole(d) \/ \E m \in Nat \ {0, 1} : Cut(d, m)
<1>1. disk[offset + 1] = <<"length", n>> /\ disk[offset + 2] = Crc(<<disk[offset + 1]>>)
  BY DEF OnTrack, ReaderInv, CallInv
<1>2. offset \in Nat /\ Len(disk) \in Nat /\ offset < Len(disk) /\ offset + 1 <= Len(disk)
  BY ReaderFacts
<1>3. PICK d \in Datum : Whole(d) \/ \E m \in Nat \ {0} : Cut(d, m)
  BY <1>2, NextRecord
<1>4. Encode(d)[1] = <<"length", Len(d)>> /\ EncodedSize(d) \in Nat \ {0}
  <2>1. Encode(d)[1] = <<"length", Len(d)>>
    BY EncodeCells
  <2>2. EncodedSize(d) \in Nat \ {0}
    BY DatumCells
  <2>3. QED
    BY <2>1, <2>2
<1>5. ASSUME NEW m \in Nat \ {0}, RecordAt(disk, offset, d, m)
      PROVE  Len(d) = n
  <2>1. 1 \in 1..m
    OBVIOUS
  <2>2. disk[offset + 1] = Encode(d)[1]
    BY <1>2, <1>5, <2>1 DEF RecordAt
  <2>3. QED
    BY <1>1, <1>4, <2>2
<1>6. CASE Whole(d)
  BY <1>4, <1>5, <1>6 DEF Whole
<1>7. ASSUME NEW m \in Nat \ {0}, Cut(d, m)
      PROVE  Len(d) = n /\ m # 1
  <2>1. Len(d) = n
    BY <1>5, <1>7 DEF Cut
  <2>2. ASSUME m = 1
        PROVE  FALSE
    <3>1. Len(disk) > offset + m
      BY <1>2, <2>2
    <3>2. disk[offset + m + 1] \in LengthCell
      BY <1>7, <3>1 DEF Cut
    <3>3. offset + m + 1 = offset + 2
      BY <1>2, <2>2
    <3>4. disk[offset + 2] \in LengthCell
      BY <3>2, <3>3
    <3>5. QED
      BY <1>1, <3>4, CellKinds
  <2>3. QED
    BY <2>1, <2>2
<1>8. QED
  BY <1>3, <1>6, <1>7

\* The event that the reader has not got yet, n cells long and on the disk.
NextEvent(data, n) ==
  /\ Len(delivered) < Len(log)
  /\ data = log[Len(delivered) + 1] /\ data \in Datum
  /\ offset + RecordSize(n) = ends[Len(delivered) + 1]
  /\ ends[Len(delivered) + 1] <= Len(disk)

\* Data that are complete, as they are in the file: with the right checksum they
\* are the next event, or what follows a bare header behind the log, and a wrong
\* one they have only in a file that is torn.
LEMMA StraightData ==
  ASSUME OnTrack, call.part = "data", Missing = 0, NEW n \in Nat, call.want = n + 1,
         NEW data, data = SubSeq(call.got, 1, n), Straight
  PROVE  /\ call.got[n + 1] = Crc(data) =>
              NextEvent(data, n) \/ (bare /\ Len(delivered) = Len(log))
         /\ call.got[n + 1] = Crc(data) \/ torn
<1>1. call # Idle
  BY DEF Idle
<1>2. Base = offset + 2
  BY DEF Base, HeaderSize
<1>3. offset \in Nat /\ Len(disk) \in Nat /\ call.got \in Seq(Cell)
  BY ReaderFacts
<1>4. /\ Len(call.got) = n + 1 /\ offset + 2 + (n + 1) <= Len(disk)
      /\ \A j \in 1..(n + 1) : call.got[j] = disk[offset + 2 + j]
  BY <1>1, <1>2, CallDone
<1>5. data \in Seq(Cell) /\ Len(data) = n /\ \A j \in 1..n : data[j] = call.got[j]
  <2>1. n \in 0..Len(call.got)
    BY <1>3, <1>4
  <2>2. QED
    BY <1>3, <2>1, FirstOf
<1>6. offset + 2 < Len(disk)
  BY <1>3, <1>4
<1>7. PICK d \in Datum : Len(d) = n /\ (Whole(d) \/ \E m \in Nat \ {0, 1} : Cut(d, m))
  BY <1>6, RecordOfHeader
<1>8. d \in Seq(Cell) /\ EncodedSize(d) = n + 3
  BY <1>7, DatumCells
<1>9. /\ \A i \in 1..n : Encode(d)[2 + i] = d[i]
      /\ Encode(d)[n + 3] = Crc(d)
  BY <1>7, EncodeCells
<1>10. CASE Whole(d)
  <2>1. /\ RecordAt(disk, offset, d, n + 3) /\ ends[Len(delivered) + 1] = offset + (n + 3)
        /\ Len(delivered) < Len(log) /\ d = log[Len(delivered) + 1]
    BY <1>8, <1>10 DEF Whole
  <2>2. ASSUME NEW j \in 1..(n + 3)
        PROVE  disk[offset + j] = Encode(d)[j]
    <3>1. offset + j <= Len(disk)
      BY <1>3, <1>4
    <3>2. QED
      BY <2>1, <3>1 DEF RecordAt
  <2>3. ASSUME NEW j \in 1..n
        PROVE  data[j] = d[j]
    <3>1. 2 + j \in 1..(n + 3) /\ offset + (2 + j) = offset + 2 + j /\ j \in 1..(n + 1)
      BY <1>3
    <3>2. data[j] = disk[offset + (2 + j)] /\ disk[offset + (2 + j)] = Encode(d)[2 + j]
      BY <1>4, <1>5, <2>2, <3>1
    <3>3. QED
      BY <1>9, <3>2
  <2>4. data = d
    BY <1>5, <1>7, <1>8, <2>3, SeqEqual
  <2>5. call.got[n + 1] = Crc(d)
    <3>1. n + 3 \in 1..(n + 3) /\ n + 1 \in 1..(n + 1) /\ offset + 2 + (n + 1) = offset + (n + 3)
      BY <1>3
    <3>2. call.got[n + 1] = disk[offset + (n + 3)] /\ disk[offset + (n + 3)] = Encode(d)[n + 3]
      BY <1>4, <2>2, <3>1
    <3>3. QED
      BY <1>9, <3>2
  <2>6. /\ offset + RecordSize(n) = ends[Len(delivered) + 1]
        /\ ends[Len(delivered) + 1] <= Len(disk)
    BY <1>3, <1>4, <2>1 DEF RecordSize, HeaderSize, FooterSize
  <2>7. QED
    BY <2>1, <2>4, <2>5, <2>6 DEF NextEvent
<1>11. ASSUME NEW m \in Nat \ {0, 1}, Cut(d, m)
       PROVE  torn /\ (call.got[n + 1] = Crc(data) => bare /\ Len(delivered) = Len(log))
  <2>1. m < n + 3 /\ Len(disk) > offset + m
    BY <1>3, <1>4, <1>8, <1>11 DEF Cut
  <2>2. /\ torn /\ disk[offset + m + 1] \in LengthCell /\ (n = 1 /\ m = 2 => bare)
        /\ Len(delivered) = Len(log)
    BY <1>7, <1>11, <2>1 DEF Cut
  <2>3. PICK p : p = m - 1
    OBVIOUS
  <2>4. p \in 1..(n + 1) /\ offset + 2 + p = offset + m + 1 /\ (p = 1 => m = 2)
    BY <1>3, <2>1, <2>3
  <2>5. call.got[p] \in LengthCell
    BY <1>4, <2>2, <2>4
  <2>6. ASSUME call.got[n + 1] = Crc(data)
        PROVE  n = 1 /\ p = 1
    BY <1>3, <1>4, <2>4, <2>5, <2>6, LengthAmongData
  <2>7. QED
    BY <2>2, <2>4, <2>6
<1>12. QED
  BY <1>7, <1>10, <1>11

\* Data some of which are there twice never have the right checksum.
LEMMA SkewedData ==
  ASSUME OnTrack, call.part = "data", Missing = 0, NEW n \in Nat, call.want = n + 1,
         NEW data, data = SubSeq(call.got, 1, n), Skewed
  PROVE  call.got[n + 1] # Crc(data)
<1>1. call # Idle
  BY DEF Idle
<1>2. Base = offset + 2
  BY DEF Base, HeaderSize
<1>3. /\ offset \in Nat /\ Len(disk) \in Nat /\ call.got \in Seq(Cell)
      /\ Tell \in Nat /\ Tell <= Len(disk) /\ Len(call.got) = n + 1
  BY <1>1, ReaderFacts, StreamFacts, CallDone
<1>4. /\ offset + 2 < Tell /\ Tell < offset + 2 + (n + 1)
      /\ call.got[1] = disk[offset + 2 + 1] /\ call.got[n + 1] = disk[Tell]
      /\ \A p \in (offset + 2 + 1)..Tell : \E i \in 1..(n + 1) : call.got[i] = disk[p]
  BY <1>1, <1>2, CallDone
<1>5. PICK t : t = Tell - (offset + 2)
  OBVIOUS
<1>6. t \in 1..n /\ Tell = offset + (2 + t) /\ offset + 2 < Len(disk)
  <2>1. offset + 2 < Tell /\ Tell < offset + 2 + (n + 1)
    BY <1>4
  <2>2. QED
    BY <1>3, <1>5, <2>1
<1>7. PICK d \in Datum : Len(d) = n /\ (Whole(d) \/ \E m \in Nat \ {0, 1} : Cut(d, m))
  BY <1>6, RecordOfHeader
<1>8. EncodedSize(d) = n + 3 /\ Encode(d)[2 + t] \in DataCell
  <2>1. EncodedSize(d) = n + 3 /\ d[t] \in DataCell
    BY <1>6, <1>7, DatumCells
  <2>2. Encode(d)[2 + t] = d[t]
    BY <1>6, <1>7, EncodeCells
  <2>3. QED
    BY <2>1, <2>2
<1>9. ASSUME NEW m \in Nat, 2 + t <= m, RecordAt(disk, offset, d, m)
      PROVE  call.got[n + 1] # Crc(data)
  <2>1. 2 + t \in 1..m /\ offset + (2 + t) <= Len(disk)
    BY <1>3, <1>6, <1>9
  <2>2. disk[offset + (2 + t)] = Encode(d)[2 + t]
    BY <1>9, <2>1 DEF RecordAt
  <2>3. call.got[n + 1] \in DataCell
    BY <1>4, <1>6, <1>8, <2>2
  <2>4. QED
    BY <2>3, CellKinds
<1>10. CASE Whole(d)
  <2>1. n + 3 \in Nat /\ 2 + t <= n + 3
    BY <1>6
  <2>2. QED
    BY <1>8, <1>9, <1>10, <2>1 DEF Whole
<1>11. ASSUME NEW m \in Nat \ {0, 1}, Cut(d, m), ~(2 + t <= m), call.got[n + 1] = Crc(data)
       PROVE  FALSE
  <2>1. Len(disk) > offset + m /\ offset + m + 1 \in (offset + 2 + 1)..Tell
    <3>1. m > 1 /\ m < 2 + t
      BY <1>6, <1>11
    <3>2. QED
      BY <1>3, <1>6, <3>1
  <2>2. disk[offset + m + 1] \in LengthCell
    BY <1>11, <2>1 DEF Cut
  <2>3. PICK i \in 1..(n + 1) : call.got[i] = disk[offset + m + 1]
    BY <1>4, <2>1
  <2>4. n = 1 /\ i = 1
    BY <1>3, <1>11, <2>2, <2>3, LengthAmongData
  <2>5. Tell = offset + 2 + 1
    BY <1>3, <1>6, <2>4
  <2>6. call.got[n + 1] = call.got[1] /\ call.got[1] \in LengthCell
    BY <1>4, <2>2, <2>3, <2>4, <2>5
  <2>7. QED
    BY <1>11, <2>6, CellKinds
<1>12. ASSUME NEW m \in Nat \ {0, 1}, Cut(d, m), 2 + t <= m
       PROVE  call.got[n + 1] # Crc(data)
  BY <1>9, <1>12 DEF Cut
<1>13. QED
  BY <1>7, <1>10, <1>11, <1>12

\* The reader changes nothing of the writer's.
LEMMA WriterSame ==
  ASSUME WriterInv, UNCHANGED <<disk, writerVars>>
  PROVE  /\ WriterInv'
         /\ disk' = disk /\ log' = log /\ ends' = ends /\ torn' = torn /\ bare' = bare
<1>1. UNCHANGED <<disk, buffer, at, made, log, ends, torn, bare, outstanding, promised>>
  BY DEF writerVars
<1>2. at' \in Places /\ (at' = "gone" <=> at = "gone") /\ promised' \in Nat /\ outstanding' \in Nat
  BY <1>1 DEF WriterInv, WriterTypes
<1>3. PromisedInv'
  BY <1>1 DEF WriterInv, PromisedInv
<1>4. WriterInv'
  BY <1>1, <1>2, <1>3, SameFileInv
<1>5. QED
  BY <1>1, <1>4

\* A step of the reader that returns no record.
LEMMA SamePlace ==
  ASSUME OnTrack, disk' = disk, log' = log, ends' = ends, UNCHANGED <<offset, delivered>>
  PROVE  PlaceInv'
BY DEF OnTrack, ReaderInv, PlaceInv, End, EndOf

\* The calls that a reader can be in.
LEMMA CallValues ==
  /\ Idle \in Call /\ Idle.part = "none"
  /\ \A part \in {"header", "data"}, want \in Nat :
       LET c == Reading(part, want)
       IN c \in Call /\ c.part = part /\ c.want = want /\ c.got = <<>> /\ Len(c.got) = 0
<1>1. <<>> \in Seq(Cell) /\ Len(<<>>) = 0
  OBVIOUS
<1>2. QED
  BY <1>1 DEF Call, Idle, Reading

\* Position: the stream is where the next record begins, unless it skips within
\* cells that pos does not count.
LEMMA PositionInv ==
  ASSUME OnTrack, UNCHANGED <<disk, writerVars>>, Position
  PROVE  OnTrack' \/ misplaced'
<1> USE DEF OnTrack, ReaderInv
<1>1. WriterInv' /\ disk' = disk /\ log' = log /\ ends' = ends /\ torn' = torn
  BY WriterSame
<1>2. /\ UNCHANGED <<bufferSize, offset, delivered>> /\ call' = Reading("header", 2)
      /\ error' = "none" /\ call = Idle
  BY DEF Position, HeaderSize
<1>3. /\ Len(disk) \in Nat /\ ahead \in Seq(Cell) /\ Len(ahead) \in Nat /\ pos \in Nat /\ offset \in Nat
      /\ Tell \in Int /\ Tell + Len(ahead) = pos
  BY ReaderFacts
<1>4. offset <= Len(disk) /\ pos <= Len(disk)
  BY DEF PlaceInv, StreamInv
<1>5. SUFFICES ASSUME ~misplaced'
               PROVE  OnTrack'
  OBVIOUS
<1>6. /\ pos' \in Nat /\ ahead' \in Seq(Cell) /\ fileStatus' \in Statuses
      /\ pos' <= Len(disk) /\ Len(ahead') <= pos' /\ pos' - Len(ahead') = offset
      /\ \A j \in 1..Len(ahead') : ahead'[j] = disk[offset + j]
      /\ ahead = <<>> => ahead' = <<>>
  <2>1. CASE ahead' = <<>> /\ pos' = offset /\ fileStatus' \in Statuses
    <3>1. Len(ahead') = 0 /\ ahead' \in Seq(Cell)
      BY <2>1
    <3>2. QED
      BY <1>3, <1>4, <2>1, <3>1
  <2>2. CASE MustReset /\ Reset
    BY <2>1, <2>2 DEF Reset, Statuses
  <2>3. CASE /\ ~MustReset /\ SkipNBytes(offset - Tell) /\ UNCHANGED <<fileStatus, failed>>
             /\ misplaced' = (misplaced \/ Uncounted)
    <3>1. PICK n : n = offset - Tell
      OBVIOUS
    <3>2. n \in Nat /\ Tell + n = offset /\ Tell \in Nat
      BY <1>3, <2>3, <3>1 DEF MustReset
    <3>3. fileStatus' \in Statuses
      BY <2>3 DEF ReaderTypes
    <3>4. CASE n < Len(ahead)
      <4>1. ahead' = SubSeq(ahead, n + 1, Len(ahead)) /\ pos' = pos
        BY <2>3, <3>1, <3>4 DEF SkipNBytes
      <4>2. n <= Len(ahead)
        BY <1>3, <3>2, <3>4
      <4>3. /\ ahead' \in Seq(Cell) /\ Len(ahead') = Len(ahead) - n
            /\ \A j \in 1..(Len(ahead) - n) : ahead'[j] = ahead[n + j]
        BY <1>3, <3>2, <4>1, <4>2, Piece, SMTT(40)
      <4>4. ~Loose
        BY <1>5, <2>3, <3>1, <3>4 DEF Uncounted, Loose
      <4>5. \A j \in 1..Len(ahead) : ahead[j] = disk[Tell + j]
        BY <4>4 DEF StreamInv
      <4>6. ASSUME NEW j \in 1..(Len(ahead) - n)
            PROVE  ahead'[j] = disk[offset + j]
        <5>1. n + j \in 1..Len(ahead) /\ Tell + (n + j) = offset + j
          BY <1>3, <3>2
        <5>2. QED
          BY <4>3, <4>5, <5>1
      <4>7. pos - (Len(ahead) - n) = offset /\ Len(ahead) - n <= pos
        BY <1>3, <3>2, <3>4
      <4>8. ahead # <<>>
        BY <1>3, <3>2, <3>4
      <4>9. QED
        BY <1>3, <1>4, <3>3, <4>1, <4>3, <4>6, <4>7, <4>8
    <3>5. CASE ~(n < Len(ahead))
      <4>1. ahead' = <<>> /\ pos' = pos + n - Len(ahead)
        BY <2>3, <3>1, <3>5 DEF SkipNBytes
      <4>2. pos' = offset
        BY <1>3, <3>2, <4>1
      <4>3. QED
        BY <2>1, <3>3, <4>1, <4>2
    <3>6. QED
      BY <3>4, <3>5
  <2>4. QED
    BY <2>2, <2>3 DEF Position
<1>7. call' \in Call /\ call'.part = "header" /\ call'.want = 2 /\ call'.got = <<>> /\ Len(call'.got) = 0
  BY <1>2, CallValues
<1>8. Tell' = offset /\ Base' = offset
  BY <1>2, <1>6, <1>7 DEF Tell, Base
<1>9. ReaderTypes'
  BY <1>2, <1>6, <1>7 DEF ReaderTypes, Errors
<1>10. PlaceInv'
  BY <1>1, <1>2, SamePlace
<1>11. StreamInv'
  BY <1>1, <1>2, <1>6, <1>8 DEF StreamInv
<1>12. CallInv'
  <2>1. Straight'
    BY <1>3, <1>7, <1>8 DEF Straight
  <2>2. QED
    BY <1>2, <1>7, <2>1 DEF CallInv, HeaderSize
<1>13. DataLossJustified'
  BY <1>2 DEF DataLossJustified
<1>14. QED
  BY <1>1, <1>9, <1>10, <1>11, <1>12, <1>13

\* A stream with nothing ahead and no call, wherever in the file it is.
LEMMA StreamEmptied ==
  ASSUME OnTrack, UNCHANGED <<disk, writerVars>>, UNCHANGED <<bufferSize, offset, call, delivered>>,
         call = Idle, pos' \in Nat, pos' <= Len(disk), ahead' = <<>>, fileStatus' \in Statuses,
         error' \in {"none", "io"}
  PROVE  OnTrack'
<1> USE DEF OnTrack, ReaderInv
<1>1. WriterInv' /\ disk' = disk /\ log' = log /\ ends' = ends /\ torn' = torn
  BY WriterSame
<1>2. Len(disk) \in Nat /\ ahead' \in Seq(Cell) /\ Len(ahead') = 0
  BY ReaderFacts
<1>3. ReaderTypes'
  BY <1>2 DEF ReaderTypes, Errors
<1>4. PlaceInv'
  BY <1>1, SamePlace
<1>5. StreamInv'
  BY <1>1, <1>2 DEF StreamInv
<1>6. CallInv'
  BY CallValues DEF CallInv
<1>7. DataLossJustified'
  BY DEF DataLossJustified
<1>8. QED
  BY <1>1, <1>3, <1>4, <1>5, <1>6, <1>7

\* A skip that ends in an I/O error stays within the file.
LEMMA PositionFailsInv ==
  ASSUME OnTrack, UNCHANGED <<disk, writerVars>>, PositionFails
  PROVE  OnTrack'
<1>1. pos \in Nat /\ offset \in Nat /\ offset <= Len(disk) /\ Len(disk) \in Nat /\ fileStatus \in Statuses
  BY ReaderFacts DEF OnTrack, ReaderInv, PlaceInv, ReaderTypes
<1>2. /\ UNCHANGED <<bufferSize, offset, call, delivered>> /\ call = Idle
      /\ ahead' = <<>> /\ error' = "io"
  BY DEF PositionFails
<1>3. pos' \in 0..(offset - 1) \/ pos' \in pos..(offset - 1)
  BY DEF PositionFails
<1>4. pos' \in Nat /\ pos' <= Len(disk)
  BY <1>1, <1>3
<1>5. fileStatus' \in Statuses
  BY <1>1 DEF PositionFails, Statuses
<1>6. QED
  BY <1>2, <1>4, <1>5, StreamEmptied

\* SeekOffset: the new reader has read nothing ahead.
LEMMA ResumeInv ==
  ASSUME OnTrack, UNCHANGED <<disk, writerVars>>, Resume
  PROVE  OnTrack'
<1>1. /\ UNCHANGED <<bufferSize, offset, call, delivered>> /\ call = Idle
      /\ pos' = 0 /\ ahead' = <<>> /\ fileStatus' = "ok" /\ error' = "none"
  BY DEF Resume
<1>2. pos' \in Nat /\ pos' <= Len(disk) /\ fileStatus' \in Statuses
  BY <1>1, ReaderFacts DEF Statuses
<1>3. QED
  BY <1>1, <1>2, StreamEmptied

\* A call that misses something is not idle.
LEMMA CallRuns ==
  ASSUME OnTrack, Missing > 0
  PROVE  /\ call.part \in {"header", "data"} /\ Missing \in Nat /\ Missing = call.want - Len(call.got)
         /\ Straight \/ Skewed
         /\ Skewed => ahead = <<>>
         /\ error = "none"
<1>1. call # Idle
  <2>1. Idle.want - Len(Idle.got) = 0
    BY DEF Idle
  <2>2. QED
    BY <2>1 DEF Missing
<1>2. call.part \in {"header", "data"}
  BY <1>1, ReaderFacts DEF OnTrack, ReaderInv, CallInv
<1>3. Missing \in Nat
  <2>1. Len(call.got) \in Nat /\ call.want \in Nat
    BY ReaderFacts
  <2>2. Len(call.got) <= call.want
    BY <1>2 DEF OnTrack, ReaderInv, CallInv
  <2>3. QED
    BY <2>1, <2>2 DEF Missing
<1>4. (Straight \/ Skewed) /\ error = "none"
  BY <1>2 DEF OnTrack, ReaderInv, CallInv
<1>5. Skewed => ahead = <<>>
  BY <1>3 DEF Skewed
<1>6. QED
  BY <1>2, <1>3, <1>4, <1>5 DEF Missing

\* What a call that goes on has got.
LEMMA CallGrows ==
  ASSUME OnTrack, Missing > 0, offset' = offset,
         NEW more \in Seq(Cell), Len(more) <= Missing,
         call' = [call EXCEPT !.got = call.got \o more]
  PROVE  /\ call' \in Call /\ call'.part = call.part /\ call'.want = call.want /\ Base' = Base
         /\ call'.got \in Seq(Cell) /\ Len(call'.got) = Len(call.got) + Len(more)
         /\ \A j \in 1..Len(call.got) : call'.got[j] = call.got[j]
         /\ \A j \in 1..Len(more) : call'.got[Len(call.got) + j] = more[j]
         /\ Len(call'.got) <= call.want
         /\ Missing' = Missing - Len(more)
<1>1. /\ call.got \in Seq(Cell) /\ Len(call.got) \in Nat /\ call.want \in Nat /\ call \in Call
      /\ Len(more) \in Nat
  BY ReaderFacts DEF OnTrack, ReaderInv, ReaderTypes
<1>2. PICK g : /\ g = call.got \o more
               /\ g \in Seq(Cell) /\ Len(g) = Len(call.got) + Len(more)
               /\ \A j \in 1..Len(call.got) : g[j] = call.got[j]
               /\ \A j \in 1..Len(more) : g[Len(call.got) + j] = more[j]
  BY <1>1, Concat
<1>3. call' \in Call /\ call'.part = call.part /\ call'.want = call.want /\ call'.got = g
  BY <1>1, <1>2 DEF Call
<1>4. Base' = Base
  BY <1>3 DEF Base
<1>5. Len(g) <= call.want /\ call.want - Len(g) = Missing - Len(more)
  BY <1>1, <1>2 DEF Missing
<1>6. Missing' = Missing - Len(more)
  BY <1>3, <1>5 DEF Missing
<1>7. QED
  BY <1>2, <1>3, <1>4, <1>5, <1>6

\* A call that goes on, with n cells more from the file.
LEMMA CallGoesOn ==
  ASSUME OnTrack, Missing > 0, disk' = disk, offset' = offset, bufferSize' = bufferSize,
         error' = error, Straight,
         NEW more \in Seq(Cell), Len(more) <= Missing,
         \A j \in 1..Len(more) : more[j] = disk[Tell + j],
         call' = [call EXCEPT !.got = call.got \o more],
         Tell' = Tell + Len(more),
         bufferSize = 0 => Len(call.got) = 0 /\ Len(more) = Missing
  PROVE  call' \in Call /\ CallInv'
<1> USE DEF OnTrack, ReaderInv
<1>1. /\ call.part \in {"header", "data"} /\ Missing \in Nat /\ Missing = call.want - Len(call.got)
      /\ error = "none"
  BY CallRuns
<1>2. Tell = Base + Len(call.got) /\ \A j \in 1..Len(call.got) : call.got[j] = disk[Base + j]
  BY DEF Straight
<1>3. /\ Len(call.got) \in Nat /\ call.want \in Nat /\ Base \in Nat /\ Len(more) \in Nat
  BY ReaderFacts
<1>4. PICK g : g = call'.got
  OBVIOUS
<1>5. /\ call' \in Call /\ call'.part = call.part /\ call'.want = call.want /\ Base' = Base
      /\ g \in Seq(Cell) /\ Len(g) = Len(call.got) + Len(more)
      /\ \A j \in 1..Len(call.got) : g[j] = call.got[j]
      /\ \A j \in 1..Len(more) : g[Len(call.got) + j] = more[j]
      /\ Len(g) <= call.want
  BY <1>4, CallGrows
<1> PICK a \in Nat, w \in Nat, b \in Nat, m \in Nat :
      a = Len(call.got) /\ w = call.want /\ b = Base /\ m = Len(more)
  BY <1>3
<1>6. Tell = b + a /\ Missing = w - a /\ Len(g) = a + m /\ m <= w - a
  BY <1>1, <1>2, <1>5
<1>7. ASSUME NEW j \in 1..Len(g)
      PROVE  g[j] = disk[Base + j]
  <2>1. CASE j \in 1..Len(call.got)
    BY <1>2, <1>5, <2>1
  <2>2. CASE j > Len(call.got)
    <3>1. j \in 1..(a + m) /\ j > a
      BY <1>6, <2>2
    <3>2. PICK i \in 1..m : j = a + i
      <4>1. j - a \in 1..m /\ j = a + (j - a)
        BY <3>1
      <4>2. QED
        BY <4>1
    <3>3. Tell + i = Base + j
      BY <1>6, <3>2
    <3>4. g[j] = more[i] /\ more[i] = disk[Tell + i]
      BY <1>5, <3>2
    <3>5. QED
      BY <3>3, <3>4
  <2>3. QED
    BY <1>3, <1>5, <2>1, <2>2
<1>8. Tell' = Base' + Len(g)
  <2>1. Tell = b + a /\ Tell' = Tell + m /\ Len(g) = a + m
    BY <1>6
  <2>2. Tell' = b + Len(g)
    BY ONLY <2>1, Sums
  <2>3. QED
    BY <1>5, <2>2
<1>9. Straight'
  BY <1>4, <1>5, <1>7, <1>8 DEF Straight
<1>10. bufferSize = 0 => Len(g) = call.want
  BY <1>6
<1>11. call.part = "header" => call.want = HeaderSize
  BY DEF CallInv
<1>12. CallInv'
  BY <1>1, <1>4, <1>5, <1>9, <1>10, <1>11 DEF CallInv
<1>13. QED
  BY <1>5, <1>12

\* A call that goes on with cells that pos does not count, or that has gone on so
\* before.
LEMMA SkewedGoesOn ==
  ASSUME OnTrack, Missing > 0, disk' = disk, offset' = offset, bufferSize' = bufferSize,
         error' = error, bufferSize > 0, bufferSize \in Nat, doubled',
         NEW more \in Seq(Cell), Len(more) > 0, Len(more) <= Missing, Tell + Len(more) <= Len(disk),
         \A j \in 1..Len(more) : more[j] = disk[Tell + j],
         call' = [call EXCEPT !.got = call.got \o more],
         \/ Tell' = Tell /\ Len(more) < Missing
         \/ Tell' = Tell + Len(more) /\ Skewed,
         Missing' # 0 => ahead' = <<>>
  PROVE  call' \in Call /\ CallInv'
<1> USE DEF OnTrack, ReaderInv
<1>1. /\ call.part \in {"header", "data"} /\ Missing \in Nat /\ Missing = call.want - Len(call.got)
      /\ Straight \/ Skewed
      /\ error = "none"
  BY CallRuns
<1>2. /\ Len(call.got) \in Nat /\ Base \in Nat /\ Len(more) \in Nat /\ Tell \in Nat /\ Len(disk) \in Nat
  <2>1. Len(call.got) \in Nat /\ Base \in Nat /\ Len(disk) \in Nat
    BY ReaderFacts
  <2>2. Tell \in Nat
    BY <1>1, StreamFacts
  <2>3. QED
    BY <2>1, <2>2
<1>3. PICK g : g = call'.got
  OBVIOUS
<1>4. /\ call' \in Call /\ call'.part = call.part /\ call'.want = call.want /\ Base' = Base
      /\ g \in Seq(Cell) /\ Len(g) = Len(call.got) + Len(more)
      /\ \A j \in 1..Len(call.got) : g[j] = call.got[j]
      /\ \A j \in 1..Len(more) : g[Len(call.got) + j] = more[j]
      /\ Len(g) <= call.want
      /\ Missing' = Missing - Len(more)
  BY <1>3, CallGrows
<1> PICK a \in Nat, b \in Nat, m \in Nat, t \in Nat :
      a = Len(call.got) /\ b = Base /\ m = Len(more) /\ t = Tell
  BY <1>2
<1>5. m > 0 /\ Len(g) = a + m /\ b <= t /\ t <= b + a /\ b < Len(disk) /\ 1 \in 1..m
  <2>1. b <= t /\ t <= b + a
    BY <1>1 DEF Straight, Skewed
  <2>2. QED
    BY <1>2, <1>4, <2>1
<1>6. g[1] = disk[b + 1]
  <2>1. CASE a = 0
    <3>1. Straight /\ t = b
      BY <1>1, <2>1 DEF Straight, Skewed
    <3>2. g[1] = more[1] /\ more[1] = disk[t + 1]
      <4>1. a + 1 = 1
        BY <2>1
      <4>2. g[a + 1] = more[1] /\ more[1] = disk[t + 1]
        BY <1>4, <1>5
      <4>3. QED
        BY <4>1, <4>2
    <3>3. QED
      BY <3>1, <3>2
  <2>2. CASE a > 0
    <3>1. 1 \in 1..a
      BY <2>2
    <3>2. call.got[1] = disk[b + 1]
      BY <1>1, <3>1 DEF Straight, Skewed
    <3>3. QED
      BY <1>4, <3>1, <3>2
  <2>3. QED
    BY <2>1, <2>2
<1>7. ASSUME NEW p \in (b + 1)..t
      PROVE  \E i \in 1..(a + m) : g[i] = disk[p]
  <2>1. \E i \in 1..a : call.got[i] = disk[p]
    <3>1. CASE Straight
      <4>1. t = b + a
        BY <3>1 DEF Straight
      <4>2. PICK i : i = p - b
        OBVIOUS
      <4>3. i \in 1..a /\ b + i = p
        <5>1. p \in (b + 1)..(b + a)
          BY <4>1
        <5>2. QED
          BY <4>2, <5>1, Difference
      <4>4. call.got[i] = disk[b + i]
        BY <3>1, <4>3 DEF Straight
      <4>5. QED
        BY <4>3, <4>4
    <3>2. CASE Skewed
      BY <3>2 DEF Skewed
    <3>3. QED
      BY <1>1, <3>1, <3>2
  <2>2. PICK i \in 1..a : call.got[i] = disk[p]
    BY <2>1
  <2>3. i \in 1..(a + m)
    BY <2>2
  <2>4. g[i] = call.got[i]
    BY <1>4, <2>2
  <2>5. QED
    BY <2>2, <2>3, <2>4
<1>8. CASE Tell' = Tell /\ Len(more) < Missing
  <2>1. Missing' # 0
    BY <1>1, <1>4, <1>8
  <2>2. t < b + (a + m)
    BY <1>5
  <2>3. Skewed'
    <3>1. Tell' = t /\ Base' = b /\ Len(call'.got) = a + m /\ bufferSize' > 0
      BY <1>3, <1>4, <1>8
    <3>2. Len(call'.got) > 0 /\ call'.got[1] = disk'[Base' + 1]
      BY <1>3, <1>5, <1>6, <3>1
    <3>3. Base' <= Tell' /\ Tell' < Base' + Len(call'.got) /\ Base' < Len(disk')
      BY <1>5, <2>2, <3>1
    <3>4. ASSUME NEW p \in (Base' + 1)..Tell'
          PROVE  \E i \in 1..Len(call'.got) : call'.got[i] = disk'[p]
      <4>1. p \in (b + 1)..t
        BY <3>1
      <4>2. PICK i \in 1..(a + m) : g[i] = disk[p]
        BY <1>7, <4>1
      <4>3. QED
        BY <1>3, <3>1, <4>2
    <3>5. QED
      BY <2>1, <3>1, <3>2, <3>3, <3>4 DEF Skewed
  <2>4. QED
    BY <1>1, <1>3, <1>4, <2>3 DEF CallInv
<1>9. CASE Tell' = Tell + Len(more) /\ Skewed
  <2>1. t < b + a
    BY <1>9 DEF Skewed
  <2>2. b <= t + m /\ t + m < b + (a + m) /\ t + m > b /\ Tell' = t + m /\ m \in 1..m
    <3>1. b <= t + m /\ t + m < b + (a + m) /\ t + m > b /\ m \in 1..m
      BY ONLY <1>5, <2>1, Between
    <3>2. QED
      BY <1>9, <3>1
  <2>3. ASSUME NEW p \in (b + 1)..(t + m)
        PROVE  \E i \in 1..(a + m) : g[i] = disk[p]
    <3>1. CASE p \in (b + 1)..t
      BY <1>7, <3>1
    <3>2. CASE p > t
      <4>1. PICK j : j = p - t
        OBVIOUS
      <4>2. j \in 1..m /\ t + j = p
        <5>1. p \in (t + 1)..(t + m)
          BY <3>2
        <5>2. QED
          BY <4>1, <5>1, Difference
      <4>3. g[a + j] = more[j] /\ more[j] = disk[t + j]
        BY <1>4, <4>2
      <4>4. a + j \in 1..(a + m)
        BY <4>2, Shifted
      <4>5. QED
        BY <4>2, <4>3, <4>4
    <3>3. QED
      BY <3>1, <3>2
  <2>4. g[a + m] = disk[t + m]
    BY <1>4, <2>2
  <2>5. Skewed'
    <3>1. Tell' = t + m /\ Base' = b /\ Len(call'.got) = a + m /\ bufferSize' > 0
      BY <1>3, <1>4, <2>2
    <3>2. Len(call'.got) > 0 /\ call'.got[1] = disk'[Base' + 1]
      BY <1>3, <1>5, <1>6, <3>1
    <3>3. Base' <= Tell' /\ Tell' < Base' + Len(call'.got) /\ Base' < Len(disk') /\ Tell' > Base'
      BY <1>5, <2>2, <3>1
    <3>4. ASSUME NEW p \in (Base' + 1)..Tell'
          PROVE  \E i \in 1..Len(call'.got) : call'.got[i] = disk'[p]
      <4>1. p \in (b + 1)..(t + m)
        BY <3>1
      <4>2. PICK i \in 1..(a + m) : g[i] = disk[p]
        BY <2>3, <4>1
      <4>3. QED
        BY <1>3, <3>1, <4>2
    <3>5. call'.got[Len(call'.got)] = disk'[Tell']
      BY <1>3, <2>4, <3>1
    <3>6. QED
      BY <3>1, <3>2, <3>3, <3>4, <3>5 DEF Skewed
  <2>6. QED
    BY <1>1, <1>3, <1>4, <2>5 DEF CallInv
<1>10. QED
  BY <1>8, <1>9

\* What the BufferedInputStream has for a call, from its buffer or from the file.
LEMMA ChunkFacts ==
  ASSUME OnTrack, bufferSize > 0, Missing > 0, NEW r \in Chunks
  PROVE  /\ r.data \in Seq(Cell) /\ Len(r.data) \in Nat /\ r.status \in Statuses
         /\ Tell + Len(r.data) <= Len(disk)
         /\ \A j \in 1..Len(r.data) : r.data[j] = disk[Tell + j]
         /\ ahead # <<>> => r.data = ahead /\ r.status = "ok"
         /\ r.data = <<>> => r.status # "ok"
<1>1. call.part # "none"
  BY CallRuns
<1>2. /\ disk \in Seq(Cell) /\ Len(disk) \in Nat /\ ahead \in Seq(Cell) /\ Len(ahead) \in Nat
      /\ pos \in Nat /\ Tell \in Nat /\ Tell + Len(ahead) = pos /\ pos <= Len(disk)
      /\ \A j \in 1..Len(ahead) : ahead[j] = disk[Tell + j]
      /\ bufferSize \in Nat \ {0} /\ fileStatus \in Statuses
  BY <1>1, ReaderFacts, StreamFacts DEF OnTrack, ReaderInv, ReaderTypes
<1>3. CASE ahead # <<>>
  <2>1. r = [data |-> ahead, status |-> "ok"]
    BY <1>3 DEF Chunks
  <2>2. r.data = ahead /\ r.status = "ok"
    BY <2>1
  <2>3. QED
    BY <1>2, <1>3, <2>2 DEF Statuses
<1>4. CASE ahead = <<>> /\ fileStatus = "ok"
  <2>1. Tell = pos
    BY <1>2, <1>4
  <2>2. r \in Read(pos, bufferSize)
    BY <1>4 DEF Chunks, FillBuffer, Answers
  <2>3. /\ r.status \in Statuses
        /\ r.data \in Seq(Cell) /\ Len(r.data) \in Nat
        /\ Len(r.data) <= bufferSize /\ pos + Len(r.data) <= Len(disk)
        /\ \A i \in 1..Len(r.data) : r.data[i] = disk[pos + i]
        /\ r.status = "ok" <=> Len(r.data) = bufferSize
    BY <1>2, <2>2, ReadFacts
  <2>4. r.data = <<>> => Len(r.data) # bufferSize
    BY <1>2
  <2>5. QED
    BY <1>4, <2>1, <2>3, <2>4
<1>5. CASE ahead = <<>> /\ fileStatus # "ok"
  <2>1. r = [data |-> <<>>, status |-> fileStatus]
    BY <1>5 DEF Chunks, FillBuffer
  <2>2. r.data = <<>> /\ r.status = fileStatus
    BY <2>1
  <2>3. Len(r.data) = 0 /\ r.data \in Seq(Cell)
    BY <2>2
  <2>4. Tell + 0 <= Len(disk)
    BY <1>2
  <2>5. QED
    BY <1>2, <1>5, <2>2, <2>3, <2>4
<1>6. QED
  BY <1>3, <1>4, <1>5

\* A call that fails because of the file.
LEMMA FailInv ==
  ASSUME OnTrack, UNCHANGED <<disk, writerVars>>, UNCHANGED <<bufferSize, offset, delivered>>,
         Missing > 0, NEW status \in {"eof", "io"}, Fail(status),
         pos' \in Nat, pos' <= Len(disk), ahead' \in Seq(Cell), fileStatus' \in Statuses,
         ahead' = <<>> \/ (status = "io" /\ bufferSize # 0)
  PROVE  OnTrack'
<1> USE DEF OnTrack, ReaderInv
<1>1. WriterInv' /\ disk' = disk /\ log' = log /\ ends' = ends /\ torn' = torn
  BY WriterSame
<1>2. call' = Idle /\ error' = IF status = "eof" /\ call.part = "data" THEN "truncated" ELSE status
  BY DEF Fail
<1>3. error' \in Errors /\ error' # "corrupted"
  BY <1>2 DEF Errors
<1>4. ReaderTypes'
  BY <1>2, <1>3, CallValues DEF ReaderTypes
<1>5. PlaceInv'
  BY <1>1, SamePlace
<1>6. StreamInv'
  <2>1. CASE ahead' = <<>>
    <3>1. Len(ahead') = 0
      BY <2>1
    <3>2. QED
      BY <1>1, <2>1, <3>1 DEF StreamInv
  <2>2. CASE status = "io" /\ bufferSize # 0
    <3>1. Loose'
      BY <1>2, <2>2, CallValues DEF Loose
    <3>2. QED
      BY <1>1, <2>2, <3>1 DEF StreamInv
  <2>3. QED
    BY <2>1, <2>2
<1>7. CallInv'
  BY <1>2, CallValues DEF CallInv
<1>8. DataLossJustified'
  <2>1. error' = "truncated" => call.part = "data"
    BY <1>2
  <2>2. call.part = "data" => offset + HeaderSize <= Len(disk)
    BY DEF CallInv, Base
  <2>3. QED
    BY <1>1, <1>3, <2>1, <2>2 DEF DataLossJustified
<1>9. QED
  BY <1>1, <1>4, <1>5, <1>6, <1>7, <1>8

\* ReadNBytes of the BufferedInputStream, once around its loop.
LEMMA ReadBufferedInv ==
  ASSUME OnTrack, UNCHANGED <<disk, writerVars>>, ReadBuffered
  PROVE  OnTrack'
<1> USE DEF OnTrack, ReaderInv
<1>1. WriterInv' /\ disk' = disk /\ log' = log /\ ends' = ends /\ torn' = torn
  BY WriterSame
<1>2. bufferSize > 0 /\ Missing > 0 /\ UNCHANGED <<bufferSize, offset, delivered, misplaced>>
  BY DEF ReadBuffered
<1>3. PICK r, n :
        /\ r \in Chunks
        /\ n = Min({Missing, Len(r.data)})
        /\ pos' = IF ahead = <<>> /\ r.status # "io" THEN pos + Len(r.data) ELSE pos
        /\ ahead' = SubSeq(r.data, n + 1, Len(r.data))
        /\ fileStatus' = IF r.data = <<>> THEN r.status ELSE fileStatus
        /\ doubled' = (doubled \/ (r.status = "io" /\ r.data # <<>>))
        /\ \/ /\ r.data = <<>> \/ (r.status = "io" /\ n = Missing)
              /\ Fail(r.status)
           \/ /\ r.data # <<>> /\ ~(r.status = "io" /\ n = Missing)
              /\ call' = [call EXCEPT !.got = call.got \o SubSeq(r.data, 1, n)]
              /\ UNCHANGED <<failed, error>>
  BY DEF ReadBuffered
<1>4. PICK chunk, status : chunk = r.data /\ status = r.status
  OBVIOUS
<1>5. /\ chunk \in Seq(Cell) /\ Len(chunk) \in Nat /\ status \in Statuses
      /\ Tell + Len(chunk) <= Len(disk)
      /\ \A j \in 1..Len(chunk) : chunk[j] = disk[Tell + j]
      /\ ahead # <<>> => chunk = ahead /\ status = "ok"
      /\ chunk = <<>> => status # "ok"
  <2>1. r \in Chunks
    BY <1>3
  <2>2. QED
    BY <1>2, <1>4, <2>1, ChunkFacts
<1>6. /\ Missing \in Nat /\ call.part # "none" /\ (Straight \/ Skewed) /\ (Skewed => ahead = <<>>)
      /\ error = "none"
  BY <1>2, CallRuns
<1>7. /\ disk \in Seq(Cell) /\ Len(disk) \in Nat /\ ahead \in Seq(Cell) /\ Len(ahead) \in Nat
      /\ pos \in Nat /\ Tell \in Nat /\ Tell + Len(ahead) = pos /\ bufferSize \in Nat /\ pos <= Len(disk)
      /\ fileStatus \in Statuses
  BY <1>6, ReaderFacts, StreamFacts DEF ReaderTypes
<1>8. /\ n \in Nat /\ n <= Missing /\ n <= Len(chunk) /\ (n = Missing \/ n = Len(chunk))
      /\ chunk # <<>> => n > 0
  <2>1. n = IF Missing <= Len(chunk) THEN Missing ELSE Len(chunk)
    BY <1>3, <1>4, <1>5, <1>6, MinOfTwo
  <2>2. chunk # <<>> => Len(chunk) > 0
    BY <1>5
  <2>3. QED
    BY <1>2, <1>5, <1>6, <2>1, <2>2
<1>9. /\ ahead' \in Seq(Cell) /\ Len(ahead') = Len(chunk) - n
      /\ \A j \in 1..(Len(chunk) - n) : ahead'[j] = chunk[n + j]
  <2>1. PICK l \in Nat : l = Len(chunk)
    BY <1>5
  <2>2. /\ SubSeq(chunk, n + 1, l) \in Seq(Cell)
        /\ Len(SubSeq(chunk, n + 1, l)) = l - n
        /\ \A i \in 1..(l - n) : SubSeq(chunk, n + 1, l)[i] = chunk[n + i]
    <3>1. n <= l /\ l <= Len(chunk)
      BY <1>8, <2>1
    <3>2. QED
      BY <1>5, <1>8, <3>1, Piece
  <2>3. QED
    BY <1>3, <1>4, <2>1, <2>2
<1>10. pos' = IF status = "io" THEN pos ELSE Tell + Len(chunk)
  <2>1. CASE ahead = <<>>
    <3>1. Tell = pos
      BY <1>7, <2>1
    <3>2. QED
      BY <1>3, <1>4, <2>1, <3>1
  <2>2. CASE ahead # <<>>
    <3>1. Tell + Len(chunk) = pos /\ pos' = pos
      BY <1>3, <1>5, <1>7, <2>2
    <3>2. QED
      BY <3>1
  <2>3. QED
    BY <2>1, <2>2
<1>11. pos' \in Nat /\ pos' <= Len(disk)
  BY <1>5, <1>7, <1>10
<1>12. fileStatus' \in Statuses
  BY <1>3, <1>4, <1>5, <1>7
<1>13. CASE (chunk = <<>> \/ (status = "io" /\ n = Missing)) /\ Fail(status)
  <2>1. status \in {"eof", "io"}
    BY <1>5, <1>13 DEF Statuses
  <2>2. ahead' = <<>> \/ (status = "io" /\ bufferSize # 0)
    <3>1. CASE chunk = <<>>
      <4>1. Len(chunk) = 0
        BY <3>1
      <4>2. Len(ahead') = 0
        BY <1>8, <1>9, <4>1
      <4>3. QED
        BY <1>9, <4>2
    <3>2. CASE status = "io"
      BY <1>2, <1>7, <3>2
    <3>3. QED
      BY <1>13, <3>1, <3>2
  <2>3. QED
    BY <1>2, <1>9, <1>11, <1>12, <1>13, <2>1, <2>2, FailInv
<1>14. CASE /\ chunk # <<>> /\ ~(status = "io" /\ n = Missing)
            /\ call' = [call EXCEPT !.got = call.got \o SubSeq(chunk, 1, n)]
            /\ error' = error
  <2>1. PICK more : more = SubSeq(chunk, 1, n)
    OBVIOUS
  <2>2. more \in Seq(Cell) /\ Len(more) = n /\ \A j \in 1..n : more[j] = chunk[j]
    <3>1. n \in 0..Len(chunk)
      BY <1>5, <1>8
    <3>2. QED
      BY <1>5, <2>1, <3>1, FirstOf
  <2>3. /\ \A j \in 1..Len(more) : more[j] = disk[Tell + j]
        /\ Len(more) > 0 /\ Len(more) <= Missing /\ Tell + Len(more) <= Len(disk)
        /\ call' = [call EXCEPT !.got = call.got \o more]
    <3>1. \A j \in 1..n : j \in 1..Len(chunk)
      BY <1>5, <1>8
    <3>2. n > 0 /\ n <= Missing /\ Tell + n <= Len(disk)
      BY <1>5, <1>7, <1>8, <1>14
    <3>3. QED
      BY <1>5, <1>14, <2>1, <2>2, <3>1, <3>2
  <2>4. call'.part = call.part /\ Missing' = Missing - n
    BY <1>2, <2>2, <2>3, CallGrows
  <2>5. Missing' # 0 => n = Len(chunk)
    BY <1>6, <1>8, <2>4
  <2>6. n = Len(chunk) => ahead' = <<>> /\ Len(ahead') = 0
    BY <1>5, <1>9
  <2>7. bufferSize # 0
    BY <1>2, <1>7
  <2>8. /\ Tell' + Len(ahead') = pos' /\ Len(ahead') <= pos' /\ Tell' \in Nat
        /\ \A j \in 1..Len(ahead') : ahead'[j] = disk[Tell' + j]
        /\ call' \in Call /\ CallInv'
    <3>1. CASE status = "io"
      <4>1. n = Len(chunk) /\ n < Missing
        BY <1>6, <1>8, <1>14, <3>1
      <4>2. ahead' = <<>> /\ Len(ahead') = 0
        BY <2>6, <4>1
      <4>3. pos' = pos /\ ahead = <<>>
        BY <1>5, <1>10, <3>1
      <4>4. Tell' = Tell /\ Tell = pos
        BY <1>7, <4>2, <4>3 DEF Tell
      <4>5. doubled'
        BY <1>3, <1>4, <1>14, <3>1
      <4>6. call' \in Call /\ CallInv'
        BY <1>1, <1>2, <1>7, <1>14, <2>2, <2>3, <4>1, <4>2, <4>4, <4>5, SkewedGoesOn
      <4>7. QED
        BY <1>7, <4>2, <4>3, <4>4, <4>6
    <3>2. CASE status # "io"
      <4>1. pos' - Len(ahead') = Tell + n /\ Len(ahead') <= pos'
        BY <1>5, <1>7, <1>8, <1>9, <1>10, <3>2
      <4>2. Tell' = Tell + n
        BY <4>1 DEF Tell
      <4>3. ASSUME NEW j \in 1..Len(ahead')
            PROVE  ahead'[j] = disk[Tell' + j]
        <5>1. j \in 1..(Len(chunk) - n)
          BY <1>9
        <5>2. n + j \in 1..Len(chunk) /\ Tell + (n + j) = Tell + n + j
          BY <1>5, <1>7, <1>8, <5>1
        <5>3. QED
          BY <1>5, <1>9, <4>2, <5>1, <5>2
      <4>4. ASSUME Straight
            PROVE  call' \in Call /\ CallInv'
        <5>1. Tell' = Tell + Len(more) /\ error' = error /\ offset' = offset /\ bufferSize' = bufferSize
          BY <1>2, <1>14, <2>2, <4>2
        <5>2. QED
          BY <1>1, <1>2, <2>2, <2>3, <2>7, <4>4, <5>1, CallGoesOn
      <4>5. ASSUME Skewed
            PROVE  call' \in Call /\ CallInv'
        <5>1. doubled'
          BY <1>3, <4>5 DEF Skewed
        <5>2. Tell' = Tell + Len(more) /\ error' = error /\ offset' = offset /\ bufferSize' = bufferSize
          BY <1>2, <1>14, <2>2, <4>2
        <5>3. bufferSize \in Nat /\ (Missing' # 0 => ahead' = <<>>)
          BY <1>7, <2>5, <2>6
        <5>4. QED
          BY <1>1, <1>2, <2>2, <2>3, <4>5, <5>1, <5>2, <5>3, SkewedGoesOn
      <4>6. call' \in Call /\ CallInv'
        BY <1>6, <4>4, <4>5
      <4>7. Tell' \in Nat /\ Tell' + Len(ahead') = pos'
        BY <1>5, <1>7, <1>8, <1>9, <1>10, <3>2, <4>2
      <4>8. QED
        BY <4>1, <4>3, <4>6, <4>7
    <3>3. QED
      BY <3>1, <3>2
  <2>9. StreamInv'
    BY <1>1, <1>2, <1>11, <2>7, <2>8 DEF StreamInv
  <2>10. ReaderTypes'
    BY <1>2, <1>9, <1>11, <1>12, <1>14, <2>8 DEF ReaderTypes
  <2>11. PlaceInv'
    BY <1>1, <1>2, SamePlace
  <2>12. DataLossJustified'
    BY <1>6, <1>14 DEF DataLossJustified
  <2>13. QED
    BY <1>1, <2>8, <2>9, <2>10, <2>11, <2>12
<1>15. QED
  BY <1>3, <1>4, <1>13, <1>14

\* ReadNBytes of the RandomAccessInputStream.
LEMMA ReadUnbufferedInv ==
  ASSUME OnTrack, UNCHANGED <<disk, writerVars>>, ReadUnbuffered
  PROVE  OnTrack'
<1> USE DEF OnTrack, ReaderInv
<1>1. WriterInv' /\ disk' = disk /\ log' = log /\ ends' = ends /\ torn' = torn
  BY WriterSame
<1>2. /\ bufferSize = 0 /\ Missing > 0
      /\ UNCHANGED <<bufferSize, offset, ahead, fileStatus, delivered, doubled, misplaced>>
  BY DEF ReadUnbuffered
<1>3. PICK r \in Answers(Missing) :
        /\ pos' = IF r.status = "io" THEN pos ELSE pos + Len(r.data)
        /\ \/ r.status # "ok" /\ Fail(r.status)
           \/ r.status = "ok" /\ call' = [call EXCEPT !.got = r.data] /\ UNCHANGED <<failed, error>>
  BY DEF ReadUnbuffered
<1>4. PICK chunk, status : chunk = r.data /\ status = r.status
  OBVIOUS
<1>5. /\ Missing \in Nat /\ call.part # "none" /\ Missing = call.want - Len(call.got)
      /\ error = "none" /\ (Straight \/ Skewed)
  BY <1>2, CallRuns
<1>6. Straight
  <2>1. ~(bufferSize > 0)
    BY <1>2
  <2>2. QED
    BY <1>5, <2>1 DEF Skewed
<1>7. /\ disk \in Seq(Cell) /\ Len(disk) \in Nat /\ pos \in Nat /\ pos <= Len(disk)
      /\ ahead = <<>> /\ Len(ahead) = 0 /\ fileStatus \in Statuses
  BY <1>2, ReaderFacts DEF StreamInv, ReaderTypes
<1>8. Tell = pos /\ (pos' \in Nat => Tell' = pos')
  BY <1>2, <1>7 DEF Tell
<1>9. call.got \in Seq(Cell) /\ Len(call.got) = 0 /\ call.got = <<>>
  <2>1. Len(call.got) \in {0, call.want}
    BY <1>2, <1>5 DEF CallInv
  <2>2. call.got \in Seq(Cell) /\ Len(call.got) \in Nat
    BY ReaderFacts
  <2>3. Len(call.got) # call.want
    BY <1>2, <1>5, <2>2
  <2>4. QED
    BY <2>1, <2>2, <2>3
<1>10. /\ status \in Statuses /\ chunk \in Seq(Cell) /\ Len(chunk) \in Nat /\ Len(chunk) <= Missing
       /\ pos + Len(chunk) <= Len(disk)
       /\ \A i \in 1..Len(chunk) : chunk[i] = disk[pos + i]
       /\ status = "ok" <=> Len(chunk) = Missing
  <2>1. r \in Read(pos, Missing)
    BY <1>3 DEF Answers
  <2>2. Missing \in Nat \ {0}
    BY <1>2, <1>5
  <2>3. QED
    BY <1>4, <1>7, <2>1, <2>2, ReadFacts
<1>11. pos' \in Nat /\ pos' <= Len(disk)
  BY <1>3, <1>4, <1>7, <1>10
<1>12. CASE status # "ok" /\ Fail(status)
  <2>1. status \in {"eof", "io"} /\ ahead' = <<>> /\ ahead' \in Seq(Cell) /\ fileStatus' \in Statuses
    BY <1>2, <1>7, <1>10, <1>12 DEF Statuses
  <2>2. QED
    BY <1>2, <1>11, <1>12, <2>1, FailInv
<1>13. CASE status = "ok" /\ call' = [call EXCEPT !.got = chunk] /\ error' = error
  <2>1. call.got \o chunk = chunk
    BY <1>9, <1>10, ConcatEmptySeq
  <2>2. Len(chunk) = Missing
    BY <1>10, <1>13
  <2>3. call' = [call EXCEPT !.got = call.got \o chunk]
    BY <1>13, <2>1
  <2>4. pos' = pos + Len(chunk)
    BY <1>3, <1>4, <1>13
  <2>5. Tell' = Tell + Len(chunk) /\ \A j \in 1..Len(chunk) : chunk[j] = disk[Tell + j]
    BY <1>8, <1>10, <1>11, <2>4
  <2>6. call' \in Call /\ CallInv'
    BY <1>1, <1>2, <1>6, <1>9, <1>10, <1>13, <2>2, <2>3, <2>5, CallGoesOn
  <2>7. StreamInv'
    BY <1>1, <1>2, <1>7, <1>11 DEF StreamInv
  <2>8. ReaderTypes'
    BY <1>2, <1>11, <1>13, <2>6 DEF ReaderTypes
  <2>9. PlaceInv'
    BY <1>1, <1>2, SamePlace
  <2>10. DataLossJustified'
    BY <1>5, <1>13 DEF DataLossJustified
  <2>11. QED
    BY <1>1, <2>6, <2>7, <2>8, <2>9, <2>10
<1>14. QED
  BY <1>3, <1>4, <1>12, <1>13

\* Check finds fault with a header or with data only in a file that is torn, or
\* after an I/O error.
LEMMA CheckFailsInv ==
  ASSUME OnTrack, UNCHANGED <<disk, writerVars>>, call # Idle, Missing = 0,
         UNCHANGED <<bufferSize, pos, ahead, fileStatus, readErrors, doubled, misplaced, offset, delivered>>,
         Fail("corrupted"), torn \/ doubled
  PROVE  OnTrack'
<1> USE DEF OnTrack, ReaderInv
<1>1. WriterInv' /\ disk' = disk /\ log' = log /\ ends' = ends /\ torn' = torn
  BY WriterSame
<1>2. call' = Idle /\ error' = "corrupted"
  BY DEF Fail
<1>3. StreamInv'
  <2>1. call.part # "none"
    BY CallDone
  <2>2. ~Loose
    BY <2>1 DEF Loose
  <2>3. Tell' = Tell
    BY DEF Tell
  <2>4. QED
    BY <1>1, <2>2, <2>3 DEF StreamInv
<1>4. ReaderTypes'
  BY <1>2, CallValues DEF ReaderTypes, Errors
<1>5. CallInv'
  BY <1>2, CallValues DEF CallInv
<1>6. PlaceInv'
  BY <1>1, SamePlace
<1>7. DataLossJustified'
  BY <1>1, <1>2 DEF DataLossJustified
<1>8. QED
  BY <1>1, <1>3, <1>4, <1>5, <1>6, <1>7

\* A header that is right tells how much data to read.
LEMMA CheckHeaderInv ==
  ASSUME OnTrack, UNCHANGED <<disk, writerVars>>, call.part = "header", Missing = 0,
         UNCHANGED <<bufferSize, pos, ahead, fileStatus, readErrors, doubled, misplaced>>,
         UNCHANGED <<failed, offset, delivered, error>>,
         call.got[2] = Crc(<<call.got[1]>>),
         NEW length \in DecodeFixed64(call.got[1]), call' = Reading("data", length + 1)
  PROVE  OnTrack'
<1> USE DEF OnTrack, ReaderInv
<1>1. WriterInv' /\ disk' = disk /\ log' = log /\ ends' = ends /\ torn' = torn
  BY WriterSame
<1>2. /\ call.got[1] = disk[offset + 1] /\ call.got[1] \in LengthCell
      /\ offset + 2 <= Len(disk) /\ call.got[2] = disk[offset + 2] /\ Tell = offset + 2
  BY HeaderRead
<1>3. PICK m \in Sizes : call.got[1] = <<"length", m>>
  BY <1>2, CellKinds
<1>4. length = m
  BY <1>3 DEF DecodeFixed64
<1>5. m \in Nat /\ m + 1 \in Nat
  BY EventsAssumption DEF Sizes
<1>6. call' \in Call /\ call'.part = "data" /\ call'.want = m + 1 /\ call'.got = <<>> /\ Len(call'.got) = 0
  BY <1>4, <1>5, CallValues
<1>7. Tell' = Tell /\ Base' = offset + 2 /\ error = "none" /\ offset \in Nat
  BY <1>6, ReaderFacts DEF Tell, Base, HeaderSize, CallInv
<1>8. StreamInv'
  <2>1. ~Loose
    BY DEF Loose
  <2>2. QED
    BY <1>1, <1>7, <2>1 DEF StreamInv
<1>9. CallInv'
  <2>1. call'.want - 1 = m /\ 0 <= call'.want
    BY <1>5, <1>6
  <2>2. Tell' = Base' + Len(call'.got) /\ Base' <= Len(disk')
    <3>1. offset + 2 = offset + 2 + 0
      BY <1>7
    <3>2. QED
      BY <1>1, <1>2, <1>6, <1>7, <3>1
  <2>3. Straight'
    BY <1>6, <2>2 DEF Straight
  <2>4. disk'[offset' + 1] = <<"length", m>> /\ disk'[offset' + 2] = Crc(<<disk'[offset' + 1]>>)
    BY <1>1, <1>2, <1>3
  <2>5. Len(call'.got) \in {0, call'.want} /\ Len(call'.got) <= call'.want
    BY <1>6, <2>1
  <2>6. call'.part # "none" /\ call'.part # "header"
    BY <1>6
  <2>7. QED
    BY <1>7, <2>1, <2>2, <2>3, <2>4, <2>5, <2>6 DEF CallInv
<1>10. ReaderTypes'
  BY <1>6 DEF ReaderTypes
<1>11. PlaceInv'
  BY <1>1, SamePlace
<1>12. DataLossJustified'
  BY <1>7 DEF DataLossJustified
<1>13. QED
  BY <1>1, <1>8, <1>9, <1>10, <1>11, <1>12

\* The next event is returned.
LEMMA CheckDataInv ==
  ASSUME OnTrack, UNCHANGED <<disk, writerVars>>, call.part = "data",
         UNCHANGED <<bufferSize, pos, ahead, fileStatus, readErrors, doubled, misplaced>>,
         UNCHANGED <<failed, error>>, call' = Idle,
         NEW data, NEW n \in Nat, NextEvent(data, n),
         delivered' = Append(delivered, data), offset' = offset + RecordSize(n)
  PROVE  /\ OnTrack'
         /\ Len(delivered) < Durable /\ delivered' = Append(delivered, log[Len(delivered) + 1])
<1> USE DEF OnTrack, ReaderInv
<1>1. WriterInv' /\ disk' = disk /\ log' = log /\ ends' = ends /\ torn' = torn
  BY WriterSame
<1>2. error = "none" /\ Tell' = Tell /\ ~Loose
  BY DEF CallInv, Tell, Loose
<1>3. StreamInv'
  BY <1>1, <1>2 DEF StreamInv
<1>4. /\ Len(delivered) < Len(log) /\ data = log[Len(delivered) + 1] /\ data \in Datum
      /\ offset' = ends[Len(delivered) + 1] /\ ends[Len(delivered) + 1] <= Len(disk)
  BY DEF NextEvent
<1>5. Len(delivered) \in Nat /\ delivered \in Seq(Datum) /\ Len(log) \in Nat
  BY ReaderFacts, DeliveredDurable
<1>6. PICK k : k = Len(delivered) + 1
  OBVIOUS
<1>7. k \in 1..Len(log) /\ k \in Nat /\ k # 0
  BY <1>4, <1>5, <1>6
<1>8. /\ delivered' \in Seq(Datum) /\ Len(delivered') = k /\ delivered'[k] = data
      /\ \A i \in 1..Len(delivered) : delivered'[i] = delivered[i]
  BY <1>4, <1>5, <1>6, AppendProperties
<1>9. ends[k] \in Nat /\ offset' = ends[k] /\ ends[k] <= Len(disk) /\ data = log[k]
  BY <1>4, <1>6, <1>7, EndFacts DEF WriterInv
<1>10. \A i \in 1..k : delivered'[i] = log[i]
  <2>1. \A i \in 1..k : i \in 1..Len(delivered) \/ i = k
    BY <1>5, <1>6
  <2>2. QED
    BY <1>8, <1>9, <2>1 DEF PlaceInv
<1>11. k <= Len(log)
  BY <1>5, <1>7
<1>12. PlaceInv'
  <2>1. End(Len(delivered))' = ends[k]
    BY <1>1, <1>7, <1>8 DEF End, EndOf
  <2>2. QED
    BY <1>1, <1>8, <1>9, <1>10, <1>11, <2>1 DEF PlaceInv
<1>13. ReaderTypes'
  BY <1>8, <1>9, CallValues DEF ReaderTypes
<1>14. CallInv'
  BY CallValues DEF CallInv
<1>15. DataLossJustified'
  BY <1>2 DEF DataLossJustified
<1>16. k <= Durable /\ Durable \in Nat
  BY <1>5, <1>7, <1>9, DurableFacts DEF WriterInv
<1>17. Len(delivered) < Durable
  BY <1>5, <1>6, <1>16
<1>18. QED
  BY <1>1, <1>3, <1>4, <1>12, <1>13, <1>14, <1>15, <1>17

\* Check returns the next event, which is on the disk, or none; or, the whole log
\* having been returned, what follows a bare header.
LEMMA CheckInv ==
  ASSUME OnTrack, UNCHANGED <<disk, writerVars>>, Check
  PROVE  \/ OnTrack' /\ delivered' = delivered
         \/ /\ OnTrack'
            /\ Len(delivered) < Durable /\ delivered' = Append(delivered, log[Len(delivered) + 1])
         \/ /\ bare /\ Len(delivered) = Len(log)
            /\ \E data : delivered' = Append(delivered, data)
<1>1. PICK n : n = call.want - 1
  OBVIOUS
<1>2. PICK data : data = SubSeq(call.got, 1, n)
  OBVIOUS
<1>3. /\ call # Idle /\ Missing = 0
      /\ UNCHANGED <<bufferSize, pos, ahead, fileStatus, readErrors, doubled, misplaced>>
  BY DEF Check
<1>4. /\ call.part \in {"header", "data"} /\ call.got \in Seq(Cell) /\ call.want \in Nat
      /\ Straight \/ Skewed
      /\ Skewed => doubled
  BY <1>3, CallDone, ReaderFacts
<1>5. ASSUME call.part = "header"
      PROVE  /\ n = 1 /\ data = <<call.got[1]>> /\ data[1] = call.got[1] /\ n + 1 = 2
             /\ call.got[2] = Crc(<<call.got[1]>>) \/ torn \/ doubled
  <2>1. /\ Len(call.got) = 2 /\ call.want = 2 /\ call.got[1] \in LengthCell
        /\ call.got[2] = Crc(<<call.got[1]>>) \/ torn \/ doubled
    BY <1>3, <1>5, HeaderRead
  <2>2. n = 1 /\ n + 1 = 2
    BY <1>1, <2>1
  <2>3. data = <<call.got[1]>> /\ data[1] = call.got[1]
    <3>1. 1 \in 0..Len(call.got) /\ data = SubSeq(call.got, 1, 1)
      BY <1>2, <2>1, <2>2
    <3>2. data \in Seq(Cell) /\ Len(data) = 1 /\ data[1] = call.got[1]
      BY <1>4, <3>1, FirstOf
    <3>3. call.got[1] \in Cell
      BY <2>1 DEF Cell
    <3>4. PICK c \in Cell : c = call.got[1]
      BY <3>3
    <3>5. <<c>> \in Seq(Cell) /\ Len(<<c>>) = 1 /\ <<c>>[1] = c
      OBVIOUS
    <3>6. \A i \in 1..Len(data) : data[i] = <<c>>[i]
      BY <3>2, <3>4
    <3>7. data = <<c>>
      BY <3>2, <3>5, <3>6, SeqEqual
    <3>8. QED
      BY <3>2, <3>4, <3>7
  <2>4. QED
    BY <2>1, <2>2, <2>3
<1>6. ASSUME call.part = "data"
      PROVE  /\ n \in Nat
             /\ call.got[n + 1] = Crc(data) =>
                  NextEvent(data, n) \/ (bare /\ Len(delivered) = Len(log))
             /\ call.got[n + 1] = Crc(data) \/ torn \/ doubled
  <2>1. n \in Sizes
    BY <1>1, <1>6 DEF OnTrack, ReaderInv, CallInv
  <2>2. n \in Nat /\ call.want = n + 1
    BY <1>1, <1>4, <2>1, EventsAssumption DEF Sizes
  <2>3. CASE Straight
    BY <1>2, <1>3, <1>6, <2>2, <2>3, StraightData
  <2>4. CASE Skewed
    BY <1>2, <1>3, <1>4, <1>6, <2>2, <2>4, SkewedData
  <2>5. QED
    BY <1>4, <2>3, <2>4
<1>7. \/ call.got[n + 1] # Crc(data) /\ Fail("corrupted") /\ UNCHANGED <<offset, delivered>>
      \/ /\ call.got[n + 1] = Crc(data) /\ call.part = "header"
         /\ \E length \in DecodeFixed64(data[1]) : call' = Reading("data", length + 1)
         /\ UNCHANGED <<failed, offset, delivered, error>>
      \/ /\ call.got[n + 1] = Crc(data) /\ call.part = "data"
         /\ delivered' = Append(delivered, data)
         /\ offset' = offset + RecordSize(n)
         /\ call' = Idle
         /\ UNCHANGED <<failed, error>>
  BY <1>1, <1>2 DEF Check, ChecksumOk, FooterSize
<1>8. CASE call.got[n + 1] # Crc(data) /\ Fail("corrupted") /\ UNCHANGED <<offset, delivered>>
  <2>1. torn \/ doubled
    BY <1>4, <1>5, <1>6, <1>8
  <2>2. OnTrack'
    BY <1>3, <1>8, <2>1, CheckFailsInv
  <2>3. QED
    BY <1>8, <2>2
<1>9. CASE /\ call.got[n + 1] = Crc(data) /\ call.part = "header"
           /\ \E length \in DecodeFixed64(data[1]) : call' = Reading("data", length + 1)
           /\ UNCHANGED <<failed, offset, delivered, error>>
  <2>1. call.got[2] = Crc(<<call.got[1]>>) /\ data[1] = call.got[1]
    BY <1>5, <1>9
  <2>2. PICK length \in DecodeFixed64(call.got[1]) : call' = Reading("data", length + 1)
    BY <1>9, <2>1
  <2>3. OnTrack'
    BY <1>3, <1>9, <2>1, <2>2, CheckHeaderInv
  <2>4. QED
    BY <1>9, <2>3
<1>10. CASE /\ call.got[n + 1] = Crc(data) /\ call.part = "data"
            /\ delivered' = Append(delivered, data)
            /\ offset' = offset + RecordSize(n)
            /\ call' = Idle
            /\ UNCHANGED <<failed, error>>
  <2>1. CASE NextEvent(data, n)
    BY <1>3, <1>6, <1>10, <2>1, CheckDataInv
  <2>2. CASE bare /\ Len(delivered) = Len(log)
    BY <1>10, <2>2
  <2>3. QED
    BY <1>6, <1>10, <2>1, <2>2
<1>11. QED
  BY <1>7, <1>8, <1>9, <1>10

-----------------------------------------------------------------------------
(* The theorems *)

\* The empty file, before anything is written.
LEMMA InitInv ==
  ASSUME Init
  PROVE  Inv
<1>1. /\ disk = <<>> /\ buffer = <<>> /\ at = "new" /\ made = 0 /\ log = <<>> /\ ends = <<>>
      /\ torn = FALSE /\ bare = FALSE /\ promised = 0 /\ outstanding = 0
      /\ bufferSize \in Nat /\ offset = 0 /\ failed = FALSE /\ pos = 0 /\ ahead = <<>>
      /\ fileStatus = "ok"
      /\ call = Idle /\ delivered = <<>> /\ error = "none"
  BY ReaderAssumption DEF Init, WriterInit, ReaderInit
<1>2. \A S : <<>> \in Seq(S)
  OBVIOUS
<1>3. Len(<<>>) = 0
  OBVIOUS
<1>4. WriterTypes
  BY <1>1, <1>2, <1>3 DEF WriterTypes, Places
<1>5. ReaderTypes
  BY <1>1, <1>2, CallValues DEF ReaderTypes, Statuses, Errors
<1>6. Len(File) = 0 /\ Len(log) = 0 /\ LogEnd = 0 /\ Len(disk) = 0 /\ Len(delivered) = 0 /\ Len(ahead) = 0
  BY <1>1, <1>3, <1>4, FileFacts DEF LogEnd, End, EndOf
<1>7. EndsInv /\ PromisedInv /\ RecordsInv
  BY <1>1, <1>6 DEF EndsInv, PromisedInv, RecordsInv
<1>8. TailInv
  BY <1>1, <1>6 DEF TailInv
<1>9. PlaceInv
  BY <1>1, <1>6 DEF PlaceInv, End, EndOf
<1>10. StreamInv
  BY <1>1, <1>6 DEF StreamInv
<1>11. CallInv
  BY <1>1, CallValues DEF CallInv
<1>12. DataLossJustified
  BY <1>1 DEF DataLossJustified
<1>13. Listed
  <2>1. delivered \in Seq({})
    BY <1>1, <1>2
  <2>2. QED
    BY <2>1 DEF Listed
<1>14. QED
  BY <1>4, <1>5, <1>7, <1>8, <1>9, <1>10, <1>11, <1>12, <1>13 DEF Inv, WriterInv, ReaderInv

\* The reader only adds to what it has got.
LEMMA AppendListed ==
  ASSUME Listed, NEW x, delivered' = Append(delivered, x)
  PROVE  /\ Listed' /\ Len(delivered) \in Nat /\ Len(delivered') = Len(delivered) + 1
         /\ SubSeq(delivered', 1, Len(delivered)) = delivered
<1>1. PICK S : delivered \in Seq(S)
  BY DEF Listed
<1>2. PICK T : T = S \cup {x}
  OBVIOUS
<1>3. S \subseteq T /\ x \in T
  BY <1>2
<1>4. delivered \in Seq(T)
  BY <1>1, <1>3
<1>5. /\ delivered' \in Seq(T) /\ Len(delivered') = Len(delivered) + 1
      /\ \A i \in 1..Len(delivered) : delivered'[i] = delivered[i]
  BY <1>3, <1>4, AppendProperties
<1>6. PICK l, u : l = delivered' /\ u = SubSeq(l, 1, Len(delivered))
  OBVIOUS
<1>7. Len(delivered) \in Nat /\ Len(delivered) \in 0..Len(l)
  BY <1>4, <1>5, <1>6
<1>8. u \in Seq(T) /\ Len(u) = Len(delivered) /\ \A k \in 1..Len(delivered) : u[k] = l[k]
  BY <1>5, <1>6, <1>7, FirstOf
<1>9. u = delivered
  BY <1>4, <1>5, <1>6, <1>8, SeqEqual
<1>10. Listed'
  BY <1>5 DEF Listed
<1>11. QED
  BY <1>5, <1>6, <1>7, <1>9, <1>10

\* Check alone returns records, and a reader that is misplaced remains so.
LEMMA ReaderShape ==
  ASSUME ReadRecord \/ Resume
  PROVE  /\ delivered' = delivered \/ (Check /\ misplaced' = misplaced /\ \E x : delivered' = Append(delivered, x))
         /\ misplaced => misplaced'
<1>1. CASE Position \/ PositionFails \/ ReadBuffered \/ ReadUnbuffered \/ Resume
  <2>1. delivered' = delivered
    BY <1>1 DEF Position, PositionFails, ReadBuffered, ReadUnbuffered, Resume
  <2>2. misplaced' = misplaced \/ misplaced' = (misplaced \/ Uncounted)
    BY <1>1 DEF Position, PositionFails, ReadBuffered, ReadUnbuffered, Resume
  <2>3. misplaced => misplaced'
    BY <2>2, Zenon
  <2>4. QED
    BY <2>1, <2>3
<1>2. CASE Check
  <2>1. misplaced' = misplaced
    BY <1>2 DEF Check
  <2>2. delivered' = delivered \/ \E x : delivered' = Append(delivered, x)
    BY <1>2 DEF Check
  <2>3. QED
    BY <1>2, <2>1, <2>2
<1>3. QED
  BY <1>1, <1>2 DEF ReadRecord

\* Every step of the reader keeps the invariant.
LEMMA ReaderStepInv ==
  ASSUME Inv, UNCHANGED <<disk, writerVars>>, ReadRecord \/ Resume
  PROVE  Inv'
<1> USE DEF Inv
<1>1. WriterInv' /\ log' = log /\ bare' = bare
  BY WriterSame
<1>2. misplaced => misplaced'
  BY ReaderShape
<1>3. Len(delivered) \in Nat /\ Listed' /\ Len(delivered') \in Nat /\ Len(delivered) <= Len(delivered')
  <2>1. Len(delivered) \in Nat
    <3>1. PICK S : delivered \in Seq(S)
      BY DEF Listed
    <3>2. QED
      BY <3>1
  <2>2. CASE delivered' = delivered
    BY <2>1, <2>2 DEF Listed
  <2>3. ASSUME NEW x, delivered' = Append(delivered, x)
        PROVE  Listed' /\ Len(delivered') = Len(delivered) + 1
    BY <2>3, AppendListed
  <2>4. QED
    BY <2>1, <2>2, <2>3, ReaderShape
<1>4. CASE Astray
  <2>1. Len(log) \in Nat
    BY DEF WriterInv, WriterTypes
  <2>2. Len(delivered) > Len(log) => Len(delivered') > Len(log')
    BY <1>1, <1>3, <2>1
  <2>3. Astray'
    BY <1>1, <1>2, <1>4, <2>2 DEF Astray
  <2>4. QED
    BY <1>1, <1>3, <2>3
<1>5. CASE ReaderInv
  <2>1. OnTrack
    BY <1>5 DEF OnTrack
  <2>2. ASSUME OnTrack'
        PROVE  Inv'
    BY <1>3, <2>2 DEF OnTrack
  <2>3. CASE Position
    <3>1. OnTrack' \/ misplaced'
      BY <2>1, <2>3, PositionInv
    <3>2. misplaced' => Inv'
      BY <1>1, <1>3 DEF Astray
    <3>3. QED
      BY <2>2, <3>1, <3>2
  <2>4. CASE PositionFails \/ ReadBuffered \/ ReadUnbuffered \/ Resume
    BY <2>1, <2>2, <2>4, PositionFailsInv, ReadBufferedInv, ReadUnbufferedInv, ResumeInv
  <2>5. CASE Check
    <3>1. \/ OnTrack'
          \/ bare /\ Len(delivered) = Len(log) /\ \E x : delivered' = Append(delivered, x)
      BY <2>1, <2>5, CheckInv
    <3>2. ASSUME bare, Len(delivered) = Len(log), NEW x, delivered' = Append(delivered, x)
          PROVE  Astray'
      <4>1. Len(delivered') = Len(delivered) + 1
        BY <3>2, AppendListed
      <4>2. Len(delivered') > Len(log')
        BY <1>1, <1>3, <3>2, <4>1
      <4>3. QED
        BY <1>1, <3>2, <4>2 DEF Astray
    <3>3. QED
      BY <1>1, <1>3, <2>2, <3>1, <3>2
  <2>6. QED
    BY <2>3, <2>4, <2>5 DEF ReadRecord
<1>6. QED
  BY <1>4, <1>5

\* Every step keeps the invariant.
LEMMA NextInv ==
  ASSUME Inv, [Next]_vars
  PROVE  Inv'
<1> USE DEF Inv
<1>1. CASE WriterStep /\ UNCHANGED readerVars
  <2>1. /\ WriterInv' /\ (torn => Len(log') <= Len(log)) /\ (bare => bare')
        /\ Len(log') \in Nat
    BY <1>1, WriterStepFacts
  <2>2. delivered' = delivered /\ misplaced' = misplaced
    BY <1>1 DEF readerVars
  <2>3. Listed'
    BY <2>2 DEF Listed
  <2>4. CASE Astray
    <3>1. bare => torn
      BY DEF WriterInv, TailInv
    <3>2. Len(delivered) \in Nat /\ Len(log) \in Nat
      <4>1. PICK S : delivered \in Seq(S)
        BY DEF Listed
      <4>2. QED
        BY <4>1 DEF WriterInv, WriterTypes
    <3>3. bare /\ Len(delivered) > Len(log) => Len(delivered') > Len(log')
      BY <2>1, <2>2, <3>1, <3>2
    <3>4. Astray'
      BY <2>1, <2>2, <2>4, <3>3 DEF Astray
    <3>5. QED
      BY <2>1, <2>3, <3>4
  <2>5. CASE ReaderInv
    <3>1. OnTrack'
      BY <1>1, <2>5, WriterStepInv DEF OnTrack
    <3>2. QED
      BY <2>3, <3>1 DEF OnTrack
  <2>6. QED
    BY <2>4, <2>5
<1>2. CASE (ReadRecord \/ Resume) /\ UNCHANGED <<disk, writerVars>>
  BY <1>2, ReaderStepInv
<1>3. CASE UNCHANGED vars
  <2>1. UNCHANGED readerVars /\ UNCHANGED <<disk, writerVars>>
    BY <1>3 DEF vars
  <2>2. WriterInv' /\ disk' = disk /\ log' = log /\ ends' = ends /\ torn' = torn /\ bare' = bare
    BY <2>1, WriterSame
  <2>3. delivered' = delivered /\ misplaced' = misplaced
    BY <2>1 DEF readerVars
  <2>4. Listed' /\ (Astray => Astray')
    BY <2>2, <2>3 DEF Listed, Astray
  <2>5. ASSUME ReaderInv
        PROVE  ReaderInv'
    <3>1. OnTrack
      BY <2>5 DEF OnTrack
    <3>2. disk \in Seq(Cell) /\ Len(disk) \in Nat /\ Len(delivered) <= Len(log)
      BY <3>1, ReaderFacts DEF OnTrack, ReaderInv, PlaceInv
    <3>3. QED
      BY <2>1, <2>2, <3>1, <3>2, ReaderStays
  <2>6. QED
    BY <2>2, <2>4, <2>5
<1>4. QED
  BY <1>1, <1>2, <1>3 DEF Next, ReaderStep

\* The file holds the records of log, followed by a part of a record at most
\* unless an Append has failed, and the reader has of it what its offset, stream
\* and call say, until it goes astray.
THEOREM Invariance == Spec => []Inv
<1>1. Init => Inv
  BY InitInv
<1>2. Inv /\ [Next]_vars => Inv'
  BY NextInv
<1>3. QED
  BY <1>1, <1>2, PTL DEF Spec

\* All that Append had taken when a Flush of the EventsWriter returned OK is on
\* the disk, also after a crash, a failed fclose or the removal of the file.  An
\* event whose Append failed is not among it, although Flush returns OK.
THEOREM FlushedOnDiskHolds == Spec => []FlushedOnDisk
<1>1. Inv => FlushedOnDisk
  BY DEF Inv, WriterInv, PromisedInv, FlushedOnDisk
<1>2. QED
  BY <1>1, Invariance, PTL

\* ReadRecord returns "corrupted record" only for a file in which a failed Append
\* has left a part of a record, or when its buffer was filled twice from one
\* position after an I/O error, and "truncated record" only where there is a
\* header, for every buffer size, unless the reader has skipped within cells that
\* an I/O error left in its buffer.
THEOREM DataLossJustifiedHolds == Spec => []DataLossJustified
<1>1. Inv => DataLossJustified
  <2>1. SUFFICES ASSUME Inv
                 PROVE  DataLossJustified
    OBVIOUS
  <2>2. CASE Astray
    <3>1. bare => torn
      BY <2>1 DEF Inv, WriterInv, TailInv
    <3>2. QED
      BY <2>2, <3>1 DEF Astray, DataLossJustified
  <2>3. CASE ReaderInv
    BY <2>3 DEF ReaderInv
  <2>4. QED
    BY <2>1, <2>2, <2>3 DEF Inv
<1>2. QED
  BY <1>1, Invariance, PTL

-----------------------------------------------------------------------------
(* EventStream implements EventLog *)

\* The same events on the same disk
LEMMA SameDurable ==
  ASSUME UNCHANGED <<disk, log, ends>>
  PROVE  Durable' = Durable
BY DEF Durable

\* An event that has been written is not durable yet.
LEMMA WriteImplements ==
  ASSUME WriterInv, NEW d \in Datum, WriteRecord(d), disk' = disk,
         UNCHANGED <<delivered, misplaced>>
  PROVE  Log!Write \/ Log!Accident
<1>1. CASE log' = log /\ ends' = ends
  <2>1. Durable' = Durable
    BY <1>1, SameDurable
  <2>2. bare => bare'
    BY WriteRecordLog
  <2>3. QED
    BY <1>1, <2>1, <2>2 DEF Log!Accident
<1>2. CASE /\ log' = Append(log, d) /\ bare' = bare
           /\ ends' = Append(ends, Len(disk) + Len(buffer) + EncodedSize(d))
  <2>1. /\ log \in Seq(Datum) /\ Len(log) \in Nat /\ ends \in Seq(Nat) /\ Len(ends) = Len(log)
        /\ Len(disk) \in Nat /\ Len(buffer) \in Nat
    BY FileFacts DEF WriterInv, WriterTypes
  <2>2. PICK e : e = Len(disk) + Len(buffer) + EncodedSize(d)
    OBVIOUS
  <2>3. e \in Nat /\ ~(e <= Len(disk))
    BY <2>1, <2>2, DatumCells
  <2>4. /\ Len(log') = Len(log) + 1
        /\ ends'[Len(log) + 1] = e /\ \A k \in 1..Len(log) : ends'[k] = ends[k]
    BY <1>2, <2>1, <2>2, <2>3
  <2>5. SubSeq(log', 1, Len(log)) = log
    <3>1. log' \in Seq(Datum) /\ \A k \in 1..Len(log) : log'[k] = log[k]
      BY <1>2, <2>1
    <3>2. PICK l, u : l = log' /\ u = SubSeq(l, 1, Len(log))
      OBVIOUS
    <3>3. l \in Seq(Datum) /\ Len(log) \in 0..Len(l)
      BY <2>1, <2>4, <3>1, <3>2
    <3>4. u \in Seq(Datum) /\ Len(u) = Len(log) /\ \A k \in 1..Len(log) : u[k] = l[k]
      BY <3>2, <3>3, FirstOf
    <3>5. u = log
      BY <2>1, <3>1, <3>2, <3>4, SeqEqual
    <3>6. QED
      BY <3>2, <3>5
  <2>6. {k \in 1..Len(log') : ends'[k] <= Len(disk')} = {k \in 1..Len(log) : ends[k] <= Len(disk)}
    <3>1. PICK n \in Nat : n = Len(log)
      BY <2>1
    <3>2. ASSUME NEW k \in 1..(n + 1)
          PROVE  ends'[k] <= Len(disk) <=> k \in 1..n /\ ends[k] <= Len(disk)
      <4>1. k \in 1..n \/ k = n + 1
        OBVIOUS
      <4>2. QED
        BY <2>3, <2>4, <3>1, <4>1
    <3>3. \A k \in 1..n : k \in 1..(n + 1)
      OBVIOUS
    <3>4. Len(log') = n + 1 /\ disk' = disk
      BY <2>4, <3>1
    <3>5. QED
      BY <3>1, <3>2, <3>3, <3>4
  <2>7. Durable' = Durable
    BY <2>6 DEF Durable
  <2>8. QED
    BY <1>2, <2>4, <2>5, <2>7 DEF Log!Write
<1>3. QED
  BY <1>1, <1>2 DEF WriteRecord

\* Draining may make one event durable.
LEMMA DrainImplements ==
  ASSUME WriterInv, Drain, UNCHANGED readerVars
  PROVE  Log!Sync \/ UNCHANGED <<log, Durable, delivered, misplaced, bare>>
<1>1. /\ log' = log /\ ends' = ends /\ delivered' = delivered
      /\ misplaced' = misplaced /\ bare' = bare
  BY DEF Drain, readerVars
<1>2. disk \in Seq(Cell) /\ Len(disk) \in Nat /\ Len(log) \in Nat
  BY FileFacts, EndFacts DEF WriterInv, WriterTypes
<1>3. Len(disk') = Len(disk) + 1
  BY DrainInv
<1>4. PICK m, c : m = Len(disk') /\ c = Durable'
  OBVIOUS
<1>5. c = Cardinality({k \in 1..Len(log) : ends[k] <= m})
  BY <1>1, <1>4 DEF Durable
<1>6. /\ m \in Nat
      /\ \A k \in 1..Len(log) : ends[k] \in Nat
      /\ \A i, k \in 1..Len(log) : i < k => ends[i] < ends[k]
  BY <1>2, <1>3, <1>4, EndFacts DEF WriterInv, EndsInv
<1>7. c \in 0..Len(log) /\ \A k \in 1..Len(log) : ends[k] <= m <=> k <= c
  <2>1. PICK e, n : e = ends /\ n = Len(log)
    OBVIOUS
  <2>2. /\ n \in Nat /\ m \in Nat /\ c = Cardinality({k \in 1..n : e[k] <= m})
        /\ \A k \in 1..n : e[k] \in Nat
        /\ \A i, k \in 1..n : i < k => e[i] < e[k]
    BY <1>2, <1>5, <1>6, <2>1
  <2>3. c \in 0..n /\ \A k \in 1..n : e[k] <= m <=> k <= c
    BY <2>2, CountBelow
  <2>4. QED
    BY <2>1, <2>3
<1>8. Durable \in 0..Len(log) /\ \A k \in 1..Len(log) : ends[k] <= Len(disk) <=> k <= Durable
  BY DurableFacts DEF WriterInv
<1>9. Durable <= c
  <2>1. CASE Durable = 0
    BY <1>2, <1>7, <2>1
  <2>2. CASE Durable \in 1..Len(log)
    <3>1. PICK k \in 1..Len(log) : k = Durable
      BY <2>2
    <3>2. ends[k] <= Len(disk) /\ ends[k] \in Nat
      BY <1>6, <1>8, <3>1
    <3>3. ends[k] <= m
      BY <1>2, <1>3, <1>4, <3>2
    <3>4. QED
      BY <1>7, <3>1, <3>3
  <2>3. QED
    BY <1>2, <1>8, <2>1, <2>2
<1>10. c = Durable \/ c \in (Durable + 1)..Len(log)
  BY <1>2, <1>7, <1>8, <1>9
<1>11. QED
  BY <1>1, <1>4, <1>10 DEF Log!Sync

\* What was not durable is lost.
LEMMA LeaveImplements ==
  ASSUME WriterInv, Leave, UNCHANGED readerVars
  PROVE  Log!Lose
<1>1. /\ log' = SubSeq(log, 1, Durable) /\ disk' = disk /\ delivered' = delivered
      /\ misplaced' = misplaced /\ bare' = bare
  BY DEF Leave, readerVars
<1>2. Len(log') = Durable /\ \A k \in 1..Durable : ends'[k] = ends[k]
  BY LeaveInv
<1>3. Durable \in 0..Len(log) /\ \A k \in 1..Len(log) : ends[k] <= Len(disk) <=> k <= Durable
  BY DurableFacts DEF WriterInv
<1>4. Len(log) \in Nat
  BY EndFacts DEF WriterInv
<1>5. {k \in 1..Len(log') : ends'[k] <= Len(disk')} = {k \in 1..Len(log) : ends[k] <= Len(disk)}
  <2>1. PICK m \in Nat : m = Durable
    BY <1>3, <1>4
  <2>2. \A k \in 1..Len(log) : ends[k] <= Len(disk) <=> k \in 1..m
    BY <1>3, <1>4, <2>1
  <2>3. \A k \in 1..m : k \in 1..Len(log)
    BY <1>3, <1>4, <2>1
  <2>4. QED
    BY <1>1, <1>2, <2>1, <2>2, <2>3
<1>6. Durable' = Durable
  BY <1>5 DEF Durable
<1>7. QED
  BY <1>1, <1>6 DEF Log!Lose

\* A step of the reader returns nothing, or the next event that is durable; or it
\* loses its place, or returns something else because it has lost it or because
\* of a bare header behind the log.
LEMMA ReaderImplements ==
  ASSUME Inv, UNCHANGED <<disk, writerVars>>, ReadRecord \/ Resume
  PROVE  Log!Deliver \/ Log!Accident \/ Log!Misdeliver
<1>1. disk' = disk /\ log' = log /\ ends' = ends /\ bare' = bare
  BY DEF writerVars
<1>2. Durable' = Durable
  BY <1>1, SameDurable
<1>3. misplaced => misplaced'
  BY ReaderShape
<1>4. CASE delivered' = delivered
  BY <1>1, <1>2, <1>3, <1>4 DEF Log!Accident
<1>5. ASSUME Check, misplaced' = misplaced, NEW x, delivered' = Append(delivered, x)
      PROVE  Log!Deliver \/ Log!Accident \/ Log!Misdeliver
  <2>1. /\ Len(delivered') = Len(delivered) + 1 /\ Len(delivered) \in Nat
        /\ SubSeq(delivered', 1, Len(delivered)) = delivered
    BY <1>5, AppendListed DEF Inv
  <2>2. Len(log) \in Nat
    BY DEF Inv, WriterInv, WriterTypes
  <2>3. ASSUME misplaced \/ (bare /\ Len(delivered) >= Len(log))
        PROVE  Log!Misdeliver
    BY <1>1, <1>2, <1>5, <2>1, <2>3 DEF Log!Misdeliver
  <2>4. CASE Astray
    BY <2>1, <2>2, <2>3, <2>4 DEF Astray
  <2>5. CASE ReaderInv
    <3>1. OnTrack
      BY <2>5 DEF OnTrack, Inv
    <3>2. \/ delivered' = delivered
          \/ Len(delivered) < Durable /\ delivered' = Append(delivered, log[Len(delivered) + 1])
          \/ bare /\ Len(delivered) = Len(log)
      BY <1>5, <3>1, CheckInv
    <3>3. CASE Len(delivered) < Durable /\ delivered' = Append(delivered, log[Len(delivered) + 1])
      BY <1>1, <1>2, <1>5, <3>3 DEF Log!Deliver
    <3>4. CASE bare /\ Len(delivered) = Len(log)
      <4>1. Len(delivered) >= Len(log)
        BY <2>2, <3>4
      <4>2. QED
        BY <2>3, <3>4, <4>1
    <3>5. QED
      BY <1>4, <3>2, <3>3, <3>4
  <2>6. QED
    BY <2>4, <2>5 DEF Inv
<1>6. QED
  BY <1>4, <1>5, ReaderShape

\* The writer and the reader implement EventLog, whose log is what a reader can
\* get at, and of which as much is durable as is on the disk: the reader gets the
\* events in order, none twice, and none that is not on the disk, also when the
\* file is torn, until it skips within cells that an I/O error left in its buffer,
\* or has got the whole log and finds a bare header of an event of one cell.
THEOREM ImplementsLogHolds == Spec => ImplementsLog
<1>1. Init => Log!Init
  <2>1. SUFFICES ASSUME Init
                 PROVE  Log!Init
    OBVIOUS
  <2>2. log = <<>> /\ delivered = <<>> /\ misplaced = FALSE /\ bare = FALSE
    BY <2>1 DEF Init, WriterInit, ReaderInit
  <2>3. Len(log) = 0
    BY <2>2
  <2>4. Durable = Cardinality({})
    BY <2>3 DEF Durable
  <2>5. QED
    BY <2>2, <2>4, FS_EmptySet DEF Log!Init
<1>2. Inv /\ [Next]_vars => [Log!Next]_(Log!vars)
  <2>1. SUFFICES ASSUME Inv, [Next]_vars
                 PROVE  Log!Next \/ UNCHANGED <<log, Durable, delivered, misplaced, bare>>
    BY DEF Log!vars
  <2>2. made \in Nat /\ WriterInv
    BY <2>1 DEF Inv, WriterInv, WriterTypes
  <2>3. ASSUME WriterStep, UNCHANGED readerVars
        PROVE  Log!Next \/ UNCHANGED <<log, Durable, delivered, misplaced, bare>>
    <3>1. delivered' = delivered /\ misplaced' = misplaced
      BY <2>3 DEF readerVars
    <3>2. ASSUME NEW n \in Sizes, WriteRecord(Data(n)), disk' = disk
          PROVE  Log!Next
      <4>1. Data(n) \in Datum
        BY <2>2, DataFacts
      <4>2. Log!Write \/ Log!Accident
        BY <2>2, <3>1, <3>2, <4>1, WriteImplements
      <4>3. QED
        BY <4>2 DEF Log!Next
    <3>3. CASE InitIfNeeded
      <4>1. VersionLength \in Sizes
        BY DEF Sizes
      <4>2. QED
        BY <3>2, <3>3, <4>1 DEF InitIfNeeded
    <3>4. ASSUME NEW n \in Lengths, WriteSerializedEvent(n)
          PROVE  Log!Next
      <4>1. n \in Sizes
        BY DEF Sizes
      <4>2. QED
        BY <3>2, <3>4, <4>1 DEF WriteSerializedEvent
    <3>5. CASE Flush \/ FlushReturns \/ SyncFails \/ Remove
      <4>1. UNCHANGED <<disk, log, ends, bare>>
        BY <3>5 DEF Flush, FlushReturns, SyncFails, Remove
      <4>2. QED
        BY <3>1, <4>1, SameDurable
    <3>6. CASE Drain
      BY <2>2, <2>3, <3>6, DrainImplements DEF Log!Next
    <3>7. CASE FClose \/ Crash
      <4>1. Leave
        BY <3>7 DEF FClose, Crash
      <4>2. QED
        BY <2>2, <2>3, <4>1, LeaveImplements DEF Log!Next
    <3>8. QED
      BY <2>3, <3>3, <3>4, <3>5, <3>6, <3>7 DEF WriterStep
  <2>4. CASE (ReadRecord \/ Resume) /\ UNCHANGED <<disk, writerVars>>
    BY <2>1, <2>4, ReaderImplements DEF Log!Next
  <2>5. CASE UNCHANGED vars
    <3>1. UNCHANGED <<disk, log, ends, delivered, misplaced, bare>>
      BY <2>5 DEF vars, readerVars, writerVars
    <3>2. QED
      BY <3>1, SameDurable
  <2>6. QED
    BY <2>1, <2>3, <2>4, <2>5 DEF Next, ReaderStep
<1>3. QED
  BY <1>1, <1>2, Invariance, PTL DEF Spec, ImplementsLog, Log!Spec
=============================================================================
