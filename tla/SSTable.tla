-------------------------------- MODULE SSTable --------------------------------
(***************************************************************************)
(* The file format of WAL objects and runs (internal/sstable): a version,  *)
(* then for each record the key with its length and a tombstone bit, and   *)
(* for a put the value with its length.  Lengths are unsigned varints of   *)
(* encoding/binary.  A record is [key, value, tombstone], keys, values and *)
(* files are sequences of bytes.                                           *)
(***************************************************************************)
EXTENDS Naturals, Sequences, SequencesExt

currentVersion == 1

-----------------------------------------------------------------------------
(* Writer.                                                                  *)

\* binary.AppendUvarint: seven bits a byte, the low ones first.
AppendUvarint[n \in Nat] ==
    IF n < 128 THEN <<n>> ELSE <<128 + (n % 128)>> \o AppendUvarint[n \div 128]

\* Mutant: no tombstone bit.
KeyLenOnly(r) == 2 * Len(r.key)

KeyLen(r) == (2 * Len(r.key)) + (IF r.tombstone THEN 1 ELSE 0)

Encoded(r) ==
    AppendUvarint[KeyLen(r)] \o r.key
      \o (IF r.tombstone THEN <<>> ELSE AppendUvarint[Len(r.value)] \o r.value)

WriteRecords(rs) ==
    FoldLeft(LAMBDA buf, r : buf \o Encoded(r), AppendUvarint[currentVersion], rs)

\* Mutant: tombstones are counted like puts of nothing.
ComputeSizeOfPuts(rs) ==
    FoldLeft(LAMBDA size, r :
               size + Len(AppendUvarint[KeyLen(r)]) + Len(r.key)
                 + Len(AppendUvarint[Len(r.value)]) + Len(r.value),
             Len(AppendUvarint[currentVersion]), rs)

ComputeSize(rs) ==
    FoldLeft(LAMBDA size, r :
               size + Len(AppendUvarint[KeyLen(r)]) + Len(r.key)
                 + (IF r.tombstone THEN 0 ELSE Len(AppendUvarint[Len(r.value)]) + Len(r.value)),
             Len(AppendUvarint[currentVersion]), rs)

-----------------------------------------------------------------------------
(* Reader.                                                                  *)

\* Mutant: a varint that goes on at the end of the data counts as 0.
UvarintOrZero(data, pos) ==
    LET ends == {i \in pos..Len(data) : data[i] < 128 /\ \A j \in pos..(i - 1) : data[j] >= 128}
    IN  IF ends = {} THEN [value |-> 0, n |-> IF pos > Len(data) THEN 0 ELSE 1]
        ELSE LET last == CHOOSE i \in ends : TRUE
             IN  [value |-> FoldRight(LAMBDA byte, v : (128 * v) + (byte % 128),
                                      SubSeq(data, pos, last), 0),
                  n |-> last - pos + 1]

\* binary.Uvarint of data from position pos: the value and the bytes read,
\* none when the data ends within the varint.
Uvarint(data, pos) ==
    LET ends == {i \in pos..Len(data) : data[i] < 128 /\ \A j \in pos..(i - 1) : data[j] >= 128}
    IN  IF ends = {} THEN [value |-> 0, n |-> 0]
        ELSE LET last == CHOOSE i \in ends : TRUE
             IN  [value |-> FoldRight(LAMBDA byte, v : (128 * v) + (byte % 128),
                                      SubSeq(data, pos, last), 0),
                  n |-> last - pos + 1]

\* The record at pos and the position behind it, or none if it is cut off.
RecordAt(data, pos) ==
    LET len   == Uvarint(data, pos)
        key   == pos + len.n
        behind == key + (len.value \div 2)
        vlen  == Uvarint(data, behind)
        value == behind + vlen.n
        delete == len.value % 2 = 1
        Some(bytes, tombstone, next) ==
          [ok |-> TRUE, next |-> next,
           record |-> [key |-> SubSeq(data, key, behind - 1), value |-> bytes,
                       tombstone |-> tombstone]]
    IN  IF len.n = 0 \/ behind - 1 > Len(data) THEN [ok |-> FALSE]
        ELSE IF delete THEN Some(<<>>, TRUE, behind)
        ELSE IF vlen.n = 0 \/ value + vlen.value - 1 > Len(data) THEN [ok |-> FALSE]
        ELSE Some(SubSeq(data, value, value + vlen.value - 1), FALSE, value + vlen.value)

\* The iterator ends at the end of the data, or without an error at the first
\* record it cannot read.
Records(data) ==
    LET version == Uvarint(data, 1)
        from[pos \in 1..(Len(data) + 1)] ==
          LET r == RecordAt(data, pos) IN
          IF pos > Len(data) \/ ~ r.ok THEN <<>> ELSE <<r.record>> \o from[r.next]
    IN  IF version.n = 0 \/ version.value # currentVersion THEN <<>> ELSE from[version.n + 1]

=============================================================================
