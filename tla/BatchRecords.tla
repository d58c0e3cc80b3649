----------------------------- MODULE BatchRecords -----------------------------
(***************************************************************************)
(* What a batch becomes: writeBatch of internal/batcher/handler.go sorts   *)
(* its records by key, keeps one per key and writes them to a file.  Later *)
(* a merge or a cache reads the file, or the beginning of it that a broken *)
(* download left.                                                          *)
(*                                                                         *)
(* sort.Slice promises no order among equal keys.  Up to StableUpTo        *)
(* records it is an insertion sort, which keeps their order; above that it *)
(* partitions, and equal keys may end up in any order.                     *)
(***************************************************************************)
EXTENDS SSTable

CONSTANTS
    KeyLengths,    \* bound: lengths of keys
    ValueLengths,  \* bound: lengths of values
    MaxRecords,    \* bound: records of a batch
    StableUpTo     \* 12 in the Go library

ASSUME BatchRecordsAssumption ==
    /\ KeyLengths \subseteq Nat \ {0}
    /\ ValueLengths \subseteq Nat
    /\ MaxRecords \in Nat \ {0}
    /\ StableUpTo \in Nat

VARIABLES
    batch,     \* the records of the batch, in the order they were written
    records,   \* the slice writeBatch works on
    file,      \* what there is of the file
    pc         \* "gathered", "sorted", "deduplicated", "written", "cut"

vars == <<batch, records, file, pc>>

-----------------------------------------------------------------------------
\* Keys of one repeated byte, so that a longer key is a greater one; values of
\* a byte that looks like a varint that goes on.
Filled(n, byte) == [i \in 1..n |-> byte]

Puts == {[key |-> Filled(n, 97), value |-> Filled(m, 255), tombstone |-> FALSE] :
           n \in KeyLengths, m \in ValueLengths}

Deletes == {[key |-> Filled(n, 97), value |-> <<>>, tombstone |-> TRUE] : n \in KeyLengths}

Less(k, l) == Len(k) < Len(l)

\* A request without writes is refused, so that no batch is empty.
Init ==
    /\ batch \in BoundedSeq(Puts \cup Deletes, MaxRecords) \ {<<>>}
    /\ records = batch
    /\ file = <<>>
    /\ pc = "gathered"

\* The orders sort.Slice may leave the slice s in: p[i] is the place in s of
\* the record that ends up at i.
Sorted(s) ==
    {[i \in DOMAIN s |-> s[p[i]]] :
       p \in {q \in SetToSeqs(DOMAIN s) :
                \A i, j \in DOMAIN s : i < j =>
                  \/ Less(s[q[i]].key, s[q[j]].key)
                  \/ s[q[i]].key = s[q[j]].key /\ (Len(s) =< StableUpTo => q[i] < q[j])}}

SortRecords ==
    /\ pc = "gathered"
    /\ records' \in Sorted(records)
    /\ pc' = "sorted"
    /\ UNCHANGED <<batch, file>>

\* Mutants: every record is kept, the first record of a key is kept.
KeepAll(kept, r) == Append(kept, r)

KeepFirst(kept, r) ==
    IF kept # <<>> /\ Last(kept).key = r.key THEN kept ELSE Append(kept, r)

\* The loop keeps records[..j]: a record with the key of records[j] takes its
\* place, any other is put behind it.  The code writes records[..j] over the
\* slice it reads; j never passes i, so that no record is overwritten before it
\* is read and the result is that of a fold onto a new slice, which this is.
Keep(kept, r) ==
    IF kept # <<>> /\ Last(kept).key = r.key
      THEN [kept EXCEPT ![Len(kept)] = r] ELSE Append(kept, r)

Deduplicate ==
    /\ pc = "sorted"
    /\ records' = FoldLeft(Keep, <<>>, records)
    /\ pc' = "deduplicated"
    /\ UNCHANGED <<batch, file>>

WriteFile ==
    /\ pc = "deduplicated"
    /\ file' = WriteRecords(records)
    /\ pc' = "written"
    /\ UNCHANGED <<batch, records>>

\* Another byte is cut off the end of the file.
Truncate ==
    /\ pc \in {"written", "cut"}
    /\ file # <<>>
    /\ file' = Front(file)
    /\ pc' = "cut"
    /\ UNCHANGED <<batch, records>>

Next == SortRecords \/ Deduplicate \/ WriteFile \/ Truncate

Spec == Init /\ [][Next]_vars

-----------------------------------------------------------------------------
\* The object a batch becomes has each key of the batch once, in order, so that
\* its first and its last record bound the keys, as its row says.
KeysInOrder ==
    pc \in {"deduplicated", "written"} =>
      /\ {r.key : r \in Range(records)} = {r.key : r \in Range(batch)}
      /\ \A i, j \in DOMAIN records : i < j => Less(records[i].key, records[j].key)

\* "Deduplicate records - keep only the last occurrence of each key": of several
\* writes of a key in a batch, puts or deletes, the latest one survives.  False
\* of a batch above StableUpTo: there sort.Slice may put an earlier write of a
\* key behind a later one, and the loop keeps the earlier one.
KeepsLastOccurrence ==
    pc \in {"deduplicated", "written"} =>
      \A i \in DOMAIN batch :
        batch[i] \in Range(records) \/ \E j \in i + 1..Len(batch) : batch[j].key = batch[i].key

\* What the loop of writeBatch does of that promise, in batches of every size: it
\* drops a record only for one of the same key that the sort left behind it.
KeepsLastSorted ==
    [][pc = "sorted" =>
         \A i \in DOMAIN records :
           \/ records[i] \in Range(records')
           \/ \E j \in i + 1..Len(records) : records[j].key = records[i].key]_vars

\* A whole file gives back the records it was written from, tombstones, empty
\* values and lengths that need a longer varint included.
RoundTrip == pc = "written" => Records(file) = records

\* The buffer WriteRecords allocates and the size_bytes a batcher stores for
\* the object are exact.
SizeIsExact == pc = "written" => Len(file) = ComputeSize(records)

\* A file that was cut off reads as the first of its records: the reader makes
\* up none and never takes the rest of a record for another one.
OnlyWholeRecords == pc \in {"written", "cut"} => IsPrefix(Records(file), records)

=============================================================================
