----------------------------- MODULE MCCompaction -----------------------------
(* Instances of Compaction for TLC.                                         *)
EXTENDS Compaction, TLC

CONSTANTS k1, k2, b1, b2, b3, b4

\* Three batches over two keys: b1 and b3 overlap b2 in one key each.
MCKeys == {k1, k2}
MCBatches == {b1, b2, b3}
MCKeysOf == (b1 :> {k1}) @@ (b2 :> {k1, k2}) @@ (b3 :> {k2})

\* Batches that write the same key cannot be told apart.
OneKey == {k1}
SameKeysOf == [b \in MCBatches |-> OneKey]
FourBatches == {b1, b2, b3, b4}
FourKeysOf == (b1 :> {k1}) @@ (b2 :> {k1, k2}) @@ (b3 :> {k2}) @@ (b4 :> {k1})
BatchSymmetry == Permutations(MCBatches)

=============================================================================
