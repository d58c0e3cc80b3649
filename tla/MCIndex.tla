-------------------------------- MODULE MCIndex --------------------------------
(* Instances of Index for TLC.                                              *)
EXTENDS Index, TLC

CONSTANTS k1, k2, b1, b2

OneKey == {k1}
TwoKeys == {k1, k2}
TwoBatches == {b1, b2}

\* Batches that write the same key.
SameKeysOf == [b \in TwoBatches |-> OneKey]
NoDeletes == [b \in TwoBatches |-> {}]

\* b1 puts both keys, b2 deletes one of them.
MixedKeysOf == (b1 :> {k1, k2}) @@ (b2 :> {k1})
MixedDeletes == (b1 :> {}) @@ (b2 :> {k1})

=============================================================================
