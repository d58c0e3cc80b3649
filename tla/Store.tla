-------------------------------- MODULE Store --------------------------------
(***************************************************************************)
(* The key-value store a client of SkyVault has in mind: a batch of writes *)
(* takes effect at one instant, and from then on every key it wrote has    *)
(* that version until a later batch writes the key.  WALs, jobs, runs and  *)
(* merges are invisible.                                                   *)
(***************************************************************************)
CONSTANTS Keys, Batches, KeysOf, NoBatch

VARIABLES
    written,   \* the batches that took effect
    value      \* value[k]: the batch that wrote k last, or NoBatch

Init == /\ written = {}
        /\ value = [k \in Keys |-> NoBatch]

Write(b) ==
    /\ b \notin written
    /\ written' = written \cup {b}
    /\ value' = [k \in Keys |-> IF k \in KeysOf[b] THEN b ELSE value[k]]

Next == \E b \in Batches : Write(b)

Spec == Init /\ [][Next]_<<written, value>>

=============================================================================
