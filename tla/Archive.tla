------------------------------- MODULE Archive -------------------------------
(***************************************************************************)
(* What SkyVault promises about durability, however it is deployed: the    *)
(* batches a reader of the database can reach only ever grow, by a batch   *)
(* of writes at a time.  Compaction is invisible here.                     *)
(***************************************************************************)
CONSTANT Batches

VARIABLE stored   \* the batches whose records can be reached

Init == stored = {}

Store(b) == b \notin stored /\ stored' = stored \cup {b}

Next == \E b \in Batches : Store(b)

Spec == Init /\ [][Next]_stored

=============================================================================
