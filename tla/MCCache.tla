------------------------------- MODULE MCCache -------------------------------
(* Instances of Cache for TLC: the item limit is below the number of small  *)
(* objects that fit in MaxSize bytes, as 1024 is below 64 MiB of them.      *)
EXTENDS Cache, TLC

CONSTANTS p1, p2, p3, p4, p5, p6

MCPaths == {p1, p2, p3, p4, p5, p6}

\* Small objects, two that need room, one that is too large.
MCSizeOf == (p1 :> 1) @@ (p2 :> 1) @@ (p3 :> 2) @@ (p4 :> 3) @@ (p5 :> 5) @@ (p6 :> 9)

=============================================================================
