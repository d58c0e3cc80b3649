----------------------------- MODULE MCCacheRing -----------------------------
(* Instances of CacheRing for TLC.                                          *)
EXTENDS CacheRing, TLC

CONSTANTS p1, p2, p3, ip1, ip2

ThreePods == {p1, p2, p3}

\* p2 gets the address p1 has released, p3 keeps one for itself.
ReusedIPs == (p1 :> ip1) @@ (p2 :> ip1) @@ (p3 :> ip2)

=============================================================================
