------------------------------- MODULE MCServer -------------------------------
(* Instances of Server for TLC.                                             *)
EXTENDS Server, TLC

CONSTANTS r1, r2, r3

MCRequests == {r1, r2, r3}

\* One request waits for the timer, or overfills the batch it shares; the
\* others fill a batch each: a slow writer lets the processing channel fill
\* up behind it.
LadenSize == (r1 :> 1) @@ (r2 :> 2) @@ (r3 :> 2)

\* One call over HTTP/2, in a process that runs the index, too.
OverHTTP1 == {r1, r2}
WithIndex == <<"index">>

=============================================================================
