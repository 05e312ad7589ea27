----------------------------- MODULE MCRuntime ------------------------------
(***************************************************************************)
(* An instance of Runtime for TLC: one surface, two workers, one stream.   *)
(***************************************************************************)
EXTENDS Runtime

CONSTANTS c1, v1, r1

Components(ws) == [kind |-> "surfaceUpdate", id |-> 1, root |-> None, writes |-> ws]
Begin == [kind |-> "beginRendering", id |-> 1, root |-> r1, writes |-> <<>>]
Delete == [kind |-> "deleteSurface", id |-> 1, root |-> None, writes |-> <<>>]

\* Requests that render the surface and fail at their second line, change what
\* it shows, and remove it.
Invalid == [kind |-> "invalid"]
RuntimeBodies == {<<Begin, Invalid>>, <<Components(<<[cell |-> c1, val |-> v1]>>)>>, <<Delete>>}
RuntimeFiles == [s \in Surfaces |-> <<Begin>>]
=============================================================================
