------------------------- MODULE MCEngineSequential -------------------------
(***************************************************************************)
(* The instance of EngineSequential for TLC.                               *)
(***************************************************************************)
EXTENDS EngineSequential

CONSTANTS c1, d1, v1, v2, r1, r2

Components(s, ws) == [kind |-> "surfaceUpdate", id |-> s, root |-> None, writes |-> ws]
Data(s, ws) == [kind |-> "dataModelUpdate", id |-> s, root |-> None, writes |-> ws]
Begin(s, r) == [kind |-> "beginRendering", id |-> s, root |-> r, writes |-> <<>>]
Delete(s) == [kind |-> "deleteSurface", id |-> s, root |-> None, writes |-> <<>>]
Invalid == [kind |-> "invalid"]
Put(c, v) == [cell |-> c, val |-> v]

\* Whole pages, updates of a live page, requests refused at each stage, and
\* requests over two surfaces.
SequentialBodies == {
  <<Components(1, <<Put(c1, v1)>>), Begin(1, r1)>>,
  <<Data(1, <<Put(d1, v2)>>), Components(1, <<Put(c1, v2), Put(c1, Bad)>>)>>,
  <<Begin(1, r2), Invalid, Delete(1)>>,
  <<Delete(1), Data(2, <<Put(d1, v1)>>)>>,
  <<Components(2, <<Put(c1, v1)>>), Delete(2), Data(2, <<Put(d1, v1)>>)>> }

SequentialFiles ==
  [s \in Surfaces |-> IF s = 2 THEN <<Data(2, <<Put(d1, v1)>>), Begin(2, r1)>> ELSE None]

\* The maps no page refers to are not told apart.
LiveView == <<pages, [b \in Used |-> heap[b]], pc, local, feed, crashed, refused>>
=============================================================================
