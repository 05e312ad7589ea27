------------------------------ MODULE MCEngine ------------------------------
(***************************************************************************)
(* Instances of Engine for TLC.                                            *)
(***************************************************************************)
EXTENDS Engine

CONSTANTS c1, d1, v1, v2, r1, r2

Components(s, ws) == [kind |-> "surfaceUpdate", id |-> s, root |-> None, writes |-> ws]
Data(s, ws) == [kind |-> "dataModelUpdate", id |-> s, root |-> None, writes |-> ws]
Begin(s, r) == [kind |-> "beginRendering", id |-> s, root |-> r, writes |-> <<>>]
Delete(s) == [kind |-> "deleteSurface", id |-> s, root |-> None, writes |-> <<>>]
Invalid == [kind |-> "invalid"]
Put(c, v) == [cell |-> c, val |-> v]

\* Requests that meet on surface 1, one of which fails after a write, and one
\* on surface 2 that fails at a line.
RaceBodies == {
  <<Components(1, <<Put(c1, v1), Put(c1, Bad)>>)>>,
  <<Data(1, <<Put(d1, v1)>>), Begin(1, r1)>>,
  <<Data(2, <<>>), Invalid>> }

\* Surface 1 has a page file, surface 2 has none.
RaceFiles == [s \in Surfaces |-> IF s = 1 THEN <<Begin(1, r2)>> ELSE None]

\* States are told apart up to the names of the two workers and of the maps: a pair
\* of maps is known by the places that refer to it, as one of the workers sees them.
Seen(w, v) == IF v = w THEN "own" ELSE "other"
Stored(b) == {s \in Surfaces : pages[s] # NoPage /\ pages[s].buf = b}
Places(w, b) ==
  <<Stored(b),
    {Seen(w, v) : v \in {u \in Workers : page[u] # NoPage /\ page[u].buf = b}},
    UNION {{<<Seen(w, v), a.id>> : a \in {c \in copies[v] : c.buf = b}} : v \in Workers}>>

PageView(p, places) ==
  IF p = NoPage THEN NoPage ELSE <<p.id, p.root, p.ready, p.html, heap[p.buf], places>>

WorkerView(w) ==
  <<pc[w], op[w], subject[w], lines[w], todo[w], snap[w], sweep[w],
    PageView(page[w], IF page[w] = NoPage THEN {} ELSE Places(w, page[w].buf)),
    {<<a.id, Places(w, a.buf)>> : a \in copies[w]}>>

\* The traffic, the contents of maps that no page refers to, and what a crash
\* freezes are left out.
RaceView ==
  IF crashed THEN <<crashed>>
  ELSE <<crashed,
         [s \in Surfaces |-> PageView(pages[s], IF pages[s] = NoPage THEN {} ELSE Stored(pages[s].buf))],
         {WorkerView(w) : w \in Workers}>>
=============================================================================
