-------------------------- MODULE EngineSequential --------------------------
(***************************************************************************)
(* What Engine guarantees while requests do not overlap (one worker): it   *)
(* implements SurfaceStore, and a surface shows and has published what it  *)
(* holds.                                                                  *)
(***************************************************************************)
EXTENDS Engine

\* A surface that exists is not taken for one that does not.
ASSUME SurfaceAssumption ==
  None \notin [cells : [Cells -> Content], root : Roots \cup {None}, html : Html \cup {None}]

\* History: the surfaces of which a request was refused at a component since
\* their HTML was last published.
VARIABLE refused

Moves(w, from, to) == pc[w] = from /\ pc'[w] = to
RefusedNow == {page[w].id : w \in {v \in Workers : Moves(v, "write", "idle")}}
PublishedNow == {page[w].id : w \in {v \in Workers : Moves(v, "publish", "line")}}

SequentialInit == Init /\ refused = {}
SequentialNext == Next /\ refused' = (refused \cup RefusedNow) \ PublishedNow
SequentialSpec == SequentialInit /\ [][SequentialNext]_<<vars, refused>>
-----------------------------------------------------------------------------
\* A stored page and what its maps hold, as the surface a client knows.
Surface(s) ==
  IF pages[s] = NoPage THEN None
  ELSE [cells |-> heap[pages[s].buf], root |-> pages[s].root, html |-> pages[s].html]

Abstract == INSTANCE SurfaceStore WITH
  surfaces <- [s \in Surfaces |-> Surface(s)], feed <- feed

\* Requests that do not overlap see the SurfaceStore: local copies, in-place
\* writes, the double Upsert of renderAndPublish and the late Publish do not
\* show.
ImplementsSurfaceStore == Abstract!Spec

\* Between requests every ready surface shows exactly what its maps hold and
\* has published what it shows, whatever was rejected line by line, deleted or
\* rendered on demand before; only a surfaceUpdate refused at a component leaves
\* the surface changed and not rendered.
ShowsWhatItHolds ==
  (\A w \in Workers : pc[w] = "idle") =>
    \A s \in Surfaces \ refused : pages[s] # NoPage /\ pages[s].ready =>
      /\ pages[s].html = [root |-> pages[s].root, view |-> heap[pages[s].buf]]
      /\ feed[s] = pages[s].html
=============================================================================
