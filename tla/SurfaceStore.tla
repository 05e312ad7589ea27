---------------------------- MODULE SurfaceStore ----------------------------
(***************************************************************************)
(* What the engine promises its clients, one request at a time: a surface  *)
(* is absent or has contents, a root and the HTML it shows; updates only   *)
(* add to it, HTML is always the whole of what the surface holds at that   *)
(* moment, and subscribers are sent exactly the HTML a surface shows.      *)
(* There are no local copies, no shared maps and no half-made renderings.  *)
(***************************************************************************)
CONSTANTS Surfaces, Cells, Vals, Roots, None

VARIABLES
  surfaces,  \* each surface, None when it does not exist
  feed       \* the HTML of each surface its subscribers saw last

vars == <<surfaces, feed>>

Empty == [c \in Cells |-> None]
Contents == [Cells -> Vals \cup {None}]

Init == /\ surfaces = [s \in Surfaces |-> None]
        /\ feed = [s \in Surfaces |-> None]

\* A create request: an empty surface, only where there is none.
Create(s) ==
  /\ surfaces[s] = None
  /\ surfaces' = [surfaces EXCEPT ![s] = [cells |-> Empty, root |-> None, html |-> None]]
  /\ UNCHANGED feed

\* An update may create the surface.  It only adds or replaces entries, and a
\* root, once set, may change but is never lost; what is shown stays.
Old(s) == IF surfaces[s] = None
          THEN [cells |-> Empty, root |-> None, html |-> None] ELSE surfaces[s]
Update(s) ==
  \E cells \in Contents, root \in Roots \cup {None} :
    /\ \A c \in Cells : Old(s).cells[c] # None => cells[c] # None
    /\ Old(s).root # None => root # None
    /\ surfaces' = [surfaces EXCEPT ![s] =
                      [cells |-> cells, root |-> root, html |-> Old(s).html]]
    /\ UNCHANGED feed

\* Rendering shows all the surface holds, under its root.
Render(s) ==
  /\ surfaces[s] # None
  /\ surfaces[s].root # None
  /\ surfaces' = [surfaces EXCEPT ![s].html = [root |-> surfaces[s].root,
                                                view |-> surfaces[s].cells]]
  /\ UNCHANGED feed

Publish(s) ==
  /\ surfaces[s] # None
  /\ surfaces[s].html # None
  /\ feed' = [feed EXCEPT ![s] = surfaces[s].html]
  /\ UNCHANGED surfaces

Delete(s) ==
  /\ surfaces' = [surfaces EXCEPT ![s] = None]
  /\ UNCHANGED feed

Next == \E s \in Surfaces :
  Create(s) \/ Update(s) \/ Render(s) \/ Publish(s) \/ Delete(s)

Spec == Init /\ [][Next]_vars
=============================================================================
