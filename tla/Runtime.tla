------------------------------ MODULE Runtime -------------------------------
(***************************************************************************)
(* The engine and the broker together: the workers that serve requests are *)
(* the publishers, what they publish is the HTML they stored, and the      *)
(* /stream handlers hand it on to browsers.  Engine publishes in one step; *)
(* here that step takes as long as the broker's lock and loop take.        *)
(***************************************************************************)
EXTENDS Naturals, Sequences, FiniteSets

CONSTANTS
  Surfaces, Workers, Bufs, CompCells, DataCells, Vals, Roots, Bodies, UIFile,
  Bad, None, NoPage, Unread,     \* of Engine
  Handlers, Capacity, MaxID,     \* of Broker
  MaxRequests                    \* bound on the requests that arrive, a model bound

ASSUME MaxRequestsAssumption == MaxRequests \in Nat

VARIABLES
  pages, heap, pc, op, subject, lines, todo, page, snap, sweep, copies, feed, crashed,
  nextID, clients, queue, closed, writer, readers, pending, msg, hpc, hid, gone,
  seen,   \* history: the last HTML each browser received
  heard,  \* history: whether a client's channel took the last message offered
  served, \* history: the number of requests that arrived
  alone,  \* history: the worker that is serving the only request, if it is one
  told    \* history: the surface whose stored HTML was the last to be published,
          \* by the only request there was, None once the store has changed

engine == <<pages, heap, pc, op, subject, lines, todo, page, snap, sweep, copies, feed, crashed>>
broker == <<nextID, clients, queue, closed, writer, readers, pending, msg, hpc, hid, gone>>
watching == <<seen, heard>>
history == <<seen, heard, served, alone, told>>
vars == <<engine, broker, history>>

E == INSTANCE Engine
B == INSTANCE Broker WITH Publishers <- Workers, Msgs <- E!Html

\* What Engine and Broker assume of their constants.
ASSUME SurfacesAssumption == Surfaces \subseteq Nat
ASSUME CellsAssumption == CompCells \cap DataCells = {}
ASSUME BodiesAssumption == /\ Bodies \subseteq Seq(E!Line)
                           /\ UIFile \in [Surfaces -> Seq(E!Line) \cup {None}]
ASSUME MarkersAssumption == /\ None \notin Roots \cup Vals \cup E!Html
                            /\ NoPage \notin E!Page
                            /\ Bad \notin Vals
                            /\ Unread \notin E!Content
ASSUME CapacityAssumption == Capacity \in Nat \ {0}
ASSUME MaxIDAssumption == MaxID \in Nat
ASSUME HandlersAssumption == None \notin Handlers

Init ==
  /\ E!Init
  /\ B!Init
  /\ seen = [h \in Handlers |-> None]
  /\ heard = [i \in 0 .. MaxID - 1 |-> FALSE]
  /\ served = 0
  /\ alone = {}
  /\ told = None
-----------------------------------------------------------------------------
\* A request arrives.  It is the only one if every worker is idle.
Accept(w) ==
  /\ E!Alive
  /\ served < MaxRequests
  /\ served' = served + 1
  /\ E!Accept(w)
  /\ alone' = IF \A v \in Workers : pc[v] = "idle" THEN {w} ELSE {}
  /\ UNCHANGED <<broker, watching, told>>

\* The engine's steps other than a publication.
Proceed(w) ==
  /\ E!Alive
  /\ pc[w] # "publish"
  /\ E!Proceed(w)
  /\ told' = IF pages' = pages THEN told ELSE None
  /\ UNCHANGED <<broker, watching, served, alone>>

\* Mistake: the HTML to publish is looked up in the store again.
StartPublishStored(w) ==
  /\ E!Alive
  /\ pc[w] = "publish"
  /\ LET stored == pages[page[w].id] IN
     /\ stored # NoPage
     /\ stored.html # None
     /\ B!Publish(w, stored.html)
  /\ told' = None
  /\ UNCHANGED <<engine, watching, served, alone>>

\* renderAndPublish calls Publish with the HTML it has just stored ...
StartPublish(w) ==
  /\ E!Alive
  /\ pc[w] = "publish"
  /\ B!Publish(w, page[w].html)
  /\ told' = None
  /\ UNCHANGED <<engine, watching, served, alone>>

\* ... which offers it to one client after another ...
Send(w, i) ==
  /\ E!Alive
  /\ B!Send(w, i)
  /\ heard' = [heard EXCEPT ![i] = Len(queue[i]) < Capacity]
  /\ UNCHANGED <<engine, seen, served, alone, told>>

\* ... and the request goes on when it returns.
FinishPublish(w) ==
  /\ E!Alive
  /\ E!Publish(w)
  /\ B!Published(w)
  /\ told' = IF w \in alone THEN page[w].id ELSE None
  /\ UNCHANGED <<watching, served, alone>>

\* The handler's loop writes a message to its browser.
Receive(h) ==
  /\ E!Alive
  /\ B!Receive(h)
  /\ seen' = [seen EXCEPT ![h] = Head(queue[hid[h]])]
  /\ UNCHANGED <<engine, heard, served, alone, told>>

\* The other steps of a handler; a browser that connects has seen nothing.
Handle(h) ==
  /\ E!Alive
  /\ B!Connect(h) \/ B!Lock(h) \/ B!Subscribe(h) \/ B!Leave(h) \/ B!Cancel(h) \/ B!Disconnect(h)
  /\ seen' = [seen EXCEPT ![h] = IF hpc'[h] = "off" THEN None ELSE @]
  /\ UNCHANGED <<engine, heard, served, alone, told>>

\* A race on a map ends the process and everything in it.
Crash ==
  /\ crashed = FALSE
  /\ E!MapRace
  /\ UNCHANGED <<broker, history>>

Crashed == crashed = TRUE /\ UNCHANGED vars

\* Nothing arrives any more: the bounds on requests and streams are used up.
Quiet ==
  /\ served = MaxRequests
  /\ nextID = MaxID
  /\ \A w \in Workers : pc[w] = "idle"
  /\ \A h \in Handlers : hpc[h] = "off"
  /\ UNCHANGED vars

Next ==
  \/ \E w \in Workers : Accept(w) \/ Proceed(w) \/ StartPublish(w) \/ FinishPublish(w)
  \/ \E w \in Workers, i \in 0 .. MaxID - 1 : Send(w, i)
  \/ \E h \in Handlers : Receive(h) \/ Handle(h)
  \/ Crash
  \/ Crashed
  \/ Quiet

Spec == Init /\ [][Next]_vars

\* The Go scheduler runs every runnable goroutine and a mutex serves a waiter that
\* is passed over; browsers need not receive, come or go.
Work(w) ==
  Proceed(w) \/ StartPublish(w) \/ FinishPublish(w) \/ \E i \in 0 .. MaxID - 1 : Send(w, i)
Unlocks(h) == E!Alive /\ (B!Subscribe(h) \/ B!Leave(h) \/ B!Cancel(h)) /\ Handle(h)
Locks(h) == B!Lock(h) /\ Handle(h)
FairSpec ==
  /\ Spec
  /\ \A w \in Workers : WF_vars(Work(w))
  /\ \A h \in Handlers : WF_vars(Unlocks(h)) /\ SF_vars(Locks(h))
-----------------------------------------------------------------------------
\* A worker hands over the HTML it stored itself, and only while it publishes.
HandsOverItsHTML ==
  \A w \in Workers : msg[w] # None => pc[w] = "publish" /\ msg[w] = page[w].html

\* The history variables have their types, and what the broker is given is the
\* HTML its publisher has stored.
TypeOK ==
  /\ seen \in [Handlers -> E!Html \cup {None}]
  /\ heard \in [0 .. MaxID - 1 -> BOOLEAN]
  /\ served \in 0 .. MaxRequests
  /\ alone \subseteq Workers
  /\ told \in Surfaces \cup {None}
  /\ HandsOverItsHTML

\* After a request that no other one overlapped, every browser whose channel took
\* the message and was drained shows the HTML the store holds.
BrowsersCatchUp ==
  told # None =>
    \A h \in Handlers :
      hpc[h] = "loop" /\ heard[hid[h]] /\ queue[hid[h]] = <<>> => seen[h] = pages[told].html

\* Every request is answered though publishing takes a lock that browsers coming
\* and going take as well (unless the process has crashed).
RequestsFinish == \A w \in Workers : pc[w] # "idle" ~> pc[w] = "idle" \/ crashed = TRUE
=============================================================================
