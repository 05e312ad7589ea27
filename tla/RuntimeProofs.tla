---------------------------- MODULE RuntimeProofs ----------------------------
(***************************************************************************)
(* Proofs about Runtime.  The engine and the broker behave in it as Engine *)
(* and Broker specify, so that what is proved of either one is true of the *)
(* two: EP and BP are the modules of those proofs.  What browsers come to  *)
(* show takes both.                                                        *)
(***************************************************************************)
EXTENDS Runtime, SequenceTheorems, TLAPS

EP == INSTANCE EngineProofs
BP == INSTANCE BrokerProofs WITH Publishers <- Workers, Msgs <- E!Html

\* The instance of Engine inside Runtime is Engine.
LEMMA SameHtml == E!Html = EP!Html
  BY DEF E!Html, EP!Html, E!Cells, EP!Cells, E!Content, EP!Content

\* What EngineProofs and BrokerProofs assume holds here.
LEMMA EngineAssumed ==
  /\ Surfaces \subseteq Nat
  /\ CompCells \cap DataCells = {}
  /\ Bodies \subseteq Seq(EP!Line) /\ UIFile \in [Surfaces -> Seq(EP!Line) \cup {None}]
  /\ None \notin Roots \cup Vals \cup EP!Html
  /\ NoPage \notin EP!Page
  /\ Bad \notin Vals
  /\ Unread \notin EP!Content
<1>1. E!Line = EP!Line
  BY DEF E!Line, EP!Line
<1>2. E!Page = EP!Page
  BY SameHtml DEF E!Page, EP!Page
<1>3. E!Content = EP!Content
  BY DEF E!Content, EP!Content
<1> QED
  BY <1>1, <1>2, <1>3, SameHtml, SurfacesAssumption, CellsAssumption, BodiesAssumption,
     MarkersAssumption

LEMMA BrokerAssumed ==
  Capacity \in Nat \ {0} /\ MaxID \in Nat /\ None \notin Handlers /\ None \notin E!Html
  BY CapacityAssumption, MaxIDAssumption, HandlersAssumption, MarkersAssumption

LEMMA SameVars == UNCHANGED engine => UNCHANGED EP!vars
  BY DEF EP!vars, EP!store, EP!local, engine

LEMMA SameInit == E!Init <=> EP!Init
  BY DEF E!Init, EP!Init, E!Empty, EP!Empty, E!Cells, EP!Cells

LEMMA SameAccept ==
  ASSUME NEW w \in Workers PROVE E!Accept(w) <=> EP!Accept(w)
  BY DEF E!Accept, EP!Accept, E!ProcessJSONL, EP!ProcessJSONL,
         E!GetPageHandler, EP!GetPageHandler, E!RenderSurfaceByID, EP!RenderSurfaceByID,
         E!Inspect, EP!Inspect, E!ListPages, EP!ListPages, E!CopyOf, EP!CopyOf,
         E!CreateSurface, EP!CreateSurface,
         E!DeleteSurface, EP!DeleteSurface, E!ResetRuntime, EP!ResetRuntime,
         E!StartRender, EP!StartRender, E!Allocates, EP!Allocates, E!Free, EP!Free,
         E!Used, EP!Used, E!NewPage, EP!NewPage, E!store, EP!store,
         E!Empty, EP!Empty, E!Cells, EP!Cells

LEMMA SameProceed ==
  ASSUME NEW w \in Workers PROVE E!Proceed(w) <=> EP!Proceed(w)
  BY DEF E!Proceed, EP!Proceed, E!ReloadPage, EP!ReloadPage, E!EndOfInput, EP!EndOfInput,
         E!RejectLine, EP!RejectLine, E!ApplyDeleteSurface, EP!ApplyDeleteSurface,
         E!ApplyUpdate, EP!ApplyUpdate, E!ApplyBeginRendering, EP!ApplyBeginRendering,
         E!WriteCell, EP!WriteCell, E!RejectComponent, EP!RejectComponent,
         E!Upsert, EP!Upsert, E!ReadCell, EP!ReadCell, E!SaveHTML, EP!SaveHTML,
         E!Publish, EP!Publish, E!SaveOnDemand, EP!SaveOnDemand, E!Inspected, EP!Inspected,
         E!WalkCopy, EP!WalkCopy, E!Walked, EP!Walked,
         E!StoreCreated, EP!StoreCreated, E!RemoveDeleted, EP!RemoveDeleted,
         E!RemoveNext, EP!RemoveNext, E!RemovedAll, EP!RemovedAll,
         E!Respond, EP!Respond, E!GetOrCreatePage, EP!GetOrCreatePage,
         E!Allocates, EP!Allocates, E!Free, EP!Free, E!Used, EP!Used, E!NewPage, EP!NewPage,
         E!StartRender, EP!StartRender, E!RenderedAll, EP!RenderedAll, E!Rendered, EP!Rendered,
         E!store, EP!store, E!local, EP!local, E!Empty, EP!Empty, E!Cells, EP!Cells

LEMMA SameMapRace == E!MapRace <=> EP!MapRace
  BY DEF E!MapRace, EP!MapRace, E!Racing, EP!Racing, E!Writing, EP!Writing,
         E!Reading, EP!Reading, E!Walked, EP!Walked, E!MapOf, EP!MapOf, E!store, EP!store,
         E!local, EP!local, E!Cells, EP!Cells

\* A publication is one of the steps that carry an operation on.
LEMMA SamePublish ==
  ASSUME NEW w \in Workers PROVE E!Publish(w) <=> EP!Publish(w)
  BY DEF E!Publish, EP!Publish, E!store, EP!store
-----------------------------------------------------------------------------
\* What a step of the whole is to the engine.
LEMMA EngineStep ==
  ASSUME [Next]_vars
  PROVE  \/ \E w \in Workers : EP!Alive /\ EP!Accept(w) /\ UNCHANGED msg
         \/ \E w \in Workers : EP!Alive /\ EP!Proceed(w) /\ pc[w] # "publish" /\ UNCHANGED msg
         \/ \E w \in Workers : EP!Alive /\ EP!Publish(w) /\ B!Published(w)
         \/ \E w \in Workers : /\ pc[w] = "publish"
                             /\ B!Publish(w, page[w].html)
                             /\ UNCHANGED EP!vars
         \/ EP!MapRace /\ crashed = FALSE /\ UNCHANGED msg
         \/ UNCHANGED <<EP!vars, msg>>
<1>a. E!Alive <=> EP!Alive
  BY DEF E!Alive, EP!Alive
<1>1. ASSUME NEW w \in Workers, Accept(w) PROVE EP!Alive /\ EP!Accept(w) /\ UNCHANGED msg
  BY <1>1, <1>a, SameAccept DEF Accept, broker
<1>2. ASSUME NEW w \in Workers, Proceed(w)
      PROVE  EP!Alive /\ EP!Proceed(w) /\ pc[w] # "publish" /\ UNCHANGED msg
  BY <1>2, <1>a, SameProceed DEF Proceed, broker
<1>3. ASSUME NEW w \in Workers, StartPublish(w)
      PROVE  pc[w] = "publish" /\ B!Publish(w, page[w].html) /\ UNCHANGED EP!vars
  BY <1>3, SameVars DEF StartPublish
<1>4. ASSUME NEW w \in Workers, FinishPublish(w)
      PROVE  EP!Alive /\ EP!Publish(w) /\ B!Published(w)
  BY <1>4, <1>a, SamePublish DEF FinishPublish
<1>5. ASSUME NEW w \in Workers, NEW i \in 0 .. MaxID - 1, Send(w, i)
      PROVE  UNCHANGED <<EP!vars, msg>>
  BY <1>5, SameVars DEF Send, B!Send
<1>6. ASSUME NEW h \in Handlers, Receive(h) PROVE UNCHANGED <<EP!vars, msg>>
  BY <1>6, SameVars DEF Receive, B!Receive, B!publishing
<1>7. ASSUME NEW h \in Handlers, Handle(h) PROVE UNCHANGED <<EP!vars, msg>>
  BY <1>7, SameVars
  DEF Handle, B!Connect, B!Lock, B!Subscribe, B!Leave, B!Cancel, B!Disconnect,
      B!publishing
<1>8. Crash => EP!MapRace /\ crashed = FALSE /\ UNCHANGED msg
  BY SameMapRace DEF Crash, broker
<1>9. Crashed \/ Quiet \/ UNCHANGED vars => UNCHANGED <<EP!vars, msg>>
  BY SameVars DEF Crashed, Quiet, vars, broker
<1> QED
  BY <1>1, <1>2, <1>3, <1>4, <1>5, <1>6, <1>7, <1>8, <1>9 DEF Next

\* Whatever the broker and the browsers do, the engine is the one that Engine
\* specifies: its theorems hold of the running server.
THEOREM EngineInRuntime == Spec => E!Spec
<1>1. Init => E!Init
  BY DEF Init
<1>2. [Next]_vars => [EP!Next]_(EP!vars)
  BY EngineStep DEF EP!Next, EP!Proceed, B!Publish
<1>3. [EP!Next]_(EP!vars) => [E!Next]_(E!vars)
  BY SameAccept, SameProceed, SameMapRace
  DEF EP!Next, E!Next, EP!Alive, E!Alive, EP!Crashed, E!Crashed, EP!vars, E!vars,
      EP!store, E!store, EP!local, E!local
<1> QED
  BY <1>1, <1>2, <1>3, PTL DEF Spec, E!Spec
-----------------------------------------------------------------------------
\* The engine's invariant; a worker about to publish has HTML, and what it has
\* handed to the broker is that HTML.
Handing ==
  /\ msg \in [Workers -> EP!Html \cup {None}]
  /\ \A w \in Workers : pc[w] = "publish" => page[w].html \in EP!Html
  /\ HandsOverItsHTML
RInv == EP!Inv /\ Handing

\* The invariant holds in a server that was just started.
LEMMA RInvInit == Init => RInv
<1>1. Init => EP!Inv
  BY SameInit, EngineAssumed, EP!InitInv DEF Init
<1>2. Init => Handing
  BY SameInit DEF Init, EP!Init, B!Init, Handing, HandsOverItsHTML
<1> QED
  BY <1>1, <1>2 DEF RInv

\* Only SaveHTML makes a worker publish.
LEMMA ReadyToPublish ==
  ASSUME EP!Inv, NEW w \in Workers, EP!Accept(w) \/ EP!Proceed(w),
         pc'[w] = "publish", pc[w] # "publish"
  PROVE  page'[w].html \in EP!Html
<1>1. EP!SaveHTML(w)
  BY DEF EP!Inv, EP!TypeOK, EP!Accept, EP!ProcessJSONL, EP!GetPageHandler,
         EP!RenderSurfaceByID, EP!Inspect, EP!ListPages, EP!CreateSurface, EP!DeleteSurface,
         EP!ResetRuntime,
         EP!Proceed, EP!ReloadPage, EP!EndOfInput, EP!RejectLine, EP!ApplyDeleteSurface,
         EP!ApplyUpdate, EP!ApplyBeginRendering, EP!WriteCell, EP!RejectComponent, EP!Upsert,
         EP!ReadCell, EP!Publish, EP!SaveOnDemand, EP!WalkCopy, EP!Inspected, EP!StoreCreated,
         EP!RemoveDeleted, EP!RemoveNext, EP!RemovedAll, EP!Respond, EP!local
<1>2. page'[w] = EP!Rendered(w)
  BY <1>1 DEF EP!SaveHTML, EP!Inv, EP!TypeOK
<1>3. pc[w] = "read" /\ EP!RenderedAll(w)
  BY <1>1 DEF EP!SaveHTML
<1> QED
  BY <1>2, <1>3, EngineAssumed, EP!RenderedType DEF EP!Inv

\* A step that carries a worker on to another place, or leaves it publishing.
LEMMA HandingStep ==
  ASSUME EP!Inv, Handing, NEW w \in Workers, EP!Accept(w) \/ EP!Proceed(w), pc[w] # "publish",
         UNCHANGED msg
  PROVE  Handing'
<1>1. EP!Others(w)
  BY EngineAssumed, EP!OnlyMoves DEF EP!Inv
<1>2. msg[w] = None
  BY DEF Handing, HandsOverItsHTML
<1>3. pc'[w] = "publish" => page'[w].html \in EP!Html
  BY ReadyToPublish
<1> QED
  BY <1>1, <1>2, <1>3 DEF Handing, HandsOverItsHTML, EP!Others

\* Every step of the whole keeps the invariant.
LEMMA RInvStep == RInv /\ [Next]_vars => RInv'
<1> SUFFICES ASSUME RInv, [Next]_vars PROVE RInv'
  OBVIOUS
<1>1. EP!Inv'
  <2>1. [EP!Next]_(EP!vars)
    BY EngineStep DEF EP!Next, EP!Proceed
  <2> QED
    BY <2>1, EngineAssumed, EP!StepInv DEF RInv
<1>2. ASSUME NEW w \in Workers, EP!Alive /\ EP!Accept(w) /\ UNCHANGED msg PROVE Handing'
  <2>1. pc[w] # "publish"
    BY <1>2 DEF EP!Accept, EP!ProcessJSONL, EP!GetPageHandler, EP!RenderSurfaceByID,
                EP!Inspect, EP!ListPages, EP!CreateSurface, EP!DeleteSurface, EP!ResetRuntime
  <2> QED
    BY <1>2, <2>1, HandingStep DEF RInv
<1>3. ASSUME NEW w \in Workers, EP!Alive /\ EP!Proceed(w) /\ pc[w] # "publish" /\ UNCHANGED msg
      PROVE  Handing'
  BY <1>3, HandingStep DEF RInv
<1>4. ASSUME NEW w \in Workers, EP!Publish(w), B!Published(w) PROVE Handing'
  <2>1. EP!Others(w)
    BY <1>4, EngineAssumed, EP!OnlyMoves DEF RInv, EP!Inv, EP!Proceed
  <2>2. msg' = [msg EXCEPT ![w] = None]
    BY <1>4 DEF B!Published
  <2>3. pc'[w] = "line"
    BY <1>4 DEF EP!Publish, RInv, EP!Inv, EP!TypeOK
  <2> QED
    BY <2>1, <2>2, <2>3 DEF RInv, Handing, HandsOverItsHTML, EP!Others
<1>5. ASSUME NEW w \in Workers, pc[w] = "publish", B!Publish(w, page[w].html),
             UNCHANGED EP!vars
      PROVE  Handing'
  <2>1. msg' = [msg EXCEPT ![w] = page[w].html] /\ page[w].html \in EP!Html
    BY <1>5 DEF B!Publish, RInv, Handing
  <2> QED
    BY <1>5, <2>1 DEF EP!vars, EP!local, RInv, Handing, HandsOverItsHTML
<1>6. ASSUME EP!MapRace, UNCHANGED msg PROVE Handing'
  BY <1>6 DEF EP!MapRace, EP!local, RInv, Handing, HandsOverItsHTML
<1>7. ASSUME UNCHANGED <<EP!vars, msg>> PROVE Handing'
  BY <1>7 DEF EP!vars, EP!local, RInv, Handing, HandsOverItsHTML
<1> QED
  BY <1>1, <1>2, <1>3, <1>4, <1>5, <1>6, <1>7, EngineStep DEF RInv

\* What the broker is given is, at every moment, the HTML its publisher stored
\* itself, never what another worker has put in its place.
THEOREM PublishersHandOverTheirHTML == Spec => []HandsOverItsHTML
<1>1. RInv => HandsOverItsHTML
  BY DEF RInv, Handing
<1> QED
  BY <1>1, RInvInit, RInvStep, PTL DEF Spec
-----------------------------------------------------------------------------
\* What a step of the whole is to the broker.
LEMMA BrokerStep == RInv /\ [Next]_vars => [B!Next]_(B!vars)
<1> SUFFICES ASSUME RInv, [Next]_vars PROVE [B!Next]_(B!vars)
  OBVIOUS
<1> USE DEF B!vars, B!broker, B!publishing, B!handling
<1>1. ASSUME NEW w \in Workers, Accept(w) \/ Proceed(w) PROVE UNCHANGED B!vars
  BY <1>1 DEF Accept, Proceed, broker
<1>2. ASSUME NEW w \in Workers, StartPublish(w) PROVE B!Next
  <2>1. page[w].html \in E!Html
    BY <1>2, SameHtml DEF StartPublish, RInv, Handing
  <2> QED
    BY <1>2, <2>1 DEF StartPublish, B!Next
<1>3. ASSUME NEW w \in Workers, FinishPublish(w) PROVE B!Next
  BY <1>3 DEF FinishPublish, B!Next
<1>4. ASSUME NEW w \in Workers, NEW i \in 0 .. MaxID - 1, Send(w, i) PROVE B!Next
  BY <1>4 DEF Send, B!Next, B!IDs
<1>5. ASSUME NEW h \in Handlers, Receive(h) \/ Handle(h) PROVE B!Next
  BY <1>5 DEF Receive, Handle, B!Next
<1>6. Crash \/ Crashed \/ Quiet \/ UNCHANGED vars => UNCHANGED B!vars
  BY DEF Crash, Crashed, Quiet, vars, broker
<1> QED
  BY <1>1, <1>2, <1>3, <1>4, <1>5, <1>6 DEF Next

\* Whatever the engine does, the broker is the one that Broker specifies, with the
\* workers as publishers and stored HTML as messages: its theorems hold of the
\* running server.
THEOREM BrokerInRuntime == Spec => B!Spec
<1>1. Init => B!Init
  BY DEF Init
<1> QED
  BY <1>1, RInvInit, RInvStep, BrokerStep, PTL DEF Spec, B!Spec
-----------------------------------------------------------------------------
\* The instance of Broker that BrokerProofs is about is Runtime's.
LEMMA SameBroker ==
  /\ B!Init <=> BP!Init
  /\ [B!Next]_(B!vars) => [BP!Next]_(BP!vars)
<1>1. B!Init <=> BP!Init
  BY DEF B!Init, BP!Init, B!IDs, BP!IDs
<1>2. UNCHANGED B!vars => UNCHANGED BP!vars
  BY DEF B!vars, BP!vars, B!broker, BP!broker, B!publishing, BP!publishing,
         B!handling, BP!handling
<1>3. \A p \in Workers : /\ \A m : B!Publish(p, m) <=> BP!Publish(p, m)
                         /\ \A i : B!Send(p, i) <=> BP!Send(p, i)
                         /\ B!Published(p) <=> BP!Published(p)
  BY DEF B!Publish, BP!Publish, B!Send, BP!Send, B!Published, BP!Published,
         B!broker, BP!broker, B!handling, BP!handling
<1>c. B!Cardinality(BP!Unsubscribed) = BP!Cardinality(BP!Unsubscribed)
  BY DEF B!Cardinality, BP!Cardinality
<1>4. \A h \in Handlers : /\ B!Connect(h) <=> BP!Connect(h)
                          /\ B!Lock(h) <=> BP!Lock(h)
                          /\ B!Subscribe(h) <=> BP!Subscribe(h)
                          /\ B!Receive(h) <=> BP!Receive(h)
                          /\ B!Leave(h) <=> BP!Leave(h)
                          /\ B!Cancel(h) <=> BP!Cancel(h)
                          /\ B!Disconnect(h) <=> BP!Disconnect(h)
  BY <1>c DEF B!Connect, BP!Connect, B!Lock, BP!Lock, B!Subscribe, BP!Subscribe,
         B!Receive, BP!Receive, B!Leave, BP!Leave, B!Cancel, BP!Cancel,
         B!Disconnect, BP!Disconnect, B!Over, BP!Over, B!Unlock, BP!Unlock,
         B!Waiting, BP!Waiting, B!Unsubscribed, BP!Unsubscribed,
         B!broker, BP!broker, B!publishing, BP!publishing, B!handling, BP!handling
<1>5. B!IDs = BP!IDs
  BY DEF B!IDs, BP!IDs
<1>6. B!Next => BP!Next
  <2>1. (\E p \in Workers, m \in E!Html : B!Publish(p, m)) => BP!Next
    BY <1>3 DEF BP!Next
  <2>2. (\E p \in Workers : B!Published(p) \/ \E i \in B!IDs : B!Send(p, i)) => BP!Next
    BY <1>3, <1>5 DEF BP!Next
  <2>3. (\E h \in Handlers :
          B!Connect(h) \/ B!Lock(h) \/ B!Subscribe(h) \/ B!Receive(h) \/ B!Leave(h)
          \/ B!Cancel(h) \/ B!Disconnect(h)) => BP!Next
    BY <1>4 DEF BP!Next
  <2> QED
    BY <2>1, <2>2, <2>3 DEF B!Next
<1> QED
  BY <1>1, <1>2, <1>6
-----------------------------------------------------------------------------
\* What the browser of h shows once it has drained its channel, and that this is
\* html if the channel took the last message it was offered.
Latest(h) == IF queue[hid[h]] = <<>> THEN seen[h] ELSE queue[hid[h]][Len(queue[hid[h]])]
Shown(h, html) == hpc[h] = "loop" /\ heard[hid[h]] => Latest(h) = html

\* Why browsers catch up.  While the only request publishes, the store holds what
\* it publishes; the clients its loop has visited have that in their channels;
\* and when the loop is over every client has been visited.
Alone == \A w \in alone, v \in Workers : v # w => pc[v] = "idle"
Stored == \A w \in alone : pc[w] = "publish" => pages[page[w].id].html = page[w].html
Unheard == \A i \in BP!IDs : i >= nextID => ~heard[i]
Offered == \A w \in alone : w \in readers =>
             \A h \in Handlers : hid[h] \notin pending[w] => Shown(h, msg[w])
Told == told # None => /\ \A w \in Workers : msg[w] = None
                       /\ \A h \in Handlers : Shown(h, pages[told].html)
CatchUp == Alone /\ Stored /\ Unheard /\ Offered /\ Told
Histories ==
  /\ seen \in [Handlers -> EP!Html \cup {None}]
  /\ heard \in [0 .. MaxID - 1 -> BOOLEAN]
  /\ served \in 0 .. MaxRequests
  /\ alone \subseteq Workers
  /\ told \in Surfaces \cup {None}
CInv == RInv /\ BP!Inv /\ Histories /\ CatchUp

\* A handler's browser still gets to show what it was to show, or its channel has
\* been offered nothing yet.
KeepsShown ==
  \A h \in Handlers : hpc'[h] = "loop" =>
    \/ ~heard'[hid'[h]]
    \/ /\ hpc[h] = "loop" /\ hid'[h] = hid[h] /\ heard'[hid'[h]] = heard[hid[h]]
       /\ Latest(h)' = Latest(h)
ShownAfter(h, html) == hpc'[h] = "loop" /\ heard'[hid'[h]] => Latest(h)' = html
LEMMA KeptShown ==
  ASSUME KeepsShown, NEW h \in Handlers, NEW html, Shown(h, html)
  PROVE  ShownAfter(h, html)
  BY DEF KeepsShown, Shown, ShownAfter

\* The handlers of two clients wait on different channels, and a handler in its
\* loop has a registered one.
LEMMA OwnChannels ==
  ASSUME BP!Inv, NEW h \in Handlers, hpc[h] = "loop"
  PROVE  /\ hid[h] \in clients /\ hid[h] \in BP!IDs /\ hid[h] < nextID
         /\ \A g \in Handlers : hid[g] = hid[h] => g = h
  BY DEF BP!Inv, BP!TypeOK, BP!OneHandlerPerClient, BP!Draining, BP!IdInv

\* The invariant holds at the start.
LEMMA CInvInit == Init => CInv
<1>1. Init => RInv /\ BP!Inv
  BY RInvInit, SameBroker, BrokerAssumed, BP!InitInv DEF Init
<1>2. Init => Histories /\ CatchUp
  BY MaxRequestsAssumption, SameHtml
  DEF Init, E!Init, B!Init, Histories, CatchUp, Alone, Stored, Unheard, Offered, Told, Shown, BP!IDs
<1> QED
  BY <1>1, <1>2 DEF CInv

\* A request that arrives leaves the store and the browsers as they are.
LEMMA CatchUpAccept ==
  ASSUME CInv, NEW w \in Workers, Accept(w) PROVE CatchUp'
<1>1. EP!Accept(w) /\ UNCHANGED <<broker, watching, told>>
      /\ alone' = IF \A v \in Workers : pc[v] = "idle" THEN {w} ELSE {}
  BY SameAccept DEF Accept
<1>2. pc[w] = "idle" /\ pc'[w] # "publish" /\ UNCHANGED pages
  BY <1>1 DEF EP!Accept, EP!ProcessJSONL, EP!GetPageHandler, EP!RenderSurfaceByID, EP!Inspect,
              EP!ListPages, EP!CreateSurface, EP!DeleteSurface, EP!ResetRuntime, EP!store,
              CInv, RInv, EP!Inv, EP!TypeOK
<1>3. EP!Others(w)
  BY <1>1, EngineAssumed, EP!OnlyMoves DEF CInv, RInv, EP!Inv
<1>4. \A v \in alone' : v = w
  BY <1>1
<1>5. Alone' /\ Stored'
  BY <1>1, <1>2, <1>3, <1>4 DEF Alone, Stored, EP!Others
<1>6. msg[w] = None /\ w \notin readers
  BY <1>2 DEF CInv, RInv, Handing, HandsOverItsHTML, BP!Inv, BP!TypeOK
<1>7. Unheard' /\ Offered' /\ Told'
  BY <1>1, <1>2, <1>4, <1>6
  DEF CInv, CatchUp, Unheard, Offered, Told, Shown, Latest, broker, watching
<1> QED
  BY <1>5, <1>7 DEF CatchUp

\* The engine's steps between two publications: SaveHTML stores what it is going to
\* publish.
LEMMA CatchUpProceed ==
  ASSUME CInv, NEW w \in Workers, Proceed(w) PROVE CatchUp'
<1>1. /\ EP!Proceed(w) /\ pc[w] # "publish" /\ UNCHANGED <<broker, watching, alone>>
      /\ told' = IF pages' = pages THEN told ELSE None
  BY SameProceed DEF Proceed
<1>2. EP!Others(w)
  BY <1>1, EngineAssumed, EP!OnlyMoves DEF CInv, RInv, EP!Inv
<1>3. pc[w] # "idle"
  BY <1>1 DEF EP!Proceed, EP!ReloadPage, EP!EndOfInput, EP!RejectLine, EP!ApplyDeleteSurface,
              EP!ApplyUpdate, EP!ApplyBeginRendering, EP!WriteCell, EP!RejectComponent,
              EP!Upsert, EP!ReadCell, EP!SaveHTML, EP!Publish, EP!SaveOnDemand, EP!WalkCopy, EP!Inspected,
              EP!StoreCreated, EP!RemoveDeleted, EP!RemoveNext, EP!RemovedAll
<1>4. \A v \in alone : v = w
  BY <1>3 DEF CInv, CatchUp, Alone
<1>5. Alone'
  BY <1>1, <1>2, <1>4 DEF CInv, CatchUp, Alone, EP!Others
<1>6. pc'[w] = "publish" => pages'[page'[w].id].html = page'[w].html
  <2> SUFFICES ASSUME pc'[w] = "publish" PROVE pages'[page'[w].id].html = page'[w].html
    OBVIOUS
  <2>1. EP!SaveHTML(w)
    BY <1>1 DEF CInv, RInv, EP!Inv, EP!TypeOK, EP!Proceed, EP!ReloadPage, EP!EndOfInput,
                EP!RejectLine, EP!ApplyDeleteSurface, EP!ApplyUpdate, EP!ApplyBeginRendering,
                EP!WriteCell, EP!RejectComponent, EP!Upsert, EP!ReadCell, EP!Publish,
                EP!SaveOnDemand, EP!WalkCopy, EP!Inspected, EP!StoreCreated, EP!RemoveDeleted,
                EP!RemoveNext, EP!RemovedAll, EP!Respond, EP!local
  <2>2. PICK r : r = EP!Rendered(w)
    OBVIOUS
  <2>3. page' = [page EXCEPT ![w] = r] /\ pages' = [pages EXCEPT ![page[w].id] = r]
    BY <2>1, <2>2 DEF EP!SaveHTML
  <2>4. page[w].id \in Surfaces /\ r.id = page[w].id
    <3>1. page[w] \in EP!Page
      BY <2>1 DEF CInv, RInv, EP!Inv, EP!TypeOK, EP!SaveHTML, EP!Holding
    <3> QED
      BY <2>2, <3>1 DEF EP!Rendered, EP!Page
  <2>5. page \in [Workers -> EP!Page \cup {NoPage}]
        /\ pages \in [Surfaces -> EP!Page \cup {NoPage}]
    BY DEF CInv, RInv, EP!Inv, EP!TypeOK
  <2> QED
    BY <2>3, <2>4, <2>5
<1>7. Stored'
  BY <1>1, <1>4, <1>6 DEF Stored
<1>8. msg[w] = None /\ w \notin readers
  BY <1>1 DEF CInv, RInv, Handing, HandsOverItsHTML, BP!Inv, BP!TypeOK
<1>9. Unheard' /\ Offered' /\ Told'
  BY <1>1, <1>4, <1>8
  DEF CInv, CatchUp, Unheard, Offered, Told, Shown, Latest, broker, watching
<1> QED
  BY <1>5, <1>7, <1>9 DEF CatchUp

\* The only request's publication starts with every client still to visit.
LEMMA CatchUpStart ==
  ASSUME CInv, NEW w \in Workers, StartPublish(w) PROVE CatchUp'
<1>1. /\ pc[w] = "publish" /\ B!Publish(w, page[w].html) /\ told' = None
      /\ UNCHANGED <<engine, watching, alone>>
  BY DEF StartPublish
<1>2. UNCHANGED <<nextID, queue, hpc, hid>> /\ msg[w] = None /\ UNCHANGED <<pc, page, pages>>
  BY <1>1 DEF B!Publish, B!broker, B!handling, engine
<1>3. Alone' /\ Stored' /\ Unheard' /\ Told'
  BY <1>1, <1>2 DEF CInv, CatchUp, Alone, Stored, Unheard, Told, watching
<1>4. ASSUME NEW v \in alone, v \in readers', NEW h \in Handlers, hid[h] \notin pending'[v],
             hpc[h] = "loop"
      PROVE  FALSE
  <2>1. v = w
    BY <1>1 DEF CInv, CatchUp, Alone, Histories
  <2>2. w \notin readers
    BY <1>2 DEF CInv, BP!Inv, BP!TypeOK
  <2>3. pending'[w] = clients
    BY <1>1, <1>4, <2>1, <2>2 DEF B!Publish, CInv, BP!Inv, BP!TypeOK
  <2>4. hid[h] \in clients
    BY <1>4, OwnChannels DEF CInv
  <2> QED
    BY <1>4, <2>1, <2>3, <2>4
<1>5. Offered'
  BY <1>1, <1>2, <1>4 DEF Offered, Shown
<1> QED
  BY <1>3, <1>5 DEF CatchUp

\* A client that is offered the message has it as its latest, or has missed it.
LEMMA CatchUpSend ==
  ASSUME CInv, NEW w \in Workers, NEW i \in 0 .. MaxID - 1, Send(w, i) PROVE CatchUp'
<1>1. /\ w \in readers /\ i \in pending[w]
      /\ queue' = IF Len(queue[i]) < Capacity
                  THEN [queue EXCEPT ![i] = Append(@, msg[w])] ELSE queue
      /\ pending' = [pending EXCEPT ![w] = @ \ {i}]
      /\ UNCHANGED <<nextID, readers, msg, hpc, hid>>
      /\ heard' = [heard EXCEPT ![i] = Len(queue[i]) < Capacity]
      /\ UNCHANGED <<pc, page, pages, seen, alone, told>>
  BY DEF Send, B!Send, B!handling, engine
<1>2. /\ queue \in [0 .. MaxID - 1 -> Seq(E!Html)] /\ heard \in [0 .. MaxID - 1 -> BOOLEAN]
      /\ pending \in [Workers -> SUBSET (0 .. MaxID - 1)] /\ i \in clients /\ i < nextID
      /\ nextID \in 0 .. MaxID /\ msg[w] # None /\ MaxID \in Nat
  BY <1>1, MaxIDAssumption
  DEF CInv, BP!Inv, BP!TypeOK, BP!IDs, BP!LockInv, BP!IdInv, Histories
<1>3. Alone' /\ Stored'
  BY <1>1 DEF CInv, CatchUp, Alone, Stored
<1>4. Unheard'
  BY <1>1, <1>2 DEF CInv, CatchUp, Unheard, BP!IDs
<1>5. Told'
  BY <1>1, <1>2 DEF CInv, CatchUp, Told
<1>6. ASSUME NEW h \in Handlers, hid[h] = i, heard'[i]
      PROVE  Latest(h)' = msg[w]
  <2>1. Len(queue[i]) < Capacity
    BY <1>1, <1>2, <1>6
  <2>2. PICK q \in Seq(E!Html) : q = queue[i]
    BY <1>2
  <2>3. queue'[i] = Append(q, msg[w]) /\ hid'[h] = i
    BY <1>1, <1>2, <1>6, <2>1, <2>2
  <2>4. msg[w] \in E!Html
    BY <1>2 DEF CInv, BP!Inv, BP!TypeOK
  <2>5. Append(q, msg[w]) # <<>> /\ Append(q, msg[w])[Len(Append(q, msg[w]))] = msg[w]
    BY <2>2, <2>4
  <2> QED
    BY <2>3, <2>5 DEF Latest
<1>7. ASSUME NEW h \in Handlers, hid[h] # i, hpc[h] = "loop"
      PROVE  Latest(h)' = Latest(h) /\ heard'[hid[h]] = heard[hid[h]]
  <2>1. hid[h] \in 0 .. MaxID - 1
    BY <1>7, OwnChannels DEF CInv, BP!IDs
  <2>2. queue'[hid[h]] = queue[hid[h]] /\ heard'[hid[h]] = heard[hid[h]]
    BY <1>1, <1>2, <1>7, <2>1
  <2>3. hid'[h] = hid[h] /\ seen'[h] = seen[h]
    BY <1>1
  <2> QED
    BY <2>2, <2>3 DEF Latest
<1>8. Offered'
  <2> SUFFICES ASSUME NEW v \in alone, v \in readers, NEW h \in Handlers,
                      hid[h] \notin pending'[v], hpc[h] = "loop", heard'[hid[h]]
               PROVE  Latest(h)' = msg[v]
    BY <1>1 DEF Offered, Shown
  <2>1. v = w
    <3>1. pc[w] = "publish"
      BY <1>2 DEF CInv, RInv, Handing, HandsOverItsHTML
    <3> QED
      BY <3>1 DEF CInv, CatchUp, Alone
  <2>2. CASE hid[h] = i
    BY <1>6, <2>1, <2>2
  <2>3. CASE hid[h] # i
    <3>1. hid[h] \notin pending[w]
      BY <1>1, <1>2, <2>1, <2>3
    <3> QED
      BY <1>1, <1>7, <2>1, <2>3, <3>1 DEF CInv, CatchUp, Offered, Shown
  <2> QED
    BY <2>2, <2>3
<1> QED
  BY <1>3, <1>4, <1>5, <1>8 DEF CatchUp

\* When the only request's loop is over, every client has been offered what the
\* store holds.
LEMMA CatchUpFinish ==
  ASSUME CInv, NEW w \in Workers, FinishPublish(w) PROVE CatchUp'
<1>1. /\ EP!Publish(w) /\ B!Published(w) /\ UNCHANGED <<watching, alone>>
      /\ told' = IF w \in alone THEN page[w].id ELSE None
  BY SamePublish DEF FinishPublish
<1>2. /\ w \in readers /\ pending[w] = {} /\ readers' = readers \ {w}
      /\ msg' = [msg EXCEPT ![w] = None]
      /\ UNCHANGED <<nextID, queue, pending, hpc, hid, seen, heard, pages>>
      /\ pc[w] = "publish"
  BY <1>1 DEF B!Published, B!broker, B!handling, watching, EP!Publish, EP!store
<1>3. EP!Others(w)
  BY <1>1, EngineAssumed, EP!OnlyMoves DEF CInv, RInv, EP!Inv, EP!Proceed
<1>4. \A v \in alone : v = w
  BY <1>2 DEF CInv, CatchUp, Alone
<1>5. pc'[w] = "line"
  BY <1>1 DEF EP!Publish, CInv, RInv, EP!Inv, EP!TypeOK
<1>6. Alone' /\ Stored'
  BY <1>1, <1>3, <1>4, <1>5 DEF CInv, CatchUp, Alone, Stored, EP!Others
<1>7. Unheard'
  BY <1>2 DEF CInv, CatchUp, Unheard
<1>8. Offered'
  BY <1>1, <1>2, <1>4 DEF Offered
<1>9. Told'
  <2> SUFFICES ASSUME w \in alone PROVE Told'
    BY <1>1 DEF Told
  <2>1. \A v \in Workers : msg'[v] = None
    BY <1>2 DEF CInv, CatchUp, Alone, RInv, Handing, HandsOverItsHTML
  <2>2. msg[w] = page[w].html /\ pages[page[w].id].html = page[w].html
    BY <1>2 DEF CInv, CatchUp, Stored, RInv, Handing, HandsOverItsHTML, BP!Inv, BP!TypeOK
  <2>3. \A h \in Handlers : Shown(h, msg[w])
    BY <1>2 DEF CInv, CatchUp, Offered
  <2>4. told' = page[w].id
    BY <1>1
  <2> QED
    BY <1>2, <2>1, <2>2, <2>3, <2>4 DEF Told, Shown, Latest
<1> QED
  BY <1>6, <1>7, <1>8, <1>9 DEF CatchUp


\* Whatever a handler does, its browser still gets to show what it was to show.
LEMMA CatchUpKept ==
  ASSUME CInv, KeepsShown, UNCHANGED <<pc, page, pages, msg, heard, alone, told>>,
         nextID' >= nextID, nextID' \in Nat,
         \A v \in alone : v \in readers' =>
           \/ v \in readers /\ pending'[v] = pending[v] /\ hid' = hid
           \/ \A h \in Handlers : hpc'[h] = "loop" => hid'[h] \in pending'[v]
  PROVE  CatchUp'
<1>1. Alone' /\ Stored'
  BY DEF CInv, CatchUp, Alone, Stored
<1>2. Unheard'
  BY MaxIDAssumption DEF CInv, CatchUp, Unheard, BP!IDs, BP!Inv, BP!TypeOK
<1>3. Told'
  BY KeptShown DEF CInv, CatchUp, Told, ShownAfter, Shown
<1>4. Offered'
  <2> SUFFICES ASSUME NEW v \in alone, v \in readers', NEW h \in Handlers,
                      hid'[h] \notin pending'[v], hpc'[h] = "loop"
               PROVE  ShownAfter(h, msg[v])
    BY DEF Offered, Shown, ShownAfter
  <2>1. v \in readers /\ pending'[v] = pending[v] /\ hid' = hid
    OBVIOUS
  <2>2. Shown(h, msg[v])
    BY <2>1 DEF CInv, CatchUp, Offered
  <2> QED
    BY <2>2, KeptShown
<1> QED
  BY <1>1, <1>2, <1>3, <1>4 DEF CatchUp

\* The last element of a sequence is that of its tail, unless it is the head.
LEMMA LastOfTail ==
  ASSUME NEW T, NEW q \in Seq(T), q # <<>>
  PROVE  q[Len(q)] = IF Tail(q) = <<>> THEN Head(q) ELSE Tail(q)[Len(Tail(q))]
<1>1. PICK l \in Nat : l = Len(q)
  OBVIOUS
<1>2. PICK t \in Seq(T) : t = Tail(q)
  BY HeadTailProperties
<1>3. Len(t) = l - 1 /\ l >= 1 /\ Head(q) = q[1]
  BY <1>1, <1>2, HeadTailProperties
<1>4. \A i \in 1 .. l - 1 : t[i] = q[i + 1]
  BY <1>1, <1>2, <1>3, HeadTailProperties
<1>5. l = 1 => t = <<>>
  BY <1>2, <1>3
<1>6. l # 1 => t # <<>> /\ t[l - 1] = q[l]
  <2> SUFFICES ASSUME l # 1 PROVE t # <<>> /\ t[l - 1] = q[l]
    OBVIOUS
  <2>1. l - 1 \in 1 .. l - 1 /\ (l - 1) + 1 = l
    BY <1>3
  <2>2. t # <<>>
    BY <1>3
  <2> QED
    BY <1>4, <2>1, <2>2
<1> QED
  BY <1>1, <1>2, <1>3, <1>5, <1>6

\* A browser that receives the head of its channel has as its latest what it had.
LEMMA CatchUpReceive ==
  ASSUME CInv, NEW h \in Handlers, Receive(h) PROVE CatchUp'
<1>1. /\ hpc[h] = "loop" /\ queue[hid[h]] # <<>>
      /\ queue' = [queue EXCEPT ![hid[h]] = Tail(@)]
      /\ seen' = [seen EXCEPT ![h] = Head(queue[hid[h]])]
      /\ UNCHANGED <<nextID, readers, pending, msg, hpc, hid, heard, alone, told>>
      /\ UNCHANGED <<pc, page, pages>>
  BY DEF Receive, B!Receive, B!publishing, B!handling, engine
<1>2. /\ queue \in [BP!IDs -> Seq(E!Html)] /\ seen \in [Handlers -> EP!Html \cup {None}]
      /\ hid[h] \in BP!IDs /\ nextID \in Nat
  BY <1>1, MaxIDAssumption, OwnChannels DEF CInv, BP!Inv, BP!TypeOK, Histories
<1>3. ASSUME NEW g \in Handlers, hpc[g] = "loop" PROVE Latest(g)' = Latest(g)
  <2>1. CASE g = h
    <3>1. PICK q \in Seq(E!Html) : q = queue[hid[h]]
      BY <1>2
    <3>2. queue'[hid[h]] = Tail(q) /\ hid'[h] = hid[h] /\ seen'[h] = Head(q)
      BY <1>1, <1>2, <3>1
    <3>3. Latest(h)' = IF Tail(q) = <<>> THEN Head(q) ELSE Tail(q)[Len(Tail(q))]
      BY <3>2 DEF Latest
    <3>4. q # <<>> /\ Latest(h) = q[Len(q)]
      BY <1>1, <3>1 DEF Latest
    <3> QED
      BY <2>1, <3>3, <3>4, LastOfTail
  <2>2. CASE g # h
    <3>1. hid[g] # hid[h] /\ hid[g] \in BP!IDs
      BY <1>1, <1>3, <2>2, OwnChannels DEF CInv
    <3>2. queue'[hid[g]] = queue[hid[g]] /\ hid'[g] = hid[g] /\ seen'[g] = seen[g]
      BY <1>1, <1>2, <2>2, <3>1
    <3> QED
      BY <3>2 DEF Latest
  <2> QED
    BY <2>1, <2>2
<1>4. KeepsShown
  BY <1>1, <1>3 DEF KeepsShown
<1> QED
  BY <1>1, <1>2, <1>4, CatchUpKept

\* Who gets the read lock when a handler gives the lock up has every client to visit.
LEMMA Granted ==
  ASSUME BP!Inv, BP!Inv', NEW cs, B!Unlock(cs), clients' = cs, NEW v \in readers',
         NEW h \in Handlers, hpc'[h] = "loop"
  PROVE  hid'[h] \in pending'[v]
<1>1. pending'[v] = clients'
  BY DEF B!Unlock, B!Waiting
<1>2. hid'[h] \in clients'
  BY DEF BP!Inv, BP!OneHandlerPerClient, BP!Draining
<1> QED
  BY <1>1, <1>2

\* The other steps of a handler.  A new client has been offered nothing.
LEMMA CatchUpHandle ==
  ASSUME CInv, BP!Inv', NEW h \in Handlers, Handle(h) PROVE CatchUp'
<1>1. /\ seen' = [seen EXCEPT ![h] = IF hpc'[h] = "off" THEN None ELSE @]
      /\ UNCHANGED <<heard, alone, told, pc, page, pages>>
  BY DEF Handle, engine
<1>2. /\ queue \in [BP!IDs -> Seq(E!Html)] /\ seen \in [Handlers -> EP!Html \cup {None}]
      /\ nextID \in 0 .. MaxID /\ MaxID \in Nat
      /\ hpc \in [Handlers -> BP!HandlerPCs] /\ hid \in [Handlers -> BP!IDs \cup {MaxID}]
  BY MaxIDAssumption DEF CInv, BP!Inv, BP!TypeOK, Histories
<1>3. ASSUME UNCHANGED <<nextID, queue, hid, readers, pending, msg>>,
             \A g \in Handlers : hpc'[g] = "loop" => hpc[g] = "loop"
      PROVE  CatchUp'
  <2>1. KeepsShown
    BY <1>1, <1>2, <1>3 DEF KeepsShown, Latest
  <2> QED
    BY <1>1, <1>2, <1>3, <2>1, CatchUpKept
<1>4. ASSUME B!Connect(h) \/ B!Lock(h) \/ B!Leave(h) \/ B!Disconnect(h) PROVE CatchUp'
  <2>1. UNCHANGED <<nextID, queue, hid, readers, pending, msg>>
    BY <1>4 DEF B!Connect, B!Lock, B!Leave, B!Disconnect, B!broker, B!publishing
  <2>2. \A g \in Handlers : hpc'[g] = "loop" => hpc[g] = "loop"
    BY <1>2, <1>4 DEF B!Connect, B!Lock, B!Leave, B!Disconnect
  <2> QED
    BY <1>3, <2>1, <2>2
<1>5. ASSUME B!Subscribe(h) PROVE CatchUp'
  <2>1. /\ hpc[h] = "subscribing" /\ nextID' = nextID + 1 /\ nextID < MaxID
        /\ hid' = [hid EXCEPT ![h] = nextID] /\ hpc' = [hpc EXCEPT ![h] = "loop"]
        /\ B!Unlock(clients') /\ UNCHANGED <<queue, msg>>
    BY <1>5 DEF B!Subscribe
  <2>2. ~heard[nextID] /\ hid'[h] = nextID
    BY <1>2, <2>1 DEF CInv, CatchUp, Unheard, BP!IDs
  <2>3. ASSUME NEW g \in Handlers, g # h, hpc'[g] = "loop"
        PROVE  hpc[g] = "loop" /\ hid'[g] = hid[g] /\ Latest(g)' = Latest(g)
    <3>1. hpc[g] = "loop" /\ hid'[g] = hid[g] /\ seen'[g] = seen[g]
      BY <1>1, <1>2, <2>1, <2>3
    <3> QED
      BY <2>1, <3>1 DEF Latest
  <2>4. KeepsShown
    BY <1>1, <2>2, <2>3 DEF KeepsShown
  <2>5. \A v \in alone, g \in Handlers :
          v \in readers' /\ hpc'[g] = "loop" => hid'[g] \in pending'[v]
    BY <2>1, Granted DEF CInv
  <2> QED
    BY <1>1, <1>2, <2>1, <2>4, <2>5, CatchUpKept
<1>6. ASSUME B!Cancel(h) PROVE CatchUp'
  <2>1. /\ hpc[h] = "cancelling" /\ UNCHANGED nextID
        /\ hid' = [hid EXCEPT ![h] = MaxID] /\ hpc' = [hpc EXCEPT ![h] = "off"]
        /\ queue' = [queue EXCEPT ![hid[h]] = <<>>]
        /\ B!Unlock(clients') /\ UNCHANGED msg
    BY <1>6 DEF B!Cancel
  <2>2. ASSUME NEW g \in Handlers, hpc'[g] = "loop"
        PROVE  hpc[g] = "loop" /\ hid'[g] = hid[g] /\ Latest(g)' = Latest(g)
    <3>1. g # h /\ hpc[g] = "loop" /\ hid'[g] = hid[g]
      BY <1>2, <2>1, <2>2
    <3>2. hid[g] # hid[h] /\ hid[g] \in BP!IDs
      BY <3>1, OwnChannels DEF CInv
    <3>3. queue'[hid[g]] = queue[hid[g]] /\ seen'[g] = seen[g]
      BY <1>1, <1>2, <2>1, <3>1, <3>2
    <3> QED
      BY <3>1, <3>3 DEF Latest
  <2>3. KeepsShown
    BY <1>1, <2>2 DEF KeepsShown
  <2>4. \A v \in alone, g \in Handlers :
          v \in readers' /\ hpc'[g] = "loop" => hid'[g] \in pending'[v]
    BY <2>1, Granted DEF CInv
  <2> QED
    BY <1>1, <1>2, <2>1, <2>3, <2>4, CatchUpKept
<1> QED
  BY <1>4, <1>5, <1>6 DEF Handle


\* The history variables keep their types: what a browser receives is HTML.
LEMMA HistoriesStep ==
  ASSUME CInv, [Next]_vars PROVE Histories'
<1> USE DEF CInv, Histories
<1>1. ASSUME NEW w \in Workers, Accept(w) PROVE Histories'
  BY <1>1, MaxRequestsAssumption DEF Accept, watching
<1>2. ASSUME NEW w \in Workers, Proceed(w) PROVE Histories'
  BY <1>2 DEF Proceed, watching
<1>3. ASSUME NEW w \in Workers, StartPublish(w) PROVE Histories'
  BY <1>3 DEF StartPublish, watching
<1>4. ASSUME NEW w \in Workers, NEW i \in 0 .. MaxID - 1, Send(w, i) PROVE Histories'
  BY <1>4 DEF Send
<1>5. ASSUME NEW w \in Workers, FinishPublish(w) PROVE Histories'
  <2>1. page[w] \in EP!Page
    BY <1>5, SamePublish
    DEF FinishPublish, EP!Publish, RInv, EP!Inv, EP!TypeOK, EP!Holding
  <2>2. page[w].id \in Surfaces
    BY <2>1 DEF EP!Page
  <2> QED
    BY <1>5, <2>2 DEF FinishPublish, watching
<1>6. ASSUME NEW h \in Handlers, Receive(h) PROVE Histories'
  <2>1. hpc[h] = "loop" /\ queue[hid[h]] # <<>>
    BY <1>6 DEF Receive, B!Receive
  <2>2. queue[hid[h]] \in Seq(E!Html)
    BY <2>1, OwnChannels DEF BP!Inv, BP!TypeOK
  <2>3. Head(queue[hid[h]]) \in EP!Html
    BY <2>1, <2>2, SameHtml
  <2> QED
    BY <1>6, <2>3 DEF Receive
<1>7. ASSUME NEW h \in Handlers, Handle(h) PROVE Histories'
  BY <1>7 DEF Handle
<1>8. Crash \/ Crashed \/ Quiet \/ UNCHANGED vars => Histories'
  BY DEF Crash, Crashed, Quiet, vars, history
<1> QED
  BY <1>1, <1>2, <1>3, <1>4, <1>5, <1>6, <1>7, <1>8 DEF Next

\* Every step of the whole keeps the invariant.
LEMMA CInvStep == CInv /\ [Next]_vars => CInv'
<1> SUFFICES ASSUME CInv, [Next]_vars PROVE CInv'
  OBVIOUS
<1>1. RInv'
  BY RInvStep DEF CInv
<1>2. BP!Inv'
  BY BrokerStep, SameBroker, BrokerAssumed, BP!StepInv DEF CInv
<1>3. Histories'
  BY HistoriesStep
<1>4. Crash \/ Crashed \/ Quiet \/ UNCHANGED vars => CatchUp'
  BY DEF Crash, Crashed, Quiet, E!MapRace, E!store, E!local, vars, engine, broker, history, CInv,
         CatchUp, Alone, Stored, Unheard, Offered, Told, Shown, Latest
<1>5. CatchUp'
  BY <1>2, <1>4, CatchUpAccept, CatchUpProceed, CatchUpStart, CatchUpSend, CatchUpFinish,
     CatchUpReceive, CatchUpHandle DEF Next
<1> QED
  BY <1>1, <1>2, <1>3, <1>5 DEF CInv

\* The history variables have their types, and what the broker is given is the
\* HTML its publisher has stored.
THEOREM TypeCorrect == Spec => []TypeOK
<1>1. CInv => TypeOK
  BY SameHtml DEF CInv, RInv, Handing, Histories, TypeOK
<1> QED
  BY <1>1, CInvInit, CInvStep, PTL DEF Spec

\* After a request that no other one overlapped, every browser whose channel took
\* the message and was drained shows the HTML the store holds, for any numbers of
\* surfaces, workers and streams and any capacity of the channels.
THEOREM BrowsersDoCatchUp == Spec => []BrowsersCatchUp
<1>1. CInv => BrowsersCatchUp
  BY DEF CInv, CatchUp, Told, Shown, Latest, BrowsersCatchUp
<1> QED
  BY <1>1, CInvInit, CInvStep, PTL DEF Spec
=============================================================================
