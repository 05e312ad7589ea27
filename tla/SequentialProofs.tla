-------------------------- MODULE SequentialProofs --------------------------
(***************************************************************************)
(* Proofs about EngineSequential: while requests do not overlap, that is   *)
(* with one worker, the engine implements SurfaceStore and shows what it   *)
(* holds, for any surfaces, maps, payloads and UI files.                   *)
(***************************************************************************)
EXTENDS EngineSequential, EngineProofs

Alone == \A v, w \in Workers : v = w

\* What the worker holds agrees with what is stored: nobody else can have changed
\* the store since it fetched its copy.
Fresh(w) ==
  /\ pc[w] = "write" =>
       IF pages[page[w].id] = NoPage THEN page[w].html = None
       ELSE /\ pages[page[w].id].buf = page[w].buf
            /\ pages[page[w].id].html = page[w].html
            /\ pages[page[w].id].root # None => page[w].root # None
  /\ pc[w] \in {"read", "publish"} => pages[page[w].id] = page[w]
  /\ pc[w] = "read" =>
       \A c \in Cells : snap[w][c] # Unread => snap[w][c] = heap[page[w].buf][c]
  /\ pc[w] = "publish" =>
       /\ page[w].html # None
       /\ page[w].html = [root |-> page[w].root, view |-> heap[page[w].buf]]
  /\ pc[w] = "create" =>
       /\ pages[page[w].id] = NoPage
       /\ page[w] = NewPage(page[w].id, page[w].buf)
       /\ heap[page[w].buf] = Empty
Current == \A w \in Workers : Fresh(w)

\* A rendering that is complete shows what the maps hold.
LEMMA ViewIsHeap ==
  ASSUME Inv, Current, NEW w \in Workers, pc[w] = "read", RenderedAll(w)
  PROVE  /\ snap[w] = heap[page[w].buf]
         /\ Rendered(w).html = [root |-> page[w].root, view |-> heap[page[w].buf]]
<1>1. page[w] \in Page
  BY DEF Inv, TypeOK, Holding
<1>2. page[w].buf \in Bufs
  BY <1>1 DEF Page
<1>3. heap[page[w].buf] \in [Cells -> Content]
  BY <1>2 DEF Inv, TypeOK
<1>4. snap[w] \in [Cells -> Content \cup {Unread}]
  BY DEF Inv, TypeOK
<1>5. \A c \in Cells : snap[w][c] = heap[page[w].buf][c]
  BY DEF RenderedAll, Current, Fresh
<1>6. snap[w] = heap[page[w].buf]
  BY <1>3, <1>4, <1>5
<1>7. Rendered(w).html = [root |-> page[w].root, view |-> snap[w]]
  BY <1>1 DEF Rendered, Page
<1> QED
  BY <1>6, <1>7

\* Every step of the only worker keeps its copy in agreement with the store.
LEMMA CurrentStep == Alone /\ Inv /\ Current /\ [Next]_vars => Current'
<1> SUFFICES ASSUME Alone, Inv, Current, [Next]_vars PROVE Current'
  OBVIOUS
<1> USE DEF Inv
<1>a. ASSUME NEW w \in Workers, Fresh(w)' PROVE Current'
  BY <1>a DEF Current, Alone
<1>b. ASSUME NEW w \in Workers, pc'[w] \notin {"write", "read", "publish", "create"}
      PROVE Current'
  BY <1>b, <1>a DEF Fresh
<1>r. ASSUME NEW w \in Workers, Respond(w) PROVE Current'
  BY <1>r, <1>b DEF Respond, TypeOK
<1>1. ASSUME NEW w \in Workers,
             ReloadPage(w) \/ RejectLine(w) \/ RejectComponent(w) \/ Inspected(w)
             \/ StoreCreated(w) \/ RemoveDeleted(w) \/ RemovedAll(w) \/ SaveOnDemand(w)
      PROVE Current'
  BY <1>1, <1>r DEF ReloadPage, RejectLine, RejectComponent, Inspected, StoreCreated,
                    RemoveDeleted, RemovedAll, SaveOnDemand
<1>2. ASSUME NEW w \in Workers, EndOfInput(w) PROVE Current'
  BY <1>2, <1>r, <1>b DEF EndOfInput, TypeOK
<1>3. ASSUME NEW w \in Workers,
             ProcessJSONL(w) \/ ResetRuntime(w) \/ ApplyDeleteSurface(w) \/ RemoveNext(w)
             \/ Publish(w) \/ ListPages(w) \/ WalkCopy(w)
      PROVE Current'
  BY <1>3, <1>b DEF ProcessJSONL, ResetRuntime, ApplyDeleteSurface, RemoveNext, Publish,
                    ListPages, WalkCopy, TypeOK
<1>4. ASSUME NEW w \in Workers, NEW s \in Surfaces,
             GetPageHandler(w, s) \/ DeleteSurface(w, s) \/ Inspect(w, s)
      PROVE Current'
  BY <1>4, <1>b DEF GetPageHandler, DeleteSurface, Inspect, TypeOK
<1>5. ASSUME NEW w \in Workers, NEW s \in Surfaces, RenderSurfaceByID(w, s) PROVE Current'
  <2>1. pages[s].id = s
    BY <1>5 DEF RenderSurfaceByID, Lifecycle
  <2>2. page'[w] = pages[s] /\ pages' = pages /\ pc'[w] = "read"
    BY <1>5 DEF RenderSurfaceByID, TypeOK, store
  <2>3. \A c \in Cells : snap'[w][c] = Unread
    BY <1>5 DEF RenderSurfaceByID, StartRender, TypeOK
  <2> QED
    BY <1>a, <2>1, <2>2, <2>3 DEF Fresh
<1>6. ASSUME NEW w \in Workers, NEW s \in Surfaces, CreateSurface(w, s) PROVE Current'
  <2>1. PICK b \in Bufs : Allocates(s, b) /\ page' = [page EXCEPT ![w] = NewPage(s, b)]
    BY <1>6 DEF CreateSurface
  <2>2. pages[s] = NoPage /\ pages' = pages /\ pc'[w] = "create"
    BY <1>6 DEF CreateSurface, TypeOK
  <2>3. page'[w] = NewPage(s, b)
    BY <2>1 DEF TypeOK
  <2>4. page'[w].id = s /\ page'[w].buf = b
    BY <2>3 DEF NewPage
  <2>5. heap'[b] = Empty
    BY <2>1, <2>2 DEF Allocates, TypeOK
  <2> QED
    BY <1>a, <2>2, <2>3, <2>4, <2>5 DEF Fresh
<1>7. ASSUME NEW w \in Workers, NEW s \in Surfaces, NEW b \in Bufs, NEW p,
             Allocates(s, b), pages' = pages, pc'[w] = "write", page'[w] = p,
             p.id = s, p.buf = GetOrCreatePage(s, b).buf, p.html = GetOrCreatePage(s, b).html,
             GetOrCreatePage(s, b).root # None => p.root # None
      PROVE Current'
  BY <1>7, <1>a DEF Fresh, GetOrCreatePage, NewPage
<1>8. ASSUME NEW s \in Surfaces, NEW b \in Bufs PROVE GetOrCreatePage(s, b).id = s
  BY DEF GetOrCreatePage, NewPage, Lifecycle
<1>9. ASSUME NEW w \in Workers, pc[w] = "line", lines[w] # <<>>, Head(lines[w]).kind # "invalid"
      PROVE  /\ Head(lines[w]).id \in Surfaces
             /\ Head(lines[w]).kind = "beginRendering" => Head(lines[w]).root \in Roots
  <2>1. Head(lines[w]) \in Line
    BY <1>9 DEF TypeOK
  <2> QED
    BY <1>9, <2>1, LineFields
<1>10. ASSUME NEW w \in Workers, ApplyUpdate(w) PROVE Current'
  <2>1. Head(lines[w]).id \in Surfaces
    BY <1>10, <1>9 DEF ApplyUpdate
  <2>2. PICK b \in Bufs : /\ Allocates(Head(lines[w]).id, b)
                          /\ page' = [page EXCEPT ![w] = GetOrCreatePage(Head(lines[w]).id, b)]
    BY <1>10 DEF ApplyUpdate
  <2>3. page'[w] = GetOrCreatePage(Head(lines[w]).id, b)
    BY <2>2 DEF TypeOK
  <2>4. pages' = pages /\ pc'[w] = "write"
    BY <1>10 DEF ApplyUpdate, TypeOK
  <2> QED
    BY <1>7, <1>8, <2>1, <2>2, <2>3, <2>4
<1>11. ASSUME NEW w \in Workers, ApplyBeginRendering(w) PROVE Current'
  <2> DEFINE m == Head(lines[w])
  <2>1. m.id \in Surfaces /\ m.root \in Roots
    BY <1>11, <1>9 DEF ApplyBeginRendering
  <2>2. PICK b \in Bufs : /\ Allocates(m.id, b)
                          /\ page' = [page EXCEPT ![w] = [GetOrCreatePage(m.id, b) EXCEPT
                                                            !.root = m.root, !.ready = TRUE]]
    BY <1>11 DEF ApplyBeginRendering
  <2>3. page'[w] = [GetOrCreatePage(m.id, b) EXCEPT !.root = m.root, !.ready = TRUE]
    BY <2>2 DEF TypeOK
  <2>4. GetOrCreatePage(m.id, b) \in Page
    BY <2>1, NewPageType DEF GetOrCreatePage, TypeOK
  <2>5. pages' = pages /\ pc'[w] = "write"
    BY <1>11 DEF ApplyBeginRendering, TypeOK
  <2>6. /\ page'[w].id = m.id
        /\ page'[w].buf = GetOrCreatePage(m.id, b).buf
        /\ page'[w].html = GetOrCreatePage(m.id, b).html
        /\ page'[w].root # None
    BY <1>8, <2>1, <2>3, <2>4, MarkersAssumption DEF Page
  <2> HIDE DEF m
  <2> QED
    BY <1>7, <2>1, <2>2, <2>5, <2>6
<1>12. ASSUME NEW w \in Workers, WriteCell(w) PROVE Current'
  BY <1>12, <1>a DEF WriteCell, Current, Fresh
<1>13. ASSUME NEW w \in Workers, Upsert(w) PROVE Current'
  <2>1. CASE page[w].ready
    <3>1. page[w].id \in Surfaces
      BY <1>13 DEF Upsert, TypeOK, Holding, Page
    <3>2. pages'[page[w].id] = page[w] /\ page' = page /\ pc'[w] = "read"
      BY <1>13, <2>1, <3>1 DEF Upsert, TypeOK
    <3>3. \A c \in Cells : snap'[w][c] = Unread
      BY <1>13, <2>1 DEF Upsert, StartRender, TypeOK
    <3> QED
      BY <1>a, <3>2, <3>3 DEF Fresh
  <2>2. CASE ~page[w].ready
    BY <1>13, <2>2, <1>b DEF Upsert, TypeOK
  <2> QED
    BY <2>1, <2>2
<1>14. ASSUME NEW w \in Workers, ReadCell(w) PROVE Current'
  <2>1. PICK c \in Cells : snap' = [snap EXCEPT ![w][c] = heap[page[w].buf][c]]
    BY <1>14 DEF ReadCell
  <2>2. /\ pages' = pages /\ heap' = heap /\ page' = page
        /\ pc[w] = "read" /\ pc'[w] = "read"
    BY <1>14 DEF ReadCell, store
  <2>3. \A d \in Cells : snap'[w][d] = IF d = c THEN heap[page[w].buf][c] ELSE snap[w][d]
    BY <2>1 DEF TypeOK
  <2>4. /\ pages[page[w].id] = page[w]
        /\ \A d \in Cells : snap[w][d] # Unread => snap[w][d] = heap[page[w].buf][d]
    BY <2>2 DEF Current, Fresh
  <2>5. \A d \in Cells : snap'[w][d] # Unread => snap'[w][d] = heap[page[w].buf][d]
    BY <2>3, <2>4
  <2>6. Fresh(w)'
    BY <2>2, <2>4, <2>5 DEF Fresh
  <2> QED
    BY <1>a, <2>6
<1>15. ASSUME NEW w \in Workers, SaveHTML(w) PROVE Current'
  <2>1. /\ page[w] \in Page /\ Rendered(w).id = page[w].id /\ Rendered(w).buf = page[w].buf
        /\ Rendered(w).root = page[w].root /\ Rendered(w).html # None
    BY <1>15, RenderedType DEF SaveHTML
  <2>2. Rendered(w).html = [root |-> page[w].root, view |-> heap[page[w].buf]]
    BY <1>15, ViewIsHeap DEF SaveHTML
  <2>3. page[w].id \in Surfaces
    BY <2>1 DEF Page
  <2>4. pc'[w] = "publish" /\ page'[w] = Rendered(w) /\ pages'[page[w].id] = Rendered(w)
        /\ heap' = heap
    BY <1>15, <2>3 DEF SaveHTML, TypeOK
  <2> QED
    BY <1>a, <2>1, <2>2, <2>4 DEF Fresh
<1>16. CASE MapRace
  BY <1>16 DEF MapRace, store, local, Current, Fresh
<1>17. CASE UNCHANGED vars
  BY <1>17 DEF vars, store, local, Current, Fresh
<1> QED
  BY <1>1, <1>2, <1>3, <1>4, <1>5, <1>6, <1>10, <1>11, <1>12, <1>13, <1>14, <1>15, <1>16, <1>17
  DEF Next, Alive, Accept, Proceed, Crashed
-----------------------------------------------------------------------------
\* How a surface changes, and that other surfaces do not.
Untouched(s) == \A t \in Surfaces : t # s => Surface(t)' = Surface(t)
Unseen == (\A t \in Surfaces : Surface(t)' = Surface(t)) /\ feed' = feed
Simulates == [Abstract!Next]_(Abstract!vars)

LEMMA UnseenStutters == Unseen => Simulates
  BY DEF Unseen, Simulates, Abstract!vars

LEMMA PagesKept ==
  ASSUME pages' = pages, heap' = heap, feed' = feed
  PROVE  Unseen
  BY DEF Unseen, Surface

\* A stored page is a surface that exists.
LEMMA StoredSurface ==
  ASSUME Inv, NEW s \in Surfaces, pages[s] # NoPage
  PROVE  /\ Surface(s) # None
         /\ Abstract!Old(s) = Surface(s)
         /\ Surface(s) = [cells |-> heap[pages[s].buf], root |-> pages[s].root,
                          html |-> pages[s].html]
<1>1. pages[s] \in Page
  BY DEF Inv, TypeOK
<1>2. pages[s].buf \in Bufs
  BY <1>1 DEF Page
<1>3. heap[pages[s].buf] \in [Cells -> Content]
  BY <1>2 DEF Inv, TypeOK
<1>4. Surface(s) = [cells |-> heap[pages[s].buf], root |-> pages[s].root,
                    html |-> pages[s].html]
  BY DEF Surface
<1>5. Surface(s) \in [cells : [Cells -> Content], root : Roots \cup {None},
                      html : Html \cup {None}]
  BY <1>1, <1>3, <1>4 DEF Page
<1>6. Surface(s) # None
  BY <1>5, SurfaceAssumption
<1> QED
  BY <1>4, <1>6 DEF Abstract!Old

LEMMA NoSurface ==
  ASSUME NEW s \in Surfaces, pages[s] = NoPage
  PROVE  /\ Surface(s) = None
         /\ Abstract!Old(s) = [cells |-> Abstract!Empty, root |-> None, html |-> None]
  BY DEF Surface, Abstract!Old

\* The surface of s becomes x, no other one changes.
LEMMA OneChanges ==
  ASSUME NEW s \in Surfaces, NEW x, Untouched(s), Surface(s)' = x
  PROVE  [t \in Surfaces |-> Surface(t)]' = [[t \in Surfaces |-> Surface(t)] EXCEPT ![s] = x]
  BY DEF Untouched

\* A store of a page leaves the other surfaces alone.
LEMMA StoreTouchesOne ==
  ASSUME TypeOK, NEW s \in Surfaces, NEW p, pages' = [pages EXCEPT ![s] = p], heap' = heap
  PROVE  Untouched(s) /\ pages'[s] = p
  BY DEF Untouched, Surface, TypeOK

\* A removal is a Delete, of whatever is there.
LEMMA RemovalSimulates ==
  ASSUME TypeOK, NEW s \in Surfaces, pages' = [pages EXCEPT ![s] = NoPage], heap' = heap,
         feed' = feed
  PROVE  Simulates
<1>1. Untouched(s) /\ pages'[s] = NoPage
  BY StoreTouchesOne
<1>2. Surface(s)' = None
  BY <1>1 DEF Surface
<1>3. Abstract!Delete(s)
  BY <1>1, <1>2, OneChanges DEF Abstract!Delete
<1> QED
  BY <1>3 DEF Simulates, Abstract!Next

\* Maps that make() returns are those of no stored page.
LEMMA AllocationUnseen ==
  ASSUME Inv, NEW s \in Surfaces, NEW b \in Bufs, Allocates(s, b), pages' = pages, feed' = feed
  PROVE  Unseen
<1>1. CASE pages[s] # NoPage
  BY <1>1, PagesKept DEF Allocates
<1>2. CASE pages[s] = NoPage
  <2>1. \A t \in Surfaces : pages[t] # NoPage => pages[t].buf # b
    BY <1>2 DEF Allocates, Free, Used
  <2>2. \A t \in Surfaces : pages[t] # NoPage => heap'[pages[t].buf] = heap[pages[t].buf]
    <3>1. \A t \in Surfaces : pages[t] # NoPage => pages[t].buf \in Bufs
      BY DEF Inv, TypeOK, Page
    <3> QED
      BY <1>2, <2>1, <3>1 DEF Allocates, Inv, TypeOK
  <2> QED
    BY <2>2 DEF Unseen, Surface
<1> QED
  BY <1>1, <1>2

\* A map is written for one surface only.
LEMMA WriteTouchesOne ==
  ASSUME Inv, NEW w \in Workers, WriteCell(w)
  PROVE  /\ page[w] \in Page /\ page[w].id \in Surfaces /\ page[w].buf \in Bufs
         /\ Untouched(page[w].id)
         /\ \A t \in Surfaces : t # page[w].id /\ pages[t] # NoPage =>
              heap'[pages[t].buf] = heap[pages[t].buf]
         /\ pages' = pages /\ feed' = feed
<1>1. page[w] \in Page /\ page[w] \in Held
  BY DEF WriteCell, Inv, TypeOK, Holding, Held
<1>2. page[w].id \in Surfaces /\ page[w].buf \in Bufs
  BY <1>1 DEF Page
<1>3. ASSUME NEW t \in Surfaces, t # page[w].id, pages[t] # NoPage
      PROVE  heap'[pages[t].buf] = heap[pages[t].buf]
  <2>1. pages[t] \in Held /\ pages[t].id = t /\ pages[t].buf \in Bufs
    BY <1>3 DEF Held, Inv, Lifecycle, TypeOK, Page
  <2>2. pages[t].buf # page[w].buf
    <3>1. CopyOf(pages[t]) \in Claims /\ CopyOf(page[w]) \in Claims
      BY <1>1, <2>1 DEF Claims
    <3> QED
      BY <1>3, <2>1, <3>1 DEF Inv, Isolation, CopyOf
  <2> QED
    BY <1>2, <2>1, <2>2 DEF WriteCell, Inv, TypeOK
<1>4. pages' = pages /\ feed' = feed
  BY DEF WriteCell
<1>5. Untouched(page[w].id)
  BY <1>3, <1>4 DEF Untouched, Surface
<1> QED
  BY <1>1, <1>2, <1>3, <1>4, <1>5

\* A write into the maps of a stored page is an Update, one into maps that are
\* still private is not seen.
LEMMA WriteSimulates ==
  ASSUME Inv, Current, NEW w \in Workers, WriteCell(w)
  PROVE  Simulates
<1> DEFINE cells == heap'[page[w].buf]
<1>s. PICK s \in Surfaces : s = page[w].id
  BY WriteTouchesOne
<1>1. /\ page[w] \in Page /\ page[w].buf \in Bufs
      /\ Untouched(s) /\ pages' = pages /\ feed' = feed
  BY <1>s, WriteTouchesOne
<1>2. CASE pages[s] = NoPage
  <2>1. Surface(s)' = Surface(s)
    BY <1>1, <1>2 DEF Surface
  <2>2. Unseen
    BY <1>1, <2>1 DEF Unseen, Untouched
  <2> QED
    BY <2>2, UnseenStutters
<1>3. CASE pages[s] # NoPage
  <2>1. pages[s].buf = page[w].buf /\ pages[s] \in Page
    <3>1. pc[w] = "write" /\ Fresh(w)
      BY DEF WriteCell, Current
    <3>2. pages[s].buf = page[w].buf
      BY <1>s, <1>3, <3>1 DEF Fresh
    <3> QED
      BY <1>3, <3>2 DEF Inv, TypeOK
  <2>2. Head(todo[w]) \in Write
    BY DEF WriteCell, Inv, TypeOK
  <2>3. Head(todo[w]).cell \in Cells /\ Head(todo[w]).val \in Vals
    BY <2>2 DEF WriteCell, Write
  <2>4. heap[page[w].buf] \in [Cells -> Content]
    BY <1>1 DEF Inv, TypeOK
  <2>5. cells = [heap[page[w].buf] EXCEPT ![Head(todo[w]).cell] = Head(todo[w]).val]
    BY <1>1, <2>4 DEF WriteCell, Inv, TypeOK
  <2>6. /\ cells \in [Cells -> Vals \cup {None}]
        /\ \A c \in Cells : heap[page[w].buf][c] # None => cells[c] # None
    BY <2>3, <2>4, <2>5, MarkersAssumption DEF Content
  <2>7. Surface(s) = [cells |-> heap[page[w].buf], root |-> pages[s].root, html |-> pages[s].html]
    BY <1>3, <2>1 DEF Surface
  <2>8. Surface(s)' = [cells |-> cells, root |-> pages[s].root, html |-> pages[s].html]
    BY <1>1, <1>3, <2>1 DEF Surface
  <2>9. Abstract!Old(s) = Surface(s)
    BY <1>1, <1>3, StoredSurface
  <2>10. pages[s].root \in Roots \cup {None}
    BY <2>1 DEF Page
  <2> HIDE DEF cells
  <2>11. [t \in Surfaces |-> Surface(t)]' =
           [[t \in Surfaces |-> Surface(t)] EXCEPT ![s] =
              [cells |-> cells, root |-> pages[s].root, html |-> Abstract!Old(s).html]]
    BY <1>1, <2>7, <2>8, <2>9, OneChanges
  <2>12. /\ Abstract!Old(s).cells = heap[page[w].buf]
         /\ Abstract!Old(s).root = pages[s].root
    BY <2>7, <2>9
  <2>13. /\ cells \in Abstract!Contents
         /\ \A c \in Cells : Abstract!Old(s).cells[c] # None => cells[c] # None
         /\ Abstract!Old(s).root # None => pages[s].root # None
    BY <2>6, <2>12 DEF Abstract!Contents
  <2>14. feed' = feed
    BY <1>1
  <2>15. Abstract!Update(s)
    BY <2>10, <2>11, <2>13, <2>14 DEF Abstract!Update
  <2> QED
    BY <1>s, <2>15 DEF Simulates, Abstract!Next
<1> QED
  BY <1>2, <1>3

\* The copy that is stored after its message is an Update of what was there, which
\* may be nothing.
LEMMA UpsertSimulates ==
  ASSUME Inv, Current, NEW w \in Workers, Upsert(w)
  PROVE  Simulates
<1> DEFINE cells == heap[page[w].buf]
<1>1. page[w] \in Page /\ page[w] # NoPage /\ Fresh(w) /\ pc[w] = "write"
  BY DEF Upsert, Inv, TypeOK, Holding, Current
<1>2. PICK s \in Surfaces : s = page[w].id
  BY <1>1 DEF Page
<1>3. page[w].buf \in Bufs /\ page[w].root \in Roots \cup {None}
  BY <1>1 DEF Page
<1>4. cells \in [Cells -> Content] /\ cells \in Abstract!Contents
  BY <1>3 DEF Inv, TypeOK, Abstract!Contents, Content
<1>5. pages' = [pages EXCEPT ![s] = page[w]] /\ heap' = heap /\ feed' = feed
  BY <1>2 DEF Upsert
<1>6. Untouched(s) /\ pages'[s] = page[w]
  BY <1>5, StoreTouchesOne DEF Inv
<1>7. Surface(s)' = [cells |-> cells, root |-> page[w].root, html |-> page[w].html]
  BY <1>1, <1>5, <1>6 DEF Surface
<1>8. /\ \A c \in Cells : Abstract!Old(s).cells[c] # None => cells[c] # None
      /\ Abstract!Old(s).root # None => page[w].root # None
      /\ Abstract!Old(s).html = page[w].html
  <2>1. CASE pages[s] = NoPage
    <3>1. Abstract!Old(s) = [cells |-> Abstract!Empty, root |-> None, html |-> None]
      BY <2>1, NoSurface
    <3>2. page[w].html = None
      BY <1>1, <1>2, <2>1 DEF Fresh
    <3>3. \A c \in Cells : Abstract!Old(s).cells[c] = None
      BY <3>1 DEF Abstract!Empty
    <3> QED
      BY <3>1, <3>2, <3>3
  <2>2. CASE pages[s] # NoPage
    <3>1. /\ pages[s].buf = page[w].buf /\ pages[s].html = page[w].html
          /\ pages[s].root # None => page[w].root # None
      BY <1>1, <1>2, <2>2 DEF Fresh
    <3>2. Abstract!Old(s) = [cells |-> cells, root |-> pages[s].root, html |-> pages[s].html]
      BY <2>2, <3>1, StoredSurface
    <3> QED
      BY <3>1, <3>2
  <2> QED
    BY <2>1, <2>2
<1>9. [t \in Surfaces |-> Surface(t)]' =
        [[t \in Surfaces |-> Surface(t)] EXCEPT ![s] =
           [cells |-> cells, root |-> page[w].root, html |-> Abstract!Old(s).html]]
  BY <1>6, <1>7, <1>8, OneChanges
<1> HIDE DEF cells
<1>10. Abstract!Update(s)
  BY <1>3, <1>4, <1>5, <1>8, <1>9 DEF Abstract!Update
<1> QED
  BY <1>10 DEF Simulates, Abstract!Next

\* Storing a rendering is a Render: the copy is still what is stored, and the
\* rendering shows all of it.
LEMMA RenderSimulates ==
  ASSUME Inv, Current, NEW w \in Workers, pc[w] = "read", RenderedAll(w),
         pages' = [pages EXCEPT ![page[w].id] = Rendered(w)], heap' = heap, feed' = feed
  PROVE  Simulates
<1>1. /\ page[w] \in Page /\ Rendered(w) \in Page
      /\ Rendered(w).buf = page[w].buf /\ Rendered(w).root = page[w].root
      /\ Rendered(w).root # None
  BY RenderedType DEF Inv
<1>2. PICK s \in Surfaces : s = page[w].id
  BY <1>1 DEF Page
<1>3. Rendered(w).html = [root |-> page[w].root, view |-> heap[page[w].buf]]
  BY ViewIsHeap
<1>4. pages[s] = page[w] /\ pages[s] # NoPage
  <2>1. pages[page[w].id] = page[w]
    BY DEF Current, Fresh
  <2>2. page[w] # NoPage
    BY <1>1, MarkersAssumption
  <2> QED
    BY <1>2, <2>1, <2>2
<1>5. pages' = [pages EXCEPT ![s] = Rendered(w)]
  BY <1>2
<1>6. Untouched(s) /\ pages'[s] = Rendered(w)
  BY <1>5, StoreTouchesOne DEF Inv
<1>7. Rendered(w) # NoPage
  BY <1>1, MarkersAssumption
<1>8. Surface(s)' = [cells |-> heap[page[w].buf], root |-> page[w].root,
                     html |-> [root |-> page[w].root, view |-> heap[page[w].buf]]]
  BY <1>1, <1>3, <1>6, <1>7 DEF Surface
<1>9. /\ Surface(s) # None
      /\ Surface(s) = [cells |-> heap[page[w].buf], root |-> page[w].root, html |-> page[w].html]
  BY <1>4, StoredSurface
<1>10. Surface(s)' = [Surface(s) EXCEPT !.html = [root |-> Surface(s).root,
                                                  view |-> Surface(s).cells]]
  BY <1>8, <1>9
<1>11. [t \in Surfaces |-> Surface(t)]' =
         [[t \in Surfaces |-> Surface(t)] EXCEPT ![s] =
            [Surface(s) EXCEPT !.html = [root |-> Surface(s).root, view |-> Surface(s).cells]]]
  BY <1>6, <1>10, OneChanges
<1>12. Surface(s).root # None
  BY <1>1, <1>9
<1>13. Abstract!Render(s)
  BY <1>9, <1>11, <1>12 DEF Abstract!Render
<1> QED
  BY <1>13 DEF Simulates, Abstract!Next

\* What is published is what the surface shows.
LEMMA PublishSimulates ==
  ASSUME Inv, Current, NEW w \in Workers, Publish(w)
  PROVE  Simulates
<1>1. page[w] \in Page /\ page[w] # NoPage /\ Fresh(w) /\ pc[w] = "publish"
  BY DEF Publish, Inv, TypeOK, Holding, Current
<1>2. PICK s \in Surfaces : s = page[w].id
  BY <1>1 DEF Page
<1>3. pages[s] = page[w] /\ pages[s] # NoPage /\ page[w].html # None
  BY <1>1, <1>2 DEF Fresh
<1>4. Surface(s) # None /\ Surface(s).html = page[w].html
  BY <1>3, StoredSurface
<1>5. feed' = [feed EXCEPT ![s] = page[w].html] /\ pages' = pages /\ heap' = heap
  BY <1>2 DEF Publish, store
<1>6. UNCHANGED [t \in Surfaces |-> Surface(t)]
  BY <1>5 DEF Surface
<1>7. Abstract!Publish(s)
  BY <1>3, <1>4, <1>5, <1>6 DEF Abstract!Publish
<1> QED
  BY <1>7 DEF Simulates, Abstract!Next

\* The page CreateSurface stores is that of an empty surface, and there is none.
LEMMA CreateSimulates ==
  ASSUME Inv, Current, NEW w \in Workers, StoreCreated(w)
  PROVE  Simulates
<1>1. page[w] \in Page /\ page[w] # NoPage /\ Fresh(w) /\ pc[w] = "create"
  BY DEF StoreCreated, Inv, TypeOK, Holding, Current
<1>2. PICK s \in Surfaces : s = page[w].id
  BY <1>1 DEF Page
<1>3. /\ pages[s] = NoPage /\ heap[page[w].buf] = Empty
      /\ page[w].root = None /\ page[w].html = None
  BY <1>1, <1>2 DEF Fresh, NewPage
<1>4. pages' = [pages EXCEPT ![s] = page[w]] /\ heap' = heap /\ feed' = feed
  BY <1>2 DEF StoreCreated
<1>5. Untouched(s) /\ pages'[s] = page[w]
  BY <1>4, StoreTouchesOne DEF Inv
<1>6. Surface(s)' = [cells |-> Abstract!Empty, root |-> None, html |-> None]
  BY <1>1, <1>3, <1>4, <1>5 DEF Surface, Empty, Abstract!Empty
<1>7. Surface(s) = None
  BY <1>3, NoSurface
<1>8. Abstract!Create(s)
  BY <1>4, <1>5, <1>6, <1>7, OneChanges DEF Abstract!Create
<1> QED
  BY <1>8 DEF Simulates, Abstract!Next

\* Every step of the engine is one of SurfaceStore's or does not show.
LEMMA AbstractStep == Inv /\ Current /\ [Next]_vars => Simulates
<1> SUFFICES ASSUME Inv, Current, [Next]_vars PROVE Simulates
  OBVIOUS
<1>k. ASSUME pages' = pages, heap' = heap, feed' = feed PROVE Simulates
  BY <1>k, PagesKept, UnseenStutters
<1>1. ASSUME NEW w \in Workers,
             \/ ReloadPage(w) \/ EndOfInput(w) \/ RejectLine(w) \/ RejectComponent(w)
             \/ ReadCell(w) \/ WalkCopy(w) \/ Inspected(w) \/ RemovedAll(w)
             \/ ProcessJSONL(w) \/ ListPages(w) \/ ResetRuntime(w)
      PROVE Simulates
  BY <1>1, <1>k DEF ReloadPage, EndOfInput, RejectLine, RejectComponent, ReadCell, WalkCopy,
                    Inspected, RemovedAll, ProcessJSONL, ListPages, ResetRuntime, store
<1>2. ASSUME NEW w \in Workers, NEW s \in Surfaces,
             \/ GetPageHandler(w, s) \/ RenderSurfaceByID(w, s) \/ Inspect(w, s)
             \/ DeleteSurface(w, s)
      PROVE Simulates
  BY <1>2, <1>k DEF GetPageHandler, RenderSurfaceByID, Inspect, DeleteSurface, store
<1>3. ASSUME NEW w \in Workers, NEW s \in Surfaces, CreateSurface(w, s) PROVE Simulates
  BY <1>3, AllocationUnseen, UnseenStutters DEF CreateSurface
<1>4. ASSUME NEW w \in Workers, pc[w] = "line", lines[w] # <<>>, Head(lines[w]).kind # "invalid"
      PROVE  Head(lines[w]).id \in Surfaces
  <2>1. Head(lines[w]) \in Line
    BY <1>4 DEF Inv, TypeOK
  <2> QED
    BY <1>4, <2>1, LineFields
<1>5. ASSUME NEW w \in Workers, ApplyDeleteSurface(w) PROVE Simulates
  <2>1. PICK s \in Surfaces : s = Head(lines[w]).id
    BY <1>4, <1>5 DEF ApplyDeleteSurface
  <2>2. pages' = [pages EXCEPT ![s] = NoPage] /\ heap' = heap /\ feed' = feed
    BY <1>5, <2>1 DEF ApplyDeleteSurface
  <2> QED
    BY <2>2, RemovalSimulates DEF Inv
<1>6. ASSUME NEW w \in Workers, ApplyUpdate(w) \/ ApplyBeginRendering(w) PROVE Simulates
  <2>1. PICK s \in Surfaces : s = Head(lines[w]).id
    BY <1>4, <1>6 DEF ApplyUpdate, ApplyBeginRendering
  <2>2. pages' = pages /\ feed' = feed /\ \E b \in Bufs : Allocates(s, b)
    BY <1>6, <2>1 DEF ApplyUpdate, ApplyBeginRendering
  <2> QED
    BY <2>2, AllocationUnseen, UnseenStutters
<1>7. ASSUME NEW w \in Workers, RemoveDeleted(w) PROVE Simulates
  <2>1. PICK s \in Surfaces : s = subject[w]
    BY <1>7 DEF RemoveDeleted, Inv, TypeOK
  <2>2. pages' = [pages EXCEPT ![s] = NoPage] /\ heap' = heap /\ feed' = feed
    BY <1>7, <2>1 DEF RemoveDeleted
  <2> QED
    BY <2>2, RemovalSimulates DEF Inv
<1>8. ASSUME NEW w \in Workers, RemoveNext(w) PROVE Simulates
  <2>1. PICK s \in sweep[w] : pages' = [pages EXCEPT ![s] = NoPage]
    BY <1>8 DEF RemoveNext
  <2>2. s \in Surfaces /\ heap' = heap /\ feed' = feed
    BY <1>8 DEF RemoveNext, Inv, TypeOK
  <2> QED
    BY <2>1, <2>2, RemovalSimulates DEF Inv
<1>9. ASSUME NEW w \in Workers, SaveHTML(w) \/ SaveOnDemand(w) PROVE Simulates
  BY <1>9, RenderSimulates DEF SaveHTML, SaveOnDemand
<1>10. CASE MapRace \/ UNCHANGED vars
  BY <1>10, <1>k DEF MapRace, vars, store
<1> QED
  BY <1>1, <1>2, <1>3, <1>5, <1>6, <1>7, <1>8, <1>9, <1>10, WriteSimulates, UpsertSimulates,
     PublishSimulates, CreateSimulates
  DEF Next, Alive, Accept, Proceed, Crashed
-----------------------------------------------------------------------------
\* A surface that the worker is not about to render or publish shows what it
\* holds, unless an update of it was refused half way.
Busy(s) == \E w \in Workers :
  /\ page[w].id = s
  /\ pc[w] \in {"write", "publish"} \/ (pc[w] = "read" /\ op[w] # "render")
Shows(s) == /\ pages[s].html = [root |-> pages[s].root, view |-> heap[pages[s].buf]]
            /\ feed[s] = pages[s].html
Shown == \A s \in Surfaces \ refused :
  pages[s] # NoPage /\ pages[s].ready /\ ~Busy(s) => Shows(s)

\* What a step has to do with the surfaces that are refused.
Remembers == refused' = (refused \cup RefusedNow) \ PublishedNow

LEMMA RefusedStay ==
  ASSUME Alone, Remembers, NEW w \in Workers, pc[w] # "publish"
  PROVE  refused \subseteq refused'
  BY DEF Remembers, PublishedNow, Moves, Alone

\* A step of the worker outside any rendering that only removes pages, or stores
\* pages that are not ready.
LEMMA ShownStays ==
  ASSUME Alone, Remembers, Shown, NEW w \in Workers, pc[w] \notin {"write", "read", "publish"},
         feed' = feed,
         \A s \in Surfaces : pages'[s] # NoPage /\ pages'[s].ready =>
           pages'[s] = pages[s] /\ heap'[pages[s].buf] = heap[pages[s].buf]
  PROVE  Shown'
<1>1. \A s \in Surfaces : ~Busy(s)
  BY DEF Busy, Alone
<1>2. refused \subseteq refused'
  BY RefusedStay
<1> QED
  BY <1>1, <1>2 DEF Shown, Shows

\* A step of the worker that concerns the surface s of its page only.
LEMMA ShownElsewhere ==
  ASSUME Alone, Shown, NEW w \in Workers, NEW s \in Surfaces, page[w].id = s,
         \A t \in Surfaces : t # s =>
           /\ pages'[t] = pages[t]
           /\ pages[t] # NoPage => heap'[pages[t].buf] = heap[pages[t].buf]
           /\ feed'[t] = feed[t]
           /\ t \in refused => t \in refused',
         s \notin refused' /\ pages'[s] # NoPage /\ pages'[s].ready /\ ~Busy(s)' => Shows(s)'
  PROVE  Shown'
<1>1. \A t \in Surfaces : t # s => ~Busy(t)
  BY DEF Busy, Alone
<1> SUFFICES ASSUME NEW t \in Surfaces, t \notin refused', pages'[t] # NoPage,
                    pages'[t].ready, ~Busy(t)'
             PROVE  Shows(t)'
  BY DEF Shown
<1>2. CASE t = s
  BY <1>2
<1>3. CASE t # s
  <2>1. Shows(t)
    BY <1>1, <1>3 DEF Shown
  <2> QED
    BY <1>3, <2>1 DEF Shows
<1> QED
  BY <1>2, <1>3

\* The steps of a rendering keep it.
LEMMA ShownInRendering ==
  ASSUME Alone, Inv, Current, Remembers, Shown, NEW w \in Workers,
         \/ WriteCell(w) \/ RejectComponent(w) \/ Upsert(w) \/ ReadCell(w)
         \/ SaveHTML(w) \/ SaveOnDemand(w) \/ Publish(w)
  PROVE  Shown'
<1>1. page[w] \in Page /\ page[w] # NoPage /\ Fresh(w) /\ LocalOK(w)
  BY DEF WriteCell, RejectComponent, Upsert, ReadCell, SaveHTML, SaveOnDemand, Publish,
         Inv, TypeOK, Holding, Current, Stages
<1>2. PICK s \in Surfaces : s = page[w].id
  BY <1>1 DEF Page
<1>3. CASE WriteCell(w)
  <2>1. /\ \A t \in Surfaces : t # s /\ pages[t] # NoPage =>
             heap'[pages[t].buf] = heap[pages[t].buf]
        /\ pages' = pages /\ feed' = feed
    BY <1>2, <1>3, WriteTouchesOne
  <2>2. refused \subseteq refused'
    BY <1>3, RefusedStay DEF WriteCell
  <2>3. Busy(s)'
    BY <1>2, <1>3 DEF WriteCell, Busy
  <2> QED
    BY <1>2, <2>1, <2>2, <2>3, ShownElsewhere
<1>4. CASE RejectComponent(w)
  <2>1. pages' = pages /\ heap' = heap /\ feed' = feed
    BY <1>4 DEF RejectComponent, store
  <2>2. refused \subseteq refused'
    BY <1>4, RefusedStay DEF RejectComponent
  <2>3. pc[w] = "write" /\ pc'[w] = "idle"
    BY <1>4 DEF RejectComponent, Respond, Inv, TypeOK
  <2>4. s \in RefusedNow
    BY <1>2, <2>3 DEF RefusedNow, Moves
  <2>5. PublishedNow = {}
    BY <2>3 DEF PublishedNow, Moves, Alone
  <2>6. s \in refused'
    BY <2>4, <2>5 DEF Remembers
  <2> QED
    BY <1>2, <2>1, <2>2, <2>6, ShownElsewhere
<1>5. CASE Upsert(w)
  <2>1. pages' = [pages EXCEPT ![s] = page[w]] /\ heap' = heap /\ feed' = feed
    BY <1>2, <1>5 DEF Upsert
  <2>2. refused \subseteq refused'
    BY <1>5, RefusedStay DEF Upsert
  <2>3. \A t \in Surfaces : t # s => pages'[t] = pages[t]
    BY <2>1
  <2>4. pages'[s] = page[w]
    BY <2>1 DEF Inv, TypeOK
  <2>5. ASSUME page[w].ready PROVE Busy(s)'
    <3>1. page' = page /\ op' = op /\ pc'[w] = "read"
      BY <1>5, <2>5 DEF Upsert, Inv, TypeOK
    <3>2. op[w] # "render"
      BY <1>1, <1>5 DEF Upsert, LocalOK
    <3> QED
      BY <1>2, <3>1, <3>2 DEF Busy
  <2> QED
    BY <1>2, <2>1, <2>2, <2>3, <2>4, <2>5, ShownElsewhere
<1>6. CASE ReadCell(w)
  <2>1. /\ pages' = pages /\ heap' = heap /\ feed' = feed
        /\ pc' = pc /\ op' = op /\ page' = page
    BY <1>6 DEF ReadCell, store
  <2>2. refused \subseteq refused'
    BY <1>6, RefusedStay DEF ReadCell
  <2>3. \A t \in Surfaces : Busy(t)' <=> Busy(t)
    BY <2>1 DEF Busy
  <2> QED
    BY <2>1, <2>2, <2>3 DEF Shown, Shows
<1>7. CASE SaveHTML(w)
  <2>1. /\ pages' = [pages EXCEPT ![s] = Rendered(w)] /\ heap' = heap /\ feed' = feed
        /\ page' = [page EXCEPT ![w] = Rendered(w)] /\ pc' = [pc EXCEPT ![w] = "publish"]
    BY <1>2, <1>7 DEF SaveHTML
  <2>2. refused \subseteq refused'
    BY <1>7, RefusedStay DEF SaveHTML
  <2>3. \A t \in Surfaces : t # s => pages'[t] = pages[t]
    BY <2>1
  <2>4. page'[w].id = s /\ pc'[w] = "publish"
    <3>1. Rendered(w).id = page[w].id
      BY <1>7, RenderedType DEF SaveHTML, Inv
    <3> QED
      BY <1>2, <2>1, <3>1 DEF Inv, TypeOK
  <2>5. Busy(s)'
    BY <2>4 DEF Busy
  <2> QED
    BY <1>2, <2>1, <2>2, <2>3, <2>5, ShownElsewhere
<1>8. CASE SaveOnDemand(w)
  <2>1. pages' = [pages EXCEPT ![s] = Rendered(w)] /\ heap' = heap /\ feed' = feed
    BY <1>2, <1>8 DEF SaveOnDemand
  <2>2. refused \subseteq refused'
    BY <1>8, RefusedStay DEF SaveOnDemand
  <2>3. \A t \in Surfaces : t # s => pages'[t] = pages[t]
    BY <2>1
  <2>4. /\ pages'[s] = Rendered(w)
        /\ Rendered(w).root = page[w].root /\ Rendered(w).buf = page[w].buf
        /\ Rendered(w).html = [root |-> page[w].root, view |-> heap[page[w].buf]]
    BY <1>8, <2>1, RenderedType, ViewIsHeap DEF SaveOnDemand, Inv, TypeOK
  <2>5. pages[s] = page[w] /\ page[w].ready /\ ~Busy(s)
    BY <1>1, <1>2, <1>8 DEF SaveOnDemand, Fresh, LocalOK, Busy, Alone
  <2>6. ASSUME s \notin refused' PROVE Shows(s)'
    <3>1. Shows(s)
      BY <1>1, <2>2, <2>5, <2>6 DEF Shown
    <3> QED
      BY <2>1, <2>4, <2>5, <3>1 DEF Shows
  <2> QED
    BY <1>2, <2>1, <2>2, <2>3, <2>6, ShownElsewhere
<1>9. CASE Publish(w)
  <2>1. /\ pages' = pages /\ heap' = heap /\ feed' = [feed EXCEPT ![s] = page[w].html]
        /\ pc[w] = "publish" /\ pc'[w] = "line"
    BY <1>2, <1>9 DEF Publish, store, Inv, TypeOK
  <2>2. \A t \in Surfaces : t # s => feed'[t] = feed[t]
    BY <2>1
  <2>3. \A t \in Surfaces : t # s /\ t \in refused => t \in refused'
    BY <1>2, <2>1 DEF Remembers, PublishedNow, Alone
  <2>4. pages[s] = page[w] /\ page[w].html = [root |-> page[w].root, view |-> heap[page[w].buf]]
    BY <1>1, <1>2, <2>1 DEF Fresh
  <2>5. Shows(s)'
    BY <2>1, <2>4 DEF Shows, Inv, TypeOK
  <2> QED
    BY <1>2, <2>1, <2>2, <2>3, <2>5, ShownElsewhere
<1> QED
  BY <1>3, <1>4, <1>5, <1>6, <1>7, <1>8, <1>9

\* Every step keeps it.
LEMMA ShownStep ==
  Alone /\ Inv /\ Current /\ Shown /\ [SequentialNext]_<<vars, refused>> => Shown'
<1> SUFFICES ASSUME Alone, Inv, Current, Shown, [SequentialNext]_<<vars, refused>>
             PROVE  Shown'
  OBVIOUS
<1>u. ASSUME UNCHANGED <<vars, refused>> PROVE Shown'
  BY <1>u DEF vars, store, local, Shown, Shows, Busy
<1> SUFFICES ASSUME SequentialNext PROVE Shown'
  BY <1>u
<1>0. Next /\ Remembers
  BY DEF SequentialNext, Remembers
<1>k. ASSUME NEW w \in Workers, pc[w] \notin {"write", "read", "publish"},
             pages' = pages, heap' = heap, feed' = feed
      PROVE  Shown'
  BY <1>0, <1>k, ShownStays
<1>d. ASSUME NEW w \in Workers, pc[w] \notin {"write", "read", "publish"},
             NEW s, pages' = [pages EXCEPT ![s] = NoPage], heap' = heap, feed' = feed
      PROVE  Shown'
  <2>1. \A t \in Surfaces : pages'[t] # NoPage => pages'[t] = pages[t]
    BY <1>d DEF Inv, TypeOK
  <2> QED
    BY <1>0, <1>d, <2>1, ShownStays
<1>n. ASSUME NEW w \in Workers, pc[w] \notin {"write", "read", "publish"},
             NEW s \in Surfaces, NEW b \in Bufs, Allocates(s, b), pages' = pages, feed' = feed
      PROVE  Shown'
  <2>1. \A t \in Surfaces : pages[t] # NoPage => Surface(t)' = Surface(t)
    BY <1>n, AllocationUnseen DEF Unseen
  <2>2. \A t \in Surfaces : pages[t] # NoPage => heap'[pages[t].buf] = heap[pages[t].buf]
    BY <1>n, <2>1 DEF Surface
  <2> QED
    BY <1>0, <1>n, <2>2, ShownStays
<1>1. ASSUME NEW w \in Workers,
             \/ ReloadPage(w) \/ EndOfInput(w) \/ RejectLine(w) \/ WalkCopy(w)
             \/ Inspected(w) \/ RemovedAll(w) \/ ProcessJSONL(w) \/ ListPages(w)
             \/ ResetRuntime(w)
      PROVE Shown'
  BY <1>1, <1>k DEF ReloadPage, EndOfInput, RejectLine, WalkCopy, Inspected, RemovedAll,
                    ProcessJSONL, ListPages, ResetRuntime, store
<1>2. ASSUME NEW w \in Workers, NEW s \in Surfaces,
             \/ GetPageHandler(w, s) \/ RenderSurfaceByID(w, s) \/ Inspect(w, s)
             \/ DeleteSurface(w, s)
      PROVE Shown'
  BY <1>2, <1>k DEF GetPageHandler, RenderSurfaceByID, Inspect, DeleteSurface, store
<1>3. ASSUME NEW w \in Workers, NEW s \in Surfaces, CreateSurface(w, s) PROVE Shown'
  BY <1>3, <1>n DEF CreateSurface
<1>4. ASSUME NEW w \in Workers, ApplyUpdate(w) \/ ApplyBeginRendering(w) PROVE Shown'
  <2>1. Head(lines[w]).id \in Surfaces
    <3>1. lines[w] # <<>> /\ Head(lines[w]).kind # "invalid"
      BY <1>4 DEF ApplyUpdate, ApplyBeginRendering
    <3>2. Head(lines[w]) \in Line
      BY <3>1 DEF Inv, TypeOK
    <3> QED
      BY <3>1, <3>2, LineFields
  <2>2. PICK s \in Surfaces : s = Head(lines[w]).id
    BY <2>1
  <2>3. \E b \in Bufs : Allocates(s, b)
    BY <1>4, <2>2 DEF ApplyUpdate, ApplyBeginRendering
  <2>4. pc[w] = "line" /\ pages' = pages /\ feed' = feed
    BY <1>4 DEF ApplyUpdate, ApplyBeginRendering
  <2> QED
    BY <1>n, <2>3, <2>4
<1>5. ASSUME NEW w \in Workers, ApplyDeleteSurface(w) \/ RemoveDeleted(w) \/ RemoveNext(w)
      PROVE Shown'
  BY <1>5, <1>d DEF ApplyDeleteSurface, RemoveDeleted, RemoveNext
<1>6. ASSUME NEW w \in Workers, StoreCreated(w) PROVE Shown'
  <2>1. pc[w] = "create" /\ pages' = [pages EXCEPT ![page[w].id] = page[w]]
        /\ heap' = heap /\ feed' = feed
    BY <1>6 DEF StoreCreated
  <2>2. ~page[w].ready
    BY <2>1 DEF Inv, Stages, LocalOK
  <2>3. \A t \in Surfaces : pages'[t].ready => pages'[t] = pages[t]
    BY <2>1, <2>2 DEF Inv, TypeOK
  <2> QED
    BY <1>0, <2>1, <2>3, ShownStays
<1>7. ASSUME NEW w \in Workers,
             \/ WriteCell(w) \/ RejectComponent(w) \/ Upsert(w) \/ ReadCell(w)
             \/ SaveHTML(w) \/ SaveOnDemand(w) \/ Publish(w)
      PROVE Shown'
  BY <1>0, <1>7, ShownInRendering
<1>8. ~MapRace
  BY DEF MapRace, Racing, Alone
<1>9. ASSUME Crashed PROVE Shown'
  <2>1. pc' = pc /\ pages' = pages /\ heap' = heap /\ feed' = feed /\ page' = page /\ op' = op
    BY <1>9 DEF Crashed, vars, store, local
  <2>2. refused' = refused
    BY <1>0, <2>1 DEF Remembers, RefusedNow, PublishedNow, Moves
  <2> QED
    BY <2>1, <2>2 DEF Shown, Shows, Busy
<1> QED
  BY <1>0, <1>1, <1>2, <1>3, <1>4, <1>5, <1>6, <1>7, <1>8, <1>9
  DEF Next, Alive, Accept, Proceed
-----------------------------------------------------------------------------
\* The inductive invariant of the engine with one worker.
Agrees == Inv /\ Current /\ Shown

LEMMA AgreesInit == SequentialInit => Agrees /\ Abstract!Init
<1> SUFFICES ASSUME SequentialInit PROVE Agrees /\ Abstract!Init
  OBVIOUS
<1>1. Inv
  BY InitInv DEF SequentialInit
<1>2. \A w \in Workers : pc[w] = "idle"
  BY DEF SequentialInit, Init
<1>3. \A s \in Surfaces : pages[s] = NoPage
  BY DEF SequentialInit, Init
<1>4. Current
  BY <1>2 DEF Current, Fresh
<1>5. Shown
  BY <1>3 DEF Shown
<1>6. \A s \in Surfaces : Surface(s) = None
  BY <1>3 DEF Surface
<1>7. [s \in Surfaces |-> Surface(s)] = [s \in Surfaces |-> None]
  BY <1>6
<1>8. Abstract!Init
  BY <1>7 DEF Abstract!Init, SequentialInit, Init
<1> QED
  BY <1>1, <1>4, <1>5, <1>8 DEF Agrees

LEMMA SequentialStep == [SequentialNext]_<<vars, refused>> => [Next]_vars
  BY DEF SequentialNext, vars, store, local

LEMMA AgreesStep == Alone /\ Agrees /\ [SequentialNext]_<<vars, refused>> => Agrees' /\ Simulates
<1> SUFFICES ASSUME Alone, Agrees, [SequentialNext]_<<vars, refused>>
             PROVE  Agrees' /\ Simulates
  OBVIOUS
<1>1. [Next]_vars
  BY SequentialStep
<1>2. Inv' /\ Current' /\ Shown' /\ Simulates
  BY <1>1, StepInv, CurrentStep, ShownStep, AbstractStep DEF Agrees
<1> QED
  BY <1>2 DEF Agrees

\* Requests that do not overlap see the SurfaceStore, whatever surfaces, payloads
\* and UI files there are: that updates are made in place on shared maps, that a
\* page is stored twice and published later never shows.
THEOREM Refinement == Alone => (SequentialSpec => ImplementsSurfaceStore)
<1> SUFFICES ASSUME Alone PROVE SequentialSpec => ImplementsSurfaceStore
  OBVIOUS
<1>1. SequentialInit => Agrees /\ Abstract!Init
  BY AgreesInit
<1>2. Agrees /\ [SequentialNext]_<<vars, refused>> => Agrees' /\ [Abstract!Next]_(Abstract!vars)
  BY AgreesStep DEF Simulates
<1> QED
  BY <1>1, <1>2, PTL DEF SequentialSpec, ImplementsSurfaceStore, Abstract!Spec

\* Between such requests a ready surface shows and has published all it holds,
\* unless an update of it was refused at a component.
THEOREM ShowsIt == Alone => (SequentialSpec => []ShowsWhatItHolds)
<1> SUFFICES ASSUME Alone PROVE SequentialSpec => []ShowsWhatItHolds
  OBVIOUS
<1>1. SequentialInit => Agrees
  BY AgreesInit
<1>2. Agrees /\ [SequentialNext]_<<vars, refused>> => Agrees'
  BY AgreesStep
<1>3. Agrees => ShowsWhatItHolds
  BY DEF Agrees, Shown, Shows, Busy, ShowsWhatItHolds
<1> QED
  BY <1>1, <1>2, <1>3, PTL DEF SequentialSpec
=============================================================================
