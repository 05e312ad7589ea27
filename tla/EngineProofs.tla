---------------------------- MODULE EngineProofs ----------------------------
(***************************************************************************)
(* Proofs about Engine, for any number of workers, surfaces, maps and      *)
(* payloads.                                                               *)
(***************************************************************************)
EXTENDS Engine, SequenceTheorems, TLAPS

\* What a line names, whatever its kind.
LEMMA LineFields ==
  ASSUME NEW m \in Line, m.kind # "invalid"
  PROVE  /\ m.id \in Surfaces
         /\ m.writes \in Seq(Write)
         /\ m.kind = "beginRendering" => m.root \in Roots
<1> DEFINE C == [cell : CompCells, val : Vals \cup {Bad}]
           D == [cell : DataCells, val : Vals]
<1>1. C \subseteq Write /\ D \subseteq Write
  BY DEF Cells, Write
<1>2. m.writes \in Seq(C) \/ m.writes \in Seq(D) \/ m.writes = <<>>
  BY DEF Line
<1>3. m.writes \in Seq(Write)
  <2>1. <<>> \in Seq(Write)
    OBVIOUS
  <2> HIDE DEF C, D
  <2> QED
    BY <1>1, <1>2, <2>1, SeqMonotonic
<1>4. m.id \in Surfaces /\ (m.kind = "beginRendering" => m.root \in Roots)
  BY DEF Line
<1> QED
  BY <1>3, <1>4

\* The page getOrCreatePage and CreateSurface start from is a well typed Page.
LEMMA NewPageType ==
  ASSUME NEW s \in Surfaces, NEW b \in Bufs
  PROVE  NewPage(s, b) \in Page
  BY DEF NewPage, Page

\* A request that ends leaves its worker's variables well typed.
LEMMA RespondType ==
  ASSUME TypeOK, NEW w \in Workers, Respond(w)
  PROVE  /\ pc' \in [Workers -> PCs]
         /\ op' \in [Workers -> {"none", "apply", "page", "render"}]
         /\ subject' \in [Workers -> Surfaces \cup {None}]
         /\ lines' \in [Workers -> Seq(Line)]
         /\ todo' \in [Workers -> Seq(Write)]
         /\ page' \in [Workers -> Page \cup {NoPage}]
         /\ snap' \in [Workers -> [Cells -> Content \cup {Unread}]]
         /\ sweep' \in [Workers -> SUBSET Surfaces]
         /\ copies' \in [Workers -> SUBSET Copy]
         /\ \A v \in Workers : page'[v] # NoPage <=> pc'[v] \in Holding
         /\ \A v \in Workers : copies'[v] # {} => pc'[v] = "inspect"
         /\ \A v \in Workers :
              pc'[v] = "drop" \/ op'[v] = "page" => subject'[v] \in Surfaces
<1>1. Empty \in [Cells -> Content \cup {Unread}]
  BY DEF Empty, Content
<1>2. \A v \in Workers : v # w => /\ pc'[v] = pc[v] /\ page'[v] = page[v]
                                  /\ subject'[v] = subject[v] /\ op'[v] = op[v]
                                  /\ copies'[v] = copies[v]
  BY DEF Respond, TypeOK
<1>3. pc'[w] = "idle" /\ page'[w] = NoPage /\ op'[w] = "none" /\ copies'[w] = {}
  BY DEF Respond, TypeOK
<1>4. /\ pc' \in [Workers -> PCs]
      /\ op' \in [Workers -> {"none", "apply", "page", "render"}]
      /\ subject' \in [Workers -> Surfaces \cup {None}]
      /\ page' \in [Workers -> Page \cup {NoPage}]
  BY DEF Respond, TypeOK, PCs
<1>5. lines' \in [Workers -> Seq(Line)] /\ todo' \in [Workers -> Seq(Write)]
  BY DEF Respond, TypeOK
<1>6. /\ snap' \in [Workers -> [Cells -> Content \cup {Unread}]]
      /\ sweep' \in [Workers -> SUBSET Surfaces]
      /\ copies' \in [Workers -> SUBSET Copy]
  BY <1>1 DEF Respond, TypeOK
<1>7. \A v \in Workers : page'[v] # NoPage <=> pc'[v] \in Holding
  <2>1. "idle" \notin Holding
    BY DEF Holding
  <2>2. \A v \in Workers : page[v] # NoPage <=> pc[v] \in Holding
    BY DEF TypeOK
  <2> QED
    BY <1>2, <1>3, <2>1, <2>2
<1>8. \A v \in Workers :
        pc'[v] = "drop" \/ op'[v] = "page" => subject'[v] \in Surfaces
  BY <1>2, <1>3 DEF TypeOK
<1>9. \A v \in Workers : copies'[v] # {} => pc'[v] = "inspect"
  BY <1>2, <1>3 DEF TypeOK
<1> QED
  BY <1>4, <1>5, <1>6, <1>7, <1>8, <1>9

\* The maps of a page.
LEMMA CopyType ==
  ASSUME NEW p \in Page
  PROVE  CopyOf(p) \in Copy /\ CopyOf(p).id = p.id /\ CopyOf(p).buf = p.buf
  BY DEF CopyOf, Copy, Page

\* The copy a worker renders is a page again.
LEMMA RenderedType ==
  ASSUME TypeOK, Lifecycle, NEW w \in Workers, pc[w] = "read", RenderedAll(w)
  PROVE  /\ page[w] \in Page
         /\ Rendered(w) \in Page
         /\ Rendered(w).id = page[w].id
         /\ Rendered(w).buf = page[w].buf
         /\ Rendered(w).root = page[w].root
         /\ Rendered(w).ready
         /\ Rendered(w).root # None
         /\ Rendered(w).html \in Html
         /\ Rendered(w).html # None
         /\ Rendered(w).html.root = page[w].root
         /\ Rendered(w).html.view = snap[w]
<1>1. page[w] \in Page /\ page[w] # NoPage
  BY DEF TypeOK, Holding
<1>2. page[w].ready /\ page[w].root # None
  BY <1>1 DEF Lifecycle, Held
<1>3. page[w].root \in Roots
  BY <1>1, <1>2 DEF Page
<1>4. snap[w] \in [Cells -> Content]
  BY DEF TypeOK, RenderedAll
<1>5. Rendered(w).html \in Html /\ Rendered(w).html # None
  BY <1>1, <1>3, <1>4, MarkersAssumption DEF Rendered, Html, Page
<1>6. Rendered(w) \in Page
  BY <1>1, <1>5 DEF Rendered, Page
<1> QED
  BY <1>1, <1>2, <1>5, <1>6 DEF Rendered, Page

\* Every step keeps the types.
LEMMA TypeStep == TypeOK /\ Lifecycle /\ [Next]_vars => TypeOK'
<1> SUFFICES ASSUME TypeOK, Lifecycle, [Next]_vars PROVE TypeOK'
  OBVIOUS
<1>e. Empty \in [Cells -> Content]
  BY DEF Empty, Content
<1>r. ASSUME NEW w \in Workers, Respond(w), pages' \in [Surfaces -> Page \cup {NoPage}],
             UNCHANGED <<heap, feed, crashed>>
      PROVE TypeOK'
  BY <1>r, RespondType DEF TypeOK
<1>1. ASSUME NEW w \in Workers, ProcessJSONL(w), UNCHANGED crashed PROVE TypeOK'
  <2>1. PICK body \in Bodies : lines' = [lines EXCEPT ![w] = body]
    BY <1>1 DEF ProcessJSONL
  <2>2. lines' \in [Workers -> Seq(Line)]
    BY <2>1, BodiesAssumption DEF TypeOK
  <2>3. /\ pc[w] = "idle" /\ pc' = [pc EXCEPT ![w] = "line"] /\ op' = [op EXCEPT ![w] = "apply"]
        /\ UNCHANGED <<pages, heap, subject, todo, page, snap, sweep, copies, feed>>
    BY <1>1 DEF ProcessJSONL, store
  <2> QED
    BY <1>1, <2>2, <2>3 DEF TypeOK, PCs, Holding
<1>2. ASSUME NEW w \in Workers, NEW s \in Surfaces, GetPageHandler(w, s), UNCHANGED crashed
      PROVE TypeOK'
  BY <1>2, BodiesAssumption DEF GetPageHandler, TypeOK, store, PCs, Holding
<1>3. ASSUME NEW w \in Workers, NEW s \in Surfaces, RenderSurfaceByID(w, s), UNCHANGED crashed
      PROVE TypeOK'
  <2>1. snap' \in [Workers -> [Cells -> Content \cup {Unread}]]
    BY <1>3 DEF RenderSurfaceByID, TypeOK, StartRender
  <2>2. pages[s] \in Page
    BY <1>3 DEF RenderSurfaceByID, TypeOK
  <2> QED
    BY <1>3, <2>1, <2>2 DEF RenderSurfaceByID, TypeOK, store, PCs, Holding
<1>4. ASSUME NEW w \in Workers, NEW s \in Surfaces, Inspect(w, s), UNCHANGED crashed
      PROVE TypeOK'
  <2>1. CopyOf(pages[s]) \in Copy
    BY <1>4, CopyType DEF Inspect, TypeOK
  <2>2. copies' \in [Workers -> SUBSET Copy]
    BY <1>4, <2>1 DEF Inspect, TypeOK
  <2> QED
    BY <1>4, <2>2 DEF Inspect, TypeOK, store, PCs, Holding
<1>4a. ASSUME NEW w \in Workers, ListPages(w), UNCHANGED crashed PROVE TypeOK'
  <2> DEFINE Listed == {CopyOf(pages[s]) : s \in {t \in Surfaces : pages[t] # NoPage}}
  <2>1. Listed \subseteq Copy
    BY CopyType DEF TypeOK
  <2>2. copies' = [copies EXCEPT ![w] = Listed]
    BY <1>4a DEF ListPages
  <2> HIDE DEF Listed
  <2>3. copies' \in [Workers -> SUBSET Copy]
    BY <2>1, <2>2 DEF TypeOK
  <2> QED
    BY <1>4a, <2>2, <2>3 DEF ListPages, TypeOK, store, PCs, Holding
<1>4b. ASSUME NEW w \in Workers, WalkCopy(w), UNCHANGED crashed PROVE TypeOK'
  <2>1. copies' \in [Workers -> SUBSET Copy]
    BY <1>4b DEF WalkCopy, TypeOK
  <2>2. \A v \in Workers : copies'[v] # {} => pc'[v] = "inspect"
    BY <1>4b DEF WalkCopy, TypeOK
  <2> QED
    BY <1>4b, <2>1, <2>2 DEF WalkCopy, TypeOK, store
<1>5. ASSUME NEW w \in Workers, NEW s \in Surfaces, CreateSurface(w, s), UNCHANGED crashed
      PROVE TypeOK'
  <2> PICK b \in Bufs : Allocates(s, b) /\ page' = [page EXCEPT ![w] = NewPage(s, b)]
    BY <1>5 DEF CreateSurface
  <2>1. heap' \in [Bufs -> [Cells -> Content]]
    BY <1>e DEF Allocates, TypeOK
  <2>2. NewPage(s, b) \in Page /\ NewPage(s, b) # NoPage
    BY NewPageType, MarkersAssumption
  <2> QED
    BY <1>5, <2>1, <2>2 DEF CreateSurface, TypeOK, PCs, Holding
<1>6. ASSUME NEW w \in Workers, NEW s \in Surfaces, DeleteSurface(w, s), UNCHANGED crashed
      PROVE TypeOK'
  BY <1>6 DEF DeleteSurface, TypeOK, store, PCs, Holding
<1>7. ASSUME NEW w \in Workers, ResetRuntime(w), UNCHANGED crashed PROVE TypeOK'
  BY <1>7 DEF ResetRuntime, TypeOK, store, PCs, Holding
<1>8. ASSUME NEW w \in Workers,
             ReloadPage(w) \/ RejectLine(w) \/ RejectComponent(w) \/ Inspected(w) \/ RemovedAll(w),
             UNCHANGED crashed
      PROVE TypeOK'
  BY <1>8, <1>r DEF ReloadPage, RejectLine, RejectComponent, Inspected, RemovedAll, store, TypeOK
<1>9. ASSUME NEW w \in Workers, EndOfInput(w), UNCHANGED crashed PROVE TypeOK'
  <2>1. CASE op[w] = "page"
    <3>1. subject[w] \in Surfaces
      BY <1>9, <2>1 DEF EndOfInput, TypeOK
    <3> QED
      BY <1>9, <2>1, <3>1 DEF EndOfInput, TypeOK, store, local, PCs, Holding
  <2>2. CASE op[w] # "page"
    BY <1>9, <2>2, <1>r DEF EndOfInput, store, TypeOK
  <2> QED
    BY <2>1, <2>2
<1>10. ASSUME NEW w \in Workers, pc[w] = "line", lines[w] # <<>>, Head(lines[w]).kind # "invalid"
       PROVE  /\ Head(lines[w]) \in Line
              /\ Tail(lines[w]) \in Seq(Line)
              /\ Head(lines[w]).id \in Surfaces
              /\ Head(lines[w]).writes \in Seq(Write)
              /\ Head(lines[w]).kind = "beginRendering" => Head(lines[w]).root \in Roots
  <2>1. lines[w] \in Seq(Line)
    BY DEF TypeOK
  <2>2. Head(lines[w]) \in Line /\ Tail(lines[w]) \in Seq(Line)
    BY <1>10, <2>1
  <2> QED
    BY <1>10, <2>2, LineFields
<1>11. ASSUME NEW w \in Workers, ApplyDeleteSurface(w), UNCHANGED crashed PROVE TypeOK'
  <2>1. Tail(lines[w]) \in Seq(Line) /\ Head(lines[w]).id \in Surfaces
    BY <1>10, <1>11 DEF ApplyDeleteSurface
  <2> QED
    BY <1>11, <2>1 DEF ApplyDeleteSurface, TypeOK
<1>12. ASSUME NEW w \in Workers, NEW s \in Surfaces, NEW b \in Bufs, Allocates(s, b)
       PROVE  GetOrCreatePage(s, b) \in Page /\ heap' \in [Bufs -> [Cells -> Content]]
  BY <1>12, <1>e, NewPageType DEF Allocates, GetOrCreatePage, TypeOK
<1>13. ASSUME NEW w \in Workers, ApplyUpdate(w), UNCHANGED crashed PROVE TypeOK'
  <2> DEFINE m == Head(lines[w])
  <2>1. Tail(lines[w]) \in Seq(Line) /\ m.id \in Surfaces /\ m.writes \in Seq(Write)
    BY <1>10, <1>13 DEF ApplyUpdate
  <2>2. PICK b \in Bufs :
          Allocates(m.id, b) /\ page' = [page EXCEPT ![w] = GetOrCreatePage(m.id, b)]
    BY <1>13 DEF ApplyUpdate
  <2>3. GetOrCreatePage(m.id, b) \in Page /\ heap' \in [Bufs -> [Cells -> Content]]
    BY <1>12, <2>1, <2>2
  <2>4. todo' = [todo EXCEPT ![w] = m.writes]
    BY <1>13 DEF ApplyUpdate
  <2> HIDE DEF m
  <2> QED
    BY <1>13, <2>1, <2>2, <2>3, <2>4, MarkersAssumption DEF ApplyUpdate, TypeOK, PCs, Holding
<1>14. ASSUME NEW w \in Workers, ApplyBeginRendering(w), UNCHANGED crashed PROVE TypeOK'
  <2> DEFINE m == Head(lines[w])
  <2>1. Tail(lines[w]) \in Seq(Line) /\ m.id \in Surfaces /\ m.root \in Roots
    BY <1>10, <1>14 DEF ApplyBeginRendering
  <2>2. PICK b \in Bufs :
          /\ Allocates(m.id, b)
          /\ page' = [page EXCEPT ![w] =
                        [GetOrCreatePage(m.id, b) EXCEPT !.root = m.root, !.ready = TRUE]]
    BY <1>14 DEF ApplyBeginRendering
  <2>3. GetOrCreatePage(m.id, b) \in Page /\ heap' \in [Bufs -> [Cells -> Content]]
    BY <1>12, <2>1, <2>2
  <2>4. [GetOrCreatePage(m.id, b) EXCEPT !.root = m.root, !.ready = TRUE] \in Page
    BY <2>1, <2>3 DEF Page
  <2> HIDE DEF m
  <2> QED
    BY <1>14, <2>1, <2>2, <2>3, <2>4, MarkersAssumption DEF ApplyBeginRendering, TypeOK, PCs, Holding
<1>15. ASSUME NEW w \in Workers, WriteCell(w), UNCHANGED crashed PROVE TypeOK'
  <2>1. page[w] \in Page
    BY <1>15 DEF WriteCell, TypeOK, Holding
  <2>2. page[w].buf \in Bufs
    BY <2>1 DEF Page
  <2>3. Head(todo[w]) \in Write /\ Tail(todo[w]) \in Seq(Write)
    BY <1>15 DEF WriteCell, TypeOK
  <2>4. Head(todo[w]).cell \in Cells /\ Head(todo[w]).val \in Content
    BY <1>15, <2>3 DEF WriteCell, Write, Content
  <2>5. heap' \in [Bufs -> [Cells -> Content]]
    BY <1>15, <2>2, <2>4 DEF WriteCell, TypeOK
  <2> QED
    BY <1>15, <2>3, <2>5 DEF WriteCell, TypeOK
<1>16. ASSUME NEW w \in Workers, Upsert(w), UNCHANGED crashed PROVE TypeOK'
  <2>1. page[w] \in Page /\ page[w] # NoPage
    BY <1>16 DEF Upsert, TypeOK, Holding
  <2>2. pages' \in [Surfaces -> Page \cup {NoPage}]
    BY <1>16, <2>1 DEF Upsert, TypeOK
  <2>3. UNCHANGED <<heap, op, subject, lines, todo, sweep, copies, feed>>
    BY <1>16 DEF Upsert
  <2>4. CASE page[w].ready
    <3>1. pc' = [pc EXCEPT ![w] = "read"] /\ page' = page /\ StartRender(w)
      BY <1>16, <2>4 DEF Upsert
    <3>2. snap' \in [Workers -> [Cells -> Content \cup {Unread}]]
      BY <3>1 DEF StartRender, TypeOK
    <3> QED
      BY <1>16, <2>1, <2>2, <2>3, <3>1, <3>2 DEF TypeOK, PCs, Holding
  <2>5. CASE ~page[w].ready
    <3>1. pc' = [pc EXCEPT ![w] = "line"] /\ page' = [page EXCEPT ![w] = NoPage] /\ snap' = snap
      BY <1>16, <2>5 DEF Upsert
    <3>2. /\ \A v \in Workers : page'[v] # NoPage <=> pc'[v] \in Holding
          /\ \A v \in Workers : copies'[v] # {} => pc'[v] = "inspect"
      BY <1>16, <2>3, <3>1 DEF Upsert, TypeOK, Holding
    <3>3. pc' \in [Workers -> PCs] /\ page' \in [Workers -> Page \cup {NoPage}]
          /\ \A v \in Workers : pc'[v] = "drop" => pc[v] = "drop"
      BY <3>1 DEF TypeOK, PCs
    <3> HIDE DEF PCs
    <3> QED
      BY <1>16, <2>2, <2>3, <3>1, <3>2, <3>3 DEF TypeOK
  <2> QED
    BY <2>4, <2>5
<1>17. ASSUME NEW w \in Workers, ReadCell(w), UNCHANGED crashed PROVE TypeOK'
  <2>1. page[w].buf \in Bufs
    BY <1>17 DEF ReadCell, TypeOK, Holding, Page
  <2>2. snap' \in [Workers -> [Cells -> Content \cup {Unread}]]
    BY <1>17, <2>1 DEF ReadCell, TypeOK
  <2> QED
    BY <1>17, <2>2 DEF ReadCell, TypeOK, store
<1>18. ASSUME NEW w \in Workers, SaveHTML(w), UNCHANGED crashed PROVE TypeOK'
  <2>1. Rendered(w) \in Page /\ Rendered(w) # NoPage
    BY <1>18, RenderedType, MarkersAssumption DEF SaveHTML
  <2> HIDE DEF Rendered
  <2> QED
    BY <1>18, <1>e, <2>1 DEF SaveHTML, TypeOK, PCs, Holding
<1>19. ASSUME NEW w \in Workers, Publish(w), UNCHANGED crashed PROVE TypeOK'
  <2>1. page[w] \in Page
    BY <1>19 DEF Publish, TypeOK, Holding
  <2>2. page[w].html \in Html \cup {None}
    BY <2>1 DEF Page
  <2>3. feed' \in [Surfaces -> Html \cup {None}]
    BY <1>19, <2>2 DEF Publish, TypeOK
  <2> QED
    BY <1>19, <2>3 DEF Publish, TypeOK, store, PCs, Holding
<1>20. ASSUME NEW w \in Workers, SaveOnDemand(w), UNCHANGED crashed PROVE TypeOK'
  <2>1. Rendered(w) \in Page
    BY <1>20, RenderedType DEF SaveOnDemand
  <2>2. pages' \in [Surfaces -> Page \cup {NoPage}]
    BY <1>20, <2>1 DEF SaveOnDemand, TypeOK
  <2> QED
    BY <1>20, <2>2, <1>r DEF SaveOnDemand
<1>21. ASSUME NEW w \in Workers, StoreCreated(w), UNCHANGED crashed PROVE TypeOK'
  <2>1. page[w] \in Page
    BY <1>21 DEF StoreCreated, TypeOK, Holding
  <2>2. pages' \in [Surfaces -> Page \cup {NoPage}]
    BY <1>21, <2>1 DEF StoreCreated, TypeOK
  <2> QED
    BY <1>21, <2>2, <1>r DEF StoreCreated
<1>22. ASSUME NEW w \in Workers, RemoveDeleted(w), UNCHANGED crashed PROVE TypeOK'
  <2>1. pages' \in [Surfaces -> Page \cup {NoPage}]
    BY <1>22 DEF RemoveDeleted, TypeOK
  <2> QED
    BY <1>22, <2>1, <1>r DEF RemoveDeleted
<1>23. ASSUME NEW w \in Workers, RemoveNext(w), UNCHANGED crashed PROVE TypeOK'
  BY <1>23 DEF RemoveNext, TypeOK
<1>24. CASE MapRace
  BY <1>24 DEF MapRace, TypeOK, store, local
<1>25. CASE UNCHANGED vars
  BY <1>25 DEF TypeOK, vars, store, local
<1> QED
  BY <1>1, <1>2, <1>3, <1>4, <1>5, <1>6, <1>7, <1>8, <1>9, <1>11, <1>13, <1>14, <1>15, <1>16,
     <1>17, <1>18, <1>19, <1>20, <1>21, <1>22, <1>23, <1>24, <1>25, <1>4a, <1>4b
  DEF Next, Alive, Accept, Proceed, Crashed
-----------------------------------------------------------------------------
\* Where a worker is in its operation says what it holds; what it has read of a
\* map that is not empty is still there.
LocalOK(w) ==
  /\ pc[w] = "read" => page[w].ready
  /\ pc[w] = "create" => ~page[w].ready
  /\ pc[w] \in {"line", "write", "publish"} => op[w] # "render"
  /\ pc[w] = "read" =>
       \A c \in Cells : snap[w][c] \notin {Unread, None} => heap[page[w].buf][c] # None
Stages == \A w \in Workers : LocalOK(w)

\* The inductive invariant: the properties Engine states, and Stages.
Inv == /\ TypeOK /\ Lifecycle /\ Isolation /\ RenderedWhenQuiet /\ NoPhantomContent
       /\ Stages

PageOK(p) ==
  /\ (p.ready <=> p.root # None) /\ (p.html # None => p.ready)
  /\ p.html # None => \A c \in Cells : p.html.view[c] # None => heap[p.buf][c] # None

PageOKNext(p) ==
  /\ (p.ready <=> p.root # None) /\ (p.html # None => p.ready)
  /\ p.html # None => \A c \in Cells : p.html.view[c] # None => heap'[p.buf][c] # None

\* What one step of a worker w leaves alone, and what it may do: the maps w walks
\* are those of a page.
Others(w) ==
  /\ \A v \in Workers : v # w =>
       /\ pc'[v] = pc[v] /\ op'[v] = op[v] /\ page'[v] = page[v] /\ snap'[v] = snap[v]
       /\ copies'[v] = copies[v]
  /\ copies'[w] \subseteq Claims
HeapKept == \A p \in Held : \A c \in Cells : heap[p.buf][c] # None => heap'[p.buf][c] # None
OwnIds == \A s \in Surfaces : pages'[s] # NoPage => pages'[s].id = s
HeldOK == \A p \in Held' : \/ p \in Held
                           \/ /\ PageOKNext(p)
                              /\ \/ \E a \in Claims : a.id = p.id /\ a.buf = p.buf
                                 \/ \A a \in Claims : a.buf # p.buf
Owes(w, p) == pc[w] = "read" /\ op[w] # "render" /\ page[w] = p
OwesNext(w, p) == pc'[w] = "read" /\ op'[w] # "render" /\ page'[w] = p
Paints(w) == \A s \in Surfaces : pages'[s] # NoPage /\ pages'[s].ready =>
  \/ Painted(pages'[s])
  \/ pages'[s] = pages[s] /\ ~Owes(w, pages[s])
  \/ OwesNext(w, pages'[s])

\* A new page is compared with the old ones only: a step makes at most one.
OneNew == \A p, q \in Held' : p \in Held \/ q \in Held \/ p = q

Rest == Lifecycle /\ Isolation /\ RenderedWhenQuiet /\ NoPhantomContent /\ Stages

\* These facts about a step of w are all the invariant needs.
LEMMA Compose ==
  ASSUME Inv, NEW w \in Workers, Others(w), HeapKept, OwnIds, HeldOK, OneNew, LocalOK(w)',
         Paints(w)
  PROVE  Rest'
<1>1. \A p \in Held : PageOK(p)
  BY DEF Inv, Lifecycle, NoPhantomContent, PageOK
<1>2. \A p \in Held : PageOKNext(p)
  BY <1>1 DEF PageOK, PageOKNext, HeapKept
<1>3. \A p \in Held' : PageOKNext(p)
  BY <1>2 DEF HeldOK
<1>4. NoPhantomContent'
  BY <1>3 DEF NoPhantomContent, PageOKNext
<1>5. Stages'
  <2>1. ASSUME NEW v \in Workers, v # w PROVE LocalOK(v)'
    <3>1. LocalOK(v) /\ pc'[v] = pc[v] /\ op'[v] = op[v] /\ page'[v] = page[v] /\ snap'[v] = snap[v]
      BY <2>1 DEF Inv, Stages, Others
    <3>2. pc[v] = "read" => page[v] \in Held
      BY DEF Inv, TypeOK, Holding, Held
    <3> QED
      BY <3>1, <3>2 DEF LocalOK, HeapKept
  <2> QED
    BY <2>1 DEF Stages
<1>6. Lifecycle'
  BY <1>3, <1>5 DEF Lifecycle, OwnIds, PageOKNext, Stages, LocalOK
<1>7. Isolation'
  <2> DEFINE Meet(a, b) == a.buf = b.buf => a.id = b.id
  <2>1. \A a, b \in Claims : Meet(a, b)
    BY DEF Inv, Isolation
  <2>2. \A a \in Claims' : a \in Claims \/ \E p \in Held' : p \notin Held /\ a = CopyOf(p)
    BY DEF Claims, Others
  <2>3. ASSUME NEW p \in Held', p \notin Held, NEW a \in Claims
        PROVE  Meet(a, CopyOf(p)) /\ Meet(CopyOf(p), a)
    BY <2>1, <2>3 DEF HeldOK, CopyOf
  <2>4. \A p, q \in Held' : p \in Held \/ q \in Held \/ Meet(CopyOf(p), CopyOf(q))
    BY DEF OneNew
  <2>5. \A a, b \in Claims' : Meet(a, b)
    <3> HIDE DEF Meet
    <3> QED
      BY <2>1, <2>2, <2>3, <2>4
  <2> QED
    BY <2>5 DEF Isolation
<1>8. RenderedWhenQuiet'
  <2> SUFFICES ASSUME NEW s \in Surfaces, pages'[s] # NoPage, pages'[s].ready,
                      ~Painted(pages'[s])
               PROVE  PaintOwed(pages[s])'
    BY DEF RenderedWhenQuiet, Painted
  <2>1. CASE OwesNext(w, pages'[s])
    BY <2>1 DEF OwesNext, PaintOwed
  <2>2. CASE pages'[s] = pages[s] /\ ~Owes(w, pages[s])
    <3>1. PICK v \in Workers : Owes(v, pages[s])
      BY <2>2 DEF Inv, RenderedWhenQuiet, PaintOwed, Owes
    <3>2. v # w
      BY <2>2, <3>1
    <3> QED
      BY <2>2, <3>1, <3>2 DEF Others, Owes, PaintOwed
  <2> QED
    BY <2>1, <2>2 DEF Paints
<1> QED
  BY <1>4, <1>5, <1>6, <1>7, <1>8 DEF Rest

\* A step of w moves no other worker.
LEMMA OnlyMoves ==
  ASSUME TypeOK, NEW w \in Workers, Accept(w) \/ Proceed(w)
  PROVE  Others(w)
<1>c. copies[w] \subseteq Claims /\ {} \subseteq Claims
  BY DEF Claims
<1> USE <1>c DEF TypeOK, Others, local
<1>r. Respond(w) => Others(w)
  BY DEF Respond
<1>1. CASE ReloadPage(w) \/ RejectLine(w) \/ RejectComponent(w) \/ Inspected(w) \/ StoreCreated(w)
           \/ RemoveDeleted(w) \/ RemovedAll(w) \/ SaveOnDemand(w)
  BY <1>1, <1>r DEF ReloadPage, RejectLine, RejectComponent, Inspected, StoreCreated,
                    RemoveDeleted, RemovedAll, SaveOnDemand
<1>2. CASE EndOfInput(w)
  BY <1>2, <1>r DEF EndOfInput
<1>3. CASE ProcessJSONL(w) \/ ResetRuntime(w) \/ \E s \in Surfaces : GetPageHandler(w, s)
           \/ DeleteSurface(w, s)
  BY <1>3 DEF ProcessJSONL, ResetRuntime, GetPageHandler, DeleteSurface
<1>4. CASE \E s \in Surfaces : RenderSurfaceByID(w, s)
  BY <1>4 DEF RenderSurfaceByID, StartRender
<1>5. CASE \E s \in Surfaces : CreateSurface(w, s)
  BY <1>5 DEF CreateSurface
<1>6. CASE ApplyDeleteSurface(w) \/ WriteCell(w) \/ ReadCell(w) \/ Publish(w) \/ RemoveNext(w)
  BY <1>6 DEF ApplyDeleteSurface, WriteCell, ReadCell, Publish, RemoveNext
<1>7. CASE ApplyUpdate(w) \/ ApplyBeginRendering(w)
  BY <1>7 DEF ApplyUpdate, ApplyBeginRendering
<1>8. CASE Upsert(w)
  BY <1>8 DEF Upsert, StartRender
<1>9. CASE SaveHTML(w)
  <2>1. page' = [page EXCEPT ![w] = Rendered(w)] /\ pc' = [pc EXCEPT ![w] = "publish"]
        /\ snap' = [snap EXCEPT ![w] = Empty] /\ op' = op /\ copies' = copies
    BY <1>9 DEF SaveHTML
  <2> QED
    BY <2>1
<1>10. \A s \in Surfaces : pages[s] # NoPage => CopyOf(pages[s]) \in Claims
  BY DEF Claims, Held
<1>11. CASE \E s \in Surfaces : Inspect(w, s)
  BY <1>10, <1>11 DEF Inspect
<1>12. CASE ListPages(w)
  <2> DEFINE Listed == {CopyOf(pages[s]) : s \in {t \in Surfaces : pages[t] # NoPage}}
  <2>1. Listed \subseteq Claims
    BY <1>10
  <2>2. /\ copies' = [copies EXCEPT ![w] = Listed] /\ pc' = [pc EXCEPT ![w] = "inspect"]
        /\ UNCHANGED <<op, page, snap>>
    BY <1>12 DEF ListPages
  <2> HIDE DEF Listed
  <2> QED
    BY <2>1, <2>2
<1>13. CASE WalkCopy(w)
  BY <1>13 DEF WalkCopy
<1> QED
  BY <1>1, <1>2, <1>3, <1>4, <1>5, <1>6, <1>7, <1>8, <1>9, <1>11, <1>12, <1>13
  DEF Accept, Proceed

\* A free buffer is not held by the store or by a worker.
LEMMA FreeNotHeld ==
  ASSUME TypeOK, NEW b \in Free
  PROVE  (\A p \in Held : p.buf # b) /\ (\A a \in Claims : a.buf # b)
<1>1. \A p \in Held : p.buf # b
  BY DEF TypeOK, Free, Used, Held
<1>2. \A w \in Workers : \A a \in copies[w] : a.buf # b
  BY DEF Free, Used
<1> QED
  BY <1>1, <1>2 DEF Claims, CopyOf

\* make() empties only maps nobody holds: no held page loses an entry.
LEMMA AllocatesKeeps ==
  ASSUME TypeOK, NEW s \in Surfaces, NEW b \in Bufs, Allocates(s, b)
  PROVE  HeapKept
<1>1. CASE pages[s] = NoPage
  <2>1. b \in Free /\ heap' = [heap EXCEPT ![b] = Empty]
    BY <1>1 DEF Allocates
  <2>2. \A p \in Held : p.buf \in Bufs /\ p.buf # b
    BY <2>1, FreeNotHeld DEF Held, TypeOK, Page
  <2> QED
    BY <2>1, <2>2 DEF HeapKept, TypeOK
<1>2. CASE pages[s] # NoPage
  BY <1>2 DEF Allocates, HeapKept
<1> QED
  BY <1>1, <1>2

\* A write of the engine sets an entry and never clears one.
LEMMA WriteKeeps ==
  ASSUME TypeOK, NEW w \in Workers, WriteCell(w)
  PROVE  HeapKept
<1>1. Head(todo[w]) \in Write
  BY DEF WriteCell, TypeOK
<1>2. Head(todo[w]).val # None
  BY <1>1, MarkersAssumption DEF WriteCell, Write
<1>3. \A p \in Held : p.buf \in Bufs
  BY DEF Held, TypeOK, Page
<1> QED
  BY <1>2, <1>3 DEF WriteCell, HeapKept, TypeOK

\* Steps after which every page held was held before.
LEMMA NothingNew ==
  ASSUME NEW w \in Workers, Others(w), page'[w] = NoPage \/ page'[w] \in Held,
         \A s \in Surfaces : pages'[s] = NoPage \/ pages'[s] \in Held
  PROVE  HeldOK /\ OneNew
<1>1. \A v \in Workers : page'[v] = NoPage \/ page'[v] \in Held
  BY DEF Others, Held
<1>2. Held' \subseteq Held
  BY <1>1 DEF Held
<1> QED
  BY <1>2 DEF HeldOK, OneNew

\* A step that at most removes pages from the store and after which w renders
\* and creates nothing.
LEMMA Shrinks ==
  ASSUME Inv, NEW w \in Workers, Others(w), HeapKept,
         \A s \in Surfaces : pages'[s] = pages[s] \/ pages'[s] = NoPage,
         page'[w] = NoPage \/ page'[w] = page[w],
         pc[w] # "read", pc'[w] \notin {"read", "create"},
         pc'[w] \in {"line", "write", "publish"} => op'[w] # "render"
  PROVE  Rest'
<1>1. HeldOK /\ OneNew
  <2>1. page'[w] = NoPage \/ page'[w] \in Held
    BY DEF Held
  <2>2. \A s \in Surfaces : pages'[s] = NoPage \/ pages'[s] \in Held
    BY DEF Held
  <2> QED
    BY <2>1, <2>2, NothingNew
<1>2. OwnIds
  BY DEF Inv, Lifecycle, OwnIds
<1>3. LocalOK(w)'
  BY DEF LocalOK
<1>4. Paints(w)
  BY DEF Paints, Owes
<1> QED
  BY <1>1, <1>2, <1>3, <1>4, Compose

\* A page that getOrCreatePage or CreateSurface hands out shares its maps with the
\* stored page of its surface, or with no page at all.
LEMMA HandedOut ==
  ASSUME TypeOK, Lifecycle, NEW w \in Workers, Others(w), NEW s \in Surfaces, NEW b \in Bufs,
         Allocates(s, b), UNCHANGED pages, page'[w].id = s, page'[w].buf = b, PageOKNext(page'[w])
  PROVE  HeldOK /\ OneNew
<1>1. \/ \E a \in Claims : a.id = s /\ a.buf = b
      \/ \A a \in Claims : a.buf # b
  <2>1. CASE pages[s] = NoPage
    BY <2>1, FreeNotHeld DEF Allocates
  <2>2. CASE pages[s] # NoPage
    <3>1. CopyOf(pages[s]) \in Claims
      BY <2>2 DEF Claims, Held
    <3> QED
      BY <2>2, <3>1 DEF Allocates, Lifecycle, CopyOf
  <2> QED
    BY <2>1, <2>2
<1>2. \A p \in Held' : p \in Held \/ p = page'[w]
  BY DEF Held, Others
<1> QED
  BY <1>1, <1>2 DEF HeldOK, OneNew

\* The page getOrCreatePage hands out satisfies all that held pages do.
LEMMA HandedOutOK ==
  ASSUME Inv, NEW s \in Surfaces, NEW b \in Bufs, Allocates(s, b)
  PROVE  /\ GetOrCreatePage(s, b).id = s
         /\ GetOrCreatePage(s, b).buf = b
         /\ GetOrCreatePage(s, b) \in Page
         /\ PageOK(GetOrCreatePage(s, b))
         /\ GetOrCreatePage(s, b).html # None =>
              \A c \in Cells : GetOrCreatePage(s, b).html.view[c] # None => heap'[b][c] # None
<1>1. CASE pages[s] = NoPage
  BY <1>1, NewPageType DEF GetOrCreatePage, NewPage, PageOK
<1>2. CASE pages[s] # NoPage
  <2>1. pages[s] \in Held /\ pages[s] \in Page /\ pages[s].id = s
    BY <1>2 DEF Inv, TypeOK, Lifecycle, Held
  <2>2. PageOK(pages[s])
    BY <2>1 DEF Inv, Lifecycle, NoPhantomContent, PageOK
  <2>3. GetOrCreatePage(s, b) = pages[s] /\ b = pages[s].buf /\ UNCHANGED heap
    BY <1>2 DEF GetOrCreatePage, Allocates
  <2> QED
    BY <2>1, <2>2, <2>3 DEF PageOK
<1> QED
  BY <1>1, <1>2

\* Every step keeps the rest of the invariant.
LEMMA RestStep == Inv /\ [Next]_vars => Rest'
<1> SUFFICES ASSUME Inv, [Next]_vars PROVE Rest'
  OBVIOUS
<1>t. TypeOK /\ Lifecycle
  BY DEF Inv
<1>h. UNCHANGED heap => HeapKept
  BY DEF HeapKept
<1>w. ASSUME NEW w \in Workers, Accept(w) \/ Proceed(w) PROVE Others(w)
  BY <1>w, <1>t, OnlyMoves
<1>p. ASSUME NEW w \in Workers, pc[w] \in Holding
      PROVE  page[w] \in Page /\ page[w] # NoPage /\ page[w] \in Held /\ page[w].id \in Surfaces
  BY <1>p, <1>t DEF TypeOK, Held, Page
<1>r. ASSUME NEW w \in Workers, Respond(w), pc[w] # "read", HeapKept, Others(w),
             \A s \in Surfaces : pages'[s] = pages[s] \/ pages'[s] = NoPage
      PROVE  Rest'
  <2>1. pc'[w] = "idle" /\ page'[w] = NoPage
    BY <1>r, <1>t DEF Respond, TypeOK
  <2> QED
    BY <1>r, <2>1, Shrinks
<1>1. ASSUME NEW w \in Workers, Others(w),
             \/ ReloadPage(w) \/ RejectLine(w) \/ RejectComponent(w) \/ Inspected(w)
             \/ RemovedAll(w) \/ RemoveDeleted(w)
      PROVE  Rest'
  <2>1. Respond(w) /\ UNCHANGED heap /\ pc[w] # "read"
    BY <1>1 DEF ReloadPage, RejectLine, RejectComponent, Inspected, RemovedAll, RemoveDeleted, store
  <2>2. \A s \in Surfaces : pages'[s] = pages[s] \/ pages'[s] = NoPage
    BY <1>1, <1>t DEF ReloadPage, RejectLine, RejectComponent, Inspected, RemovedAll,
                      RemoveDeleted, store, TypeOK
  <2> QED
    BY <1>1, <1>h, <1>r, <2>1, <2>2
<1>2. ASSUME NEW w \in Workers, Others(w), EndOfInput(w) PROVE Rest'
  <2>1. UNCHANGED store /\ pc[w] = "line"
    BY <1>2 DEF EndOfInput
  <2>2. CASE op[w] = "page"
    <3>1. pc'[w] = "reload" /\ page' = page
      BY <1>2, <1>t, <2>2 DEF EndOfInput, local, TypeOK
    <3> QED
      BY <1>2, <1>h, <2>1, <3>1, Shrinks DEF store
  <2>3. CASE op[w] # "page"
    BY <1>2, <1>h, <1>r, <2>1, <2>3 DEF EndOfInput, store
  <2> QED
    BY <2>2, <2>3
<1>3. ASSUME NEW w \in Workers, Others(w),
             \/ ProcessJSONL(w) \/ ResetRuntime(w)
             \/ \E s \in Surfaces : GetPageHandler(w, s) \/ DeleteSurface(w, s)
      PROVE  Rest'
  <2>1. /\ UNCHANGED <<pages, heap, page>> /\ pc[w] = "idle"
        /\ pc'[w] \in {"line", "sweep", "drop"}
        /\ pc'[w] = "line" => op'[w] \in {"apply", "page"}
    BY <1>3, <1>t DEF ProcessJSONL, ResetRuntime, GetPageHandler, DeleteSurface, store, TypeOK
  <2> QED
    BY <1>3, <1>h, <2>1, Shrinks
<1>4. ASSUME NEW w \in Workers, Others(w), ApplyDeleteSurface(w) \/ RemoveNext(w) PROVE Rest'
  <2>1. UNCHANGED <<heap, page, pc, op>> /\ pc[w] \in {"line", "sweep"}
    BY <1>4 DEF ApplyDeleteSurface, RemoveNext
  <2>2. \A s \in Surfaces : pages'[s] = pages[s] \/ pages'[s] = NoPage
    BY <1>4, <1>t DEF ApplyDeleteSurface, RemoveNext, TypeOK
  <2>3. pc[w] = "line" => op[w] # "render"
    BY DEF Inv, Stages, LocalOK
  <2> QED
    BY <1>4, <1>h, <2>1, <2>2, <2>3, Shrinks
<1>5. ASSUME NEW w \in Workers, Others(w), WriteCell(w) PROVE Rest'
  <2>1. UNCHANGED <<pages, page, pc, op>> /\ pc[w] = "write" /\ HeapKept
    BY <1>5, <1>t, WriteKeeps DEF WriteCell
  <2>2. op[w] # "render"
    BY <2>1 DEF Inv, Stages, LocalOK
  <2> QED
    BY <1>5, <2>1, <2>2, Shrinks
<1>6. ASSUME NEW w \in Workers, Others(w), Publish(w) PROVE Rest'
  <2>1. UNCHANGED <<pages, heap, op>> /\ pc[w] = "publish" /\ pc'[w] = "line" /\ page'[w] = NoPage
    BY <1>6, <1>t DEF Publish, store, TypeOK
  <2>2. op[w] # "render"
    BY <2>1 DEF Inv, Stages, LocalOK
  <2> QED
    BY <1>6, <1>h, <2>1, <2>2, Shrinks
<1>7a. ASSUME NEW w \in Workers, Others(w),
              ListPages(w) \/ WalkCopy(w) \/ \E s \in Surfaces : Inspect(w, s)
       PROVE  Rest'
  <2>1. /\ UNCHANGED <<pages, heap, page>> /\ pc[w] \in {"idle", "inspect"}
        /\ pc'[w] = "inspect"
    BY <1>7a, <1>t DEF ListPages, WalkCopy, Inspect, store, TypeOK
  <2> QED
    BY <1>7a, <1>h, <2>1, Shrinks
<1>7. ASSUME NEW w \in Workers, NEW s \in Surfaces, Others(w), RenderSurfaceByID(w, s)
      PROVE  Rest'
  <2>1. UNCHANGED <<pages, heap>> /\ pc[w] = "idle" /\ pages[s] # NoPage /\ page'[w] = pages[s]
    BY <1>7, <1>t DEF RenderSurfaceByID, store, TypeOK
  <2>2. HeldOK /\ OneNew
    <3>1. page'[w] \in Held /\ \A t \in Surfaces : pages'[t] = NoPage \/ pages'[t] \in Held
      BY <2>1 DEF Held
    <3> QED
      BY <1>7, <3>1, NothingNew
  <2>3. OwnIds /\ Paints(w)
    BY <2>1 DEF Inv, Lifecycle, OwnIds, Paints, Owes
  <2>4. LocalOK(w)'
    <3>1. pc'[w] = "read" /\ \A c \in Cells : snap'[w][c] = Unread
      BY <1>t, <1>7 DEF RenderSurfaceByID, StartRender, TypeOK
    <3>2. pages[s] \in Held /\ pages[s].root # None
      BY <1>7 DEF RenderSurfaceByID, Held
    <3>3. pages[s].ready
      BY <1>t, <3>2 DEF Lifecycle
    <3> QED
      BY <2>1, <3>1, <3>3 DEF LocalOK
  <2> QED
    BY <1>7, <1>h, <2>1, <2>2, <2>3, <2>4, Compose
<1>8. ASSUME NEW w \in Workers, NEW s \in Surfaces, Others(w), CreateSurface(w, s) PROVE Rest'
  <2>1. PICK b \in Bufs : Allocates(s, b) /\ page' = [page EXCEPT ![w] = NewPage(s, b)]
    BY <1>8 DEF CreateSurface
  <2>2. /\ UNCHANGED pages /\ pc[w] = "idle" /\ pc'[w] = "create"
        /\ page'[w] = NewPage(s, b)
    BY <1>8, <1>t, <2>1 DEF CreateSurface, TypeOK
  <2>3. /\ page'[w].id = s /\ page'[w].buf = b /\ ~page'[w].ready
        /\ page'[w].html = None /\ page'[w].root = None
    BY <2>2 DEF NewPage
  <2>4. HeldOK /\ OneNew
    BY <1>8, <1>t, <2>1, <2>2, <2>3, HandedOut DEF PageOKNext
  <2>5. OwnIds /\ LocalOK(w)' /\ Paints(w)
    BY <1>t, <2>2, <2>3 DEF Lifecycle, OwnIds, LocalOK, Paints, Owes
  <2> QED
    BY <1>8, <1>t, <2>1, <2>4, <2>5, AllocatesKeeps, Compose
<1>9. ASSUME NEW w \in Workers, Others(w), pc[w] = "line", lines[w] # <<>>,
             Head(lines[w]).kind # "invalid"
      PROVE  /\ Head(lines[w]).id \in Surfaces
             /\ Head(lines[w]).kind = "beginRendering" => Head(lines[w]).root \in Roots
  BY <1>9, <1>t, LineFields DEF TypeOK
<1>10. ASSUME NEW w \in Workers, Others(w), ApplyUpdate(w) PROVE Rest'
  <2> DEFINE s == Head(lines[w]).id
  <2>1. s \in Surfaces
    BY <1>9, <1>10 DEF ApplyUpdate
  <2>2. PICK b \in Bufs : Allocates(s, b) /\ page' = [page EXCEPT ![w] = GetOrCreatePage(s, b)]
    BY <1>10 DEF ApplyUpdate
  <2>3. /\ UNCHANGED <<pages, op>> /\ pc[w] = "line" /\ pc'[w] = "write"
        /\ page'[w] = GetOrCreatePage(s, b)
    BY <1>10, <1>t, <2>2 DEF ApplyUpdate, TypeOK
  <2> HIDE DEF s
  <2>4. HeldOK /\ OneNew
    <3>1. page'[w].id = s /\ page'[w].buf = b /\ PageOKNext(page'[w])
      BY <2>1, <2>2, <2>3, HandedOutOK DEF PageOK, PageOKNext
    <3> QED
      BY <1>10, <1>t, <2>1, <2>2, <2>3, <3>1, HandedOut
  <2>5. OwnIds /\ LocalOK(w)' /\ Paints(w)
    BY <1>t, <2>3 DEF Inv, Stages, Lifecycle, OwnIds, LocalOK, Paints, Owes
  <2> QED
    BY <1>10, <1>t, <2>1, <2>2, <2>4, <2>5, AllocatesKeeps, Compose
<1>11. ASSUME NEW w \in Workers, Others(w), ApplyBeginRendering(w) PROVE Rest'
  <2> DEFINE s == Head(lines[w]).id
             r == Head(lines[w]).root
  <2>1. s \in Surfaces /\ r # None
    BY <1>9, <1>11, MarkersAssumption DEF ApplyBeginRendering
  <2>2. PICK b \in Bufs :
          /\ Allocates(s, b)
          /\ page' = [page EXCEPT ![w] = [GetOrCreatePage(s, b) EXCEPT !.root = r, !.ready = TRUE]]
    BY <1>11 DEF ApplyBeginRendering
  <2>3. /\ UNCHANGED <<pages, op>> /\ pc[w] = "line" /\ pc'[w] = "write"
        /\ page'[w] = [GetOrCreatePage(s, b) EXCEPT !.root = r, !.ready = TRUE]
    BY <1>11, <1>t, <2>2 DEF ApplyBeginRendering, TypeOK
  <2> HIDE DEF s, r
  <2>4. HeldOK /\ OneNew
    <3> DEFINE g == GetOrCreatePage(s, b)
    <3>1. /\ g.id = s /\ g.buf = b /\ g \in Page
          /\ g.html # None => \A c \in Cells : g.html.view[c] # None => heap'[b][c] # None
      BY <2>1, <2>2, HandedOutOK
    <3>2. /\ page'[w].id = s /\ page'[w].buf = b /\ page'[w].html = g.html
          /\ page'[w].root = r /\ page'[w].ready = TRUE
      BY <2>3, <3>1 DEF Page
    <3> HIDE DEF g
    <3>3. PageOKNext(page'[w])
      BY <2>1, <3>1, <3>2 DEF PageOKNext
    <3> QED
      BY <1>11, <1>t, <2>1, <2>2, <2>3, <3>2, <3>3, HandedOut
  <2>5. OwnIds /\ LocalOK(w)' /\ Paints(w)
    BY <1>t, <2>3 DEF Inv, Stages, Lifecycle, OwnIds, LocalOK, Paints, Owes
  <2> QED
    BY <1>11, <1>t, <2>1, <2>2, <2>4, <2>5, AllocatesKeeps, Compose
<1>12. ASSUME NEW w \in Workers, Others(w), Upsert(w) PROVE Rest'
  <2>1. page[w] \in Held /\ page[w].id \in Surfaces /\ page[w] # NoPage
    BY <1>12, <1>p DEF Upsert, Holding
  <2>2. pages' = [pages EXCEPT ![page[w].id] = page[w]] /\ UNCHANGED <<heap, op>> /\ pc[w] = "write"
    BY <1>12 DEF Upsert
  <2>3. op[w] # "render"
    BY <2>2 DEF Inv, Stages, LocalOK
  <2>4. /\ page[w].ready => /\ pc'[w] = "read" /\ page'[w] = page[w]
                            /\ \A c \in Cells : snap'[w][c] = Unread
        /\ ~page[w].ready => pc'[w] = "line" /\ page'[w] = NoPage
    <3>1. ASSUME page[w].ready
          PROVE pc'[w] = "read" /\ page'[w] = page[w] /\ \A c \in Cells : snap'[w][c] = Unread
      <4>1. pc' = [pc EXCEPT ![w] = "read"] /\ StartRender(w) /\ page' = page
        BY <1>12, <3>1 DEF Upsert
      <4> QED
        BY <1>t, <4>1 DEF StartRender, TypeOK
    <3>2. ASSUME ~page[w].ready PROVE pc'[w] = "line" /\ page'[w] = NoPage
      <4>1. pc' = [pc EXCEPT ![w] = "line"] /\ page' = [page EXCEPT ![w] = NoPage]
        BY <1>12, <3>2 DEF Upsert
      <4> QED
        BY <1>t, <4>1 DEF TypeOK
    <3> QED
      BY <3>1, <3>2
  <2>5. \A t \in Surfaces : pages'[t] = IF t = page[w].id THEN page[w] ELSE pages[t]
    BY <1>t, <2>1, <2>2 DEF TypeOK
  <2>6. HeldOK /\ OneNew
    <3>1. page'[w] = NoPage \/ page'[w] \in Held
      BY <2>1, <2>4
    <3>2. \A t \in Surfaces : pages'[t] = NoPage \/ pages'[t] \in Held
      BY <2>1, <2>5 DEF Held
    <3> QED
      BY <1>12, <3>1, <3>2, NothingNew
  <2>7. OwnIds
    BY <1>t, <2>5 DEF OwnIds, Lifecycle
  <2>8. LocalOK(w)'
    BY <2>2, <2>3, <2>4 DEF LocalOK
  <2>9. Paints(w)
    BY <2>2, <2>3, <2>4, <2>5 DEF Paints, Owes, OwesNext
  <2> QED
    BY <1>12, <1>h, <2>2, <2>6, <2>7, <2>8, <2>9, Compose
<1>13. ASSUME NEW w \in Workers, Others(w), ReadCell(w) PROVE Rest'
  <2>1. PICK c \in Cells : snap' = [snap EXCEPT ![w][c] = heap[page[w].buf][c]]
    BY <1>13 DEF ReadCell
  <2>2. UNCHANGED <<pages, heap, pc, op, page>> /\ pc[w] = "read"
    BY <1>13 DEF ReadCell, store
  <2>3. \A d \in Cells : snap'[w][d] = IF d = c THEN heap[page[w].buf][c] ELSE snap[w][d]
    BY <1>t, <2>1 DEF TypeOK
  <2>4. LocalOK(w)'
    BY <2>2, <2>3 DEF Inv, Stages, LocalOK
  <2>5. HeldOK /\ OneNew /\ OwnIds
    BY <1>t, <2>2 DEF Held, HeldOK, OneNew, OwnIds, Lifecycle
  <2>6. Paints(w)
    BY <2>2 DEF Paints, Owes, OwesNext
  <2> QED
    BY <1>13, <1>h, <2>2, <2>4, <2>5, <2>6, Compose
<1>14. ASSUME NEW w \in Workers, pc[w] = "read", RenderedAll(w)
       PROVE /\ PageOKNext(Rendered(w)) \/ heap' # heap
             /\ Rendered(w).id = page[w].id /\ Rendered(w).buf = page[w].buf
             /\ Rendered(w) \in Page /\ Painted(Rendered(w)) /\ page[w] \in Held
             /\ page[w].id \in Surfaces
  <2>1. /\ Rendered(w).id = page[w].id /\ Rendered(w).buf = page[w].buf
        /\ Rendered(w) \in Page /\ Rendered(w).root = page[w].root
        /\ Rendered(w).ready /\ Rendered(w).root # None
        /\ Rendered(w).html # None /\ Rendered(w).html.root = page[w].root
        /\ Rendered(w).html.view = snap[w]
    BY <1>14, <1>t, RenderedType
  <2>2. \A c \in Cells : snap[w][c] # None => heap[page[w].buf][c] # None
    BY <1>14 DEF Inv, Stages, LocalOK, RenderedAll
  <2>3. page[w] \in Held /\ page[w].id \in Surfaces
    BY <1>14, <1>p DEF Holding
  <2> HIDE DEF Rendered
  <2> QED
    BY <2>1, <2>2, <2>3 DEF PageOKNext, Painted
<1>15. ASSUME NEW w \in Workers, Others(w), SaveHTML(w) \/ SaveOnDemand(w) PROVE Rest'
  <2> DEFINE r == Rendered(w)
  <2>1. /\ pages' = [pages EXCEPT ![page[w].id] = r] /\ UNCHANGED heap
        /\ pc[w] = "read" /\ RenderedAll(w)
    BY <1>15 DEF SaveHTML, SaveOnDemand
  <2>2. /\ PageOKNext(r) /\ r.id = page[w].id /\ r.buf = page[w].buf /\ r \in Page
        /\ Painted(r) /\ page[w] \in Held /\ page[w].id \in Surfaces
    BY <1>14, <2>1
  <2>3. \/ pc'[w] = "publish" /\ page'[w] = r /\ op'[w] # "render"
        \/ pc'[w] = "idle" /\ page'[w] = NoPage
    <3>1. CASE SaveHTML(w)
      <4>1. /\ pc' = [pc EXCEPT ![w] = "publish"] /\ page' = [page EXCEPT ![w] = r]
            /\ op' = op /\ op[w] # "render"
        BY <3>1 DEF SaveHTML
      <4> HIDE DEF r
      <4> QED
        BY <1>t, <4>1 DEF TypeOK
    <3>2. CASE SaveOnDemand(w)
      BY <1>t, <3>2 DEF SaveOnDemand, Respond, TypeOK
    <3> QED
      BY <1>15, <3>1, <3>2
  <2> HIDE DEF r
  <2>4. \A t \in Surfaces : pages'[t] = IF t = page[w].id THEN r ELSE pages[t]
    BY <1>t, <2>1, <2>2 DEF TypeOK
  <2>5. \A q \in Held' : q \in Held \/ q = r
    BY <1>15, <2>3, <2>4 DEF Held, Others
  <2>6. HeldOK /\ OneNew
    <3>1. CopyOf(page[w]) \in Claims /\ CopyOf(page[w]).id = r.id /\ CopyOf(page[w]).buf = r.buf
      BY <2>2 DEF Claims, CopyOf
    <3> QED
      BY <2>2, <2>5, <3>1 DEF HeldOK, OneNew
  <2>7. OwnIds /\ LocalOK(w)'
    BY <1>t, <2>2, <2>3, <2>4 DEF Lifecycle, OwnIds, LocalOK
  <2>8. Paints(w)
    <3>1. \A t \in Surfaces : t # page[w].id /\ pages[t] # NoPage => pages[t] # page[w]
      BY <1>t DEF Lifecycle
    <3> QED
      BY <2>2, <2>4, <3>1 DEF Paints, Owes
  <2> QED
    BY <1>15, <1>h, <2>1, <2>6, <2>7, <2>8, Compose
<1>16. ASSUME NEW w \in Workers, Others(w), StoreCreated(w) PROVE Rest'
  <2>1. page[w] \in Held /\ page[w].id \in Surfaces
    BY <1>16, <1>p DEF StoreCreated, Holding
  <2>2. /\ pages' = [pages EXCEPT ![page[w].id] = page[w]] /\ UNCHANGED heap /\ pc[w] = "create"
        /\ pc'[w] = "idle" /\ page'[w] = NoPage
    BY <1>16, <1>t DEF StoreCreated, Respond, TypeOK
  <2>3. \A t \in Surfaces : pages'[t] = IF t = page[w].id THEN page[w] ELSE pages[t]
    BY <1>t, <2>1, <2>2 DEF TypeOK
  <2>4. ~page[w].ready
    BY <2>2 DEF Inv, Stages, LocalOK
  <2>5. HeldOK /\ OneNew
    <3>1. \A t \in Surfaces : pages'[t] = NoPage \/ pages'[t] \in Held
      BY <2>1, <2>3 DEF Held
    <3> QED
      BY <1>16, <2>2, <3>1, NothingNew
  <2>6. OwnIds /\ LocalOK(w)' /\ Paints(w)
    BY <1>t, <2>2, <2>3, <2>4 DEF Lifecycle, OwnIds, LocalOK, Paints, Owes
  <2> QED
    BY <1>16, <1>h, <2>2, <2>5, <2>6, Compose
<1>17. CASE UNCHANGED <<store, pc, local, feed>>
  BY <1>17 DEF Inv, Rest, Lifecycle, Isolation, RenderedWhenQuiet, NoPhantomContent, Stages,
               LocalOK, Held, Claims, PaintOwed, store, local
<1>18. CASE \E w \in Workers : Alive /\ Accept(w)
  BY <1>18, <1>w, <1>3, <1>7, <1>8, <1>7a DEF Accept
<1>19. CASE \E w \in Workers : Alive /\ Proceed(w)
  BY <1>19, <1>w, <1>1, <1>2, <1>4, <1>5, <1>6, <1>10, <1>11, <1>12, <1>13, <1>15, <1>16,
     <1>7a
  DEF Proceed
<1> QED
  BY <1>17, <1>18, <1>19 DEF Next, MapRace, Crashed, vars
-----------------------------------------------------------------------------
\* The invariant holds in an engine that has served no request.
LEMMA InitInv == Init => Inv
<1> SUFFICES ASSUME Init PROVE Inv
  OBVIOUS
<1>1. TypeOK
  <2>1. Empty \in [Cells -> Content] /\ Empty \in [Cells -> Content \cup {Unread}]
    BY DEF Empty, Content
  <2>2. pages \in [Surfaces -> Page \cup {NoPage}] /\ heap \in [Bufs -> [Cells -> Content]]
    BY <2>1 DEF Init
  <2>3. pc \in [Workers -> PCs] /\ op \in [Workers -> {"none", "apply", "page", "render"}]
    BY DEF Init, PCs
  <2>4. lines \in [Workers -> Seq(Line)] /\ todo \in [Workers -> Seq(Write)]
    <3>1. <<>> \in Seq(Line) /\ <<>> \in Seq(Write)
      OBVIOUS
    <3> QED
      BY <3>1, Zenon DEF Init
  <2>5. /\ subject \in [Workers -> Surfaces \cup {None}]
        /\ page \in [Workers -> Page \cup {NoPage}]
        /\ sweep \in [Workers -> SUBSET Surfaces]
        /\ copies \in [Workers -> SUBSET Copy]
        /\ feed \in [Surfaces -> Html \cup {None}]
        /\ crashed \in BOOLEAN
    BY DEF Init
  <2>6. snap \in [Workers -> [Cells -> Content \cup {Unread}]]
    BY <2>1 DEF Init
  <2>7. \A w \in Workers :
          page[w] = NoPage /\ pc[w] = "idle" /\ op[w] = "none" /\ copies[w] = {}
    BY DEF Init
  <2>8. \A w \in Workers : page[w] # NoPage <=> pc[w] \in Holding
    BY <2>7 DEF Holding
  <2>9. \A w \in Workers : pc[w] = "drop" \/ op[w] = "page" => subject[w] \in Surfaces
    BY <2>7
  <2> QED
    BY <2>2, <2>3, <2>4, <2>5, <2>6, <2>7, <2>8, <2>9 DEF TypeOK
<1>2. Held = {} /\ Claims = {}
  BY DEF Init, Held, Claims
<1>3. Lifecycle /\ Isolation /\ RenderedWhenQuiet /\ NoPhantomContent /\ Stages
  BY <1>2 DEF Init, Lifecycle, Isolation, RenderedWhenQuiet, NoPhantomContent, Stages, LocalOK
<1> QED
  BY <1>1, <1>3 DEF Inv

\* TypeStep and RestStep together.
LEMMA StepInv == Inv /\ [Next]_vars => Inv'
<1>1. Inv /\ [Next]_vars => TypeOK'
  BY TypeStep DEF Inv
<1> QED
  BY <1>1, RestStep DEF Inv, Rest

\* The inductive invariant holds in every reachable state of the engine.
THEOREM Invariance == Spec => []Inv
  BY InitInv, StepInv, PTL DEF Spec

\* The engine's variables keep their types.
THEOREM TypeCorrect == Spec => []TypeOK
<1>1. Inv => TypeOK
  BY DEF Inv
<1> QED
  BY <1>1, Invariance, PTL

\* Whatever requests overlap, a page has HTML only once beginRendering has given it
\* a root, and the store keeps it under its own id.
THEOREM PagesLiveInOrder == Spec => []Lifecycle
<1>1. Inv => Lifecycle
  BY DEF Inv
<1> QED
  BY <1>1, Invariance, PTL

\* Surfaces never share maps, so a request for one surface cannot change another.
THEOREM SurfacesAreIsolated == Spec => []Isolation
<1>1. Inv => Isolation
  BY DEF Inv
<1> QED
  BY <1>1, Invariance, PTL

\* A ready surface without up-to-date HTML has a worker that is rendering it.
THEOREM ReadySurfacesGetRendered == Spec => []RenderedWhenQuiet
<1>1. Inv => RenderedWhenQuiet
  BY DEF Inv
<1> QED
  BY <1>1, Invariance, PTL

\* HTML shows only what its surface's maps hold.
THEOREM NothingFromEarlierLives == Spec => []NoPhantomContent
<1>1. Inv => NoPhantomContent
  BY DEF Inv
<1> QED
  BY <1>1, Invariance, PTL

\* The operation that writes and the one it races with are at the maps of the one
\* surface that is written, whichever and however many surfaces the other one
\* reads: what a race damages is that surface, and no other.
THEOREM RacesStayInOneSurface ==
  Spec => [](\A w, v \in Workers : Racing(w, v) =>
               \/ page[v] # NoPage /\ CopyOf(page[v]) = CopyOf(page[w])
               \/ CopyOf(page[w]) \in Walked(v))
<1> DEFINE Met(w, v) == \/ page[v] # NoPage /\ CopyOf(page[v]) = CopyOf(page[w])
                        \/ CopyOf(page[w]) \in Walked(v)
<1>1. Inv => \A w, v \in Workers : Racing(w, v) => Met(w, v)
  <2> SUFFICES ASSUME Inv, NEW w \in Workers, NEW v \in Workers, Racing(w, v)
               PROVE  Met(w, v)
    OBVIOUS
  <2>1. PICK a : a \in Writing(w) /\ (a \in Writing(v) \/ a \in Reading(v))
    BY DEF Racing
  <2>2. a[1] = page[w].buf /\ page[w] \in Held
    BY <2>1 DEF Writing, Inv, TypeOK, Holding, Held
  <2>3. CopyOf(page[w]) \in Claims
    BY <2>2 DEF Claims
  <2>4. CASE page[v] # NoPage /\ a[1] = page[v].buf
    <3>1. CopyOf(page[v]) \in Claims
      BY <2>4 DEF Claims, Held
    <3> QED
      BY <2>2, <2>3, <2>4, <3>1 DEF Inv, Isolation, CopyOf
  <2>5. CASE \E c \in Walked(v) : a[1] = c.buf
    <3>1. PICK c \in Walked(v) : a[1] = c.buf
      BY <2>5
    <3>2. c \in Claims /\ c \in Copy
      BY DEF Walked, Claims, Inv, TypeOK
    <3>3. c.id = page[w].id
      BY <2>2, <2>3, <3>1, <3>2 DEF Inv, Isolation, CopyOf
    <3>4. c = CopyOf(page[w])
      BY <2>2, <3>1, <3>2, <3>3 DEF Copy, CopyOf
    <3> QED
      BY <3>4
  <2>6. \/ page[v] # NoPage /\ a[1] = page[v].buf
        \/ \E c \in Walked(v) : a[1] = c.buf
    BY <2>1 DEF Writing, Reading, Inv, TypeOK, Holding
  <2> QED
    BY <2>4, <2>5, <2>6
<1> QED
  BY <1>1, Invariance, PTL
=============================================================================
