------------------------------- MODULE Engine -------------------------------
(***************************************************************************)
(* The engine (internal/engine) over the page store (internal/store).      *)
(*                                                                         *)
(* Every HTTP handler and every MCP tool call runs on a goroutine of its   *)
(* own: a worker.  A worker takes the store's lock only inside one store   *)
(* call, so an operation of the engine is a sequence of atomic store calls *)
(* with unlocked work in between, and that is the grain of the actions.    *)
(*                                                                         *)
(* The store keeps Page values, but a copy of a Page shares the component  *)
(* map and the data model of the original.  The two maps are made together *)
(* and never replaced, so one element of Bufs, a heap identity, stands for *)
(* the pair; heap holds what they contain.  A cell is an entry of one of   *)
(* the two maps; CatalogID and UpdatedAt are left out.                     *)
(***************************************************************************)
EXTENDS Naturals, Sequences

CONSTANTS
  Surfaces,   \* surface ids, numbers in their sorting order
  Workers,    \* goroutines that serve HTTP requests and MCP calls
  Bufs,       \* identities of the pairs of maps
  CompCells,  \* keys of the component maps
  DataCells,  \* keys of the data models
  Vals,       \* definitions and values a cell can hold
  Roots,      \* root component ids a beginRendering message names
  Bodies,     \* JSONL payloads, sequences of lines
  UIFile,     \* the payload of <surface>.jsonl in the UI directory, or None
  Bad,        \* a component definition ParseComponentDef refuses
  None,       \* absent: no entry, no root, no HTML, no file
  NoPage,     \* the store has no page, the worker holds none
  Unread      \* a cell the renderer has not read yet

Cells == CompCells \cup DataCells
Content == Vals \cup {None}
Empty == [c \in Cells |-> None]

\* A write to one of the maps.
Write == [cell : Cells, val : Vals \cup {Bad}]

\* A line of a payload: one message, or a line that does not decode or that
\* ValidateMessage refuses.
Line ==
  [kind : {"surfaceUpdate"}, id : Surfaces, root : {None},
   writes : Seq([cell : CompCells, val : Vals \cup {Bad}])]
  \cup [kind : {"dataModelUpdate"}, id : Surfaces, root : {None},
        writes : Seq([cell : DataCells, val : Vals])]
  \cup [kind : {"beginRendering"}, id : Surfaces, root : Roots, writes : {<<>>}]
  \cup [kind : {"deleteSurface"}, id : Surfaces, root : {None}, writes : {<<>>}]
  \cup [kind : {"invalid"}]

Html == [root : Roots, view : [Cells -> Content]]
Page == [id : Surfaces, buf : Bufs, root : Roots \cup {None}, ready : BOOLEAN,
         html : Html \cup {None}]

\* Whose maps they are: what a copy of a Page that is only read stands for.
Copy == [id : Surfaces, buf : Bufs]
CopyOf(p) == [id |-> p.id, buf |-> p.buf]

ASSUME SurfacesAssumption == Surfaces \subseteq Nat
ASSUME CellsAssumption == CompCells \cap DataCells = {}
ASSUME BodiesAssumption == /\ Bodies \subseteq Seq(Line)
                           /\ UIFile \in [Surfaces -> Seq(Line) \cup {None}]
ASSUME MarkersAssumption == /\ None \notin Roots \cup Vals \cup Html
                            /\ NoPage \notin Page
                            /\ Bad \notin Vals
                            /\ Unread \notin Content

VARIABLES
  pages,    \* PageStore.pages
  heap,     \* what the component maps and data models hold
  pc,       \* where a worker is in its operation
  op,       \* what the worker's lines or rendering are for: apply, page or render
  subject,  \* the id an operation of one surface is called with
  lines,    \* the lines ProcessJSONL has still to apply
  todo,     \* the map writes the current message has still to make
  page,     \* the worker's local copy p of a Page
  snap,     \* the cells the renderer has read
  sweep,    \* the ids ResetRuntime has still to delete
  copies,   \* the maps of the pages a reading operation has still to walk
  feed,     \* the last HTML of each surface handed to Broker.Publish
  crashed   \* the Go runtime has ended the process

store == <<pages, heap>>
local == <<op, subject, lines, todo, page, snap, sweep, copies>>
vars == <<store, pc, local, feed, crashed>>

PCs == {"idle", "line", "write", "read", "publish", "create", "drop", "sweep",
        "inspect", "reload"}

Init ==
  /\ pages = [s \in Surfaces |-> NoPage]
  /\ heap = [b \in Bufs |-> Empty]
  /\ pc = [w \in Workers |-> "idle"]
  /\ op = [w \in Workers |-> "none"]
  /\ subject = [w \in Workers |-> None]
  /\ lines = [w \in Workers |-> <<>>]
  /\ todo = [w \in Workers |-> <<>>]
  /\ page = [w \in Workers |-> NoPage]
  /\ snap = [w \in Workers |-> Empty]
  /\ sweep = [w \in Workers |-> {}]
  /\ copies = [w \in Workers |-> {}]
  /\ feed = [s \in Surfaces |-> None]
  /\ crashed = FALSE
-----------------------------------------------------------------------------
\* Mistake: a pool of maps that overlooks the operations in flight.
UsedByStore == {pages[s].buf : s \in {t \in Surfaces : pages[t] # NoPage}}

\* Buffers reachable from the store or from an operation in flight; make()
\* returns a pair of maps that is not among them.
Used == {pages[s].buf : s \in {t \in Surfaces : pages[t] # NoPage}}
        \cup {page[w].buf : w \in {v \in Workers : page[v] # NoPage}}
        \cup {a.buf : a \in UNION {copies[w] : w \in Workers}}
Free == Bufs \ Used

NewPage(s, b) == [id |-> s, buf |-> b, root |-> None, ready |-> FALSE, html |-> None]

\* The operation returns to its caller and its locals are gone.
Respond(w) ==
  /\ pc' = [pc EXCEPT ![w] = "idle"]
  /\ op' = [op EXCEPT ![w] = "none"]
  /\ subject' = [subject EXCEPT ![w] = None]
  /\ lines' = [lines EXCEPT ![w] = <<>>]
  /\ todo' = [todo EXCEPT ![w] = <<>>]
  /\ page' = [page EXCEPT ![w] = NoPage]
  /\ snap' = [snap EXCEPT ![w] = Empty]
  /\ sweep' = [sweep EXCEPT ![w] = {}]
  /\ copies' = [copies EXCEPT ![w] = {}]

\* getOrCreatePage: the stored page, or a new one that is not stored yet.
GetOrCreatePage(s, b) == IF pages[s] = NoPage THEN NewPage(s, b) ELSE pages[s]
Allocates(s, b) == IF pages[s] = NoPage
                   THEN b \in Free /\ heap' = [heap EXCEPT ![b] = Empty]
                   ELSE b = pages[s].buf /\ UNCHANGED heap

\* What the renderer must read before the page of w has its HTML.
StartRender(w) == snap' = [snap EXCEPT ![w] = [c \in Cells |-> Unread]]
RenderedAll(w) == \A c \in Cells : snap[w][c] # Unread
Rendered(w) == [page[w] EXCEPT !.html = [root |-> page[w].root, view |-> snap[w]]]
-----------------------------------------------------------------------------
\* POST /render/a2ui, a2ui_render and a2ui_apply_jsonl, and the pages the server
\* renders from its UI directory at every GET: ProcessJSONL of a payload.
ProcessJSONL(w) ==
  /\ pc[w] = "idle"
  /\ \E body \in Bodies : lines' = [lines EXCEPT ![w] = body]
  /\ pc' = [pc EXCEPT ![w] = "line"]
  /\ op' = [op EXCEPT ![w] = "apply"]
  /\ UNCHANGED <<store, subject, todo, page, snap, sweep, copies, feed>>

\* Mistake: the handler does not keep the id for its second lookup.
GetPageHandlerForgets(w, s) ==
  /\ pc[w] = "idle"
  /\ pages[s] = NoPage
  /\ UIFile[s] # None
  /\ lines' = [lines EXCEPT ![w] = UIFile[s]]
  /\ pc' = [pc EXCEPT ![w] = "line"]
  /\ op' = [op EXCEPT ![w] = "page"]
  /\ UNCHANGED <<store, subject, todo, page, snap, sweep, copies, feed>>

\* GET /page/{id} of a surface the store lacks: its file is applied first.
GetPageHandler(w, s) ==
  /\ pc[w] = "idle"
  /\ pages[s] = NoPage
  /\ UIFile[s] # None
  /\ lines' = [lines EXCEPT ![w] = UIFile[s]]
  /\ pc' = [pc EXCEPT ![w] = "line"]
  /\ op' = [op EXCEPT ![w] = "page"]
  /\ subject' = [subject EXCEPT ![w] = s]
  /\ UNCHANGED <<store, todo, page, snap, sweep, copies, feed>>

\* loadPageFromUIFile looks the surface up again after its file was applied; it
\* answers with the page, or with an error when the store lacks it (again).
ReloadPage(w) ==
  /\ pc[w] = "reload"
  /\ Respond(w)
  /\ UNCHANGED <<store, feed>>

\* The payload has no line left.
EndOfInput(w) ==
  /\ pc[w] = "line"
  /\ lines[w] = <<>>
  /\ IF op[w] = "page"
     THEN /\ pc' = [pc EXCEPT ![w] = "reload"]
          /\ UNCHANGED local
     ELSE Respond(w)
  /\ UNCHANGED <<store, feed>>

\* A line that does not decode or validate ends the request; what the earlier
\* lines did stays.
RejectLine(w) ==
  /\ pc[w] = "line"
  /\ lines[w] # <<>>
  /\ Head(lines[w]).kind = "invalid"
  /\ Respond(w)
  /\ UNCHANGED <<store, feed>>

\* ApplyMessage of a deleteSurface message: straight to the store.
ApplyDeleteSurface(w) ==
  /\ pc[w] = "line"
  /\ lines[w] # <<>>
  /\ Head(lines[w]).kind = "deleteSurface"
  /\ pages' = [pages EXCEPT ![Head(lines[w]).id] = NoPage]
  /\ lines' = [lines EXCEPT ![w] = Tail(@)]
  /\ UNCHANGED <<heap, pc, op, subject, todo, page, snap, sweep, copies, feed>>

\* The other messages fetch their page first.  A beginRendering message sets
\* the root and Ready in the local copy and writes to no map.
ApplyUpdate(w) ==
  /\ pc[w] = "line"
  /\ lines[w] # <<>>
  /\ LET m == Head(lines[w]) IN
     /\ m.kind \in {"surfaceUpdate", "dataModelUpdate"}
     /\ \E b \in Bufs :
          /\ Allocates(m.id, b)
          /\ page' = [page EXCEPT ![w] = GetOrCreatePage(m.id, b)]
     /\ todo' = [todo EXCEPT ![w] = m.writes]
  /\ lines' = [lines EXCEPT ![w] = Tail(@)]
  /\ pc' = [pc EXCEPT ![w] = "write"]
  /\ UNCHANGED <<pages, op, subject, snap, sweep, copies, feed>>

\* Mistake: the root is set and Ready is left to a later message.
ApplyBeginRenderingUnready(w) ==
  /\ pc[w] = "line"
  /\ lines[w] # <<>>
  /\ LET m == Head(lines[w]) IN
     /\ m.kind = "beginRendering"
     /\ \E b \in Bufs :
          /\ Allocates(m.id, b)
          /\ page' = [page EXCEPT ![w] = [GetOrCreatePage(m.id, b) EXCEPT !.root = m.root]]
  /\ lines' = [lines EXCEPT ![w] = Tail(@)]
  /\ pc' = [pc EXCEPT ![w] = "write"]
  /\ UNCHANGED <<pages, op, subject, todo, snap, sweep, copies, feed>>

ApplyBeginRendering(w) ==
  /\ pc[w] = "line"
  /\ lines[w] # <<>>
  /\ LET m == Head(lines[w]) IN
     /\ m.kind = "beginRendering"
     /\ \E b \in Bufs :
          /\ Allocates(m.id, b)
          /\ page' = [page EXCEPT ![w] = [GetOrCreatePage(m.id, b) EXCEPT
                                            !.root = m.root, !.ready = TRUE]]
  /\ lines' = [lines EXCEPT ![w] = Tail(@)]
  /\ pc' = [pc EXCEPT ![w] = "write"]
  /\ UNCHANGED <<pages, op, subject, todo, snap, sweep, copies, feed>>

\* One component or data entry is written, in place, without a lock.
WriteCell(w) ==
  /\ pc[w] = "write"
  /\ todo[w] # <<>>
  /\ Head(todo[w]).val # Bad
  /\ heap' = [heap EXCEPT ![page[w].buf][Head(todo[w]).cell] = Head(todo[w]).val]
  /\ todo' = [todo EXCEPT ![w] = Tail(@)]
  /\ UNCHANGED <<pages, pc, op, subject, lines, page, snap, sweep, copies, feed>>

\* A component that does not parse ends the request; the components before it
\* are in the maps already.
RejectComponent(w) ==
  /\ pc[w] = "write"
  /\ todo[w] # <<>>
  /\ Head(todo[w]).val = Bad
  /\ Respond(w)
  /\ UNCHANGED <<store, feed>>

\* Mistakes: only a page without HTML is rendered; the HTML another worker stored
\* in the meantime is kept.
UpsertRendersOnce(w) ==
  /\ pc[w] = "write"
  /\ todo[w] = <<>>
  /\ pages' = [pages EXCEPT ![page[w].id] = page[w]]
  /\ IF page[w].ready /\ page[w].html = None
     THEN pc' = [pc EXCEPT ![w] = "read"] /\ StartRender(w) /\ UNCHANGED page
     ELSE pc' = [pc EXCEPT ![w] = "line"] /\ page' = [page EXCEPT ![w] = NoPage] /\ UNCHANGED snap
  /\ UNCHANGED <<heap, op, subject, lines, todo, sweep, copies, feed>>

UpsertKeepsHTML(w) ==
  /\ pc[w] = "write"
  /\ todo[w] = <<>>
  /\ LET stored == pages[page[w].id] IN
     pages' = [pages EXCEPT ![page[w].id] =
                 IF stored = NoPage THEN page[w] ELSE [page[w] EXCEPT !.html = stored.html]]
  /\ IF page[w].ready
     THEN pc' = [pc EXCEPT ![w] = "read"] /\ StartRender(w) /\ UNCHANGED page
     ELSE pc' = [pc EXCEPT ![w] = "line"] /\ page' = [page EXCEPT ![w] = NoPage] /\ UNCHANGED snap
  /\ UNCHANGED <<heap, op, subject, lines, todo, sweep, copies, feed>>

\* Every write is made: the copy is stored, and rendered if it is ready.
Upsert(w) ==
  /\ pc[w] = "write"
  /\ todo[w] = <<>>
  /\ pages' = [pages EXCEPT ![page[w].id] = page[w]]
  /\ IF page[w].ready
     THEN /\ pc' = [pc EXCEPT ![w] = "read"]
          /\ StartRender(w)
          /\ UNCHANGED page
     ELSE /\ pc' = [pc EXCEPT ![w] = "line"]
          /\ page' = [page EXCEPT ![w] = NoPage]
          /\ UNCHANGED snap
  /\ UNCHANGED <<heap, op, subject, lines, todo, sweep, copies, feed>>
-----------------------------------------------------------------------------
\* Reads.  The renderer looks the maps up one cell after another, unlocked.
ReadCell(w) ==
  /\ pc[w] = "read"
  /\ \E c \in Cells :
       /\ snap[w][c] = Unread
       /\ snap' = [snap EXCEPT ![w][c] = heap[page[w].buf][c]]
  /\ UNCHANGED <<store, pc, op, subject, lines, todo, page, sweep, copies, feed>>

\* Mistake: the page is not stored again with its HTML.
SaveHTMLForgets(w) ==
  /\ pc[w] = "read"
  /\ op[w] # "render"
  /\ RenderedAll(w)
  /\ page' = [page EXCEPT ![w] = Rendered(w)]
  /\ pc' = [pc EXCEPT ![w] = "publish"]
  /\ snap' = [snap EXCEPT ![w] = Empty]
  /\ UNCHANGED <<store, op, subject, lines, todo, sweep, copies, feed>>

\* The end of renderAndPublish's rendering: the copy gets its HTML and is
\* stored a second time.
SaveHTML(w) ==
  /\ pc[w] = "read"
  /\ op[w] # "render"
  /\ RenderedAll(w)
  /\ page' = [page EXCEPT ![w] = Rendered(w)]
  /\ pages' = [pages EXCEPT ![page[w].id] = Rendered(w)]
  /\ pc' = [pc EXCEPT ![w] = "publish"]
  /\ snap' = [snap EXCEPT ![w] = Empty]
  /\ UNCHANGED <<heap, op, subject, lines, todo, sweep, copies, feed>>

\* Broker.Publish of the HTML just stored; the next line follows.
Publish(w) ==
  /\ pc[w] = "publish"
  /\ feed' = [feed EXCEPT ![page[w].id] = page[w].html]
  /\ pc' = [pc EXCEPT ![w] = "line"]
  /\ page' = [page EXCEPT ![w] = NoPage]
  /\ UNCHANGED <<store, op, subject, lines, todo, snap, sweep, copies>>

\* a2ui_render_surface: RenderSurfaceByID fetches a page that has a root,
\* renders it, stores it and does not publish it.
RenderSurfaceByID(w, s) ==
  /\ pc[w] = "idle"
  /\ pages[s] # NoPage
  /\ pages[s].root # None
  /\ page' = [page EXCEPT ![w] = pages[s]]
  /\ pc' = [pc EXCEPT ![w] = "read"]
  /\ op' = [op EXCEPT ![w] = "render"]
  /\ StartRender(w)
  /\ UNCHANGED <<store, subject, lines, todo, sweep, copies, feed>>

SaveOnDemand(w) ==
  /\ pc[w] = "read"
  /\ op[w] = "render"
  /\ RenderedAll(w)
  /\ pages' = [pages EXCEPT ![page[w].id] = Rendered(w)]
  /\ Respond(w)
  /\ UNCHANGED <<heap, feed>>

\* InspectTableRow, GetSurface, GetSurfaceModel and GetSurfaceComponents fetch
\* a page, then walk its maps for the answer, unlocked.
Inspect(w, s) ==
  /\ pc[w] = "idle"
  /\ pages[s] # NoPage
  /\ copies' = [copies EXCEPT ![w] = {CopyOf(pages[s])}]
  /\ pc' = [pc EXCEPT ![w] = "inspect"]
  /\ UNCHANGED <<store, op, subject, lines, todo, page, snap, sweep, feed>>

\* a2ui_list_pages: List copies every page, and the answer is encoded from the
\* maps of one after another, in List's order, unlocked.
ListPages(w) ==
  /\ pc[w] = "idle"
  /\ copies' = [copies EXCEPT
                  ![w] = {CopyOf(pages[s]) : s \in {t \in Surfaces : pages[t] # NoPage}}]
  /\ pc' = [pc EXCEPT ![w] = "inspect"]
  /\ UNCHANGED <<store, op, subject, lines, todo, page, snap, sweep, feed>>

\* The copy whose maps w walks, and the end of that walk.
Walked(w) == {a \in copies[w] : \A b \in copies[w] : a.id <= b.id}
WalkCopy(w) ==
  /\ pc[w] = "inspect"
  /\ copies[w] # {}
  /\ copies' = [copies EXCEPT ![w] = @ \ Walked(w)]
  /\ UNCHANGED <<store, pc, op, subject, lines, todo, page, snap, sweep, feed>>

Inspected(w) ==
  /\ pc[w] = "inspect"
  /\ copies[w] = {}
  /\ Respond(w)
  /\ UNCHANGED <<store, feed>>
-----------------------------------------------------------------------------
\* Mistake: the lookup is left out.
CreateSurfaceAnyway(w, s) ==
  /\ pc[w] = "idle"
  /\ \E b \in Free :
       /\ heap' = [heap EXCEPT ![b] = Empty]
       /\ page' = [page EXCEPT ![w] = NewPage(s, b)]
  /\ pc' = [pc EXCEPT ![w] = "create"]
  /\ UNCHANGED <<pages, op, subject, lines, todo, snap, sweep, copies, feed>>

\* CreateSurface: a lookup, then the store of an empty page.
CreateSurface(w, s) ==
  /\ pc[w] = "idle"
  /\ pages[s] = NoPage
  /\ \E b \in Bufs :
       /\ Allocates(s, b)
       /\ page' = [page EXCEPT ![w] = NewPage(s, b)]
  /\ pc' = [pc EXCEPT ![w] = "create"]
  /\ UNCHANGED <<pages, op, subject, lines, todo, snap, sweep, copies, feed>>

StoreCreated(w) ==
  /\ pc[w] = "create"
  /\ pages' = [pages EXCEPT ![page[w].id] = page[w]]
  /\ Respond(w)
  /\ UNCHANGED <<heap, feed>>

\* DeleteSurface: a lookup, then the removal.
DeleteSurface(w, s) ==
  /\ pc[w] = "idle"
  /\ pages[s] # NoPage
  /\ pc' = [pc EXCEPT ![w] = "drop"]
  /\ subject' = [subject EXCEPT ![w] = s]
  /\ UNCHANGED <<store, op, lines, todo, page, snap, sweep, copies, feed>>

RemoveDeleted(w) ==
  /\ pc[w] = "drop"
  /\ pages' = [pages EXCEPT ![subject[w]] = NoPage]
  /\ Respond(w)
  /\ UNCHANGED <<heap, feed>>

\* ResetRuntime: List, then one Delete per listed id in List's order.
ResetRuntime(w) ==
  /\ pc[w] = "idle"
  /\ sweep' = [sweep EXCEPT ![w] = {s \in Surfaces : pages[s] # NoPage}]
  /\ pc' = [pc EXCEPT ![w] = "sweep"]
  /\ UNCHANGED <<store, op, subject, lines, todo, page, snap, copies, feed>>

RemoveNext(w) ==
  /\ pc[w] = "sweep"
  /\ \E s \in sweep[w] :
       /\ \A t \in sweep[w] : s <= t
       /\ pages' = [pages EXCEPT ![s] = NoPage]
       /\ sweep' = [sweep EXCEPT ![w] = @ \ {s}]
  /\ UNCHANGED <<heap, pc, op, subject, lines, todo, page, snap, copies, feed>>

RemovedAll(w) ==
  /\ pc[w] = "sweep"
  /\ sweep[w] = {}
  /\ Respond(w)
  /\ UNCHANGED <<store, feed>>
-----------------------------------------------------------------------------
\* The map accesses w stands at: <<buffer, which of its two maps>>.
MapOf(c) == IF c \in CompCells THEN "components" ELSE "dataModel"
Writing(w) ==
  IF pc[w] = "write" /\ todo[w] # <<>> /\ Head(todo[w]).val # Bad
  THEN {<<page[w].buf, MapOf(Head(todo[w]).cell)>>} ELSE {}
Reading(w) ==
  CASE pc[w] = "read" -> {<<page[w].buf, MapOf(c)>> : c \in {d \in Cells : snap[w][d] = Unread}}
    [] pc[w] = "inspect" -> {a.buf : a \in Walked(w)} \X {"components", "dataModel"}
    [] OTHER -> {}
Racing(w, v) == w # v /\ Writing(w) \cap (Writing(v) \cup Reading(v)) # {}

\* Go maps are not safe for concurrent use: two conflicting accesses may also
\* end the process ("fatal error: concurrent map read and map write").
MapRace ==
  /\ \E w, v \in Workers : Racing(w, v)
  /\ crashed' = TRUE
  /\ UNCHANGED <<store, pc, local, feed>>

\* The steps that begin an operation, and those that carry one on.
Accept(w) ==
  \/ ProcessJSONL(w)
  \/ \E s \in Surfaces : GetPageHandler(w, s)
  \/ \E s \in Surfaces : RenderSurfaceByID(w, s)
  \/ \E s \in Surfaces : Inspect(w, s)
  \/ ListPages(w)
  \/ \E s \in Surfaces : CreateSurface(w, s)
  \/ \E s \in Surfaces : DeleteSurface(w, s)
  \/ ResetRuntime(w)

Proceed(w) ==
  \/ ReloadPage(w) \/ EndOfInput(w) \/ RejectLine(w)
  \/ ApplyDeleteSurface(w) \/ ApplyUpdate(w) \/ ApplyBeginRendering(w)
  \/ WriteCell(w) \/ RejectComponent(w) \/ Upsert(w)
  \/ ReadCell(w) \/ SaveHTML(w) \/ Publish(w) \/ SaveOnDemand(w)
  \/ WalkCopy(w) \/ Inspected(w)
  \/ StoreCreated(w) \/ RemoveDeleted(w) \/ RemoveNext(w) \/ RemovedAll(w)

Alive == crashed = FALSE /\ UNCHANGED crashed
Crashed == crashed = TRUE /\ UNCHANGED vars

Next ==
  \/ \E w \in Workers : Alive /\ Accept(w)
  \/ \E w \in Workers : Alive /\ Proceed(w)
  \/ crashed = FALSE /\ MapRace
  \/ Crashed

Spec == Init /\ [][Next]_vars
-----------------------------------------------------------------------------
Holding == {"write", "read", "publish", "create"}

\* Every variable has its type; a worker holds a page exactly while an operation
\* uses one, and copies to walk only while it reads.
TypeOK ==
  /\ pages \in [Surfaces -> Page \cup {NoPage}]
  /\ heap \in [Bufs -> [Cells -> Content]]
  /\ pc \in [Workers -> PCs]
  /\ op \in [Workers -> {"none", "apply", "page", "render"}]
  /\ subject \in [Workers -> Surfaces \cup {None}]
  /\ lines \in [Workers -> Seq(Line)]
  /\ todo \in [Workers -> Seq(Write)]
  /\ page \in [Workers -> Page \cup {NoPage}]
  /\ snap \in [Workers -> [Cells -> Content \cup {Unread}]]
  /\ sweep \in [Workers -> SUBSET Surfaces]
  /\ copies \in [Workers -> SUBSET Copy]
  /\ feed \in [Surfaces -> Html \cup {None}]
  /\ crashed \in BOOLEAN
  /\ \A w \in Workers : page[w] # NoPage <=> pc[w] \in Holding
  /\ \A w \in Workers : copies[w] # {} => pc[w] = "inspect"
  /\ \A w \in Workers :
       pc[w] = "drop" \/ op[w] = "page" => subject[w] \in Surfaces

\* The pages the store and the workers hold, and the maps held by anyone.
Held == ({pages[s] : s \in Surfaces} \cup {page[w] : w \in Workers}) \ {NoPage}
Claims == {CopyOf(p) : p \in Held} \cup UNION {copies[w] : w \in Workers}

\* A page is stored under its own id, is ready exactly when it has a root, and
\* has HTML only once it is ready (beginRendering sets root and Ready together,
\* and nothing renders before).
Lifecycle ==
  /\ \A s \in Surfaces : pages[s] # NoPage => pages[s].id = s
  /\ \A p \in Held : (p.ready <=> p.root # None) /\ (p.html # None => p.ready)
  /\ \A w \in Workers : pc[w] = "read" => page[w].ready

\* Page copies share maps only with copies of the same surface's page, whatever
\* was deleted, created anew, is still in flight or is being listed: no request
\* for one surface can change another.
Isolation == \A a, b \in Claims : a.buf = b.buf => a.id = b.id

\* A surface that was told to begin rendering never keeps a page without HTML,
\* or with HTML of an earlier root, unless the worker that stored that page is
\* still rendering it (renderAndPublish after the Upsert): once the engine is
\* quiet every ready surface shows its root.
Painted(p) == p.html # None /\ p.html.root = p.root
PaintOwed(p) == \E w \in Workers : pc[w] = "read" /\ op[w] # "render" /\ page[w] = p
RenderedWhenQuiet ==
  \A s \in Surfaces : pages[s] # NoPage /\ pages[s].ready =>
    Painted(pages[s]) \/ PaintOwed(pages[s])

\* HTML never shows a component or a value its surface's maps do not have: a
\* surface deleted and created again, or resurrected by a request in flight,
\* shows nothing of its earlier life.
NoPhantomContent ==
  \A p \in Held : p.html # None =>
    \A c \in Cells : p.html.view[c] # None => heap[p.buf][c] # None

\* store.go:30 calls the PageStore thread-safe: two workers never stand at
\* conflicting accesses to one map of a stored page.
NoMapRace == \A w, v \in Workers : ~Racing(w, v)

\* store.go:18 says that Ready is true after beginRendering fires: a step may
\* remove a ready page, but not make it unready.
ReadyStays ==
  [][\A s \in Surfaces :
       pages[s] # NoPage /\ pages[s].ready /\ pages'[s] # NoPage => pages'[s].ready]_vars
=============================================================================
