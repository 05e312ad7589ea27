# A verification project for a2ui-go

a2ui-go is a Go server that receives surfaces as A2UI messages (JSON lines), keeps them in memory,
renders them to HTML with server-side templates and pushes every rendering to browsers over an
event stream. Agents drive it over HTTP (`POST /render/a2ui`) and over MCP (22 tools, on HTTP or
on stdio). This directory holds TLA+ models of that program, TLC configurations that check them on
small instances, and proofs, checked by TLAPS, that the most important invariants hold for every
value of the constants.

## The system

| part | source | state | operations | interacts with |
|---|---|---|---|---|
| page store | `internal/store/store.go` | map from surface id to `Page` (root, ready, HTML, component map, data model), behind an RWMutex | `Get`, `Upsert`, `Delete`, `List` | called by the engine; hands out `Page` copies whose two maps are *shared* with the stored page |
| engine | `internal/engine/engine.go` | none of its own (store, renderer, broker) | `ProcessJSONL`, `ApplyMessage` of four kinds, `renderAndPublish`, `CreateSurface`, `DeleteSurface`, `ResetRuntime`, `RenderSurfaceByID`, `InspectTableRow`, the HTTP handlers, `loadPageFromUIFile` | several store calls per operation, unlocked map writes between them, `Broker.Publish` at the end |
| broker and streams | `internal/stream/broker.go`, `/stream` in the engine | `nextID`, one buffered channel (16) per client, behind an RWMutex | `Subscribe`, its cancel callback, `Publish`; the handler's loop | the engine's workers publish, one handler per browser drains |
| data model | `a2ui/model.go` | nested maps of one surface | `ApplyUpdate`, `applyDataEntries`, `Get`, `GetList` | written by dataModelUpdate, read by the renderer |
| messages and components | `a2ui/validate.go`, `a2ui/model.go`, `a2ui/catalog.go` | none | decode, validate, `ParseComponentDef` of 20 types | called line by line by the engine and by `a2ui_validate_jsonl` |
| renderer | `renderer/` | templates, read-only after the start | `RenderSurface`, `RenderComponent`, children by list or by template | walks a page's maps without a lock |
| MCP tools | `mcp/` | none | 22 tools, the discovery document with their contracts | call the engine; the server runs calls concurrently |
| server | `cmd/server/main.go` | listener, signal channel | start, shutdown | wires the parts |

**Hard behaviours.**  (1) An engine operation is *not* atomic: it fetches a page copy, writes in
place into maps it shares with the store and with other operations, stores its copy, renders it,
stores it again and publishes the HTML; every other request may run between any two of these. (2)
A payload or an update can fail half way, and what was done stays. (3) The broker must close
channels that publishers send on, and must not let a slow browser hold up rendering. (4) The MCP
tools promise codes, mutability and idempotence in a document kept by hand. (5) The renderer
recurses, without a limit, over a map that updates change meanwhile. (6) The process starts and
stops around open connections and streams that do not end by themselves. `PROJECT.json` lists the
single hazards at their lines, with the property that covers each, or why none does.

## Modules

| module | what it is |
|---|---|
| `Engine` | the store and every state-changing operation of the engine, any number of workers (goroutines), at the grain of store calls and single map accesses |
| `SurfaceStore` | what the engine promises one client: surfaces that are created, updated, rendered, published and deleted atomically |
| `EngineSequential` | `Engine` plus a history variable, and the refinement mapping to `SurfaceStore` while requests do not overlap |
| `EngineProofs`, `SequentialProofs` | proofs about `Engine`; with one worker it implements `SurfaceStore` |
| `Broker` | broker, `/stream` handlers and the RWMutex between them |
| `Fanout` | what the broker promises: publications that are atomic towards joining and leaving |
| `BrokerProofs` | proofs about `Broker`, and that it implements `Fanout` |
| `Runtime`, `RuntimeProofs` | `Engine` and `Broker` composed: the workers are the publishers; proofs that both keep their specifications there |
| `Renderer`, `RendererProofs` | parsing of component definitions and the recursive walk over a component map that is changed meanwhile |
| `DataModel`, `DataModelProofs` | updates and lookups of the nested maps |
| `ToolContracts`, `ToolProofs` | the MCP tools as atomic calls, against the discovery document |
| `EventStream` | the frames of one event stream and the browser that reads them |
| `Server`, `ServerProofs` | `main`: start, goroutines, signals, shutdown; contains one `EventStream`, which the proofs are also about |
| `MC...` | the instances of these for TLC: payloads, component definitions and views |

`Engine` is the centre: `EngineSequential` extends it, `Runtime` instantiates it with `Broker`,
and `Server` stands around them with connections for requests. `Renderer` refines what `Engine`
has as `ReadCell`: `Engine` tells which map entries are read when, `Renderer` in which order and
nesting.

A definition whose comment begins with *Mistake* (or *Mistakes*) is not part of a model: it is the
form a plausible bug would give the definition after it, and shows that the property which names
it in `PROJECT.json` can fail.

### Engine: state and code

A `Page` value of the store is a record in `pages`; its `Components` and `DataModel` maps are made
together in `getOrCreatePage` (or `CreateSurface`) and never replaced, so `buf` names the pair and
`heap[buf]` is what they hold. Two copies of a page with one `buf` share their maps, as they do in
Go. `make()` returns a `buf` nobody refers to (`Allocates`): identities that the store and the
running operations have dropped are used again, as garbage collection does with memory. `page[w]`
is the local variable `p` of worker `w`'s operation, `lines[w]` and `todo[w]` are what its loops
have still to do, `copies[w]` are the page copies whose maps a reading operation has still to
walk, and `pc[w]` is where it stands.

| code | actions |
|---|---|
| `ProcessJSONL`: scanner loop, a line refused, the end | `ProcessJSONL`, `RejectLine`, `EndOfInput` |
| `ApplyMessage`: surfaceUpdate, dataModelUpdate | `ApplyUpdate`, `WriteCell` per entry, `RejectComponent`, `Upsert` |
| `ApplyMessage`: beginRendering, deleteSurface | `ApplyBeginRendering` then `Upsert`; `ApplyDeleteSurface` |
| `renderAndPublish` | `Upsert` decides, `ReadCell` per map entry, `SaveHTML` (the second store call), `Publish` |
| `GET /page/{id}` of a page not in the store | `GetPageHandler`, the payload's actions, `ReloadPage` |
| `RenderSurfaceByID` | `RenderSurfaceByID`, `ReadCell`, `SaveOnDemand` |
| `CreateSurface`, `DeleteSurface`, `ResetRuntime` | a lookup action and one action per store call after it |
| `InspectTableRow` and the tools that marshal a page's maps | `Inspect`, `WalkCopy` per copy, `Inspected` |
| `a2ui_list_pages`, which marshals the maps of every page | `ListPages`, `WalkCopy` per copy, `Inspected` |
| an unsynchronised map access | `MapRace`: the Go runtime may end the process |

Left out: `UpdatedAt`, `CatalogID` and `Ended`, which nothing the properties speak of depends on;
the text of the HTML, which is the root and, per cell, what the renderer read; operations that
only read store records and never their maps; the error return of `renderAndPublish`, which cannot
happen (every type that `ParseComponentDef` accepts has a template, and the templates' execution
does not fail); `CreateSurface` of a surface that exists, which returns it and changes nothing.
Blank ids are refused before anything happens.

### Broker: state and code

`Lock` announces a writer and `Subscribe` / `Cancel` are the bodies under the write lock, entered
once no publisher holds the read lock; publishers that arrive after the announcement wait and are
let in by `Unlock`, as `sync.RWMutex` does. `Publish` takes (or waits for) the read lock, `Send`
is one turn of the loop with the `select`'s default branch, `Published` returns. The handler's
steps are `Connect` (the `: connected` frame), `Lock`, `Subscribe`, `Receive`, `Leave`, `Lock`,
`Cancel`; `Disconnect` ends its request's context at any moment. A handler off the stream starts
over as the next browser's, so a handful of handlers stands for any number of browsers in turn.

### DataModel and ToolContracts

`DataModel` has one step, `ApplyUpdate`. A model is a function of paths; `Put` is one assignment
to a map's key, `Descend` finds or makes the maps on the way, and a nested `valueMap` is written
out as the entries it assigns, a map before what is in it and all of that before the next key
(`WrittenOut`, which the payloads of any instance must satisfy). `Get` skips empty parts of a path
(`Parts`), `ApplyUpdate` does not.

`ToolContracts` has one action per kind of tool, as one atomic call, with the answer's code in
`reply`, and a `FoldLeft` over the payload's lines for `ProcessJSONL` and `ValidateJSONL`. The
tables `ErrorCodes`, `Mutable` and `Idempotent` are those of `mcp/discovery.go`. `TrimSpace` maps
the ids a tool is called with to those it acts on.

### Renderer: state and code

`components` is the page's map; `stack` has a frame for every `RenderComponent` that has not
returned, with the component as it was looked up (a component is replaced in the map, never
modified) and the place `buildView` has reached in it; `out` is the page in document order.

| code | actions |
|---|---|
| `ParseComponentDef`, the store into the map | `PutComponent`: exactly one type key, of the parser's table |
| `RenderSurface`, `renderByID`, `RenderComponent` up to `buildView` | `RenderSurface`, `RenderByID`: a missing component is skipped, a type without a template is an error, nothing limits the depth |
| the loops of `buildView` over children, headers, rows and cells | `RenderNext`, `NextRow` |
| `inferRowActionFromCells` | `RowAction`, at the end of each row |
| the component's and the page's template | `ExecuteTemplate`, `ExecutePage` |
| a stack overflow, which ends a Go process | `status = "overflow"` at `MaxDepth` frames |

The three tables of types (catalog, parser, registry) are written out, because the code keeps them
in step by hand. No message can put a Go slice into a data model (see `DataModel`), so a template
over a bound list has no children in the running server, as `GetList` has it; the tests that show
children of a template put slices into the map themselves.

### Runtime: state and code

`Runtime` has the variables of both modules. A worker at "publish" starts `Broker!Publish` with
its page's HTML, the broker takes the lock and the loop, and `Engine!Publish` is the moment it
returns. `seen`, `heard`, `alone` and `told` are history: what each browser received last, whether
its channel took the last message, and whether the last publication belonged to a request that
nothing overlapped.

### EventStream and Server: state and code

`EventStream` has one message as the sequence of its lines. The handler writes HTML as it is:
`html/template` escapes neither line breaks nor colons of a text value, and `text.html` keeps
them, so a line of the HTML can be blank, and one such as `data: x` or `event: x` *is* a field to
the browser. The lines are the least that tells these apart (`Text`): blank, markup, a text, and
the two fields. Every page begins with a line break, that of its template. `Frame` is the
`Fprintf` of the handler, `Read` one line in the browser as the EventSource standard has it (the
external half), `Cut` the end of the connection after any line (a line that is cut counts as not
sent, since the browser ignores it). The connection is accepted (`Accept`) some time before the
handler is called (`Open`).

`Server` has the steps of `main` in their order (`StartGoroutines`, `Notify`, `TakeSignal`,
`Drained` or `Deadline`), the goroutine of `ListenAndServe` (`Listen`, `ListenFails`,
`ServeFails`, `ServeReturns`), the stdio goroutine, connections by the states `net/http` gives
them, and `Signal`, which kills the process until `Notify` has run. Any error of `ListenAndServe`
but `ErrServerClosed` is fatal, that of accepting a connection while others are served included.
`log.Fatalf` and the return of `main` end the process wherever the other goroutines stand, the
open stream included. Requests, that of the stream too, may be read during the shutdown from
connections accepted before it.

## Runs

| run | instance | shows |
|---|---|---|
| `engine_race` | 2 workers, 2 surfaces, 4 map pairs, every operation, three payloads | types; the life cycle of pages; no two surfaces share maps, neither in the store nor in what operations hold or list; every ready surface shows its root or a worker is about to render it; HTML never shows content of an earlier life |
| `engine_sequential` | 1 worker, 2 surfaces, five payloads with refusals at each stage | the engine implements `SurfaceStore`; between requests every ready surface shows, and has published, exactly what its maps hold |
| `engine_map_race` | as `engine_race` | *violated:* two requests reach conflicting accesses of one Go map (one of them may be listing all pages) |
| `engine_ready` | as `engine_race` | *violated:* a stale copy makes a ready surface unready |
| `broker` | 2 publishers, 2 handlers, capacity 1, 3 subscriptions | no send on a closed channel; no subscription without its handler; implements `Fanout`; publishers return; a browser's leaving frees its channel |
| `broker_open_stream` | as `broker`, without liveness | *violated:* a publish after `: connected` and before `Subscribe` is missed |
| `runtime` | 2 workers, 1 surface, 1 browser at a time, 2 requests | after a request nothing overlapped, a browser that took its message and is drained shows what the store holds; every request is answered |
| `renderer` | 3 components, all 20 types, cyclic, missing, shared and unparsable definitions | what the parser accepts renders; an undisturbed page is its document; only cycles overflow; a row's inferred action is that of a button in the row; rendering ends |
| `data_model` | 2 keys and the empty one, depth 3, eleven updates, 2 scalars | written values are read back, unnamed paths are kept, independent updates commute |
| `mcp_contract` | 3 ids (one padded), seven payloads, all 22 tools | codes, mutability (but for the HTML that `a2ui_render_surface` stores), idempotence; what an answer says holds after it; validation foretells application |
| `server` | 2 connections, 1 stream, 3 kinds of message, 2 of them sent, stdio | a signal ends the process; what the shutdown waits for only gets less; a shutdown that has closed the listener is not cut short; events stay in step with messages whatever their lines are, also when cut |
| `stream_framing` | the same messages | *violated:* the event of a page carries no HTML |

The four violations are disagreements between the code and a sentence of its own documentation;
`PROJECT.json` quotes the sentence of each.

**Bounds, and why they are enough.**  Everything that goes wrong in the engine goes wrong between
two operations on one surface, or between an operation and the reuse of a dropped map; two workers
give every such pair, the second surface is there to be confused with the first, and with
four map pairs `make()` never lacks one: when an operation makes a pair at most three are in use,
those of a stored page and of two copies the other worker is listing. The
payloads have at most two lines: a worker starts another payload when it is done, so longer
sequences are sequences of payloads, and two lines are enough to keep one operation open across
two messages. One component and one data cell let one map race with itself and not with the other.
Vals has one value in `engine_race` (its properties tell present from absent) and two in
`engine_sequential`, whose property compares contents. `engine_race` has a view that tells
states apart up to the names of workers and maps (a pair of maps is known by the places that refer
to it), leaves out `feed` and the contents of maps no page refers to, which no action reads and of
its invariants only `TypeOK` mentions, and takes all crashed states for one. In `broker`, a capacity of 1 makes full channels common (the code's 16 only takes longer to fill),
two publishers and two handlers give reader against reader, reader against writer and writer
against writer, and `MaxID = 3` lets a handler subscribe again while another is subscribed; when
the ids are used up browsers stop coming, publishers go on. `MaxDepth = 3` in `data_model` is the
least that has something above and something below a path in the middle. In `renderer` three
components are a table or container, something inside it and a leaf, enough for components that
share, miss or contain each other; five frames are more than three components nest without a
cycle, so an overflow in the model is one in any stack; one write during a rendering already mixes
two updates in one page. In `runtime`, two requests with one surface, a stream of capacity 1 and
one subscription let a publication overtake another and a browser miss one; two requests are
enough for one that nothing overlaps to follow a page that is there already. In `server`, two
connections can be in different states when the signal comes. The messages are a page of markup,
one whose text has a blank line before a line that reads as data, and one whose text reads as an
event name; two are sent, in any order, so that each kind is followed by each. The theorems hold without these bounds, `MaxID`
apart, which only limits how long the broker runs.

**Fairness.**  `Runtime!FairSpec` asks for weak fairness of each worker's steps inside an
operation: the Go scheduler runs every runnable goroutine, and what these steps wait for is the
broker's lock alone (a store call holds its lock for a few map operations). Requests need not
arrive, and after a crash nothing is promised. It and `Broker!FairSpec` ask the same of handlers
that hold or leave the lock, and strong fairness of `Lock`: a Go mutex puts a waiter that was
passed over first in line (starvation mode). Nothing is assumed of browsers: a handler may never
receive again, and no one need connect, leave or publish. `Renderer!FairSpec` has weak fairness of
the walk, and `Server!FairSpec` of main's own steps, its ten-second timer among them: connections,
browsers and MCP clients need never do anything.

## Proofs

Eight modules hold theorems; each holds for every value of its module's constants.

`EngineProofs` proves, for any sets of workers, surfaces, cells, values and payloads and any
number of map identities, that `Inv` is inductive and with it `TypeOK`, `Lifecycle`, `Isolation`,
`RenderedWhenQuiet` and `NoPhantomContent`, and that two workers which race are both at the
maps of the one surface that one of them writes, even if the other is listing all surfaces. `Inv` is those invariants with `Lifecycle` and `Stages`, what a worker knows at each
program point (for example that what the renderer has read was in the map, and that a page being
created is not ready); without `Stages`, a step from "read" to "publish" could store HTML of
anything. The argument: `TypeStep` keeps the types, action by action; the lemma `Compose` shows
that the rest follows from a few facts about a step of one worker (the other workers do not move,
held maps lose no entry, a reading operation walks only maps of pages it was handed, a stored page keeps its id, the one page the step may make is well formed
and has the maps of an old page of its surface or maps nobody holds, ...); `RestStep` shows these
facts for each action, most of which fall under `NothingNew` (every page held was held before) or
`Shrinks` (pages are only removed). The assumptions are those of `Engine`: cells of the two maps
are distinct, surfaces are numbers (only so that `ResetRuntime` has an order), payloads are
sequences of lines, and the markers `None`, `NoPage`, `Bad` and `Unread` are not values.

`SequentialProofs` proves, for one worker (`Alone`), that `Engine` implements `SurfaceStore` and
that `ShowsWhatItHolds` is invariant. Its invariant adds `Current` and `Shown` to `Inv`. `Current`
says that the worker's copy agrees with the store at each program point (nobody else can have
stored anything), that what the renderer has read is what the maps hold, and that a page that was
not stored has no HTML; `Shown` is `ShowsWhatItHolds` without waiting for the worker to be idle:
it excepts the surface the worker is about to render or publish. `AbstractStep` maps a write into
a stored page's maps and the first store to `Update`, the second one to `Render`, and local steps
to nothing. Beside those of `Engine` it needs `SurfaceAssumption`: a surface that exists is not
`None`.

`BrokerProofs` proves, for any publishers, handlers, capacity and number of ids, `TypeOK`,
`NoSendOnClosed`, `OneHandlerPerClient` and that `Broker` implements `Fanout`. Its `Inv` adds to
them what the lock means: a handler in `Subscribe` or `Cancel` is the announced writer, a loop in
progress visits registered clients only, ids are handed out once (so that a new channel is neither
closed nor in use). `AbstractStep` maps every step: `Subscribe` and `Cancel` to `Join` and `Quit`
together with the start of the publications that waited, `Publish` to `Begin` or to nothing,
`Lock`, `Connect`, `Leave` and `Disconnect` to nothing.

`RuntimeProofs` proves that `Runtime` implements both `Engine` (`EngineInRuntime`) and `Broker`
with the workers as publishers (`BrokerInRuntime`), so every theorem above holds of the two
together, and that what a publisher hands over is the HTML it stored itself
(`PublishersHandOverTheirHTML`). On top of these it proves `TypeOK` and `BrowsersCatchUp`, for any
workers, surfaces, streams and capacity. `BrowsersCatchUp` only looks at the moment when
everything is drained, so its invariant (`CatchUp`) follows the message on its way, by what a
browser will show once it has drained its channel (`Latest`). As long as nothing overlaps a
request, all other workers are idle (`Alone`), what it publishes is what is stored (`Stored`), and
the clients its loop has visited will show that (`Offered`); a channel that was not given out yet
has taken nothing (`Unheard`); and once the loop has visited everyone, nobody is publishing and
every browser that took the message will show what is stored (`Told`). The broker's own invariant
is needed too: a loop visits registered clients only, and a channel has one handler.

`RendererProofs` proves `TypeOK` and `NeverFails` (each component in the map has a type of the
parser, and those have templates), and `LayeredPagesRender`: if the definitions can be ranked so
that each names lower ones only, and the ranks fit on the stack, no rendering overflows, even
while components are replaced. Its invariant says that the ranks fall along the stack.

It also proves the three properties of pages that no write disturbed. `ShowsTheDocument` says, of
each element of the page, that the elements one level below it, up to the next that is not below
it, are what its component names and the map has, once for each place and in order, with the
action of each table row after its cells (`Shows`, `Filling`); that every element but the first is
below some component; and that the first is the root. That is local to each element and determines
the page: its depths make the elements a tree. The invariant `Making` says what of this holds in
the middle of a walk: the frames are a path of components from the root (`Path`), each frame has
its element, which shows what the frame's loops have passed so far, and every other component of
the page shows all it names (`Layout`). `NewElement` says what one more element does to what the
others show; `KeepLayout`, `EndLayout`, `CellLayout`, `PopLayout` and `PopEndLayout` are the ways a
walk goes on: past a missing component, past the end of a row, into a component, and out of one.

`CyclesNeverRender` follows in both directions. An overflow leaves a path of `MaxDepth` frames and
one more component, a walk that visits some id twice. A page made from components with a cycle
would show each component of the cycle one level below the one that names it, so by induction at
every depth, and no element of a page is deeper than the stack. Its theorem assumes that ids are
finitely many, as the keys of a Go map are, and that the stack has room for a path through all of
them; a smaller one overflows on long chains too, as Go's does. `RowActsAsItsButton` follows from
the order of what a table shows: the cell that offers the button is a place between the end of the
row before and the end of its own, and the button of a cell that is a row is below that cell.

`ServerProofs` proves `TypeOK`, `ShutdownNotCutShort` and `ShutdownOnlyDrains`; the invariant
(`DrainInv`) is that once `main` drains the listener is no longer serving and no connection is
idle. It also proves `EventsInStep`, for any HTML whatever its lines are, any number of messages
and wherever the stream is cut. That speaks of dispatched events only; the invariant `StreamInv`
adds where the browser is in which frame (`Position`), what it has of the message under way in its
buffers (`Buffers`: nothing of an earlier message, and the data field is the second line of its
frame), that events are of messages up to that one, in order, each of one message and one only of
a message without field-like lines (`Sound`), that each message read to its end has its event, and
that the message it is at the first lines of has none yet (`Begun`, `NoneOf`). `FrameLines` says
what the lines of a frame are and `Dispatch` what a blank line does; `ReadHead`, `ReadBody` and
`ReadBlank` are the steps of the browser at a frame's first two lines, in between, and at its end.

`DataModelProofs` proves all four properties of `DataModel`, for any keys, scalars, depth and
updates of any length. An update is two folds, over the maps on the way and over the entries.
`FoldExists` and `FoldTrace` give, for a fold, the sequence of its intermediate results, and
`UpdateTrace` joins the two into one run of `Put`s; what holds along a run is then proved step by
step. `TypeOK` is inductive by `MapsComeFirst` (when an entry is put, what is above it is a map,
because its map was written before it and everything since went below that map). `PutAt` and
`StepAt` say what one `Put` leaves at a given path: the value, nothing, or what was there.
`MergesKeep` and `ReadsBack` follow by looking at the last step that touches a path.
`UpdatesCommute` compares, path by path, the runs of both orders. While `ReadsBack` was being
proved its exception turned out too narrow: an entry that gives a scalar to a key is overwritten
by a later entry that gives a map to the same key, which an update may do (`DataModel.cfg` has
such an update now), and `Overwritten` says so.

`ToolProofs` proves all five properties of `ToolContracts`, for any ids, trimming, payloads and
any table of components: `CodesDeclared`; `TypeOK`, strengthened to `GoodState` (a page is ready
exactly when it has a root and exactly when it has HTML), which holds after every line of a
payload and so after all of them; `VerdictsAgree`; `ImmutableToolsKeep`; `AnswersHold`; and
`RepeatsAreIdle`, from the invariant `AllSettled` that after a call of an idempotent tool the same
call changes nothing. Beside the types, the markers must be distinct: no HTML is `None`.

Induction is drawn from the well-founded order of the numbers (`Induction`, `StepByStep`: a set
that has 0, and n + 1 with n, has every number), stated over sets because the prover does not
instantiate operators. `DataModelProofs`, `ToolProofs` and `RendererProofs` each have what they
need of it, the first two also the two lemmas about folds: a shared module would be one more on
which modules that need no fold depend.

With these, every invariant and action property of the passing runs and both refinements are
theorems, `CyclesNeverRender` under the hypothesis above. Only model-checked are the five liveness
properties `PublishReturns`, `GoneUnsubscribes`, `RequestsFinish`, `RenderingEnds` and
`SignalEnds`: fairness and ENABLED are outside the proof system's reach.

## Not modelled

- The fields of the 20 component types and of the messages, beyond the faults the code tells
  apart; template text, CSS and the formatting of bound values; status codes, page chrome and the
  timing badge: data and formatting.
- The catalog and composite pages, which apply their UI files with `ProcessJSONL` at every GET and
  frame the stored HTML; as changes of state these are `Engine!ProcessJSONL`.
- `CatalogID`, `UpdatedAt` and `Ended`, and the answers of overlapping tool calls: two deletes of
  one surface may both report success, which no text or caller relies on.
- The `INTERNAL_ERROR` of a tool whose result cannot be marshalled: the handlers marshal maps,
  slices and strings only, for which that cannot happen.
- Directory lookup and flags in `cmd/server`, which are I/O.
- The MCP protocol, `net/http`, the browser and Go's scheduler are libraries: modelled only by
  what the code relies on, and marked external.

Three texts of the repository are followed with an exception, because the code departs from what
they may be read to say: `a2ui_render_surface` is declared not
mutable (`mcp/discovery.go:171`), but stores the HTML it has rendered and the time
(`engine.go:211-213`; `ImmutableToolsKeep` excepts this tool alone, and of it the HTML of the
surface it names alone; the time is in no model); tools that name one surface trim its id, so one stored
under a padded id is listed and cannot be reached by them (`AnswersHold` is about the id the tool
acts on); and `Get` and `ApplyUpdate` read empty parts of a path differently (`ReadsBack` excepts
such paths). And two walks of the renderer disagree: a row component that has both a template and
a list renders the template, while `inferRowActionFromCells` searches the list
(`RowActsAsItsButton` excepts table rows with such a cell).

## Plan

What was planned at first (`Engine`, `Broker`, `DataModel`, `ToolContracts`, then `Renderer`,
`Runtime`, `Server` and the proofs about them) is done. What could be added, in the order of its
use:

1. Tool calls at the grain of `Engine`'s store calls, so that answers of overlapping calls can be
   compared with what they find.
