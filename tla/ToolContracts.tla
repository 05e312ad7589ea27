---------------------------- MODULE ToolContracts ----------------------------
(***************************************************************************)
(* The MCP tools (mcp): what a call does to the surfaces, the code it      *)
(* answers with, and what the discovery document promises of every tool.   *)
(*                                                                         *)
(* A call is one step here: this is what a client that waits for each      *)
(* answer sees.  What overlapping calls do to each other is the subject    *)
(* of Engine.  ProcessJSONL is the engine's, message by message; cells are *)
(* the entries of a page's component map and data model.                   *)
(***************************************************************************)
EXTENDS Integers, Sequences, SequencesExt

CONSTANTS
  IDs,        \* the surface ids messages and calls name, blank ones left out
  TrimSpace,  \* an id without the space around it
  CompCells,  \* keys of a component map
  DataCells,  \* keys of a data model
  Vals,       \* definitions and values a cell can hold
  RowsOf,     \* how many rows a definition has, 0 if it is no table
  Roots,      \* root component ids a beginRendering message names
  Bodies,     \* JSONL payloads, sequences of lines
  Bad,        \* a component definition ParseComponentDef refuses
  None,       \* absent: no entry, no root, no HTML
  NoPage,     \* the store has no page
  Blank,      \* an argument of white space only
  Missing     \* a required argument the call lacks

Cells == CompCells \cup DataCells
Content == Vals \cup {None}
Html == [root : Roots, view : [Cells -> Content]]
Page == [root : Roots \cup {None}, ready : BOOLEAN, cells : [Cells -> Content],
         html : Html \cup {None}]
NewPage == [root |-> None, ready |-> FALSE, cells |-> [c \in Cells |-> None], html |-> None]

\* A line that is no message: JSON that does not decode, a message that
\* ValidateMessage refuses, a line too long for the scanner.
Faults == {"undecodable", "invalid", "overlong"}
Line ==
  [kind : {"surfaceUpdate"}, id : IDs, writes : Seq([cell : CompCells, val : Vals \cup {Bad}])]
  \cup [kind : {"dataModelUpdate"}, id : IDs, writes : Seq([cell : DataCells, val : Vals])]
  \cup [kind : {"beginRendering"}, id : IDs, root : Roots]
  \cup [kind : {"deleteSurface"}, id : IDs]
  \cup [kind : Faults]

ASSUME IDsAssumption == /\ TrimSpace \in [IDs -> IDs]
                        /\ \A i \in IDs : TrimSpace[TrimSpace[i]] = TrimSpace[i]
                        /\ Blank \notin IDs /\ Missing \notin IDs
ASSUME CellsAssumption == /\ CompCells \cap DataCells = {} /\ Blank \notin CompCells
                          /\ RowsOf \in [Content -> Nat] /\ RowsOf[None] = 0
ASSUME BodiesAssumption == Bodies \subseteq Seq(Line) /\ Missing \notin Bodies
ASSUME MarkersAssumption == /\ None \notin Roots \cup Vals \cup Html
                            /\ Bad \notin Vals /\ NoPage \notin Page
-----------------------------------------------------------------------------
(* The discovery document *)

ReadTools == {"discovery", "capabilities", "health", "list_pages", "list_templates",
              "list_surfaces"}
GetTools == {"get_surface", "get_surface_model", "get_surface_components"}

JSONLTools == {"validate_jsonl", "apply_jsonl", "render"}
SurfaceTools == {"render_surface", "create_surface", "delete_surface", "inspect_table_row",
                 "reset_runtime"}
FileTools == {"list_composites", "fetch_composite", "examples_list", "example_get"}
Tools == ReadTools \cup GetTools \cup {"describe_tool"} \cup JSONLTools \cup SurfaceTools
         \cup FileTools

\* The error codes a tool's entry lists.
ErrorCodes == [t \in Tools |->
  CASE t \in GetTools \cup {"delete_surface"} -> {"INVALID_ARGUMENT", "SURFACE_NOT_FOUND"}
    [] t = "describe_tool" -> {"INVALID_ARGUMENT", "TOOL_NOT_FOUND"}
    [] t = "validate_jsonl" ->
         {"INVALID_ARGUMENT", "DECODE_ERROR", "VALIDATION_ERROR", "SCAN_ERROR"}
    [] t = "apply_jsonl" -> {"INVALID_ARGUMENT", "APPLY_FAILED"}
    [] t = "render" -> {"INVALID_ARGUMENT", "INVALID_JSONL"}
    [] t = "render_surface" -> {"INVALID_ARGUMENT", "RENDER_SURFACE_FAILED"}
    [] t = "create_surface" -> {"INVALID_ARGUMENT", "CREATE_SURFACE_FAILED"}
    [] t = "inspect_table_row" -> {"INVALID_ARGUMENT", "INSPECT_FAILED"}
    [] t = "list_composites" -> {"LIST_COMPOSITES_FAILED"}
    [] t = "fetch_composite" -> {"INVALID_ARGUMENT", "COMPOSITE_NOT_FOUND"}
    [] t = "examples_list" -> {"LIST_EXAMPLES_FAILED"}
    [] t = "example_get" -> {"INVALID_ARGUMENT", "INVALID_EXAMPLE_NAME", "EXAMPLE_NOT_FOUND",
                             "READ_EXAMPLE_FAILED"}
    [] OTHER -> {}]

\* The tools marked Mutable: true, and those marked Idempotent: true.
Mutable == {"apply_jsonl", "render", "create_surface", "delete_surface", "reset_runtime"}
Idempotent == Tools \ {"apply_jsonl", "render"}
-----------------------------------------------------------------------------
VARIABLES
  pages,  \* PageStore.pages
  reply   \* the last call: its tool, its argument and the code of its answer

vars == <<pages, reply>>

Init ==
  /\ pages = [i \in IDs |-> NoPage]
  /\ reply = [tool |-> "health", arg |-> None, code |-> "ok"]

\* The INTERNAL_ERROR of textResult is left out: the values the handlers answer
\* with are strings, numbers and decoded JSON, which always marshal.
Answer(tool, arg, code) == reply' = [tool |-> tool, arg |-> arg, code |-> code]

\* GetPage trims the id; it finds no page under a blank one.
GetPage(a) == IF a = Blank THEN NoPage ELSE pages[TrimSpace[a]]
Found(a) == GetPage(a) # NoPage
-----------------------------------------------------------------------------
(* JSONL payloads *)

\* A line's own fault, and the code a2ui_validate_jsonl answers it with.
FaultCode == [undecodable |-> "DECODE_ERROR", invalid |-> "VALIDATION_ERROR",
              overlong |-> "SCAN_ERROR"]
IsFault(m) == m.kind \in Faults

\* ValidateJSONL stops at the first faulty line.
ValidateJSONL(body) ==
  LET first == SelectInSeq(body, IsFault)
  IN IF first = 0 THEN "ok" ELSE FaultCode[body[first].kind]

\* renderAndPublish renders what the page's maps hold.  It also sets UpdatedAt,
\* which a record here does not have.
RenderSurface(p) == [p EXCEPT !.html = [root |-> p.root, view |-> p.cells]]
Refresh(p) == IF p.ready THEN RenderSurface(p) ELSE p

IsBad(x) == x.val = Bad
WriteCells(cells, writes) == FoldLeft(LAMBDA c, x : [c EXCEPT ![x.cell] = x.val], cells, writes)

\* The first definition that does not parse ends an update.  The ones before it
\* stay in the maps of a stored page; a new page is dropped.
ApplyUpdate(st, m) ==
  LET bad == SelectInSeq(m.writes, IsBad)
      old == IF st.pages[m.id] = NoPage THEN NewPage ELSE st.pages[m.id]
      writes == IF bad = 0 THEN m.writes ELSE SubSeq(m.writes, 1, bad - 1)
      new == [old EXCEPT !.cells = WriteCells(@, writes)]
  IN IF bad = 0 THEN [st EXCEPT !.pages[m.id] = Refresh(new)]
     ELSE [ok |-> FALSE,
           pages |-> IF st.pages[m.id] = NoPage THEN st.pages
                     ELSE [st.pages EXCEPT ![m.id] = new]]

\* Mistake: the page is stored and not rendered.
ApplyBeginWithoutRendering(st, m) ==
  LET old == IF st.pages[m.id] = NoPage THEN NewPage ELSE st.pages[m.id]
  IN [st EXCEPT !.pages[m.id] = [old EXCEPT !.root = m.root, !.ready = TRUE]]

\* Root and Ready are set, the page is rendered.
ApplyBeginRendering(st, m) ==
  LET old == IF st.pages[m.id] = NoPage THEN NewPage ELSE st.pages[m.id]
  IN [st EXCEPT !.pages[m.id] = RenderSurface([old EXCEPT !.root = m.root, !.ready = TRUE])]

ApplyMessage(st, m) ==
  CASE m.kind = "beginRendering" -> ApplyBeginRendering(st, m)
    [] m.kind = "deleteSurface" -> [st EXCEPT !.pages[m.id] = NoPage]
    [] OTHER -> ApplyUpdate(st, m)

\* Mistake: the messages are not validated.
ProcessUnvalidated(body) ==
  FoldLeft(LAMBDA st, m : IF ~st.ok \/ m.kind = "invalid" THEN st
                          ELSE IF IsFault(m) THEN [st EXCEPT !.ok = FALSE]
                          ELSE ApplyMessage(st, m),
           [pages |-> pages, ok |-> TRUE], body)

\* Line after line until one fails; what the earlier lines did stays.
ProcessJSONL(body) ==
  FoldLeft(LAMBDA st, m : IF ~st.ok THEN st
                          ELSE IF IsFault(m) THEN [st EXCEPT !.ok = FALSE]
                          ELSE ApplyMessage(st, m),
           [pages |-> pages, ok |-> TRUE], body)
-----------------------------------------------------------------------------
(* The tools *)

\* A required argument that is absent or no string is refused before the handler.
Refuse(tool) == Answer(tool, Missing, "INVALID_ARGUMENT") /\ UNCHANGED pages

\* The document, the lists and the health check.
Read(tool) == Answer(tool, None, "ok") /\ UNCHANGED pages

DescribeTool(name) ==
  /\ Answer("describe_tool", name,
            CASE name = Blank -> "INVALID_ARGUMENT" [] name \in Tools -> "ok"
              [] OTHER -> "TOOL_NOT_FOUND")
  /\ UNCHANGED pages

\* Mistake: the flag that tells the two tools of one registration apart is inverted.
ValidateToolApplies(body) ==
  /\ Answer("validate_jsonl", body, ValidateJSONL(body))
  /\ pages' = ProcessJSONL(body).pages

ValidateTool(body) ==
  /\ Answer("validate_jsonl", body, ValidateJSONL(body))
  /\ UNCHANGED pages

\* Mistake: the compatibility tool is registered with the handler of apply_jsonl.
ApplyToolsShareCode(tool, body) ==
  LET st == ProcessJSONL(body)
  IN /\ pages' = st.pages
     /\ Answer(tool, body, IF st.ok THEN "ok" ELSE "APPLY_FAILED")

\* a2ui_apply_jsonl and a2ui_render, which differ in their code only.
ApplyTool(tool, body) ==
  LET st == ProcessJSONL(body)
  IN /\ pages' = st.pages
     /\ Answer(tool, body, IF st.ok THEN "ok" ELSE
                IF tool = "apply_jsonl" THEN "APPLY_FAILED" ELSE "INVALID_JSONL")

\* The record, the data model or the component ids of one surface.
GetSurface(tool, a) ==
  /\ Answer(tool, a, IF Found(a) THEN "ok" ELSE "SURFACE_NOT_FOUND")
  /\ UNCHANGED pages

\* A page without a root is not rendered; the HTML of the others is stored.
RenderSurfaceTool(a) ==
  IF Found(a) /\ GetPage(a).root # None
  THEN /\ pages' = [pages EXCEPT ![TrimSpace[a]] = RenderSurface(@)]
       /\ Answer("render_surface", a, "ok")
  ELSE /\ Answer("render_surface", a, "RENDER_SURFACE_FAILED")
       /\ UNCHANGED pages

\* An existing surface is left as it is, and the call succeeds.
CreateSurface(a) ==
  IF a = Blank
  THEN Answer("create_surface", a, "CREATE_SURFACE_FAILED") /\ UNCHANGED pages
  ELSE /\ pages' = IF Found(a) THEN pages ELSE [pages EXCEPT ![TrimSpace[a]] = NewPage]
       /\ Answer("create_surface", a, "ok")

\* Mistake: the lookup is by the trimmed id and the removal by the id given.
DeleteSurfaceUntrimmed(a) ==
  IF Found(a)
  THEN /\ pages' = [pages EXCEPT ![a] = NoPage]
       /\ Answer("delete_surface", a, "ok")
  ELSE Answer("delete_surface", a, "SURFACE_NOT_FOUND") /\ UNCHANGED pages

\* Lookup and removal are by the trimmed id, which is not the id of a surface
\* that a message created under an id with space around it.
DeleteSurface(a) ==
  IF Found(a)
  THEN /\ pages' = [pages EXCEPT ![TrimSpace[a]] = NoPage]
       /\ Answer("delete_surface", a, "ok")
  ELSE Answer("delete_surface", a, "SURFACE_NOT_FOUND") /\ UNCHANGED pages

\* Mistake: the loop over the listed pages ends after the first.
ResetRuntimeOnce ==
  /\ \/ \E i \in IDs : pages[i] # NoPage /\ pages' = [pages EXCEPT ![i] = NoPage]
     \/ (\A i \in IDs : pages[i] = NoPage) /\ UNCHANGED pages
  /\ Answer("reset_runtime", None, "ok")

\* List, then a Delete of every page listed.
ResetRuntime ==
  /\ pages' = [i \in IDs |-> NoPage]
  /\ Answer("reset_runtime", None, "ok")

\* The row must be an integer, and a row of a table of the page; the inspector
\* is rendered from components of its own and stored nowhere.
TableRows(a, c) == IF Found(a) /\ c # Blank THEN RowsOf[GetPage(a).cells[c]] ELSE 0
InspectTableRow(a, c, row) ==
  /\ Answer("inspect_table_row", <<a, c, row>>,
            IF row = Missing THEN "INVALID_ARGUMENT"
            ELSE IF row \in 0 .. TableRows(a, c) - 1 THEN "ok" ELSE "INSPECT_FAILED")
  /\ UNCHANGED pages

\* Composites and examples are files, which come and go outside the program.
ListFiles(tool, readable) ==
  /\ Answer(tool, None, IF readable THEN "ok" ELSE
                        IF tool = "list_composites" THEN "LIST_COMPOSITES_FAILED"
                        ELSE "LIST_EXAMPLES_FAILED")
  /\ UNCHANGED pages
FetchComposite(nameOK, file) ==
  /\ Answer("fetch_composite", <<nameOK, file>>,
            IF nameOK /\ file = "present" THEN "ok" ELSE "COMPOSITE_NOT_FOUND")
  /\ UNCHANGED pages
ExampleGet(nameOK, file) ==
  /\ Answer("example_get", <<nameOK, file>>,
            CASE ~nameOK -> "INVALID_EXAMPLE_NAME"
              [] nameOK /\ file = "absent" -> "EXAMPLE_NOT_FOUND"
              [] nameOK /\ file = "unreadable" -> "READ_EXAMPLE_FAILED"
              [] OTHER -> "ok")
  /\ UNCHANGED pages

Named == IDs \cup {Blank}
Next ==
  \/ \E t \in Tools \ (ReadTools \cup {"reset_runtime", "list_composites", "examples_list"}) :
       Refuse(t)
  \/ \E t \in ReadTools : Read(t)
  \/ \E name \in Tools \cup {Blank, None} : DescribeTool(name)
  \/ \E b \in Bodies : ValidateTool(b)
  \/ \E t \in {"apply_jsonl", "render"}, b \in Bodies : ApplyTool(t, b)
  \/ \E t \in GetTools, a \in Named : GetSurface(t, a)
  \/ \E a \in Named : RenderSurfaceTool(a) \/ CreateSurface(a) \/ DeleteSurface(a)
  \/ ResetRuntime
  \/ \E a \in Named, c \in CompCells \cup {Blank}, row \in -1 .. 1 \cup {Missing} :
       InspectTableRow(a, c, row)
  \/ \E t \in {"list_composites", "examples_list"}, ok \in BOOLEAN : ListFiles(t, ok)
  \/ \E ok \in BOOLEAN, file \in {"present", "absent", "unreadable"} :
       FetchComposite(ok, file) \/ ExampleGet(ok, file)

Spec == Init /\ [][Next]_vars
-----------------------------------------------------------------------------
\* Surfaces and answers have their types.
TypeOK ==
  /\ pages \in [IDs -> Page \cup {NoPage}]
  /\ reply.tool \in Tools
  /\ \A i \in IDs : pages[i] # NoPage => (pages[i].ready <=> pages[i].html # None)

\* A client can rely on the document: a call fails only with a code that the
\* tool's entry in discovery.go lists.
CodesDeclared == reply.code \in ErrorCodes[reply.tool] \cup {"ok"}

\* The two JSONL loops agree: whatever the surfaces are, a payload is applied
\* exactly when a2ui_validate_jsonl accepts it and its component definitions
\* parse, so validating first foretells every other rejection.
Parses(body) ==
  \A i \in DOMAIN body : body[i].kind = "surfaceUpdate" =>
    \A j \in DOMAIN body[i].writes : ~IsBad(body[i].writes[j])
VerdictsAgree ==
  \A b \in Bodies : ProcessJSONL(b).ok <=> ValidateJSONL(b) = "ok" /\ Parses(b)

\* Tools marked Mutable: false leave the surfaces as they are.  One of them does
\* not: a2ui_render_surface (discovery.go:171) stores HTML, of the one surface it
\* names, whose root, state and maps it keeps.
WithoutHTML(p) == IF p = NoPage THEN p ELSE [p EXCEPT !.html = None]
OnlyHTMLOf(a) ==
  \A i \in IDs :
    IF i = TrimSpace[a] THEN WithoutHTML(pages'[i]) = WithoutHTML(pages[i])
    ELSE pages'[i] = pages[i]
ImmutableToolsKeep ==
  [][reply'.tool \notin Mutable =>
       \/ UNCHANGED pages
       \/ reply'.tool = "render_surface" /\ OnlyHTMLOf(reply'.arg)]_vars

\* A call of a tool marked Idempotent: true that repeats the call before it, as a
\* client does that missed the answer, changes nothing (but the UpdatedAt of a
\* surface that is rendered again, which is not modelled).
RepeatsAreIdle ==
  [][reply'.tool \in Idempotent /\ reply'.tool = reply.tool /\ reply'.arg = reply.arg
     => UNCHANGED pages]_vars

\* An answer "ok" tells a client what a look under the id it named will find:
\* nothing after a delete, a surface after a create, HTML of what the surface
\* holds after a render.  Of ids with space around them that is the surface under
\* the trimmed id.  A refused call changes nothing, unless it applied lines.
Effect(r) ==
  CASE r.tool = "delete_surface" -> ~Found(r.arg)
    [] r.tool = "create_surface" -> Found(r.arg)
    [] r.tool = "render_surface" -> Found(r.arg) /\ GetPage(r.arg) = RenderSurface(GetPage(r.arg))
    [] OTHER -> TRUE
AnswersHold ==
  [][IF reply'.code = "ok" THEN Effect(reply)'
     ELSE reply'.tool \in {"apply_jsonl", "render"} \/ UNCHANGED pages]_vars
=============================================================================
