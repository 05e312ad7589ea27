------------------------------ MODULE Renderer ------------------------------
(***************************************************************************)
(* The renderer (renderer) over the component map of one surface: parsing  *)
(* of component definitions and the recursive walk that turns a root       *)
(* component into HTML.                                                    *)
(*                                                                         *)
(* RenderSurface, renderByID, RenderComponent and buildView call each      *)
(* other; stack holds a frame for each RenderComponent that has not        *)
(* returned.  The engine calls RenderSurface without a lock, so another    *)
(* request may replace components between two lookups of the walk; a       *)
(* component that was looked up is never modified, only replaced.          *)
(*                                                                         *)
(* The text of the templates is left out: out is what the page contains,   *)
(* in document order.  No data model holds a list (see DataModel), so a    *)
(* template over a data-bound list has no children.                        *)
(***************************************************************************)
EXTENDS Naturals, Sequences, FiniteSets

CONSTANTS
  Ids,       \* component ids
  RawDefs,   \* the component definitions clients send
  MaxDepth,  \* nesting at which the goroutine's stack overflows, a model bound
  MaxWrites, \* bound on the components written during one rendering, a model bound
  None       \* no action of a table row, no component

\* The type names of the catalog, those of package a2ui and those the registry
\* has a template for: three tables the code keeps in step by hand.
OfficialTypes ==
  {"Button", "Card", "CheckBox", "Column", "DateTimeInput", "Divider", "Icon", "Image",
   "List", "Modal", "MultipleChoice", "Row", "Slider", "Tabs", "Text", "TextField"}
ParsedTypes == OfficialTypes \cup {"Input", "Select", "Table", "Form"}

\* Mistake: a type that was added to the parser only.
TemplatesForOfficialTypes == OfficialTypes \cup {"Input", "Select", "Table"}

TemplateTypes ==
  {"Row", "Column", "Image", "Text", "Button", "TextField", "CheckBox", "Slider",
   "DateTimeInput", "MultipleChoice", "Icon", "Divider", "List", "Card", "Modal",
   "Tabs", "Input", "Select", "Table", "Form"}

\* A definition on the wire: the type keys of its component object and what its
\* properties say of other components.  children are the explicit list of a row,
\* column or list, the child of a button or card (none if it is ""), entry point
\* and content of a modal, the contents of tabs, the headers of a table.
RawDef == [id : Ids, types : SUBSET STRING, children : Seq(Ids), template : BOOLEAN,
           rows : Seq(Seq(Ids)), rowActions : Seq(BOOLEAN), action : BOOLEAN]
Component == [type : ParsedTypes, children : Seq(Ids), template : BOOLEAN,
              rows : Seq(Seq(Ids)), rowActions : Seq(BOOLEAN), action : BOOLEAN]
Frame == [id : Ids, comp : Component, row : Nat, cell : Nat \ {0}]

ASSUME RawDefsAssumption == RawDefs \subseteq RawDef
ASSUME MaxDepthAssumption == MaxDepth \in Nat \ {0}
ASSUME MaxWritesAssumption == MaxWrites \in Nat
ASSUME NoneAssumption == None \notin Component \cup Ids \cup {"own"} /\ "own" \notin Ids

VARIABLES
  components,  \* Page.Components
  stack,       \* the components being rendered, the outermost first
  out,         \* the elements of the page so far, in document order
  root,        \* RenderSurface's rootID
  status,      \* what RenderSurface did
  writes       \* history: the components written since RenderSurface began

walk == <<stack, out, root, status>>
vars == <<components, walk, writes>>

Statuses == {"idle", "walking", "done", "failed", "overflow"}

Init ==
  /\ components = [i \in Ids |-> None]
  /\ stack = <<>>
  /\ out = <<>>
  /\ root = None
  /\ status = "idle"
  /\ writes = 0
-----------------------------------------------------------------------------
\* ParseComponentDef: exactly one type key, and one the switch knows.
Parses(raw) == Cardinality(raw.types) = 1 /\ raw.types \subseteq ParsedTypes
TypeOf(raw) == CHOOSE t \in raw.types : TRUE
Parsed(raw) ==
  [type |-> TypeOf(raw), children |-> raw.children, template |-> raw.template,
   rows |-> raw.rows, rowActions |-> raw.rowActions, action |-> raw.action]

\* A surfaceUpdate message writes a component that parses, whether or not a
\* rendering is under way.
PutComponent(raw) ==
  /\ status \in {"idle", "walking"}
  /\ Parses(raw)
  /\ components' = [components EXCEPT ![raw.id] = Parsed(raw)]
  /\ IF status = "walking"
     THEN writes < MaxWrites /\ writes' = writes + 1
     ELSE UNCHANGED writes
  /\ UNCHANGED walk
-----------------------------------------------------------------------------
\* What buildView renders for a component: a list of children, then, in a table,
\* the cells of its rows.
Layouts == {"Row", "Column", "List"}
Shown(c) ==
  IF c.type \in {"Button", "Card", "Modal", "Tabs", "Table"} \/ (c.type \in Layouts /\ ~c.template)
  THEN c.children ELSE <<>>
Rows(c) == IF c.type = "Table" THEN c.rows ELSE <<>>
Cells(c, r) == IF r = 0 THEN Shown(c) ELSE Rows(c)[r]

\* An element of the page: a component at its nesting depth (row 0), or the
\* action of a row of the table id, at the depth of the row's cells.
Element(i, d) == [id |-> i, depth |-> d, row |-> 0, action |-> None]
RowElement(i, d, r, a) == [id |-> i, depth |-> d, row |-> r, action |-> a]

PageElement == [id : Ids, depth : 1 .. MaxDepth + 1, row : Nat, action : Ids \cup {"own", None}]

Top == stack[Len(stack)]
Below == SubSeq(stack, 1, Len(stack) - 1)
AtRow(i, c, r) == [id |-> i, comp |-> c, row |-> r, cell |-> 1]
Push(fs, i) == Append(fs, AtRow(i, components[i], 0))

\* Mistake: a limit on the nesting that legal pages exceed.
RenderByIDLimited(fs, shown, i) ==
  IF components[i] = None
  THEN stack' = fs /\ out' = shown /\ status' = "walking"
  ELSE IF Len(fs) = 2
  THEN stack' = fs /\ out' = shown /\ status' = "overflow"
  ELSE /\ stack' = Push(fs, i)
       /\ out' = Append(shown, Element(i, Len(fs) + 1))
       /\ status' = "walking"

\* renderByID and RenderComponent up to buildView: a missing component is
\* skipped, one without a template fails the page, and nothing limits the depth.
RenderByID(fs, shown, i) ==
  IF components[i] = None
  THEN stack' = fs /\ out' = shown /\ status' = "walking"
  ELSE IF components[i].type \notin TemplateTypes
  THEN stack' = <<>> /\ out' = <<>> /\ status' = "failed"
  ELSE IF Len(fs) = MaxDepth
  THEN stack' = fs /\ out' = shown /\ status' = "overflow"
  ELSE /\ stack' = Push(fs, i)
       /\ out' = Append(shown, Element(i, Len(fs) + 1))
       /\ status' = "walking"

RenderSurface(i) ==
  /\ status = "idle"
  /\ root' = i
  /\ RenderByID(<<>>, <<>>, i)
  /\ UNCHANGED <<components, writes>>

\* Mistake: the children after a missing one are forgotten.
RenderNextStops ==
  /\ status = "walking"
  /\ stack # <<>>
  /\ Top.cell <= Len(Cells(Top.comp, Top.row))
  /\ LET i == Cells(Top.comp, Top.row)[Top.cell]
         n == IF components[i] = None THEN Len(Cells(Top.comp, Top.row)) ELSE Top.cell
     IN  RenderByID(Append(Below, [Top EXCEPT !.cell = n + 1]), out, i)
  /\ UNCHANGED <<components, root, writes>>

\* The next child or cell of the innermost component.
RenderNext ==
  /\ status = "walking"
  /\ stack # <<>>
  /\ Top.cell <= Len(Cells(Top.comp, Top.row))
  /\ RenderByID(Append(Below, [Top EXCEPT !.cell = @ + 1]), out,
                Cells(Top.comp, Top.row)[Top.cell])
  /\ UNCHANGED <<components, root, writes>>

\* inferRowActionFromCells: the first cell that is a button with an action, or a
\* row that lists one.
IsActionButton(i) ==
  components[i] # None /\ components[i].type = "Button" /\ components[i].action

First(positions) == CHOOSE k \in positions : \A j \in positions : k <= j
FirstButton(ids) ==
  LET found == {k \in DOMAIN ids : IsActionButton(ids[k])} IN
  IF found = {} THEN None ELSE ids[First(found)]
ButtonIn(i) ==
  CASE components[i] = None -> None
    [] IsActionButton(i) -> i
    [] components[i] # None /\ components[i].type = "Row" -> FirstButton(components[i].children)
    [] OTHER -> None
InferRowActionFromCells(row) ==
  LET found == {k \in DOMAIN row : ButtonIn(row[k]) # None} IN
  IF found = {} THEN None ELSE ButtonIn(row[First(found)])

\* Mistake: the inference looks at the first row whatever row it is for.
RowActionOfFirst(c, r) ==
  IF r <= Len(c.rowActions)
  THEN IF c.rowActions[r] THEN "own" ELSE None
  ELSE InferRowActionFromCells(c.rows[1])

\* The action of row r: the table's own, if it lists one for the row (which may
\* be null), else the inferred one.
RowAction(c, r) ==
  IF r <= Len(c.rowActions)
  THEN IF c.rowActions[r] THEN "own" ELSE None
  ELSE InferRowActionFromCells(c.rows[r])

\* Mistakes: the loop stays in its row; it runs one row too far.
NextRowStays ==
  /\ status = "walking"
  /\ stack # <<>>
  /\ Top.cell > Len(Cells(Top.comp, Top.row))
  /\ Top.row < Len(Rows(Top.comp))
  /\ stack' = Append(Below, [Top EXCEPT !.cell = 1])
  /\ UNCHANGED <<components, out, root, status, writes>>

NextRowPast ==
  /\ status = "walking"
  /\ stack # <<>>
  /\ Top.cell > Len(Cells(Top.comp, Top.row))
  /\ Top.row <= Len(Rows(Top.comp))
  /\ stack' = Append(Below, AtRow(Top.id, Top.comp, Top.row + 1))
  /\ UNCHANGED <<components, out, root, status, writes>>

\* A table goes on with its next row; every row it ends has an action.
EndRow == IF Top.row = 0 THEN out
          ELSE Append(out, RowElement(Top.id, Len(stack) + 1, Top.row, RowAction(Top.comp, Top.row)))
NextRow ==
  /\ status = "walking"
  /\ stack # <<>>
  /\ Top.cell > Len(Cells(Top.comp, Top.row))
  /\ Top.row < Len(Rows(Top.comp))
  /\ out' = EndRow
  /\ stack' = Append(Below, AtRow(Top.id, Top.comp, Top.row + 1))
  /\ UNCHANGED <<components, root, status, writes>>

\* The view is complete: the template is executed and the caller goes on.
ExecuteTemplate ==
  /\ status = "walking"
  /\ stack # <<>>
  /\ Top.cell > Len(Cells(Top.comp, Top.row))
  /\ Top.row = Len(Rows(Top.comp))
  /\ out' = EndRow
  /\ stack' = Below
  /\ UNCHANGED <<components, root, status, writes>>

\* The page template around the root's HTML.
ExecutePage ==
  /\ status = "walking"
  /\ stack = <<>>
  /\ status' = "done"
  /\ UNCHANGED <<components, stack, out, root, writes>>

\* RenderSurface returns the page, or its error, to the engine.
Return ==
  /\ status \in {"done", "failed"}
  /\ status' = "idle"
  /\ stack' = <<>> /\ out' = <<>> /\ root' = None /\ writes' = 0
  /\ UNCHANGED components

\* "goroutine stack exceeds 1000000000-byte limit" ends the process.
Overflowed == status = "overflow" /\ UNCHANGED vars

Walk == RenderNext \/ NextRow \/ ExecuteTemplate \/ ExecutePage

Next ==
  \/ \E raw \in RawDefs : PutComponent(raw)
  \/ \E i \in Ids : RenderSurface(i)
  \/ Walk
  \/ Return
  \/ Overflowed

Spec == Init /\ [][Next]_vars

\* The goroutine that renders is scheduled; nothing else is assumed.
FairSpec == Spec /\ WF_vars(Walk)
-----------------------------------------------------------------------------
\* Every variable has its type; a frame is within the rows of its component, and
\* nesting deeper than MaxDepth has overflowed.
TypeOK ==
  /\ components \in [Ids -> Component \cup {None}]
  /\ stack \in Seq(Frame)
  /\ out \in Seq(PageElement)
  /\ root \in Ids \cup {None}
  /\ status \in Statuses
  /\ writes \in 0 .. MaxWrites
  /\ Len(stack) <= MaxDepth
  /\ \A k \in DOMAIN stack : stack[k].row <= Len(Rows(stack[k].comp))
  /\ status # "walking" /\ status # "overflow" => stack = <<>>

\* Whatever clients send, a component that was accepted can be rendered: no page
\* fails with "no template for component type".
NeverFails == status # "failed"

\* The places of a component that its page fills, in order: the cells of its rows
\* that are there and, in a table's rows, the end, where the row's action stands.
Before(p, q) == p[1] < q[1] \/ (p[1] = q[1] /\ p[2] < q[2])
Places(c) ==
  UNION {{<<r, n>> : n \in 1 .. IF r = 0 THEN Len(Cells(c, r)) ELSE Len(Cells(c, r)) + 1} :
         r \in 0 .. Len(Rows(c))}
IsEnd(c, p) == p[2] > Len(Cells(c, p[1]))
Filled(c) == {p \in Places(c) : IsEnd(c, p) \/ components[Cells(c, p[1])[p[2]]] # None}

\* What stands at place p of component i, one level below it.
Filling(i, d, p) ==
  LET c == components[i] IN
  IF IsEnd(c, p) THEN RowElement(i, d + 1, p[1], RowAction(c, p[1]))
  ELSE Element(Cells(c, p[1])[p[2]], d + 1)

\* The elements of page o one level below its k-th, before the next that is not
\* below it; and that they are what stands at the given places, in order.
Parts(o, k) ==
  {m \in k + 1 .. Len(o) : /\ o[m].depth = o[k].depth + 1
                          /\ \A n \in k + 1 .. m : o[n].depth > o[k].depth}
Shows(o, k, places) ==
  \E at \in [places -> Parts(o, k)] :
    /\ \A m \in Parts(o, k) : \E p \in places : at[p] = m
    /\ \A p, q \in places : Before(p, q) => at[p] < at[q]
    /\ \A p \in places : o[at[p]] = Filling(o[k].id, o[k].depth, p)

\* A rendering that no write disturbed shows the document below its root: each
\* component that is there, once for every place that names it, in order, and the
\* action of each row after its cells; only missing components are left out.
ShowsTheDocument ==
  status = "done" /\ writes = 0 =>
    /\ IF components[root] = None THEN out = <<>> ELSE out # <<>> /\ out[1] = Element(root, 1)
    /\ \A m \in 2 .. Len(out) : \E k \in 1 .. m - 1 : out[k].row = 0 /\ m \in Parts(out, k)
    /\ \A k \in DOMAIN out : out[k].row = 0 =>
         /\ components[out[k].id] # None
         /\ Shows(out, k, Filled(components[out[k].id]))

\* The components c names, and a walk along them from the root that must visit one
\* of them twice.
Refs(c) ==
  {Shown(c)[k] : k \in DOMAIN Shown(c)}
  \cup UNION {{Rows(c)[r][k] : k \in DOMAIN Rows(c)[r]} : r \in DOMAIN Rows(c)}
Cyclic ==
  \E p \in [0 .. Cardinality(Ids) -> Ids] :
    /\ p[0] = root
    /\ \A k \in 0 .. Cardinality(Ids) : components[p[k]] # None
    /\ \A k \in 1 .. Cardinality(Ids) : p[k] \in Refs(components[p[k - 1]])

\* Components that contain each other never make a page, and nothing else
\* overflows the stack (components.go has neither a depth limit nor a check).
CyclesNeverRender ==
  writes = 0 => /\ status = "overflow" => Cyclic
                /\ status = "done" => ~Cyclic

\* The action inferred for a table row is that of a button the row shows: there
\* is one among the elements since the table's previous row ended.  (A row
\* component that has a template and a list too is excepted: the template is
\* rendered and the list is searched.)
HasTemplateAndList(i) ==
  components[i] # None /\ components[i].template /\ components[i].children # <<>>
RowActsAsItsButton ==
  status = "done" /\ writes = 0 =>
    \A k \in DOMAIN out :
      LET e == out[k]
          row == Rows(components[e.id])[e.row] IN
      e.action \in Ids /\ (\A n \in DOMAIN row : ~HasTemplateAndList(row[n])) =>
        \E j \in 1 .. k - 1 :
          /\ out[j] \in {Element(e.action, e.depth), Element(e.action, e.depth + 1)}
          /\ \A m \in j .. k - 1 : out[m].row = 0 \/ out[m].depth > e.depth

\* RenderSurface returns, with a page or with an overflow, however components are
\* replaced meanwhile.
RenderingEnds == status = "walking" ~> status # "walking"
=============================================================================
