--------------------------- MODULE RendererProofs ---------------------------
(***************************************************************************)
(* Proofs about Renderer, for any component ids, any definitions clients   *)
(* send and any number of writes during a rendering.                       *)
(***************************************************************************)
EXTENDS Renderer, FiniteSetTheorems, SequenceTheorems, WellFoundedInduction, TLAPS

\* A definition that parses is a component, of a type that has a template.
LEMMA ParsedType ==
  ASSUME NEW raw \in RawDefs, Parses(raw)
  PROVE  Parsed(raw) \in Component /\ raw.id \in Ids
<1>1. raw \in RawDef
  BY RawDefsAssumption
<1>2. raw.types # {}
  <2>1. Cardinality({}) = 0
    BY FS_EmptySet
  <2> QED
    BY <2>1 DEF Parses
<1>3. TypeOf(raw) \in ParsedTypes
  BY <1>2 DEF TypeOf, Parses
<1> QED
  BY <1>1, <1>3 DEF Parsed, RawDef, Component

LEMMA EveryTypeHasATemplate == ParsedTypes \subseteq TemplateTypes
  BY DEF ParsedTypes, OfficialTypes, TemplateTypes

\* What a component shows are ids.
LEMMA CellsType ==
  ASSUME NEW c \in Component, NEW r \in 0 .. Len(Rows(c))
  PROVE  Cells(c, r) \in Seq(Ids) /\ Rows(c) \in Seq(Seq(Ids))
<1>1. Shown(c) \in Seq(Ids) /\ Rows(c) \in Seq(Seq(Ids))
  BY DEF Shown, Rows, Component
<1>2. ASSUME r # 0 PROVE Rows(c)[r] \in Seq(Ids)
  BY <1>1, <1>2
<1> QED
  BY <1>1, <1>2 DEF Cells
-----------------------------------------------------------------------------
\* A set of positions has a first one.
LEMMA FirstIs ==
  ASSUME NEW I \in SUBSET Nat, I # {}
  PROVE  First(I) \in I /\ \A i \in I : First(I) <= i
<1> DEFINE R == OpToRel(<, Nat)
<1>1. PICK x \in I : \A y \in I : ~ (<<y, x>> \in R)
  <2> HIDE DEF R
  <2>1. IsWellFoundedOn(R, Nat)
    BY NatLessThanWellFounded DEF R
  <2> QED
    BY <2>1, WFMin, Zenon
<1>2. ASSUME NEW y \in I PROVE x <= y
  <2>1. ~ (y < x)
    BY <1>1 DEF OpToRel
  <2> QED
    BY <2>1
<1> QED
  BY <1>2 DEF First

\* The button a cell offers is the cell or one that a row lists; a button that
\* inference finds is offered by some cell.
LEMMA FirstButtonIs ==
  ASSUME NEW ids \in Seq(Ids)
  PROVE  \/ FirstButton(ids) = None
         \/ \E k \in DOMAIN ids : FirstButton(ids) = ids[k] /\ IsActionButton(ids[k])
<1> DEFINE found == {k \in DOMAIN ids : IsActionButton(ids[k])}
<1>1. FirstButton(ids) = IF found = {} THEN None ELSE ids[First(found)]
  BY DEF FirstButton
<1>2. found \in SUBSET Nat
  OBVIOUS
<1>3. ASSUME found # {} PROVE First(found) \in found
  <2> HIDE DEF found
  <2> QED
    BY <1>2, <1>3, FirstIs
<1> QED
  BY <1>1, <1>3

LEMMA ButtonInIs ==
  ASSUME components \in [Ids -> Component \cup {None}], NEW i \in Ids, ButtonIn(i) # None
  PROVE  /\ ButtonIn(i) \in Ids /\ IsActionButton(ButtonIn(i)) /\ components[i] # None
         /\ \/ ButtonIn(i) = i
            \/ /\ components[i].type = "Row"
               /\ \E k \in DOMAIN components[i].children : components[i].children[k] = ButtonIn(i)
<1>1. components[i] \in Component /\ components[i] # None
  BY NoneAssumption DEF ButtonIn, IsActionButton
<1>2. components[i].children \in Seq(Ids)
  BY <1>1 DEF Component
<1>3. CASE IsActionButton(i)
  BY <1>1, <1>3 DEF ButtonIn, IsActionButton
<1>4. CASE ~IsActionButton(i)
  <2>1. components[i].type = "Row" /\ ButtonIn(i) = FirstButton(components[i].children)
    BY <1>1, <1>4 DEF ButtonIn
  <2>2. PICK k \in DOMAIN components[i].children :
          ButtonIn(i) = components[i].children[k] /\ IsActionButton(ButtonIn(i))
    BY <1>2, <2>1, FirstButtonIs
  <2> QED
    BY <1>1, <1>2, <2>1, <2>2
<1> QED
  BY <1>3, <1>4

LEMMA InferredIs ==
  ASSUME components \in [Ids -> Component \cup {None}], NEW row \in Seq(Ids)
  PROVE  \/ InferRowActionFromCells(row) = None
         \/ \E n \in DOMAIN row : /\ InferRowActionFromCells(row) = ButtonIn(row[n])
                                 /\ ButtonIn(row[n]) # None
<1> DEFINE found == {k \in DOMAIN row : ButtonIn(row[k]) # None}
<1>1. InferRowActionFromCells(row) = IF found = {} THEN None ELSE ButtonIn(row[First(found)])
  BY DEF InferRowActionFromCells
<1>2. found \in SUBSET Nat
  OBVIOUS
<1>3. ASSUME found # {} PROVE First(found) \in found
  <2> HIDE DEF found
  <2> QED
    BY <1>2, <1>3, FirstIs
<1> QED
  BY <1>1, <1>3

\* The action of a table's row is its own, none, or a button its cells offer.
LEMMA RowActionIs ==
  ASSUME components \in [Ids -> Component \cup {None}],
         NEW c \in Component, NEW r \in 1 .. Len(Rows(c))
  PROVE  /\ RowAction(c, r) \in Ids \cup {"own", None}
         /\ RowAction(c, r) \in Ids =>
              \E n \in DOMAIN Rows(c)[r] : /\ RowAction(c, r) = ButtonIn(Rows(c)[r][n])
                                          /\ ButtonIn(Rows(c)[r][n]) # None
<1>1. Rows(c) \in Seq(Seq(Ids)) /\ Rows(c) = c.rows /\ c.rows[r] \in Seq(Ids)
  <2>1. Rows(c) \in Seq(Seq(Ids)) /\ c.rows \in Seq(Seq(Ids))
    BY DEF Rows, Component
  <2>2. Rows(c) = c.rows
    BY <2>1 DEF Rows
  <2> QED
    BY <2>1, <2>2
<1>2. CASE RowAction(c, r) \in {"own", None}
  BY <1>2, NoneAssumption
<1>3. CASE RowAction(c, r) \notin {"own", None}
  <2>1. RowAction(c, r) = InferRowActionFromCells(c.rows[r])
    BY <1>3 DEF RowAction
  <2>2. PICK n \in DOMAIN c.rows[r] : /\ RowAction(c, r) = ButtonIn(c.rows[r][n])
                                     /\ ButtonIn(c.rows[r][n]) # None
    BY <1>1, <1>3, <2>1, InferredIs
  <2>3. c.rows[r][n] \in Ids
    BY <1>1
  <2>4. ButtonIn(c.rows[r][n]) \in Ids
    BY <2>2, <2>3, ButtonInIs
  <2> QED
    BY <1>1, <2>2, <2>4
<1> QED
  BY <1>2, <1>3

\* A stack of frames, each within the rows of its component.
Stacks == {fs \in Seq(Frame) : /\ Len(fs) <= MaxDepth
                               /\ \A k \in DOMAIN fs : fs[k].row <= Len(Rows(fs[k].comp))}

\* The frame a step works on, and the stack it leaves.
LEMMA TopAndBelow ==
  ASSUME stack \in Stacks, stack # <<>>
  PROVE  /\ Top \in Frame /\ Top.row <= Len(Rows(Top.comp))
         /\ Below \in Stacks /\ Len(Below) = Len(stack) - 1
         /\ \A k \in DOMAIN Below : Below[k] = stack[k]
         /\ \A f \in Frame : f.row <= Len(Rows(f.comp)) => Append(Below, f) \in Stacks
<1>1. stack \in Seq(Frame) /\ Len(stack) \in Nat \ {0} /\ Len(stack) <= MaxDepth
  BY DEF Stacks
<1>2. Top \in Frame /\ Top.row <= Len(Rows(Top.comp))
  BY <1>1 DEF Top, Stacks
<1>3. /\ Below \in Seq(Frame) /\ Len(Below) = Len(stack) - 1
      /\ \A k \in DOMAIN Below : Below[k] = stack[k]
  <2> DEFINE n == Len(stack) - 1
  <2>1. n \in Nat /\ n <= Len(stack)
    BY <1>1
  <2>2. \A k \in 1 .. n : stack[k] \in Frame
    BY <1>1
  <2>3. Below = [k \in 1 .. n |-> stack[k]]
    BY <1>1, <2>1 DEF Below
  <2>4. Below \in Seq(Frame) /\ Len(Below) = n
    BY <2>1, <2>2, <2>3
  <2> QED
    BY <2>3, <2>4
<1>4. Below \in Stacks
  BY <1>1, <1>3, MaxDepthAssumption DEF Stacks
<1>5. ASSUME NEW f \in Frame, f.row <= Len(Rows(f.comp)) PROVE Append(Below, f) \in Stacks
  <2> DEFINE fs == Append(Below, f)
  <2>1. fs \in Seq(Frame) /\ Len(fs) = Len(stack)
    BY <1>1, <1>3
  <2>2. \A k \in DOMAIN fs : fs[k] = IF k = Len(stack) THEN f ELSE Below[k]
    BY <1>1, <1>3
  <2>3. \A k \in DOMAIN fs : k # Len(stack) => k \in DOMAIN Below
    BY <1>1, <1>3, <2>1
  <2> HIDE DEF fs
  <2>4. \A k \in DOMAIN fs : fs[k].row <= Len(Rows(fs[k].comp))
    BY <1>4, <1>5, <2>2, <2>3 DEF Stacks
  <2>5. fs \in Stacks
    BY <1>1, <2>1, <2>4 DEF Stacks
  <2> QED
    BY <2>5 DEF fs
<1> QED
  BY <1>2, <1>3, <1>4, <1>5

\* Every component of the map was parsed, and a page fails only on a component
\* without a template.
Inv == TypeOK /\ NeverFails

LEMMA InvStacks == TypeOK => stack \in Stacks
  BY DEF TypeOK, Stacks

\* A lookup keeps the stack well formed and does not fail.
LEMMA RenderByIDType ==
  ASSUME Inv, NEW fs \in Stacks, NEW shown \in Seq(PageElement), NEW i \in Ids,
         RenderByID(fs, shown, i)
  PROVE  /\ stack' \in Stacks /\ status' \in {"walking", "overflow"}
         /\ out' \in Seq(PageElement)
<1>1. CASE components[i] = None
  BY <1>1 DEF RenderByID
<1>2. CASE components[i] # None
  <2>1. components[i] \in Component
    BY <1>2 DEF Inv, TypeOK
  <2>2. components[i].type \in TemplateTypes
    BY <2>1, EveryTypeHasATemplate DEF Component
  <2>3. CASE Len(fs) = MaxDepth
    BY <1>2, <2>2, <2>3 DEF RenderByID
  <2>4. CASE Len(fs) # MaxDepth
    <3> DEFINE f == AtRow(i, components[i], 0)
    <3>1. /\ stack' = Append(fs, f) /\ status' = "walking"
          /\ out' = Append(shown, Element(i, Len(fs) + 1))
      BY <1>2, <2>2, <2>4 DEF RenderByID, Push
    <3>2. f \in Frame /\ f.row = 0 /\ Len(Rows(f.comp)) \in Nat
      BY <2>1 DEF Frame, Rows, Component, AtRow
    <3> HIDE DEF f
    <3>3. fs \in Seq(Frame) /\ Len(fs) \in Nat /\ Len(fs) < MaxDepth
      BY <2>4, MaxDepthAssumption DEF Stacks
    <3>4. Append(fs, f) \in Seq(Frame) /\ Len(Append(fs, f)) = Len(fs) + 1
      BY <3>2, <3>3
    <3>5. \A k \in DOMAIN Append(fs, f) :
            Append(fs, f)[k] = f \/ (k \in DOMAIN fs /\ Append(fs, f)[k] = fs[k])
      BY <3>2, <3>3
    <3>6. \A k \in DOMAIN Append(fs, f) : Append(fs, f)[k].row <= Len(Rows(Append(fs, f)[k].comp))
      BY <3>2, <3>5 DEF Stacks
    <3>7. Len(Append(fs, f)) <= MaxDepth
      BY <3>3, <3>4, MaxDepthAssumption
    <3>8. Append(fs, f) \in Stacks
      BY <3>4, <3>6, <3>7 DEF Stacks
    <3>9. Element(i, Len(fs) + 1) \in PageElement
      BY <3>3, MaxDepthAssumption DEF Element, PageElement
    <3> QED
      BY <3>1, <3>8, <3>9
  <2> QED
    BY <2>3, <2>4
<1> QED
  BY <1>1, <1>2

\* The child or cell RenderNext comes to, and the frame it leaves behind.
LEMMA NextCell ==
  ASSUME Inv, stack # <<>>, Top.cell <= Len(Cells(Top.comp, Top.row))
  PROVE  /\ Cells(Top.comp, Top.row)[Top.cell] \in Ids
         /\ [Top EXCEPT !.cell = @ + 1] \in Frame
         /\ Append(Below, [Top EXCEPT !.cell = @ + 1]) \in Stacks
<1>1. Top \in Frame /\ Top.row <= Len(Rows(Top.comp))
  BY InvStacks, TopAndBelow DEF Inv
<1>2. Cells(Top.comp, Top.row) \in Seq(Ids)
  <2>1. Top.comp \in Component /\ Top.row \in Nat
    BY <1>1 DEF Frame
  <2>2. Len(Rows(Top.comp)) \in Nat
    BY <2>1 DEF Rows, Component
  <2> QED
    BY <1>1, <2>1, <2>2, CellsType
<1>3. [Top EXCEPT !.cell = @ + 1] \in Frame /\ [Top EXCEPT !.cell = @ + 1].row = Top.row
      /\ [Top EXCEPT !.cell = @ + 1].comp = Top.comp
  BY <1>1 DEF Frame
<1>4. Cells(Top.comp, Top.row)[Top.cell] \in Ids
  BY <1>1, <1>2 DEF Frame
<1> QED
  BY <1>1, <1>3, <1>4, InvStacks, TopAndBelow DEF Inv

\* The action of a row is an element of the page.
LEMMA EndRowType ==
  ASSUME Inv, stack # <<>>
  PROVE  EndRow \in Seq(PageElement)
<1>1. /\ out \in Seq(PageElement) /\ components \in [Ids -> Component \cup {None}]
      /\ Len(stack) \in 1 .. MaxDepth
  BY MaxDepthAssumption DEF Inv, TypeOK
<1>2. Top \in Frame /\ Top.row <= Len(Rows(Top.comp))
  BY InvStacks, TopAndBelow DEF Inv
<1>3. Top.comp \in Component /\ Top.id \in Ids /\ Top.row \in Nat /\ Len(Rows(Top.comp)) \in Nat
  BY <1>2 DEF Frame, Rows, Component
<1>4. CASE Top.row = 0
  BY <1>1, <1>4 DEF EndRow
<1>5. CASE Top.row # 0
  <2>1. Top.row \in 1 .. Len(Rows(Top.comp))
    BY <1>2, <1>3, <1>5
  <2>2. RowAction(Top.comp, Top.row) \in Ids \cup {"own", None}
    BY <1>1, <1>3, <2>1, RowActionIs
  <2>3. RowElement(Top.id, Len(stack) + 1, Top.row, RowAction(Top.comp, Top.row)) \in PageElement
    BY <1>1, <1>3, <2>2, MaxDepthAssumption DEF RowElement, PageElement
  <2> QED
    BY <1>1, <1>5, <2>3 DEF EndRow
<1> QED
  BY <1>4, <1>5
-----------------------------------------------------------------------------
LEMMA InitInv == Init => Inv
<1> SUFFICES ASSUME Init PROVE Inv
  OBVIOUS
<1>1. stack \in Seq(Frame) /\ Len(stack) = 0 /\ DOMAIN stack = {} /\ out \in Seq(PageElement)
  BY DEF Init
<1> QED
  BY <1>1, MaxDepthAssumption, MaxWritesAssumption DEF Init, Inv, TypeOK, NeverFails, Statuses

LEMMA StepInv == Inv /\ [Next]_vars => Inv'
<1> SUFFICES ASSUME Inv, [Next]_vars PROVE Inv'
  OBVIOUS
<1>1. stack \in Stacks
  BY InvStacks DEF Inv
<1>2. ASSUME stack' \in Stacks, out' \in Seq(PageElement), components' \in [Ids -> Component \cup {None}],
             root' \in Ids \cup {None}, status' \in Statuses \ {"failed"}, writes' \in 0 .. MaxWrites,
             status' # "walking" /\ status' # "overflow" => stack' = <<>>
      PROVE  Inv'
  BY <1>2 DEF Inv, TypeOK, NeverFails, Stacks
<1>3. ASSUME NEW raw \in RawDefs, PutComponent(raw) PROVE Inv'
  <2>1. components' \in [Ids -> Component \cup {None}]
    BY <1>3, ParsedType DEF PutComponent, Inv, TypeOK
  <2>2. writes' \in 0 .. MaxWrites
    BY <1>3, MaxWritesAssumption DEF PutComponent, Inv, TypeOK
  <2>3. UNCHANGED <<stack, out, root, status>>
    BY <1>3 DEF PutComponent, walk
  <2>4. root \in Ids \cup {None} /\ status \in Statuses \ {"failed"} /\ out \in Seq(PageElement)
        /\ (status # "walking" /\ status # "overflow" => stack = <<>>)
    BY DEF Inv, TypeOK, NeverFails
  <2> HIDE DEF Statuses
  <2> QED
    BY <1>1, <1>2, <2>1, <2>2, <2>3, <2>4
<1>4. ASSUME NEW i \in Ids, RenderSurface(i) PROVE Inv'
  <2>1. <<>> \in Stacks
    BY MaxDepthAssumption DEF Stacks
  <2>2. stack' \in Stacks /\ status' \in {"walking", "overflow"} /\ out' \in Seq(PageElement)
    <3>1. <<>> \in Seq(PageElement)
      OBVIOUS
    <3> QED
      BY <1>4, <2>1, <3>1, RenderByIDType DEF RenderSurface
  <2> QED
    BY <1>2, <1>4, <2>2 DEF RenderSurface, Inv, TypeOK, Statuses
<1>5. CASE RenderNext
  <2>1. stack' \in Stacks /\ status' \in {"walking", "overflow"} /\ out' \in Seq(PageElement)
    <3>1. out \in Seq(PageElement)
      BY DEF Inv, TypeOK
    <3> QED
      BY <1>5, <3>1, NextCell, RenderByIDType DEF RenderNext
  <2> QED
    BY <1>2, <1>5, <2>1 DEF RenderNext, Inv, TypeOK, Statuses
<1>6. CASE NextRow
  <2> DEFINE f == AtRow(Top.id, Top.comp, Top.row + 1)
  <2>1. Top \in Frame /\ Top.row < Len(Rows(Top.comp)) /\ stack # <<>>
    BY <1>1, <1>6, TopAndBelow DEF NextRow
  <2>2. Len(Rows(Top.comp)) \in Nat
    BY <2>1 DEF Frame, Rows, Component
  <2>3. f \in Frame /\ f.row = Top.row + 1 /\ f.comp = Top.comp
    BY <2>1 DEF Frame, AtRow
  <2>4. f.row <= Len(Rows(f.comp))
    BY <2>1, <2>2, <2>3 DEF Frame
  <2>5. stack' = Append(Below, f) /\ UNCHANGED <<components, root, status, writes>>
        /\ status = "walking"
    BY <1>6 DEF NextRow
  <2> HIDE DEF f
  <2>6. stack' \in Stacks
    BY <1>1, <2>1, <2>3, <2>4, <2>5, TopAndBelow
  <2>7. out' \in Seq(PageElement)
    BY <1>6, EndRowType DEF NextRow
  <2> QED
    BY <1>2, <2>5, <2>6, <2>7 DEF Inv, TypeOK, NeverFails
<1>7. CASE ExecuteTemplate
  <2>1. stack' \in Stacks
    BY <1>1, <1>7, TopAndBelow DEF ExecuteTemplate
  <2>2. out' \in Seq(PageElement)
    BY <1>7, EndRowType DEF ExecuteTemplate
  <2> QED
    BY <1>2, <1>7, <2>1, <2>2 DEF ExecuteTemplate, Inv, TypeOK, NeverFails
<1>8. CASE ExecutePage
  BY <1>1, <1>2, <1>8 DEF ExecutePage, Inv, TypeOK, Statuses
<1>9. CASE Return
  <2>1. <<>> \in Stacks
    BY MaxDepthAssumption DEF Stacks
  <2> QED
    BY <1>2, <1>9, <2>1, MaxWritesAssumption DEF Return, Inv, TypeOK, Statuses
<1>10. CASE UNCHANGED vars
  BY <1>10 DEF vars, walk, Inv, TypeOK, NeverFails
<1> QED
  BY <1>3, <1>4, <1>5, <1>6, <1>7, <1>8, <1>9, <1>10 DEF Next, Walk, Overflowed

\* The renderer's variables keep their types.
THEOREM TypeCorrect == Spec => []TypeOK
<1>1. Inv => TypeOK
  BY DEF Inv
<1> QED
  BY <1>1, InitInv, StepInv, PTL DEF Spec

\* No page fails for want of a template, whatever clients send: what the parser
\* accepts, the registry can render.
THEOREM AcceptedComponentsRender == Spec => []NeverFails
<1>1. Inv => NeverFails
  BY DEF Inv
<1> QED
  BY <1>1, InitInv, StepInv, PTL DEF Spec
-----------------------------------------------------------------------------
\* Definitions whose components can be ranked so that each names only lower
\* ones: they nest less than MaxDepth deep and no sequence of them, old and new
\* ones mixed, makes a cycle.
Lower(rank, c, i) == \A j \in Refs(c) : rank[j] < rank[i]
Ranks(rank) ==
  /\ rank \in [Ids -> 0 .. MaxDepth - 1]
  /\ \A raw \in RawDefs : Parses(raw) => Lower(rank, Parsed(raw), raw.id)
Layered == \E rank : Ranks(rank)

\* What the walk keeps: every component, in the map or on the stack, names lower
\* ones, and a frame lies no deeper than its rank allows.
FramesOK(rank, fs) ==
  \A k \in DOMAIN fs : /\ Lower(rank, fs[k].comp, fs[k].id)
                       /\ rank[fs[k].id] + k <= MaxDepth
RankInv(rank) ==
  /\ Inv
  /\ \A i \in Ids : components[i] # None => Lower(rank, components[i], i)
  /\ FramesOK(rank, stack)
  /\ status # "overflow"

\* A lookup at a place the rank allows does not overflow.
LEMMA RankedLookup ==
  ASSUME NEW rank, Ranks(rank), RankInv(rank), NEW fs \in Stacks, FramesOK(rank, fs),
         NEW shown, NEW i \in Ids, rank[i] + Len(fs) + 1 <= MaxDepth,
         RenderByID(fs, shown, i)
  PROVE  FramesOK(rank, stack') /\ status' # "overflow"
<1>1. /\ rank[i] \in Nat /\ Len(fs) \in Nat /\ Len(fs) # MaxDepth /\ fs \in Seq(Frame)
  <2>1. rank[i] \in 0 .. MaxDepth - 1 /\ Len(fs) \in Nat /\ fs \in Seq(Frame)
    BY DEF Ranks, Stacks
  <2> QED
    BY <2>1, MaxDepthAssumption
<1>2. CASE components[i] = None
  BY <1>2 DEF RenderByID
<1>3. CASE components[i] # None
  <2> DEFINE f == AtRow(i, components[i], 0)
  <2>1. components[i] \in Component
    BY <1>3 DEF RankInv, Inv, TypeOK
  <2>2. components[i].type \in TemplateTypes
    BY <2>1, EveryTypeHasATemplate DEF Component
  <2>3. stack' = Append(fs, f) /\ status' = "walking"
    BY <1>1, <1>3, <2>2 DEF RenderByID, Push
  <2>4. f \in Frame /\ f.id = i /\ f.comp = components[i]
    BY <2>1 DEF Frame, AtRow
  <2> HIDE DEF f
  <2>5. Lower(rank, f.comp, f.id)
    BY <1>3, <2>4 DEF RankInv
  <2>6. \A k \in DOMAIN stack' :
          \/ k = Len(fs) + 1 /\ stack'[k] = f
          \/ k \in DOMAIN fs /\ stack'[k] = fs[k]
    BY <1>1, <2>3, <2>4
  <2>7. ASSUME NEW k \in DOMAIN stack'
        PROVE  Lower(rank, stack'[k].comp, stack'[k].id) /\ rank[stack'[k].id] + k <= MaxDepth
    <3>1. CASE k = Len(fs) + 1 /\ stack'[k] = f
      BY <1>1, <2>4, <2>5, <3>1
    <3>2. CASE k \in DOMAIN fs /\ stack'[k] = fs[k]
      BY <3>2 DEF FramesOK
    <3> QED
      BY <2>6, <2>7, <3>1, <3>2
  <2> QED
    BY <2>3, <2>7 DEF FramesOK
<1> QED
  BY <1>2, <1>3

\* What a component shows in a row is among the components it names.
LEMMA CellsAreRefs ==
  ASSUME NEW c \in Component, NEW r \in 0 .. Len(Rows(c)), NEW k \in 1 .. Len(Cells(c, r))
  PROVE  Cells(c, r)[k] \in Refs(c)
<1>1. Shown(c) \in Seq(Ids) /\ Rows(c) \in Seq(Seq(Ids))
  BY DEF Shown, Rows, Component
<1>2. CASE r = 0
  BY <1>1, <1>2 DEF Cells, Refs
<1>3. CASE r # 0
  <2>1. r \in DOMAIN Rows(c) /\ Rows(c)[r] \in Seq(Ids) /\ Cells(c, r) = Rows(c)[r]
    BY <1>1, <1>3 DEF Cells
  <2>2. k \in DOMAIN Rows(c)[r]
    BY <2>1
  <2> QED
    BY <2>1, <2>2 DEF Refs
<1> QED
  BY <1>2, <1>3

\* A frame may be replaced by one of the same component.
LEMMA SameFrames ==
  ASSUME NEW rank, RankInv(rank), stack # <<>>, NEW f \in Frame,
         f.id = Top.id, f.comp = Top.comp
  PROVE  FramesOK(rank, Below) /\ FramesOK(rank, Append(Below, f))
<1>1. stack \in Stacks
  BY InvStacks DEF RankInv, Inv
<1>2. stack \in Seq(Frame) /\ Len(stack) \in Nat \ {0}
  BY <1>1 DEF Stacks
<1>3. /\ Below \in Seq(Frame) /\ Len(Below) = Len(stack) - 1
      /\ \A k \in DOMAIN Below : Below[k] = stack[k]
  BY <1>1, TopAndBelow DEF Stacks
<1>4. \A k \in DOMAIN Below : k \in DOMAIN stack
  BY <1>2, <1>3
<1>5. \A k \in DOMAIN Append(Below, f) :
        /\ k \in DOMAIN stack
        /\ Append(Below, f)[k].id = stack[k].id /\ Append(Below, f)[k].comp = stack[k].comp
  BY <1>2, <1>3 DEF Top
<1> QED
  BY <1>3, <1>4, <1>5 DEF RankInv, FramesOK

LEMMA RankedStep ==
  ASSUME NEW rank, Ranks(rank), RankInv(rank), [Next]_vars
  PROVE  RankInv(rank)'
<1>1. Inv'
  BY StepInv DEF RankInv
<1>2. stack \in Stacks
  BY InvStacks DEF RankInv, Inv
<1>3. ASSUME NEW raw \in RawDefs, PutComponent(raw) PROVE RankInv(rank)'
  <2>1. /\ components' = [components EXCEPT ![raw.id] = Parsed(raw)] /\ Parses(raw)
        /\ UNCHANGED <<stack, status>>
    BY <1>3 DEF PutComponent, walk
  <2>2. Lower(rank, Parsed(raw), raw.id) /\ raw.id \in Ids
    BY <2>1, ParsedType DEF Ranks
  <2>3. \A i \in Ids : components'[i] = IF i = raw.id THEN Parsed(raw) ELSE components[i]
    BY <2>1 DEF RankInv, Inv, TypeOK
  <2>4. \A i \in Ids : components'[i] # None => Lower(rank, components'[i], i)
    BY <2>2, <2>3 DEF RankInv
  <2> QED
    BY <1>1, <2>1, <2>4 DEF RankInv
<1>4. ASSUME NEW i \in Ids, RenderSurface(i) PROVE RankInv(rank)'
  <2>1. <<>> \in Stacks /\ FramesOK(rank, <<>>)
    BY MaxDepthAssumption DEF Stacks, FramesOK
  <2>2. rank[i] + Len(<<>>) + 1 <= MaxDepth
    BY MaxDepthAssumption DEF Ranks
  <2>3. FramesOK(rank, stack') /\ status' # "overflow"
    BY <1>4, <2>1, <2>2, RankedLookup DEF RenderSurface
  <2> QED
    BY <1>1, <1>4, <2>3 DEF RenderSurface, RankInv
<1>5. CASE RenderNext
  <2> DEFINE i == Cells(Top.comp, Top.row)[Top.cell]
             f == [Top EXCEPT !.cell = @ + 1]
  <2>1. /\ stack # <<>> /\ Top.cell <= Len(Cells(Top.comp, Top.row)) /\ UNCHANGED components
        /\ RenderByID(Append(Below, f), out, i)
    BY <1>5 DEF RenderNext
  <2>2. i \in Ids /\ f \in Frame /\ Append(Below, f) \in Stacks
    BY <2>1, NextCell DEF RankInv
  <2>3. Top \in Frame /\ Top.row <= Len(Rows(Top.comp)) /\ Below \in Stacks
        /\ Len(Below) = Len(stack) - 1
    BY <1>2, <2>1, TopAndBelow
  <2>4. f.id = Top.id /\ f.comp = Top.comp
    BY <2>3 DEF Frame
  <2>5. i \in Refs(Top.comp)
    <3>1. Top.comp \in Component /\ Top.row \in Nat /\ Top.cell \in Nat \ {0}
      BY <2>3 DEF Frame
    <3>2. Len(Rows(Top.comp)) \in Nat
      BY <3>1 DEF Rows, Component
    <3>3. Top.row \in 0 .. Len(Rows(Top.comp))
      BY <2>3, <3>1, <3>2
    <3>4. Len(Cells(Top.comp, Top.row)) \in Nat
      BY <3>1, <3>3, CellsType
    <3> QED
      BY <2>1, <3>1, <3>3, <3>4, CellsAreRefs
  <2>6. rank[i] < rank[Top.id] /\ rank[Top.id] + Len(stack) <= MaxDepth
    <3>1. Len(stack) \in DOMAIN stack
      BY <1>2, <2>1 DEF Stacks
    <3> QED
      BY <2>5, <3>1 DEF Top, RankInv, FramesOK, Lower
  <2>7. Len(Append(Below, f)) = Len(stack)
    BY <1>2, <2>1, <2>2, <2>3 DEF Stacks
  <2> HIDE DEF i, f
  <2>8. rank[i] + Len(Append(Below, f)) + 1 <= MaxDepth
    <3>1. rank[i] \in Nat /\ rank[Top.id] \in Nat /\ Len(stack) \in Nat
      BY <1>2, <2>2, <2>3, MaxDepthAssumption DEF Ranks, Frame, Stacks
    <3> QED
      BY <2>6, <2>7, <3>1, MaxDepthAssumption
  <2>9. FramesOK(rank, stack') /\ status' # "overflow"
    BY <2>1, <2>2, <2>4, <2>8, SameFrames, RankedLookup
  <2> QED
    BY <1>1, <2>1, <2>9 DEF RankInv
<1>6. CASE NextRow
  <2> DEFINE f == AtRow(Top.id, Top.comp, Top.row + 1)
  <2>1. stack # <<>> /\ stack' = Append(Below, f) /\ UNCHANGED <<components, status>>
    BY <1>6 DEF NextRow
  <2>2. f \in Frame /\ f.id = Top.id /\ f.comp = Top.comp
    <3>1. Top \in Frame
      BY <1>2, <2>1, TopAndBelow
    <3> QED
      BY <3>1 DEF Frame, AtRow
  <2> HIDE DEF f
  <2>3. FramesOK(rank, stack')
    BY <2>1, <2>2, SameFrames
  <2> QED
    BY <1>1, <2>1, <2>3 DEF RankInv
<1>7. CASE ExecuteTemplate
  <2>1. stack # <<>> /\ stack' = Below /\ UNCHANGED <<components, status>>
    BY <1>7 DEF ExecuteTemplate
  <2>2. FramesOK(rank, Below)
    BY <1>2, <2>1, TopAndBelow, SameFrames
  <2> QED
    BY <1>1, <2>1, <2>2 DEF RankInv
<1>8. CASE ExecutePage
  BY <1>1, <1>8 DEF ExecutePage, RankInv
<1>9. CASE Return
  BY <1>1, <1>9 DEF Return, RankInv, FramesOK
<1>10. CASE UNCHANGED vars
  BY <1>1, <1>10 DEF vars, walk, RankInv
<1> QED
  BY <1>3, <1>4, <1>5, <1>6, <1>7, <1>8, <1>9, <1>10 DEF Next, Walk, Overflowed

\* Components that name only lower ones never overflow the stack, even while
\* other requests replace the components of the page that is being rendered:
\* the recursion is safe for every client that nests its components, and the
\* cycle CyclesNeverRender finds is the only way to break it.
THEOREM LayeredPagesRender == Layered => (Spec => [](status # "overflow"))
<1> SUFFICES ASSUME Layered PROVE Spec => [](status # "overflow")
  OBVIOUS
<1>1. PICK rank : Ranks(rank)
  BY DEF Layered
<1>2. Init => RankInv(rank)
  <2>1. Init => FramesOK(rank, stack) /\ \A i \in Ids : components[i] = None
    BY DEF Init, FramesOK
  <2> QED
    BY <2>1, InitInv DEF Init, RankInv
<1>3. RankInv(rank) /\ [Next]_vars => RankInv(rank)'
  BY <1>1, RankedStep
<1>4. RankInv(rank) => status # "overflow"
  BY DEF RankInv
<1> QED
  BY <1>2, <1>3, <1>4, PTL DEF Spec
-----------------------------------------------------------------------------
\* While no write disturbs the walk, the frames are a path of components from the
\* root i, each as it is in the map; an overflow comes from one more of them.
Undisturbed == status \in {"walking", "overflow", "done"} /\ writes = 0
Path(i, fs) ==
  /\ \A s \in DOMAIN fs : fs[s].comp = components[fs[s].id]
  /\ fs # <<>> => fs[1].id = i
  /\ \A s \in DOMAIN fs : s > 1 => fs[s].id \in Refs(fs[s - 1].comp)
TooDeep ==
  /\ Len(stack) = MaxDepth
  /\ \E i \in Refs(stack[MaxDepth].comp) : components[i] # None

\* The places of a frame's component that its loops have passed.
Passed(f) == {p \in Filled(f.comp) : Before(p, <<f.row, f.cell>>)}

\* Nothing on page o stands beside or above its k-th element after it.  That
\* element belongs to a frame of fs if it is no deeper than these.
Open(o, k) == \A m \in k + 1 .. Len(o) : o[m].depth > o[k].depth
Unfinished(fs, o, k) == o[k].depth <= Len(fs) /\ Open(o, k)

\* A page with root i in the making: every frame has its element, which shows what the frame
\* has passed; the other components show all they name; and every element but the
\* first stands below some component.
ShowsSoFar(fs, o, k) ==
  IF Unfinished(fs, o, k)
  THEN o[k].id = fs[o[k].depth].id /\ Shows(o, k, Passed(fs[o[k].depth]))
  ELSE Shows(o, k, Filled(components[o[k].id]))
HasElement(fs, o, s) == \E k \in DOMAIN o : o[k] = Element(fs[s].id, s) /\ Open(o, k)
Layout(i, fs, o) ==
  /\ \A s \in DOMAIN fs : HasElement(fs, o, s)
  /\ \A k \in DOMAIN o : o[k].row = 0 =>
       /\ o[k].depth <= MaxDepth /\ components[o[k].id] # None
       /\ ShowsSoFar(fs, o, k)
  /\ \A m \in 2 .. Len(o) : \E k \in 1 .. m - 1 : o[k].row = 0 /\ m \in Parts(o, k)
  /\ IF components[i] = None THEN o = <<>> ELSE o # <<>> /\ o[1] = Element(i, 1)
Making ==
  /\ \A s \in DOMAIN stack : stack[s].cell <= Len(Cells(stack[s].comp, stack[s].row)) + 1
  /\ Undisturbed => /\ Path(root, stack)
                    /\ IF status = "overflow" THEN TooDeep ELSE Layout(root, stack, out)
-----------------------------------------------------------------------------
\* The places of a component, each by its row and its number in it.
LEMMA FilledIs ==
  ASSUME NEW c \in Component
  PROVE  /\ \A p \in Filled(c) : /\ p = <<p[1], p[2]>> /\ p[1] \in 0 .. Len(Rows(c))
                                 /\ p[2] \in 1 .. Len(Cells(c, p[1])) + 1
         /\ \A r \in 0 .. Len(Rows(c)), n \in Nat :
              <<r, n>> \in Filled(c) <=>
                \/ n \in 1 .. Len(Cells(c, r)) /\ components[Cells(c, r)[n]] # None
                \/ n = Len(Cells(c, r)) + 1 /\ r # 0
<1> DEFINE last(r) == IF r = 0 THEN Len(Cells(c, r)) ELSE Len(Cells(c, r)) + 1
<1>1. \A r \in 0 .. Len(Rows(c)) : Len(Cells(c, r)) \in Nat
  BY CellsType
<1>2. \A p : p \in Places(c) <=> \E r \in 0 .. Len(Rows(c)) : \E n \in 1 .. last(r) : p = <<r, n>>
  BY DEF Places
<1>3. ASSUME NEW p \in Places(c)
      PROVE  p = <<p[1], p[2]>> /\ p[1] \in 0 .. Len(Rows(c)) /\ p[2] \in 1 .. last(p[1])
  <2>1. PICK r \in 0 .. Len(Rows(c)) : \E n \in 1 .. last(r) : p = <<r, n>>
    BY <1>2, <1>3
  <2> QED
    BY <2>1
<1>4. ASSUME NEW r \in 0 .. Len(Rows(c)), NEW n \in Nat
      PROVE  <<r, n>> \in Places(c) <=> n \in 1 .. last(r)
  BY <1>2, <1>3
<1>5. ASSUME NEW r \in 0 .. Len(Rows(c)), NEW n \in Nat
      PROVE  <<r, n>> \in Filled(c) <=>
               /\ n \in 1 .. last(r)
               /\ n > Len(Cells(c, r)) \/ components[Cells(c, r)[n]] # None
  BY <1>4 DEF Filled, IsEnd
<1> QED
  BY <1>1, <1>3, <1>5 DEF Filled

\* What a frame has passed when it is put in place, after a cell, at the end of a
\* row and when it is finished.
LEMMA PassedIs ==
  ASSUME NEW f \in Frame, f.row <= Len(Rows(f.comp))
  PROVE  /\ \A p \in Passed(f) : /\ p = <<p[1], p[2]>> /\ p[1] \in 0 .. Len(Rows(f.comp))
                                 /\ p[2] \in Nat
         /\ \A r \in 0 .. Len(Rows(f.comp)), n \in Nat :
              <<r, n>> \in Passed(f) <=>
                /\ <<r, n>> \in Filled(f.comp)
                /\ r < f.row \/ (r = f.row /\ n < f.cell)
<1>1. f.comp \in Component
  BY DEF Frame
<1> QED
  BY <1>1, FilledIs DEF Passed, Before

LEMMA PassedNone ==
  ASSUME NEW i \in Ids, NEW c \in Component
  PROVE  Passed(AtRow(i, c, 0)) = {}
<1> DEFINE f == AtRow(i, c, 0)
<1>1. f \in Frame /\ f.row = 0 /\ f.cell = 1 /\ f.comp = c /\ Len(Rows(c)) \in Nat
  BY DEF AtRow, Frame, Rows, Component
<1> HIDE DEF f
<1>2. ASSUME NEW p \in Passed(f) PROVE FALSE
  <2>1. p = <<p[1], p[2]>> /\ p[1] \in 0 .. Len(Rows(c)) /\ p[2] \in Nat
    BY <1>1, PassedIs
  <2>2. <<p[1], p[2]>> \in Filled(c) /\ p[1] = 0 /\ p[2] < 1
    BY <1>1, <2>1, PassedIs
  <2>3. p[2] \in 1 .. Len(Cells(c, p[1])) + 1
    BY <2>1, <2>2, FilledIs
  <2> QED
    BY <2>1, <2>2, <2>3
<1> QED
  BY <1>2 DEF f

LEMMA PassedCell ==
  ASSUME NEW f \in Frame, f.row <= Len(Rows(f.comp)), f.cell <= Len(Cells(f.comp, f.row)),
         NEW g \in Frame, g.comp = f.comp, g.row = f.row, g.cell = f.cell + 1
  PROVE  Passed(g) = Passed(f) \cup
           IF components[Cells(f.comp, f.row)[f.cell]] = None THEN {} ELSE {<<f.row, f.cell>>}
<1> DEFINE c == f.comp
<1>1. /\ c \in Component /\ f.row \in Nat /\ f.cell \in Nat \ {0} /\ Len(Rows(c)) \in Nat
      /\ f.row \in 0 .. Len(Rows(c))
  BY DEF Frame, Rows, Component
<1>2. Len(Cells(c, f.row)) \in Nat
  BY <1>1, CellsType
<1>3. <<f.row, f.cell>> \in Filled(c) <=> components[Cells(c, f.row)[f.cell]] # None
  BY <1>1, <1>2, FilledIs
<1>4. ASSUME NEW r \in 0 .. Len(Rows(c)), NEW n \in Nat
      PROVE  <<r, n>> \in Passed(g) <=>
               <<r, n>> \in Passed(f) \/ (<<r, n>> \in Filled(c) /\ r = f.row /\ n = f.cell)
  BY <1>1, PassedIs
<1>5. \A p \in Passed(f) \cup Passed(g) :
        p = <<p[1], p[2]>> /\ p[1] \in 0 .. Len(Rows(c)) /\ p[2] \in Nat
  BY PassedIs
<1>6. \A p : p \in Passed(g) <=>
        p \in Passed(f) \/ (p \in Filled(c) /\ p = <<f.row, f.cell>>)
  <2> TAKE p
  <2>1. CASE p \in Passed(f) \cup Passed(g)
    <3>1. PICK r \in 0 .. Len(Rows(c)), n \in Nat : p = <<r, n>>
      BY <1>5, <2>1
    <3> QED
      BY <1>4, <3>1
  <2>2. CASE p \notin Passed(f) \cup Passed(g)
    BY <1>1, <1>4, <2>2
  <2> QED
    BY <2>1, <2>2
<1> QED
  BY <1>3, <1>6

\* The place of the action at the end of the frame's row.
End(f) == IF f.row = 0 THEN {} ELSE {<<f.row, f.cell>>}
LEMMA PassedRow ==
  ASSUME NEW f \in Frame, f.row < Len(Rows(f.comp)), f.cell = Len(Cells(f.comp, f.row)) + 1,
         NEW g \in Frame, g.comp = f.comp, g.row = f.row + 1, g.cell = 1
  PROVE  Passed(g) = Passed(f) \cup End(f)
<1> DEFINE c == f.comp
<1>1. /\ c \in Component /\ f.row \in Nat /\ f.cell \in Nat \ {0} /\ Len(Rows(c)) \in Nat
      /\ f.row \in 0 .. Len(Rows(c)) /\ g.row <= Len(Rows(c))
  BY DEF Frame, Rows, Component
<1>2. Len(Cells(c, f.row)) \in Nat
  BY <1>1, CellsType
<1>3. <<f.row, f.cell>> \in Filled(c) <=> f.row # 0
  BY <1>1, <1>2, FilledIs
<1>4. ASSUME NEW r \in 0 .. Len(Rows(c)), NEW n \in Nat, <<r, n>> \in Filled(c)
      PROVE  n \in 1 .. Len(Cells(c, r)) + 1
  BY <1>1, <1>4, FilledIs
<1>5. ASSUME NEW r \in 0 .. Len(Rows(c)), NEW n \in Nat
      PROVE  <<r, n>> \in Passed(g) <=>
               <<r, n>> \in Passed(f) \/ (<<r, n>> \in Filled(c) /\ r = f.row /\ n = f.cell)
  <2>1. <<r, n>> \in Passed(g) <=> <<r, n>> \in Filled(c) /\ (r < f.row + 1 \/ (r = f.row + 1 /\ n < 1))
    BY <1>1, PassedIs
  <2>2. <<r, n>> \in Passed(f) <=> <<r, n>> \in Filled(c) /\ (r < f.row \/ (r = f.row /\ n < f.cell))
    BY <1>1, PassedIs
  <2>3. <<r, n>> \in Filled(c) /\ r = f.row => n <= f.cell
    BY <1>1, <1>2, <1>4
  <2>4. <<r, n>> \in Filled(c) => n >= 1
    BY <1>4
  <2> QED
    BY <1>1, <2>1, <2>2, <2>3, <2>4
<1>6. \A p \in Passed(f) \cup Passed(g) :
        p = <<p[1], p[2]>> /\ p[1] \in 0 .. Len(Rows(c)) /\ p[2] \in Nat
  BY <1>1, PassedIs
<1>7. \A p : p \in Passed(g) <=>
        p \in Passed(f) \/ (p \in Filled(c) /\ p = <<f.row, f.cell>>)
  <2> TAKE p
  <2>1. CASE p \in Passed(f) \cup Passed(g)
    <3>1. PICK r \in 0 .. Len(Rows(c)), n \in Nat : p = <<r, n>>
      BY <1>6, <2>1
    <3> QED
      BY <1>5, <3>1
  <2>2. CASE p \notin Passed(f) \cup Passed(g)
    BY <1>1, <1>5, <2>2
  <2> QED
    BY <2>1, <2>2
<1> QED
  BY <1>3, <1>7 DEF End

LEMMA PassedAll ==
  ASSUME NEW f \in Frame, f.row = Len(Rows(f.comp)), f.cell = Len(Cells(f.comp, f.row)) + 1
  PROVE  Filled(f.comp) = Passed(f) \cup End(f)
<1> DEFINE c == f.comp
<1>1. /\ c \in Component /\ f.row \in Nat /\ f.cell \in Nat \ {0} /\ Len(Rows(c)) \in Nat
      /\ f.row \in 0 .. Len(Rows(c))
  BY DEF Frame, Rows, Component
<1>2. Len(Cells(c, f.row)) \in Nat
  BY <1>1, CellsType
<1>3. <<f.row, f.cell>> \in Filled(c) <=> f.row # 0
  BY <1>1, <1>2, FilledIs
<1>4. ASSUME NEW p \in Filled(c) PROVE p \in Passed(f) \/ p = <<f.row, f.cell>>
  <2>1. PICK r \in 0 .. Len(Rows(c)), n \in Nat : p = <<r, n>> /\ n <= Len(Cells(c, r)) + 1
    <3>1. p = <<p[1], p[2]>> /\ p[1] \in 0 .. Len(Rows(c)) /\ p[2] \in 1 .. Len(Cells(c, p[1])) + 1
      BY <1>1, FilledIs
    <3>2. Len(Cells(c, p[1])) \in Nat
      BY <1>1, <3>1, CellsType
    <3> QED
      BY <3>1, <3>2
  <2>2. <<r, n>> \in Passed(f) <=> r < f.row \/ (r = f.row /\ n < f.cell)
    BY <1>1, <1>4, <2>1, PassedIs
  <2> QED
    BY <1>1, <1>2, <2>1, <2>2
<1>5. Passed(f) \subseteq Filled(c)
  BY DEF Passed
<1> QED
  BY <1>3, <1>4, <1>5 DEF End
-----------------------------------------------------------------------------
LEMMA DepthType ==
  ASSUME NEW e \in PageElement
  PROVE  e.depth \in Nat \ {0} /\ e.depth \in Nat
  BY MaxDepthAssumption DEF PageElement

\* What one more element does to the parts of the others.
LEMMA PartsOfMore ==
  ASSUME NEW o \in Seq(PageElement), NEW e \in PageElement, NEW k \in DOMAIN o
  PROVE  LET o2 == Append(o, e) IN
         /\ Open(o2, k) <=> Open(o, k) /\ e.depth > o[k].depth
         /\ Parts(o2, k) = Parts(o, k) \cup
              IF Open(o, k) /\ e.depth = o[k].depth + 1 THEN {Len(o) + 1} ELSE {}
<1> DEFINE o2 == Append(o, e)
<1>1. PICK n \in Nat : n = Len(o)
  OBVIOUS
<1>2. k \in 1 .. n /\ DOMAIN o = 1 .. n
  BY <1>1
<1>3. Len(o2) = n + 1 /\ o2[n + 1] = e /\ \A m \in 1 .. n : o2[m] = o[m]
  BY <1>1
<1>4. \A m \in 1 .. n : o[m] \in PageElement /\ o[m].depth \in Nat
  <2>1. \A m \in 1 .. n : o[m] \in PageElement
    BY <1>1
  <2> QED
    BY <2>1, DepthType
<1>5. e.depth \in Nat
  BY DepthType
<1> HIDE DEF o2
<1>6. Open(o2, k) <=> Open(o, k) /\ e.depth > o[k].depth
  <2>1. \A m : m \in k + 1 .. n + 1 <=> m \in k + 1 .. n \/ m = n + 1
    BY <1>2
  <2>2. \A m \in k + 1 .. n : o2[m] = o[m]
    BY <1>2, <1>3
  <2> QED
    BY <1>1, <1>2, <1>3, <2>1, <2>2 DEF Open
<1>7. ASSUME NEW m \in 1 .. n PROVE m \in Parts(o2, k) <=> m \in Parts(o, k)
  <2>1. \A j \in k + 1 .. m : o2[j] = o[j]
    BY <1>2, <1>3
  <2>2. m \in k + 1 .. n + 1 <=> m \in k + 1 .. n
    OBVIOUS
  <2> QED
    BY <1>1, <1>2, <1>3, <2>1, <2>2 DEF Parts
<1>8. n + 1 \in Parts(o2, k) <=> Open(o, k) /\ e.depth = o[k].depth + 1
  <2>1. n + 1 \in Parts(o2, k) <=> e.depth = o[k].depth + 1 /\ Open(o2, k)
    BY <1>2, <1>3 DEF Parts, Open
  <2> QED
    BY <1>2, <1>4, <1>5, <1>6, <2>1
<1>9. Parts(o2, k) \subseteq 1 .. n + 1 /\ Parts(o, k) \subseteq 1 .. n
  BY <1>1, <1>2, <1>3 DEF Parts
<1>10. \A m : m \in 1 .. n + 1 <=> m \in 1 .. n \/ m = n + 1
  OBVIOUS
<1>11. n + 1 \notin 1 .. n
  OBVIOUS
<1>12. Parts(o2, k) = Parts(o, k) \cup
         IF Open(o, k) /\ e.depth = o[k].depth + 1 THEN {n + 1} ELSE {}
  BY <1>7, <1>8, <1>9, <1>10, <1>11
<1> QED
  BY <1>1, <1>6, <1>12 DEF o2

LEMMA PartsOfNew ==
  ASSUME NEW o \in Seq(PageElement), NEW e \in PageElement
  PROVE  /\ Open(Append(o, e), Len(o) + 1) /\ Parts(Append(o, e), Len(o) + 1) = {}
         /\ Shows(Append(o, e), Len(o) + 1, {})
<1>1. PICK n \in Nat : n = Len(o) /\ Len(Append(o, e)) = n + 1
  OBVIOUS
<1>2. (n + 1) + 1 .. n + 1 = {}
  BY <1>1
<1>3. Open(Append(o, e), Len(o) + 1) /\ Parts(Append(o, e), Len(o) + 1) = {}
  BY <1>1, <1>2 DEF Open, Parts
<1> DEFINE at == [p \in {} |-> 0]
<1>4. at \in [{} -> Parts(Append(o, e), Len(o) + 1)]
  BY <1>3
<1> QED
  BY <1>3, <1>4 DEF Shows

\* A component shows what it showed if it has the same parts, and one place more if
\* the new element is that place's and becomes a part of it.
LEMMA ShowsSame ==
  ASSUME NEW o \in Seq(PageElement), NEW e \in PageElement, NEW k \in DOMAIN o, NEW places,
         Shows(o, k, places), Parts(Append(o, e), k) = Parts(o, k)
  PROVE  Shows(Append(o, e), k, places)
<1> DEFINE o2 == Append(o, e)
<1>1. PICK at \in [places -> Parts(o, k)] :
        /\ \A m \in Parts(o, k) : \E p \in places : at[p] = m
        /\ \A p, q \in places : Before(p, q) => at[p] < at[q]
        /\ \A p \in places : o[at[p]] = Filling(o[k].id, o[k].depth, p)
  BY DEF Shows
<1>2. Parts(o, k) \subseteq DOMAIN o
  BY DEF Parts
<1>3. \A m \in DOMAIN o : o2[m] = o[m]
  OBVIOUS
<1>4. \A p \in places : o2[at[p]] = Filling(o2[k].id, o2[k].depth, p)
  <2> HIDE DEF o2
  <2> QED
    BY <1>1, <1>2, <1>3
<1> HIDE DEF o2
<1>5. Parts(o2, k) = Parts(o, k)
  BY DEF o2
<1>6. Shows(o2, k, places)
  BY <1>1, <1>4, <1>5 DEF Shows
<1> QED
  BY <1>6 DEF o2

LEMMA ShowsNext ==
  ASSUME NEW o \in Seq(PageElement), NEW e \in PageElement, NEW k \in DOMAIN o, NEW places, NEW q,
         Shows(o, k, places), Parts(Append(o, e), k) = Parts(o, k) \cup {Len(o) + 1},
         \A p \in places : Before(p, q) /\ ~Before(q, p), ~Before(q, q),
         e = Filling(o[k].id, o[k].depth, q)
  PROVE  Shows(Append(o, e), k, places \cup {q})
<1> DEFINE o2 == Append(o, e)
           n == Len(o) + 1
<1>1. PICK at \in [places -> Parts(o, k)] :
        /\ \A m \in Parts(o, k) : \E p \in places : at[p] = m
        /\ \A p, r \in places : Before(p, r) => at[p] < at[r]
        /\ \A p \in places : o[at[p]] = Filling(o[k].id, o[k].depth, p)
  BY DEF Shows
<1>2. Parts(o, k) \subseteq 1 .. Len(o) /\ Parts(o, k) \subseteq DOMAIN o
  BY DEF Parts
<1>3. o2[n] = e /\ \A m \in DOMAIN o : o2[m] = o[m]
  OBVIOUS
<1>4. n \in Nat /\ \A m \in 1 .. Len(o) : m < n
  OBVIOUS
<1>5. q \notin places
  OBVIOUS
<1>6. Parts(o2, k) = Parts(o, k) \cup {n}
  OBVIOUS
<1> DEFINE at2 == [p \in places \cup {q} |-> IF p = q THEN n ELSE at[p]]
<1> HIDE DEF o2, n
<1>7. at2 \in [places \cup {q} -> Parts(o2, k)]
  BY <1>1, <1>6
<1>8. at2[q] = n /\ \A p \in places : at2[p] = at[p]
  BY <1>5
<1> HIDE DEF at2
<1>9. \A m \in Parts(o2, k) : \E p \in places \cup {q} : at2[p] = m
  BY <1>1, <1>6, <1>8
<1>10. ASSUME NEW p \in places \cup {q}, NEW r \in places \cup {q}, Before(p, r)
       PROVE  at2[p] < at2[r]
  <2>1. p # q
    BY <1>10
  <2>2. CASE r = q
    BY <1>1, <1>2, <1>4, <1>8, <2>1, <2>2
  <2>3. CASE r # q
    BY <1>1, <1>8, <1>10, <2>1, <2>3
  <2> QED
    BY <2>2, <2>3
<1>11. \A p \in places \cup {q} : o2[at2[p]] = Filling(o2[k].id, o2[k].depth, p)
  BY <1>1, <1>2, <1>3, <1>8
<1>12. Shows(o2, k, places \cup {q})
  BY <1>7, <1>9, <1>10, <1>11 DEF Shows
<1> QED
  BY <1>12 DEF o2
-----------------------------------------------------------------------------
\* A new element below the innermost frame, at the next of its places, becomes a
\* part of that frame's element and of no other.
Follows(fs, q) ==
  ~Before(q, q) /\ \A p \in Passed(fs[Len(fs)]) : Before(p, q) /\ ~Before(q, p)
Placed(i, fs, o, o2, q) ==
  /\ \A s \in DOMAIN fs : HasElement(fs, o2, s)
  /\ \A k \in DOMAIN o : o[k].row = 0 =>
       /\ Unfinished(fs, o2, k) <=> Unfinished(fs, o, k)
       /\ o[k].depth = Len(fs) + 1 => ~Open(o2, k)
       /\ ~Unfinished(fs, o, k) => Shows(o2, k, Filled(components[o[k].id]))
       /\ Unfinished(fs, o, k) =>
            /\ o[k].id = fs[o[k].depth].id
            /\ Shows(o2, k, IF o[k].depth = Len(fs) THEN Passed(fs[Len(fs)]) \cup {q}
                            ELSE Passed(fs[o[k].depth]))
  /\ \A m \in 2 .. Len(o2) : \E k \in 1 .. m - 1 : o2[k].row = 0 /\ m \in Parts(o2, k)
  /\ components[i] # None /\ o2 # <<>> /\ o2[1] = Element(i, 1)
LEMMA NewElement ==
  ASSUME NEW i, NEW fs \in Stacks, fs # <<>>, NEW o \in Seq(PageElement), Layout(i, fs, o),
         NEW e \in PageElement, NEW q, Follows(fs, q),
         e.depth = Len(fs) + 1, e = Filling(fs[Len(fs)].id, Len(fs), q)
  PROVE  Placed(i, fs, o, Append(o, e), q)
<1> DEFINE o2 == Append(o, e)
<1>1. PICK n \in Nat : n = Len(fs) /\ n >= 1 /\ DOMAIN fs = 1 .. n
  <2>1. fs \in Seq(Frame)
    BY DEF Stacks
  <2>2. Len(fs) \in Nat /\ Len(fs) # 0 /\ DOMAIN fs = 1 .. Len(fs)
    BY <2>1
  <2>3. Len(fs) >= 1
    BY <2>2
  <2> QED
    BY <2>2, <2>3
<1>2. PICK l \in Nat : l = Len(o) /\ DOMAIN o = 1 .. l
  OBVIOUS
<1>3. Len(o2) = l + 1 /\ \A m \in 1 .. l : o2[m] = o[m]
  BY <1>2
<1>4. ASSUME NEW k \in DOMAIN o
      PROVE  /\ o[k].depth \in Nat
             /\ Open(o2, k) <=> Open(o, k) /\ n + 1 > o[k].depth
             /\ Parts(o2, k) = Parts(o, k) \cup
                  IF Open(o, k) /\ n = o[k].depth THEN {Len(o) + 1} ELSE {}
  <2>1. o[k] \in PageElement
    OBVIOUS
  <2>2. o[k].depth \in Nat
    BY <2>1, DepthType
  <2>3. e.depth = o[k].depth + 1 <=> n = o[k].depth
    BY <1>1, <2>2
  <2> QED
    BY <1>1, <2>2, <2>3, PartsOfMore
<1> HIDE DEF o2
<1>5. ASSUME NEW s \in 1 .. n
      PROVE  \E k \in DOMAIN o : o[k] = Element(fs[s].id, s) /\ Open(o, k) /\ Open(o2, k)
  <2>1. PICK k \in DOMAIN o : o[k] = Element(fs[s].id, s) /\ Open(o, k)
    BY <1>1 DEF Layout, HasElement
  <2>2. o[k].depth = s
    BY <2>1 DEF Element
  <2> QED
    BY <1>1, <1>4, <2>1, <2>2
<1>6. \A s \in DOMAIN fs : HasElement(fs, o2, s)
  <2> TAKE s \in DOMAIN fs
  <2>1. PICK k \in DOMAIN o : o[k] = Element(fs[s].id, s) /\ Open(o2, k)
    BY <1>1, <1>5
  <2>2. k \in DOMAIN o2 /\ o2[k] = o[k]
    BY <1>2, <1>3 DEF o2
  <2> QED
    BY <2>1, <2>2 DEF HasElement
<1>7. ASSUME NEW k \in DOMAIN o, o[k].row = 0
      PROVE  /\ Unfinished(fs, o2, k) <=> Unfinished(fs, o, k)
             /\ o[k].depth = Len(fs) + 1 => ~Open(o2, k)
             /\ ~Unfinished(fs, o, k) => Shows(o2, k, Filled(components[o[k].id]))
             /\ Unfinished(fs, o, k) =>
                  /\ o[k].id = fs[o[k].depth].id
                  /\ Shows(o2, k, IF o[k].depth = Len(fs) THEN Passed(fs[Len(fs)]) \cup {q}
                                  ELSE Passed(fs[o[k].depth]))
  <2>1. ShowsSoFar(fs, o, k) /\ o2[k] = o[k]
    BY <1>2, <1>3, <1>7 DEF Layout
  <2>2. Unfinished(fs, o2, k) <=> Unfinished(fs, o, k)
    BY <1>1, <1>4, <2>1 DEF Unfinished
  <2>3. o[k].depth = Len(fs) + 1 => ~Open(o2, k)
    BY <1>1, <1>4
  <2>4. ASSUME ~Unfinished(fs, o, k) PROVE Shows(o2, k, Filled(components[o[k].id]))
    <3>1. Parts(o2, k) = Parts(o, k)
      <4>1. ~ (Open(o, k) /\ n = o[k].depth)
        BY <1>1, <2>4 DEF Unfinished
      <4> QED
        BY <1>4, <4>1
    <3>2. Shows(o, k, Filled(components[o[k].id]))
      BY <2>1, <2>4 DEF ShowsSoFar
    <3> QED
      BY <3>1, <3>2, ShowsSame DEF o2
  <2>5. ASSUME Unfinished(fs, o, k), o[k].depth = Len(fs)
        PROVE  o[k].id = fs[o[k].depth].id /\ Shows(o2, k, Passed(fs[Len(fs)]) \cup {q})
    <3>1. Parts(o2, k) = Parts(o, k) \cup {Len(o) + 1}
      BY <1>1, <1>4, <2>5 DEF Unfinished
    <3>2. o[k].id = fs[Len(fs)].id /\ Shows(o, k, Passed(fs[Len(fs)]))
      BY <2>1, <2>5 DEF ShowsSoFar
    <3>3. e = Filling(o[k].id, o[k].depth, q)
      BY <2>5, <3>2
    <3>4. \A p \in Passed(fs[Len(fs)]) : Before(p, q) /\ ~Before(q, p)
      BY DEF Follows
    <3>5. ~Before(q, q)
      BY DEF Follows
    <3>6. Shows(Append(o, e), k, Passed(fs[Len(fs)]) \cup {q})
      <4> DEFINE places == Passed(fs[Len(fs)])
      <4> HIDE DEF places
      <4>1. Shows(o, k, places) /\ \A p \in places : Before(p, q) /\ ~Before(q, p)
        BY <3>2, <3>4 DEF places
      <4>2. Shows(Append(o, e), k, places \cup {q})
        BY <3>1, <3>3, <3>5, <4>1, ShowsNext DEF o2
      <4> QED
        BY <4>2 DEF places
    <3> QED
      BY <2>5, <3>2, <3>6 DEF o2
  <2>6. ASSUME Unfinished(fs, o, k), o[k].depth # Len(fs)
        PROVE  o[k].id = fs[o[k].depth].id /\ Shows(o2, k, Passed(fs[o[k].depth]))
    <3>1. Parts(o2, k) = Parts(o, k)
      BY <1>1, <1>4, <2>6
    <3>2. o[k].id = fs[o[k].depth].id /\ Shows(o, k, Passed(fs[o[k].depth]))
      BY <2>1, <2>6 DEF ShowsSoFar
    <3> QED
      BY <3>1, <3>2, ShowsSame DEF o2
  <2> QED
    BY <2>2, <2>3, <2>4, <2>5, <2>6
<1>8. ASSUME NEW m \in 2 .. Len(o2) PROVE \E k \in 1 .. m - 1 : o2[k].row = 0 /\ m \in Parts(o2, k)
  <2>1. CASE m \in 2 .. l
    <3>1. PICK k \in 1 .. m - 1 : o[k].row = 0 /\ m \in Parts(o, k)
      BY <1>2, <2>1 DEF Layout
    <3>2. k \in DOMAIN o /\ k \in 1 .. l
      BY <1>2, <2>1
    <3> QED
      BY <1>3, <1>4, <3>1, <3>2
  <2>2. CASE m = l + 1
    <3>1. PICK k \in DOMAIN o : o[k] = Element(fs[n].id, n) /\ Open(o, k)
      BY <1>1, <1>5
    <3>2. o[k].row = 0 /\ o[k].depth = n
      BY <3>1 DEF Element
    <3>3. m \in Parts(o2, k)
      BY <1>2, <1>4, <2>2, <3>1, <3>2
    <3>4. k \in 1 .. m - 1 /\ o2[k] = o[k]
      BY <1>2, <1>3, <2>2
    <3> QED
      BY <3>2, <3>3, <3>4
  <2> QED
    BY <1>2, <1>3, <2>1, <2>2
<1>9. components[i] # None /\ o2 # <<>> /\ o2[1] = Element(i, 1)
  <2>1. o # <<>>
    BY <1>1, <1>5
  <2>2. components[i] # None /\ o[1] = Element(i, 1)
    BY <2>1 DEF Layout
  <2>3. l >= 1
    BY <1>2, <2>1
  <2> QED
    BY <1>3, <2>2, <2>3
<1> QED
  BY <1>6, <1>7, <1>8, <1>9 DEF o2, Placed

\* A frame that moves on without passing a place, and one that passes a place.
Moves(fs, fs2) ==
  /\ Len(fs2) = Len(fs)
  /\ \A s \in DOMAIN fs : /\ fs2[s].id = fs[s].id
                          /\ s # Len(fs) => Passed(fs2[s]) = Passed(fs[s])
LEMMA KeepLayout ==
  ASSUME NEW i, NEW fs \in Stacks, NEW fs2 \in Stacks, NEW o \in Seq(PageElement), Layout(i, fs, o),
         Moves(fs, fs2), fs # <<>> => Passed(fs2[Len(fs)]) = Passed(fs[Len(fs)])
  PROVE  Layout(i, fs2, o)
<1>1. PICK n \in Nat : n = Len(fs) /\ DOMAIN fs = 1 .. n /\ DOMAIN fs2 = 1 .. n /\ n = Len(fs2)
  <2>1. fs \in Seq(Frame) /\ fs2 \in Seq(Frame) /\ Len(fs2) = Len(fs)
    BY DEF Stacks, Moves
  <2> QED
    BY <2>1
<1>2. \A s \in 1 .. n : fs2[s].id = fs[s].id /\ Passed(fs2[s]) = Passed(fs[s])
  <2>1. n # 0 => fs # <<>>
    BY <1>1
  <2> QED
    BY <1>1, <2>1 DEF Moves
<1>3. \A s \in DOMAIN fs2 : HasElement(fs2, o, s)
  BY <1>1, <1>2 DEF Layout, HasElement
<1>4. ASSUME NEW k \in DOMAIN o, o[k].row = 0 PROVE ShowsSoFar(fs2, o, k)
  <2>1. ShowsSoFar(fs, o, k)
    BY <1>4 DEF Layout
  <2>2. Unfinished(fs2, o, k) <=> Unfinished(fs, o, k)
    BY <1>1 DEF Unfinished
  <2>3. Unfinished(fs, o, k) => o[k].depth \in 1 .. n
    <3>1. o[k] \in PageElement
      OBVIOUS
    <3> QED
      BY <1>1, <3>1, DepthType DEF Unfinished
  <2> QED
    BY <1>2, <2>1, <2>2, <2>3 DEF ShowsSoFar
<1> QED
  BY <1>3, <1>4 DEF Layout

\* The action of a row is one more element.
LEMMA EndLayout ==
  ASSUME NEW i, NEW fs \in Stacks, fs # <<>>, NEW o \in Seq(PageElement), Layout(i, fs, o),
         NEW e \in PageElement, NEW q, Follows(fs, q), e.row # 0,
         e.depth = Len(fs) + 1, e = Filling(fs[Len(fs)].id, Len(fs), q),
         NEW fs2 \in Stacks, Moves(fs, fs2),
         Passed(fs2[Len(fs)]) = Passed(fs[Len(fs)]) \cup {q}
  PROVE  Layout(i, fs2, Append(o, e))
<1> DEFINE o2 == Append(o, e)
<1>1. PICK n \in Nat : n = Len(fs) /\ DOMAIN fs = 1 .. n /\ DOMAIN fs2 = 1 .. n /\ n = Len(fs2)
  <2>1. fs \in Seq(Frame) /\ fs2 \in Seq(Frame) /\ Len(fs2) = Len(fs)
    BY DEF Stacks, Moves
  <2> QED
    BY <2>1
<1>2. \A s \in 1 .. n : fs2[s].id = fs[s].id /\ (s # n => Passed(fs2[s]) = Passed(fs[s]))
  BY <1>1 DEF Moves
<1>3. PICK l \in Nat : l = Len(o) /\ DOMAIN o = 1 .. l
  OBVIOUS
<1>4. /\ DOMAIN o2 = 1 .. l + 1 /\ o2[l + 1] = e /\ \A m \in 1 .. l : o2[m] = o[m]
      /\ \A m \in 1 .. l : o[m] \in PageElement
  BY <1>3
<1>5. Placed(i, fs, o, o2, q)
  BY NewElement
<1> HIDE DEF o2
<1>6. \A s \in DOMAIN fs2 : HasElement(fs2, o2, s)
  BY <1>1, <1>2, <1>5 DEF HasElement, Placed
<1>7. ASSUME NEW k \in DOMAIN o2, o2[k].row = 0
      PROVE  o2[k].depth <= MaxDepth /\ components[o2[k].id] # None /\ ShowsSoFar(fs2, o2, k)
  <2>1. k \in DOMAIN o /\ o2[k] = o[k] /\ o[k] \in PageElement
    BY <1>3, <1>4, <1>7
  <2>2. o[k].depth <= MaxDepth /\ components[o[k].id] # None
    BY <1>7, <2>1 DEF Layout
  <2>3. Unfinished(fs2, o2, k) <=> Unfinished(fs, o, k)
    BY <1>1, <1>5, <1>7, <2>1 DEF Unfinished, Placed
  <2>4. CASE ~Unfinished(fs, o, k)
    BY <1>5, <1>7, <2>1, <2>2, <2>3, <2>4 DEF ShowsSoFar, Placed
  <2>5. CASE Unfinished(fs, o, k)
    <3>1. o[k].depth \in 1 .. n
      BY <1>1, <2>1, <2>5, DepthType DEF Unfinished
    <3>2. o[k].id = fs2[o[k].depth].id /\ Shows(o2, k, Passed(fs2[o[k].depth]))
      BY <1>1, <1>2, <1>5, <1>7, <2>1, <2>5, <3>1 DEF Placed
    <3> QED
      BY <2>1, <2>2, <2>3, <2>5, <3>2 DEF ShowsSoFar
  <2> QED
    BY <2>4, <2>5
<1>8. Layout(i, fs2, o2)
  BY <1>5, <1>6, <1>7 DEF Layout, Placed
<1> QED
  BY <1>8 DEF o2

\* A component that is there gets a frame of its own.
LEMMA CellLayout ==
  ASSUME NEW i, NEW fs \in Stacks, fs # <<>>, NEW o \in Seq(PageElement), Layout(i, fs, o),
         NEW q, Follows(fs, q), NEW f \in Frame,
         Element(f.id, Len(fs) + 1) \in PageElement,
         Element(f.id, Len(fs) + 1) = Filling(fs[Len(fs)].id, Len(fs), q),
         NEW fs2 \in Stacks, Moves(fs, fs2),
         Passed(fs2[Len(fs)]) = Passed(fs[Len(fs)]) \cup {q},
         Passed(f) = {}, components[f.id] # None, Len(fs) < MaxDepth
  PROVE  Layout(i, Append(fs2, f), Append(o, Element(f.id, Len(fs) + 1)))
<1> DEFINE e == Element(f.id, Len(fs) + 1)
           o2 == Append(o, e)
           fs3 == Append(fs2, f)
<1>1. PICK n \in Nat : /\ n = Len(fs) /\ DOMAIN fs = 1 .. n /\ DOMAIN fs2 = 1 .. n /\ n = Len(fs2)
                       /\ fs2 \in Seq(Frame)
  <2>1. fs \in Seq(Frame) /\ fs2 \in Seq(Frame) /\ Len(fs2) = Len(fs)
    BY DEF Stacks, Moves
  <2> QED
    BY <2>1
<1>2. \A s \in 1 .. n : fs2[s].id = fs[s].id /\ (s # n => Passed(fs2[s]) = Passed(fs[s]))
  BY <1>1 DEF Moves
<1>3. PICK l \in Nat : l = Len(o) /\ DOMAIN o = 1 .. l
  OBVIOUS
<1>4. e \in PageElement /\ e.depth = n + 1 /\ e.row = 0 /\ e.id = f.id
  BY <1>1 DEF Element
<1>5. Placed(i, fs, o, o2, q)
  <2>1. e.depth = Len(fs) + 1
    BY <1>1, <1>4
  <2> QED
    BY <2>1, NewElement
<1>6. Open(o2, l + 1) /\ Shows(o2, l + 1, {})
  BY <1>3, PartsOfNew
<1> HIDE DEF e
<1>7. /\ DOMAIN o2 = 1 .. l + 1 /\ o2[l + 1] = e /\ \A m \in 1 .. l : o2[m] = o[m]
      /\ \A m \in 1 .. l : o[m] \in PageElement
  BY <1>3, <1>4
<1>8. /\ Len(fs3) = n + 1 /\ DOMAIN fs3 = 1 .. n + 1 /\ fs3[n + 1] = f
      /\ \A s \in 1 .. n : fs3[s] = fs2[s]
  BY <1>1
<1> HIDE DEF o2, fs3
<1>9. ASSUME NEW s \in DOMAIN fs3 PROVE HasElement(fs3, o2, s)
  <2>1. CASE s \in 1 .. n
    <3>1. HasElement(fs, o2, s) /\ fs3[s].id = fs[s].id
      BY <1>1, <1>2, <1>5, <1>8, <2>1 DEF Placed
    <3> QED
      BY <3>1 DEF HasElement
  <2>2. CASE s = n + 1
    BY <1>1, <1>6, <1>7, <1>8, <2>2 DEF HasElement, e
  <2> QED
    BY <1>8, <2>1, <2>2
<1>10. ASSUME NEW k \in DOMAIN o, o[k].row = 0
       PROVE  o2[k].depth <= MaxDepth /\ components[o2[k].id] # None /\ ShowsSoFar(fs3, o2, k)
  <2>1. o2[k] = o[k] /\ o[k] \in PageElement
    BY <1>3, <1>7
  <2>2. o[k].depth <= MaxDepth /\ components[o[k].id] # None
    BY <1>10 DEF Layout
  <2>3. o[k].depth \in Nat
    BY <2>1, DepthType
  <2>4. Unfinished(fs3, o2, k) <=> Unfinished(fs, o, k)
    <3>1. /\ Unfinished(fs, o2, k) <=> Unfinished(fs, o, k)
          /\ o[k].depth = n + 1 => ~Open(o2, k)
      BY <1>1, <1>5, <1>10 DEF Placed
    <3> QED
      BY <1>1, <1>8, <2>1, <2>3, <3>1 DEF Unfinished
  <2>5. CASE ~Unfinished(fs, o, k)
    BY <1>5, <1>10, <2>1, <2>2, <2>4, <2>5 DEF ShowsSoFar, Placed
  <2>6. CASE Unfinished(fs, o, k)
    <3>1. o[k].depth \in 1 .. n
      BY <1>1, <2>1, <2>6, DepthType DEF Unfinished
    <3>2. o[k].id = fs3[o[k].depth].id /\ Shows(o2, k, Passed(fs3[o[k].depth]))
      <4> DEFINE d == o[k].depth
      <4>1. /\ o[k].id = fs[d].id
            /\ d = n => Shows(o2, k, Passed(fs[n]) \cup {q})
            /\ d # n => Shows(o2, k, Passed(fs[d]))
        BY <1>1, <1>5, <1>10, <2>6 DEF Placed
      <4>2. d \in 1 .. n /\ fs3[d] = fs2[d]
        BY <1>8, <3>1
      <4> HIDE DEF d
      <4>3. o[k].id = fs3[d].id
        BY <1>2, <4>1, <4>2
      <4>4. Shows(o2, k, Passed(fs3[d]))
        <5>1. CASE d = n
          BY <1>1, <4>1, <4>2, <5>1
        <5>2. CASE d # n
          BY <1>2, <4>1, <4>2, <5>2
        <5> QED
          BY <5>1, <5>2
      <4> QED
        BY <4>3, <4>4 DEF d
    <3> QED
      BY <2>1, <2>2, <2>4, <2>6, <3>2 DEF ShowsSoFar
  <2> QED
    BY <2>5, <2>6
<1>11. /\ o2[l + 1].depth <= MaxDepth /\ components[o2[l + 1].id] # None
       /\ ShowsSoFar(fs3, o2, l + 1)
  <2>1. o2[l + 1].depth <= MaxDepth
    BY <1>1, <1>4, <1>7, MaxDepthAssumption
  <2>2. Unfinished(fs3, o2, l + 1)
    BY <1>4, <1>6, <1>7, <1>8 DEF Unfinished
  <2>3. fs3[o2[l + 1].depth] = f
    BY <1>4, <1>7, <1>8
  <2> QED
    BY <1>4, <1>6, <1>7, <2>1, <2>2, <2>3 DEF ShowsSoFar
<1>12. ASSUME NEW k \in DOMAIN o2, o2[k].row = 0
       PROVE  o2[k].depth <= MaxDepth /\ components[o2[k].id] # None /\ ShowsSoFar(fs3, o2, k)
  <2>1. CASE k = l + 1
    BY <1>11, <2>1
  <2>2. CASE k # l + 1
    <3>1. k \in DOMAIN o /\ o[k].row = 0
      BY <1>3, <1>7, <1>12, <2>2
    <3> QED
      BY <1>10, <3>1
  <2> QED
    BY <2>1, <2>2
<1>13. Layout(i, fs3, o2)
  BY <1>5, <1>9, <1>12 DEF Layout, Placed
<1> QED
  BY <1>13 DEF o2, fs3, e

\* The first component of a page.
LEMMA FirstLayout ==
  ASSUME NEW i \in Ids, components[i] # None, NEW f \in Frame, f.id = i, Passed(f) = {},
         Element(i, 1) \in PageElement
  PROVE  Layout(i, <<f>>, <<Element(i, 1)>>)
<1> DEFINE e == Element(i, 1)
           fs == <<f>>
           o == <<e>>
<1>1. e.row = 0 /\ e.depth = 1 /\ e.id = i
  BY DEF Element
<1>2. Open(Append(<<>>, e), Len(<<>>) + 1) /\ Shows(Append(<<>>, e), Len(<<>>) + 1, {})
  <2>1. <<>> \in Seq(PageElement)
    OBVIOUS
  <2> QED
    BY <2>1, PartsOfNew
<1>3. Append(<<>>, e) = o /\ Len(<<>>) + 1 = 1
  OBVIOUS
<1>4. Open(o, 1) /\ Shows(o, 1, {})
  BY <1>2, <1>3
<1> HIDE DEF e
<1>5. /\ DOMAIN fs = {1} /\ fs[1] = f /\ Len(fs) = 1
      /\ DOMAIN o = {1} /\ o[1] = e /\ Len(o) = 1 /\ o # <<>>
  OBVIOUS
<1> HIDE DEF fs, o
<1>6. HasElement(fs, o, 1)
  BY <1>4, <1>5 DEF HasElement, e
<1>7. ShowsSoFar(fs, o, 1)
  <2>1. fs[o[1].depth] = f /\ o[1].depth <= Len(fs) /\ o[1].id = f.id
    BY <1>1, <1>5
  <2>2. Shows(o, 1, Passed(fs[o[1].depth]))
    BY <1>4, <2>1
  <2> QED
    BY <1>4, <2>1, <2>2 DEF ShowsSoFar, Unfinished
<1>8. 2 .. Len(o) = {}
  BY <1>5
<1>9. Layout(i, fs, o)
  BY <1>1, <1>5, <1>6, <1>7, <1>8, MaxDepthAssumption DEF Layout, e
<1> QED
  BY <1>9 DEF fs, o, e

\* A frame that has passed all its places is finished, maybe with a last element.
LEMMA PopLayout ==
  ASSUME NEW i, NEW fs \in Stacks, fs # <<>>, NEW o \in Seq(PageElement), Layout(i, fs, o),
         Passed(fs[Len(fs)]) = Filled(components[fs[Len(fs)].id]),
         NEW fs2 \in Stacks, Len(fs2) = Len(fs) - 1, \A s \in DOMAIN fs2 : fs2[s] = fs[s]
  PROVE  Layout(i, fs2, o)
<1>1. PICK n \in Nat : n = Len(fs) /\ DOMAIN fs = 1 .. n /\ DOMAIN fs2 = 1 .. n - 1 /\ n - 1 = Len(fs2)
  <2>1. fs \in Seq(Frame) /\ fs2 \in Seq(Frame)
    BY DEF Stacks
  <2> QED
    BY <2>1
<1>2. \A s \in 1 .. n - 1 : s \in 1 .. n /\ fs2[s] = fs[s]
  BY <1>1
<1>3. \A s \in DOMAIN fs2 : HasElement(fs2, o, s)
  BY <1>1, <1>2 DEF HasElement, Layout
<1>4. ASSUME NEW k \in DOMAIN o, o[k].row = 0 PROVE ShowsSoFar(fs2, o, k)
  <2>1. ShowsSoFar(fs, o, k)
    BY <1>4 DEF Layout
  <2>2. o[k].depth \in Nat \ {0}
    <3>1. o[k] \in PageElement
      OBVIOUS
    <3> QED
      BY <3>1, DepthType
  <2>3. CASE ~Unfinished(fs, o, k)
    BY <1>1, <2>1, <2>2, <2>3 DEF ShowsSoFar, Unfinished
  <2>4. CASE Unfinished(fs, o, k) /\ o[k].depth = n
    BY <1>1, <2>1, <2>2, <2>4 DEF ShowsSoFar, Unfinished
  <2>5. CASE Unfinished(fs, o, k) /\ o[k].depth # n
    <3>1. o[k].depth \in 1 .. n - 1
      BY <1>1, <2>2, <2>5 DEF Unfinished
    <3> QED
      BY <1>1, <1>2, <2>1, <2>5, <3>1 DEF ShowsSoFar, Unfinished
  <2> QED
    BY <2>3, <2>4, <2>5
<1> QED
  BY <1>3, <1>4 DEF Layout

LEMMA PopEndLayout ==
  ASSUME NEW i, NEW fs \in Stacks, fs # <<>>, NEW o \in Seq(PageElement), Layout(i, fs, o),
         NEW e \in PageElement, NEW q, Follows(fs, q), e.row # 0,
         e.depth = Len(fs) + 1, e = Filling(fs[Len(fs)].id, Len(fs), q),
         Filled(components[fs[Len(fs)].id]) = Passed(fs[Len(fs)]) \cup {q},
         NEW fs2 \in Stacks, Len(fs2) = Len(fs) - 1, \A s \in DOMAIN fs2 : fs2[s] = fs[s]
  PROVE  Layout(i, fs2, Append(o, e))
<1> DEFINE o2 == Append(o, e)
<1>1. PICK n \in Nat : n = Len(fs) /\ DOMAIN fs = 1 .. n /\ DOMAIN fs2 = 1 .. n - 1 /\ n - 1 = Len(fs2)
  <2>1. fs \in Seq(Frame) /\ fs2 \in Seq(Frame)
    BY DEF Stacks
  <2> QED
    BY <2>1
<1>2. \A s \in 1 .. n - 1 : s \in 1 .. n /\ fs2[s] = fs[s]
  BY <1>1
<1>3. PICK l \in Nat : l = Len(o) /\ DOMAIN o = 1 .. l
  OBVIOUS
<1>4. /\ DOMAIN o2 = 1 .. l + 1 /\ o2[l + 1] = e /\ \A m \in 1 .. l : o2[m] = o[m]
      /\ \A m \in 1 .. l : o[m] \in PageElement
  BY <1>3
<1>5. Placed(i, fs, o, o2, q)
  BY NewElement
<1> HIDE DEF o2
<1>6. \A s \in DOMAIN fs2 : HasElement(fs2, o2, s)
  BY <1>1, <1>2, <1>5 DEF HasElement, Placed
<1>7. ASSUME NEW k \in DOMAIN o2, o2[k].row = 0
      PROVE  o2[k].depth <= MaxDepth /\ components[o2[k].id] # None /\ ShowsSoFar(fs2, o2, k)
  <2>1. k \in DOMAIN o /\ o2[k] = o[k] /\ o[k] \in PageElement
    BY <1>3, <1>4, <1>7
  <2>2. o[k].depth <= MaxDepth /\ components[o[k].id] # None
    BY <1>7, <2>1 DEF Layout
  <2>3. o[k].depth \in Nat \ {0}
    BY <2>1, DepthType
  <2>4. Unfinished(fs, o2, k) <=> Unfinished(fs, o, k)
    BY <1>5, <1>7, <2>1 DEF Placed
  <2>5. CASE ~Unfinished(fs, o, k)
    <3>1. Shows(o2, k, Filled(components[o2[k].id]))
      BY <1>5, <1>7, <2>1, <2>5 DEF Placed
    <3>2. ~Unfinished(fs2, o2, k)
      BY <1>1, <2>1, <2>3, <2>4, <2>5 DEF Unfinished
    <3> QED
      BY <2>1, <2>2, <3>1, <3>2 DEF ShowsSoFar
  <2>6. CASE Unfinished(fs, o, k) /\ o[k].depth = n
    <3>1. Shows(o2, k, Filled(components[o2[k].id]))
      BY <1>1, <1>5, <1>7, <2>1, <2>6 DEF Placed
    <3>2. ~Unfinished(fs2, o2, k)
      BY <1>1, <2>1, <2>3, <2>6 DEF Unfinished
    <3> QED
      BY <2>1, <2>2, <3>1, <3>2 DEF ShowsSoFar
  <2>7. CASE Unfinished(fs, o, k) /\ o[k].depth # n
    <3>1. o[k].depth \in 1 .. n - 1
      BY <1>1, <2>3, <2>7 DEF Unfinished
    <3>2. o2[k].id = fs2[o2[k].depth].id /\ Shows(o2, k, Passed(fs2[o2[k].depth]))
      BY <1>1, <1>2, <1>5, <1>7, <2>1, <2>7, <3>1 DEF Placed
    <3>3. Unfinished(fs2, o2, k)
      BY <1>1, <2>1, <2>4, <2>7, <3>1 DEF Unfinished
    <3> QED
      BY <2>1, <2>2, <3>2, <3>3 DEF ShowsSoFar
  <2> QED
    BY <2>5, <2>6, <2>7
<1>8. Layout(i, fs2, o2)
  BY <1>5, <1>6, <1>7 DEF Layout, Placed
<1> QED
  BY <1>8 DEF o2
-----------------------------------------------------------------------------
MInv == Inv /\ Making

LEMMA SameLayout ==
  ASSUME UNCHANGED components, Layout(root', stack', out')
  PROVE  Layout(root, stack, out)'
<1>1. \A i : IsActionButton(i)' <=> IsActionButton(i)
  BY DEF IsActionButton
<1>2. \A i : FirstButton(i)' = FirstButton(i)
  BY <1>1 DEF FirstButton
<1>3. \A i : ButtonIn(i)' = ButtonIn(i)
  BY <1>1, <1>2 DEF ButtonIn
<1>4. \A row : InferRowActionFromCells(row)' = InferRowActionFromCells(row)
  BY <1>3 DEF InferRowActionFromCells
<1>5. \A c, r : RowAction(c, r)' = RowAction(c, r)
  BY <1>4 DEF RowAction
<1>6. \A i, d, p : Filling(i, d, p)' = Filling(i, d, p)
  BY <1>5 DEF Filling
<1>7. \A o, k, places : Shows(o, k, places)' <=> Shows(o, k, places)
  BY <1>6 DEF Shows
<1>8. \A c : Filled(c)' = Filled(c)
  BY DEF Filled
<1>9. \A f : Passed(f)' = Passed(f)
  BY <1>8 DEF Passed
<1>10. \A fs, o, k : ShowsSoFar(fs, o, k)' <=> ShowsSoFar(fs, o, k)
  BY <1>7, <1>8, <1>9 DEF ShowsSoFar
<1> QED
  BY <1>10 DEF Layout

\* The innermost frame, its place in the path and one that replaces it.
LEMMA TopIs ==
  ASSUME Inv, stack # <<>>
  PROVE  /\ Len(stack) \in 1 .. MaxDepth /\ Len(stack) \in DOMAIN stack /\ Top = stack[Len(stack)]
         /\ stack \in Stacks /\ out \in Seq(PageElement)
         /\ Top \in Frame /\ Top.comp \in Component /\ Top.id \in Ids
         /\ Top.row \in 0 .. Len(Rows(Top.comp)) /\ Top.cell \in Nat \ {0}
         /\ Cells(Top.comp, Top.row) \in Seq(Ids)
         /\ Follows(stack, <<Top.row, Top.cell>>)
<1>1. stack \in Stacks /\ out \in Seq(PageElement)
  BY InvStacks DEF Inv, TypeOK
<1>2. stack \in Seq(Frame) /\ Len(stack) <= MaxDepth
  BY <1>1 DEF Stacks
<1>3. Len(stack) \in 1 .. MaxDepth /\ Len(stack) \in DOMAIN stack /\ Top = stack[Len(stack)]
  BY <1>2, MaxDepthAssumption DEF Top
<1>4. Top \in Frame /\ Top.row <= Len(Rows(Top.comp))
  BY <1>1, TopAndBelow
<1>5. Top.comp \in Component /\ Top.id \in Ids /\ Top.cell \in Nat \ {0} /\ Top.row \in Nat
  BY <1>4 DEF Frame
<1>6. Len(Rows(Top.comp)) \in Nat
  BY <1>5 DEF Rows, Component
<1>7. Top.row \in 0 .. Len(Rows(Top.comp))
  BY <1>4, <1>5, <1>6
<1>8. Cells(Top.comp, Top.row) \in Seq(Ids)
  BY <1>5, <1>7, CellsType
<1>9. ASSUME NEW p \in Passed(Top)
      PROVE  Before(p, <<Top.row, Top.cell>>) /\ ~Before(<<Top.row, Top.cell>>, p)
  <2>1. p[1] \in Nat /\ p[2] \in Nat
    BY <1>4, <1>6, PassedIs
  <2>2. Before(p, <<Top.row, Top.cell>>)
    BY DEF Passed
  <2> QED
    BY <1>5, <2>1, <2>2 DEF Before
<1>10. ~Before(<<Top.row, Top.cell>>, <<Top.row, Top.cell>>)
  BY <1>5 DEF Before
<1>11. Follows(stack, <<Top.row, Top.cell>>)
  BY <1>3, <1>9, <1>10 DEF Follows
<1> QED
  BY <1>1, <1>3, <1>4, <1>5, <1>7, <1>8, <1>11

LEMMA NewTop ==
  ASSUME Inv, stack # <<>>, NEW f \in Frame, f.id = Top.id, f.comp = Top.comp,
         f.row <= Len(Rows(f.comp))
  PROVE  LET fs == Append(Below, f) IN
         /\ fs \in Stacks /\ Moves(stack, fs) /\ fs[Len(stack)] = f
         /\ Len(fs) = Len(stack) /\ DOMAIN fs = DOMAIN stack
         /\ \A s \in DOMAIN stack : s # Len(stack) => fs[s] = stack[s]
<1> DEFINE fs == Append(Below, f)
<1>1. /\ Below \in Seq(Frame) /\ Len(Below) = Len(stack) - 1 /\ Len(stack) \in Nat \ {0}
      /\ \A s \in DOMAIN Below : Below[s] = stack[s]
      /\ stack \in Seq(Frame)
      /\ fs \in Stacks
  BY TopIs, TopAndBelow, MaxDepthAssumption DEF Stacks
<1>2. /\ Len(fs) = Len(stack) /\ DOMAIN fs = DOMAIN stack /\ fs[Len(stack)] = f
      /\ \A s \in DOMAIN stack : s # Len(stack) => fs[s] = Below[s] /\ s \in DOMAIN Below
  BY <1>1
<1>3. stack[Len(stack)] = Top
  BY DEF Top
<1> HIDE DEF fs
<1>4. \A s \in DOMAIN stack : s # Len(stack) => fs[s] = stack[s]
  BY <1>1, <1>2
<1>5. Moves(stack, fs)
  <2>1. \A s \in DOMAIN stack : fs[s].id = stack[s].id
    BY <1>2, <1>3, <1>4
  <2> QED
    BY <1>2, <1>4, <2>1 DEF Moves
<1> QED
  BY <1>1, <1>2, <1>4, <1>5 DEF fs

\* The path stays one when the innermost frame moves on, and when a component that
\* it names follows.
LEMMA PathMoves ==
  ASSUME NEW i, NEW fs, NEW fs2, Path(i, fs), Len(fs) \in Nat,
         DOMAIN fs = 1 .. Len(fs), DOMAIN fs2 = DOMAIN fs, fs # <<>> <=> fs2 # <<>>,
         \A s \in DOMAIN fs : fs2[s].id = fs[s].id /\ fs2[s].comp = fs[s].comp
  PROVE  Path(i, fs2)
<1>1. \A s \in DOMAIN fs : s > 1 => s - 1 \in DOMAIN fs
  OBVIOUS
<1>2. fs # <<>> => 1 \in DOMAIN fs
  OBVIOUS
<1> QED
  BY <1>1, <1>2 DEF Path

LEMMA PathGrows ==
  ASSUME NEW i, NEW fs \in Seq(Frame), Path(i, fs), NEW f \in Frame,
         f.comp = components[f.id],
         IF fs = <<>> THEN f.id = i ELSE f.id \in Refs(fs[Len(fs)].comp)
  PROVE  Path(i, Append(fs, f))
<1> DEFINE fs2 == Append(fs, f)
<1>1. PICK n \in Nat : n = Len(fs) /\ DOMAIN fs = 1 .. n
  OBVIOUS
<1>2. /\ DOMAIN fs2 = 1 .. n + 1 /\ fs2[n + 1] = f /\ \A s \in 1 .. n : fs2[s] = fs[s]
      /\ fs2 # <<>>
  BY <1>1
<1>3. fs = <<>> <=> n = 0
  BY <1>1
<1> HIDE DEF fs2
<1>4. \A s \in DOMAIN fs2 : fs2[s].comp = components[fs2[s].id]
  <2>1. \A s \in 1 .. n + 1 : s = n + 1 \/ s \in 1 .. n
    OBVIOUS
  <2> QED
    BY <1>1, <1>2, <2>1 DEF Path
<1>5. fs2[1].id = i
  <2>1. CASE n = 0
    BY <1>2, <1>3, <2>1
  <2>2. CASE n # 0
    BY <1>1, <1>2, <1>3, <2>2 DEF Path
  <2> QED
    BY <2>1, <2>2
<1>6. ASSUME NEW s \in DOMAIN fs2, s > 1 PROVE fs2[s].id \in Refs(fs2[s - 1].comp)
  <2>1. CASE s = n + 1
    <3>1. n \in 1 .. n /\ s - 1 = n /\ fs # <<>>
      BY <1>3, <1>6, <2>1
    <3> QED
      BY <1>1, <1>2, <2>1, <3>1
  <2>2. CASE s # n + 1
    <3>1. s \in 1 .. n /\ s - 1 \in 1 .. n
      BY <1>2, <1>6, <2>2
    <3> QED
      BY <1>1, <1>2, <1>6, <3>1 DEF Path
  <2> QED
    BY <2>1, <2>2
<1>7. Path(i, fs2)
  BY <1>2, <1>4, <1>5, <1>6 DEF Path
<1> QED
  BY <1>7 DEF fs2

\* A frame that was just put in place has passed nothing and all its cells are to
\* come.
LEMMA NewFrame ==
  ASSUME NEW i \in Ids, components[i] \in Component
  PROVE  LET f == AtRow(i, components[i], 0) IN
         /\ f \in Frame /\ f.id = i /\ f.comp = components[i] /\ Passed(f) = {}
         /\ f.cell <= Len(Cells(f.comp, f.row)) + 1
<1> DEFINE f == AtRow(i, components[i], 0)
<1>1. /\ f \in Frame /\ f.id = i /\ f.comp = components[i] /\ f.row = 0 /\ f.cell = 1
  BY DEF AtRow, Frame
<1>2. Len(Rows(components[i])) \in Nat
  BY DEF Rows, Component
<1>3. Len(Cells(components[i], 0)) \in Nat
  BY <1>2, CellsType
<1> QED
  BY <1>1, <1>3, PassedNone

\* A frame is at one of its cells, or past the last.  Each step of the walk keeps
\* Making: the next child or cell, the start, the end of a row, the end of a
\* component.
FrameCell(f) == f.cell <= Len(Cells(f.comp, f.row)) + 1
LEMMA NextMakes ==
  ASSUME MInv, RenderNext
  PROVE  Making'
<1> DEFINE n == Len(stack)
           q == <<Top.row, Top.cell>>
           i == Cells(Top.comp, Top.row)[Top.cell]
           f == [Top EXCEPT !.cell = @ + 1]
           fs == Append(Below, f)
           g == AtRow(i, components[i], 0)
<1>1. /\ stack # <<>> /\ Top.cell <= Len(Cells(Top.comp, Top.row)) /\ status = "walking"
      /\ RenderByID(fs, out, i) /\ UNCHANGED <<components, root, writes>>
  BY DEF RenderNext
<1>2. /\ n \in 1 .. MaxDepth /\ n \in DOMAIN stack /\ Top = stack[n]
      /\ stack \in Stacks /\ out \in Seq(PageElement)
      /\ Top \in Frame /\ Top.comp \in Component /\ Top.id \in Ids
      /\ Top.row \in 0 .. Len(Rows(Top.comp)) /\ Top.cell \in Nat \ {0}
      /\ Cells(Top.comp, Top.row) \in Seq(Ids)
      /\ Follows(stack, q)
  BY <1>1, TopIs DEF MInv
<1>3. i \in Ids /\ Top.cell \in 1 .. Len(Cells(Top.comp, Top.row))
  BY <1>1, <1>2
<1>4. /\ f \in Frame /\ f.id = Top.id /\ f.comp = Top.comp /\ f.row = Top.row
      /\ f.cell = Top.cell + 1
  BY <1>2 DEF Frame
<1>5. f.row <= Len(Rows(f.comp))
  <2>1. Len(Rows(Top.comp)) \in Nat
    BY <1>2 DEF Rows, Component
  <2> QED
    BY <1>2, <1>4, <2>1
<1> HIDE DEF f
<1>6. /\ fs \in Stacks /\ Moves(stack, fs) /\ fs[n] = f
      /\ Len(fs) = n /\ DOMAIN fs = DOMAIN stack
      /\ \A s \in DOMAIN stack : s # n => fs[s] = stack[s]
  BY <1>1, <1>4, <1>5, NewTop DEF MInv
<1>7. fs \in Seq(Frame) /\ DOMAIN stack = 1 .. n /\ DOMAIN fs = 1 .. n /\ fs # <<>>
  BY <1>2, <1>6 DEF Stacks
<1>8. FrameCell(f)
  <2>1. Len(Cells(Top.comp, Top.row)) \in Nat
    BY <1>2
  <2> QED
    BY <1>1, <1>2, <1>4, <2>1 DEF FrameCell
<1> HIDE DEF fs
<1>9. \A s \in DOMAIN fs : FrameCell(fs[s])
  <2>1. \A s \in DOMAIN stack : FrameCell(stack[s])
    BY DEF MInv, Making, FrameCell
  <2> QED
    BY <1>6, <1>8, <2>1
<1>10. ASSUME Undisturbed'
       PROVE  /\ Path(root, stack) /\ Layout(root, stack, out)
              /\ Path(root, fs) /\ Top.comp = components[Top.id]
  <2>1. Path(root, stack) /\ Layout(root, stack, out)
    BY <1>1, <1>10 DEF MInv, Making, Undisturbed
  <2>2. Path(root, fs)
    <3>1. \A s \in DOMAIN stack : fs[s].id = stack[s].id /\ fs[s].comp = stack[s].comp
      BY <1>2, <1>4, <1>6
    <3> QED
      BY <1>1, <1>2, <1>6, <1>7, <2>1, <3>1, PathMoves
  <2>3. Top.comp = components[Top.id]
    BY <1>2, <2>1 DEF Path
  <2> QED
    BY <2>1, <2>2, <2>3
<1>11. Passed(f) = Passed(Top) \cup IF components[i] = None THEN {} ELSE {q}
  BY <1>1, <1>2, <1>4, <1>5, PassedCell
<1>12. CASE components[i] = None
  <2>1. stack' = fs /\ out' = out /\ status' = "walking"
    BY <1>1, <1>12 DEF RenderByID
  <2>2. ASSUME Undisturbed' PROVE Layout(root, fs, out)
    BY <1>2, <1>6, <1>10, <1>11, <1>12, <2>2, KeepLayout
  <2>3. ASSUME Undisturbed' PROVE Layout(root, stack, out)'
    <3>1. Layout(root', stack', out')
      BY <1>1, <2>1, <2>2, <2>3
    <3> QED
      BY <1>1, <3>1, SameLayout
  <2>4. ASSUME Undisturbed' PROVE Path(root, stack)'
    BY <1>1, <1>10, <2>1, <2>4 DEF Path
  <2> QED
    BY <1>9, <2>1, <2>3, <2>4 DEF Making, FrameCell
<1>13. ASSUME components[i] # None
       PROVE  /\ components[i] \in Component /\ components[i].type \in TemplateTypes
              /\ i \in Refs(Top.comp)
  <2>1. components[i] \in Component
    BY <1>3, <1>13 DEF MInv, Inv, TypeOK
  <2> QED
    BY <1>2, <1>3, <2>1, EveryTypeHasATemplate, CellsAreRefs DEF Component
<1>14. CASE components[i] # None /\ n = MaxDepth
  <2>1. stack' = fs /\ out' = out /\ status' = "overflow"
    BY <1>1, <1>6, <1>13, <1>14 DEF RenderByID
  <2>2. ASSUME Undisturbed' PROVE Path(root, stack)' /\ TooDeep'
    <3>1. Path(root, stack)'
      BY <1>1, <1>10, <2>1, <2>2 DEF Path
    <3>2. i \in Refs(fs[MaxDepth].comp)
      BY <1>4, <1>6, <1>13, <1>14
    <3>3. TooDeep'
      BY <1>1, <1>6, <1>14, <2>1, <3>2 DEF TooDeep
    <3> QED
      BY <3>1, <3>3
  <2> QED
    BY <1>9, <2>1, <2>2 DEF Making, FrameCell
<1>15. CASE components[i] # None /\ n # MaxDepth
  <2>1. /\ stack' = Append(fs, g) /\ status' = "walking"
        /\ out' = Append(out, Element(i, n + 1))
    BY <1>1, <1>6, <1>13, <1>15 DEF RenderByID, Push
  <2>2. /\ g \in Frame /\ g.id = i /\ g.comp = components[i] /\ Passed(g) = {}
        /\ FrameCell(g)
    BY <1>3, <1>13, <1>15, NewFrame DEF FrameCell
  <2> HIDE DEF g
  <2>3. \A s \in DOMAIN Append(fs, g) : FrameCell(Append(fs, g)[s])
    <3>1. \A s \in DOMAIN Append(fs, g) :
            \/ s \in DOMAIN fs /\ Append(fs, g)[s] = fs[s]
            \/ Append(fs, g)[s] = g
      BY <1>7, <2>2
    <3> QED
      BY <1>9, <2>2, <3>1
  <2>4. ASSUME Undisturbed' PROVE Path(root, Append(fs, g))
    <3>1. g.id \in Refs(fs[Len(fs)].comp)
      BY <1>4, <1>6, <1>13, <1>15, <2>2
    <3> QED
      BY <1>7, <1>10, <2>2, <2>4, <3>1, PathGrows
  <2>5. ASSUME Undisturbed' PROVE Layout(root, Append(fs, g), Append(out, Element(g.id, n + 1)))
    <3>1. Element(g.id, n + 1) \in PageElement
      BY <1>2, <1>3, <2>2, MaxDepthAssumption DEF Element, PageElement
    <3>2. Element(g.id, n + 1) = Filling(stack[n].id, n, q)
      <4>1. ~IsEnd(Top.comp, q)
        BY <1>1, <1>2 DEF IsEnd
      <4>2. Cells(Top.comp, q[1])[q[2]] = i
        OBVIOUS
      <4> HIDE DEF i, q
      <4> QED
        BY <1>2, <1>10, <2>2, <2>5, <4>1, <4>2 DEF Filling
    <3>3. Passed(f) = Passed(Top) \cup {q}
      BY <1>11, <1>15
    <3>4. n < MaxDepth
      BY <1>2, <1>15, MaxDepthAssumption
    <3> HIDE DEF q, i
    <3> QED
      BY <1>1, <1>2, <1>6, <1>10, <1>15, <2>2, <2>5, <3>1, <3>2, <3>3, <3>4, CellLayout
  <2>6. ASSUME Undisturbed' PROVE Layout(root, stack, out)'
    <3>1. Layout(root', stack', out')
      BY <1>1, <2>1, <2>2, <2>5, <2>6
    <3> QED
      BY <1>1, <3>1, SameLayout
  <2>7. ASSUME Undisturbed' PROVE Path(root, stack)'
    BY <1>1, <2>1, <2>4, <2>7 DEF Path
  <2> QED
    BY <2>1, <2>3, <2>6, <2>7 DEF Making, FrameCell
<1> QED
  BY <1>12, <1>14, <1>15

LEMMA StartMakes ==
  ASSUME MInv, NEW i \in Ids, RenderSurface(i)
  PROVE  Making'
<1> DEFINE g == AtRow(i, components[i], 0)
<1>1. RenderByID(<<>>, <<>>, i) /\ root' = i /\ UNCHANGED <<components, writes>>
  BY DEF RenderSurface
<1>2. Len(<<>>) = 0 /\ DOMAIN <<>> = {} /\ <<>> \in Seq(Frame)
  OBVIOUS
<1>3. CASE components[i] = None
  <2>1. stack' = <<>> /\ out' = <<>> /\ status' = "walking"
    BY <1>1, <1>3 DEF RenderByID
  <2>2. Layout(i, <<>>, <<>>)
    BY <1>2, <1>3 DEF Layout
  <2>3. Layout(root, stack, out)'
    <3>1. Layout(root', stack', out')
      BY <1>1, <2>1, <2>2
    <3> QED
      BY <1>1, <3>1, SameLayout
  <2>4. Path(root, stack)'
    BY <1>2, <2>1 DEF Path
  <2> QED
    BY <1>2, <2>1, <2>3, <2>4 DEF Making
<1>4. CASE components[i] # None
  <2>1. components[i] \in Component /\ components[i].type \in TemplateTypes
    <3>1. components[i] \in Component
      BY <1>4 DEF MInv, Inv, TypeOK
    <3> QED
      BY <3>1, EveryTypeHasATemplate DEF Component
  <2>2. stack' = Append(<<>>, g) /\ out' = Append(<<>>, Element(i, 0 + 1)) /\ status' = "walking"
    BY <1>1, <1>2, <1>4, <2>1, MaxDepthAssumption DEF RenderByID, Push
  <2>3. /\ g \in Frame /\ g.id = i /\ g.comp = components[i] /\ Passed(g) = {}
        /\ FrameCell(g)
    BY <2>1, NewFrame DEF FrameCell
  <2> HIDE DEF g
  <2>4. stack' = <<g>> /\ out' = <<Element(i, 1)>> /\ DOMAIN stack' = {1} /\ stack'[1] = g
    BY <2>2
  <2>5. Path(i, Append(<<>>, g))
    <3>1. Path(i, <<>>)
      BY <1>2 DEF Path
    <3> QED
      BY <1>2, <2>3, <3>1, PathGrows
  <2>6. Layout(i, <<g>>, <<Element(i, 1)>>)
    <3>1. Element(i, 1) \in PageElement
      BY MaxDepthAssumption DEF Element, PageElement
    <3> QED
      BY <1>4, <2>3, <3>1, FirstLayout
  <2>7. Layout(root, stack, out)'
    <3>1. Layout(root', stack', out')
      BY <1>1, <2>4, <2>6
    <3> QED
      BY <1>1, <3>1, SameLayout
  <2>8. Path(root, stack)'
    BY <1>1, <2>2, <2>5 DEF Path
  <2>9. \A s \in DOMAIN stack' : FrameCell(stack'[s])
    BY <2>3, <2>4
  <2> QED
    BY <2>2, <2>7, <2>8, <2>9 DEF Making, FrameCell
<1> QED
  BY <1>3, <1>4

\* The innermost frame has come to the end of a row: it passes the end, and in a
\* table's row leaves the action there.
RowEnd == RowElement(Top.id, Len(stack) + 1, Top.row, RowAction(Top.comp, Top.row))
LEMMA RowEnds ==
  ASSUME MInv, stack # <<>>, Top.cell > Len(Cells(Top.comp, Top.row))
  PROVE  /\ Top.cell = Len(Cells(Top.comp, Top.row)) + 1
         /\ EndRow = IF Top.row = 0 THEN out ELSE Append(out, RowEnd)
         /\ Top.row # 0 =>
              /\ RowEnd \in PageElement /\ RowEnd.row # 0 /\ RowEnd.depth = Len(stack) + 1
              /\ Top.comp = components[Top.id] =>
                   RowEnd = Filling(stack[Len(stack)].id, Len(stack), <<Top.row, Top.cell>>)
<1>1. /\ Len(stack) \in 1 .. MaxDepth /\ Len(stack) \in DOMAIN stack /\ Top = stack[Len(stack)]
      /\ Top \in Frame /\ Top.comp \in Component /\ Top.id \in Ids
      /\ Top.row \in 0 .. Len(Rows(Top.comp)) /\ Top.cell \in Nat \ {0}
      /\ Cells(Top.comp, Top.row) \in Seq(Ids)
  BY TopIs DEF MInv
<1>2. Top.cell = Len(Cells(Top.comp, Top.row)) + 1
  <2>1. Top.cell <= Len(Cells(Top.comp, Top.row)) + 1
    BY <1>1 DEF MInv, Making
  <2>2. Len(Cells(Top.comp, Top.row)) \in Nat
    BY <1>1
  <2> QED
    BY <1>1, <2>1, <2>2
<1>3. ASSUME Top.row # 0
      PROVE  /\ RowEnd \in PageElement /\ RowEnd.row # 0 /\ RowEnd.depth = Len(stack) + 1
             /\ Top.comp = components[Top.id] =>
                  RowEnd = Filling(stack[Len(stack)].id, Len(stack), <<Top.row, Top.cell>>)
  <2>1. Top.row \in 1 .. Len(Rows(Top.comp))
    <3>1. Len(Rows(Top.comp)) \in Nat
      BY <1>1 DEF Rows, Component
    <3> QED
      BY <1>1, <1>3, <3>1
  <2>2. components \in [Ids -> Component \cup {None}]
    BY DEF MInv, Inv, TypeOK
  <2>3. RowAction(Top.comp, Top.row) \in Ids \cup {"own", None}
    BY <1>1, <2>1, <2>2, RowActionIs
  <2>4. RowEnd \in PageElement
    BY <1>1, <2>1, <2>3, MaxDepthAssumption DEF RowEnd, RowElement, PageElement
  <2>5. RowEnd.row # 0 /\ RowEnd.depth = Len(stack) + 1
    BY <1>3 DEF RowEnd, RowElement
  <2>6. IsEnd(Top.comp, <<Top.row, Top.cell>>)
    BY DEF IsEnd
  <2>7. ASSUME Top.comp = components[Top.id]
        PROVE  RowEnd = Filling(Top.id, Len(stack), <<Top.row, Top.cell>>)
    BY <2>6, <2>7 DEF Filling, RowEnd
  <2> QED
    BY <1>1, <2>4, <2>5, <2>7
<1>4. EndRow = IF Top.row = 0 THEN out ELSE Append(out, RowEnd)
  BY DEF EndRow, RowEnd
<1> QED
  BY <1>2, <1>3, <1>4

LEMMA RowMakes ==
  ASSUME MInv, NextRow
  PROVE  Making'
<1> DEFINE n == Len(stack)
           q == <<Top.row, Top.cell>>
           f == AtRow(Top.id, Top.comp, Top.row + 1)
           fs == Append(Below, f)
<1>1. /\ stack # <<>> /\ Top.cell > Len(Cells(Top.comp, Top.row)) /\ status = "walking"
      /\ Top.row < Len(Rows(Top.comp))
      /\ out' = EndRow /\ stack' = fs /\ UNCHANGED <<components, root, status, writes>>
  BY DEF NextRow
<1>2. /\ n \in 1 .. MaxDepth /\ n \in DOMAIN stack /\ Top = stack[n]
      /\ stack \in Stacks /\ out \in Seq(PageElement)
      /\ Top \in Frame /\ Top.comp \in Component /\ Top.id \in Ids
      /\ Top.row \in 0 .. Len(Rows(Top.comp)) /\ Top.cell \in Nat \ {0}
      /\ Follows(stack, q)
  BY <1>1, TopIs DEF MInv
<1>3. /\ f \in Frame /\ f.id = Top.id /\ f.comp = Top.comp /\ f.row = Top.row + 1 /\ f.cell = 1
      /\ f.row \in 0 .. Len(Rows(f.comp)) /\ f.row <= Len(Rows(f.comp))
  <2>1. Len(Rows(Top.comp)) \in Nat
    BY <1>2 DEF Rows, Component
  <2> QED
    BY <1>1, <1>2, <2>1 DEF Frame, AtRow
<1>4. FrameCell(f)
  <2>1. Len(Cells(f.comp, f.row)) \in Nat
    BY <1>2, <1>3, CellsType
  <2> QED
    BY <1>3, <2>1 DEF FrameCell
<1> HIDE DEF f
<1>5. /\ fs \in Stacks /\ Moves(stack, fs) /\ fs[n] = f
      /\ Len(fs) = n /\ DOMAIN fs = DOMAIN stack
      /\ \A s \in DOMAIN stack : s # n => fs[s] = stack[s]
  BY <1>1, <1>3, NewTop DEF MInv
<1>6. DOMAIN stack = 1 .. n /\ fs # <<>>
  BY <1>2, <1>5 DEF Stacks
<1> HIDE DEF fs
<1>7. \A s \in DOMAIN fs : FrameCell(fs[s])
  <2>1. \A s \in DOMAIN stack : FrameCell(stack[s])
    BY DEF MInv, Making, FrameCell
  <2> QED
    BY <1>4, <1>5, <2>1
<1>8. Passed(f) = Passed(Top) \cup End(Top)
  BY <1>1, <1>2, <1>3, RowEnds, PassedRow
<1>9. ASSUME Undisturbed' PROVE (Path(root, stack) /\ Layout(root, stack, out))'
  <2>1. Path(root, stack) /\ Layout(root, stack, out)
    BY <1>1, <1>9 DEF MInv, Making, Undisturbed
  <2>2. Path(root, fs)
    <3>1. \A s \in DOMAIN stack : fs[s].id = stack[s].id /\ fs[s].comp = stack[s].comp
      BY <1>2, <1>3, <1>5
    <3>2. n \in Nat /\ (stack # <<>> <=> fs # <<>>)
      BY <1>1, <1>2, <1>6
    <3> QED
      BY <1>5, <1>6, <2>1, <3>1, <3>2, PathMoves
  <2>3. Path(root, stack)'
    BY <1>1, <2>2 DEF Path
  <2>4. Layout(root, fs, EndRow)
    <3>1. CASE Top.row = 0
      <4>1. Passed(fs[n]) = Passed(stack[n]) /\ EndRow = out
        BY <1>1, <1>2, <1>5, <1>8, <3>1, RowEnds DEF End
      <4> QED
        BY <1>1, <1>2, <1>5, <2>1, <4>1, KeepLayout
    <3>2. CASE Top.row # 0
      <4>1. Top.comp = components[Top.id]
        BY <1>2, <2>1 DEF Path
      <4>2. Passed(fs[n]) = Passed(stack[n]) \cup {q} /\ EndRow = Append(out, RowEnd)
        BY <1>1, <1>2, <1>5, <1>8, <3>2, RowEnds DEF End
      <4>3. /\ RowEnd \in PageElement /\ RowEnd.row # 0 /\ RowEnd.depth = n + 1
            /\ RowEnd = Filling(stack[n].id, n, q)
        BY <1>1, <3>2, <4>1, RowEnds
      <4> HIDE DEF q
      <4> QED
        BY <1>1, <1>2, <1>5, <2>1, <4>2, <4>3, EndLayout
    <3> QED
      BY <3>1, <3>2
  <2>5. Layout(root, stack, out)'
    <3>1. Layout(root', stack', out')
      BY <1>1, <2>4
    <3> QED
      BY <1>1, <3>1, SameLayout
  <2> QED
    BY <2>3, <2>5
<1> QED
  BY <1>1, <1>7, <1>9 DEF Making, FrameCell

LEMMA TemplateMakes ==
  ASSUME MInv, ExecuteTemplate
  PROVE  Making'
<1> DEFINE n == Len(stack)
           q == <<Top.row, Top.cell>>
<1>1. /\ stack # <<>> /\ Top.cell > Len(Cells(Top.comp, Top.row)) /\ status = "walking"
      /\ Top.row = Len(Rows(Top.comp))
      /\ out' = EndRow /\ stack' = Below /\ UNCHANGED <<components, root, status, writes>>
  BY DEF ExecuteTemplate
<1>2. /\ n \in 1 .. MaxDepth /\ n \in DOMAIN stack /\ Top = stack[n]
      /\ stack \in Stacks /\ out \in Seq(PageElement)
      /\ Top \in Frame /\ Top.comp \in Component /\ Top.id \in Ids
      /\ Follows(stack, q)
  BY <1>1, TopIs DEF MInv
<1>3. Below \in Stacks /\ Len(Below) = n - 1 /\ \A s \in DOMAIN Below : Below[s] = stack[s]
  BY <1>1, <1>2, TopAndBelow
<1>4. DOMAIN stack = 1 .. n /\ DOMAIN Below = 1 .. n - 1
  BY <1>2, <1>3 DEF Stacks
<1>5. \A s \in DOMAIN Below : FrameCell(Below[s])
  <2>1. \A s \in DOMAIN stack : FrameCell(stack[s])
    BY DEF MInv, Making, FrameCell
  <2> QED
    BY <1>3, <1>4, <2>1
<1>6. Filled(Top.comp) = Passed(Top) \cup End(Top)
  BY <1>1, <1>2, RowEnds, PassedAll
<1>7. ASSUME Undisturbed' PROVE (Path(root, stack) /\ Layout(root, stack, out))'
  <2>1. Path(root, stack) /\ Layout(root, stack, out)
    BY <1>1, <1>7 DEF MInv, Making, Undisturbed
  <2>2. Path(root, Below)
    <3>1. Below # <<>> => 1 \in DOMAIN Below
      BY <1>3 DEF Stacks
    <3>2. \A s \in DOMAIN Below : s \in DOMAIN stack /\ (s > 1 => s - 1 \in DOMAIN Below)
      BY <1>2, <1>4
    <3> QED
      BY <1>1, <1>3, <2>1, <3>1, <3>2 DEF Path
  <2>3. Path(root, stack)'
    BY <1>1, <2>2 DEF Path
  <2>4. Top.comp = components[Top.id]
    BY <1>2, <2>1 DEF Path
  <2>5. Layout(root, Below, EndRow)
    <3>1. CASE Top.row = 0
      <4>1. Passed(stack[n]) = Filled(components[stack[n].id]) /\ EndRow = out
        BY <1>1, <1>2, <1>6, <2>4, <3>1, RowEnds DEF End
      <4> QED
        BY <1>1, <1>2, <1>3, <2>1, <4>1, PopLayout
    <3>2. CASE Top.row # 0
      <4>1. /\ Filled(components[stack[n].id]) = Passed(stack[n]) \cup {q}
            /\ EndRow = Append(out, RowEnd)
        BY <1>1, <1>2, <1>6, <2>4, <3>2, RowEnds DEF End
      <4>2. /\ RowEnd \in PageElement /\ RowEnd.row # 0 /\ RowEnd.depth = n + 1
            /\ RowEnd = Filling(stack[n].id, n, q)
        BY <1>1, <2>4, <3>2, RowEnds
      <4> HIDE DEF q
      <4> QED
        BY <1>1, <1>2, <1>3, <2>1, <4>1, <4>2, PopEndLayout
    <3> QED
      BY <3>1, <3>2
  <2>6. Layout(root, stack, out)'
    <3>1. Layout(root', stack', out')
      BY <1>1, <2>5
    <3> QED
      BY <1>1, <3>1, SameLayout
  <2> QED
    BY <2>3, <2>6
<1> QED
  BY <1>1, <1>5, <1>7 DEF Making, FrameCell

LEMMA InitMaking == Init => MInv
<1> SUFFICES ASSUME Init PROVE MInv
  OBVIOUS
<1>1. DOMAIN stack = {} /\ ~Undisturbed
  BY DEF Init, Undisturbed
<1> QED
  BY <1>1, InitInv DEF MInv, Making

LEMMA StepMaking == MInv /\ [Next]_vars => MInv'
<1> SUFFICES ASSUME MInv, [Next]_vars PROVE MInv'
  OBVIOUS
<1>1. Inv'
  BY StepInv DEF MInv
<1> SUFFICES Making'
  BY <1>1 DEF MInv
<1>2. ASSUME UNCHANGED stack, ~Undisturbed' PROVE Making'
  BY <1>2 DEF MInv, Making
<1>3. ASSUME UNCHANGED <<components, stack, out, root>>, status' # "overflow",
             Undisturbed' => Undisturbed /\ status # "overflow"
      PROVE  Making'
  <2>1. ASSUME Undisturbed' PROVE Path(root, stack)' /\ Layout(root, stack, out)'
    <3>1. Path(root, stack) /\ Layout(root, stack, out)
      BY <1>3, <2>1 DEF MInv, Making
    <3>2. Layout(root', stack', out')
      BY <1>3, <3>1
    <3> QED
      BY <1>3, <3>1, <3>2, SameLayout DEF Path
  <2> QED
    BY <1>3, <2>1 DEF MInv, Making
<1>4. ASSUME UNCHANGED vars PROVE Making'
  <2>1. UNCHANGED <<components, stack, out, root, status, writes>>
    BY <1>4 DEF vars, walk
  <2>2. CASE status = "overflow"
    <3>1. TooDeep => TooDeep'
      BY <2>1 DEF TooDeep
    <3>2. Path(root, stack) => Path(root, stack)'
      BY <2>1 DEF Path
    <3> QED
      BY <2>1, <2>2, <3>1, <3>2 DEF MInv, Making, Undisturbed
  <2>3. CASE status # "overflow"
    BY <1>3, <2>1, <2>3 DEF Undisturbed
  <2> QED
    BY <2>2, <2>3
<1>5. ASSUME NEW raw \in RawDefs, PutComponent(raw) PROVE Making'
  <2>1. UNCHANGED <<stack, status>> /\ writes \in 0 .. MaxWrites
    BY <1>5 DEF PutComponent, walk, MInv, Inv, TypeOK
  <2>2. ~Undisturbed'
    BY <1>5, <2>1, MaxWritesAssumption DEF PutComponent, Undisturbed
  <2> QED
    BY <1>2, <2>1, <2>2
<1>6. CASE ExecutePage
  <2>1. UNCHANGED <<components, stack, out, root>> /\ status' = "done"
    BY <1>6 DEF ExecutePage
  <2>2. Undisturbed' => Undisturbed /\ status # "overflow"
    BY <1>6 DEF ExecutePage, Undisturbed
  <2> QED
    BY <1>3, <2>1, <2>2
<1>7. CASE Return
  <2>1. ~Undisturbed'
    BY <1>7 DEF Return, Undisturbed
  <2>2. \A s \in DOMAIN stack' : FALSE
    BY <1>7 DEF Return
  <2> HIDE DEF Undisturbed
  <2> QED
    BY <2>1, <2>2 DEF Making
<1>8. ASSUME NEW i \in Ids, RenderSurface(i) PROVE Making'
  BY <1>8, StartMakes
<1>9. CASE Walk
  BY <1>6, <1>9, NextMakes, RowMakes, TemplateMakes DEF Walk
<1> QED
  BY <1>4, <1>5, <1>7, <1>8, <1>9 DEF Next, Overflowed
-----------------------------------------------------------------------------
\* What ShowsTheDocument says of the page, left by the walk.
LEMMA DoneShows ==
  ASSUME MInv
  PROVE  ShowsTheDocument
<1> SUFFICES ASSUME status = "done", writes = 0
             PROVE  /\ IF components[root] = None THEN out = <<>>
                       ELSE out # <<>> /\ out[1] = Element(root, 1)
                    /\ \A m \in 2 .. Len(out) :
                         \E k \in 1 .. m - 1 : out[k].row = 0 /\ m \in Parts(out, k)
                    /\ \A k \in DOMAIN out : out[k].row = 0 =>
                         /\ components[out[k].id] # None
                         /\ Shows(out, k, Filled(components[out[k].id]))
  BY DEF ShowsTheDocument
<1>1. Layout(root, <<>>, out) /\ out \in Seq(PageElement)
  BY DEF MInv, Inv, TypeOK, Making, Undisturbed
<1>2. ASSUME NEW k \in DOMAIN out PROVE ~Unfinished(<<>>, out, k)
  <2>1. out[k] \in PageElement /\ Len(<<>>) = 0
    BY <1>1
  <2> QED
    BY <2>1, DepthType DEF Unfinished
<1>3. \A k \in DOMAIN out : out[k].row = 0 => Shows(out, k, Filled(components[out[k].id]))
  BY <1>1, <1>2 DEF Layout, ShowsSoFar
<1> QED
  BY <1>1, <1>3 DEF Layout

\* A page made without a write in between is the document: every component below
\* the root that is there, in order, and the action of every row.
THEOREM PagesShowTheDocument == Spec => []ShowsTheDocument
  BY InitMaking, StepMaking, DoneShows, PTL DEF Spec
-----------------------------------------------------------------------------
\* Induction over sets of numbers.
LEMMA Induction ==
  ASSUME NEW S \in SUBSET Nat, 0 \in S, \A n \in S : n + 1 \in S
  PROVE  S = Nat
<1> DEFINE R == OpToRel(<, Nat)
<1> SUFFICES ASSUME Nat \ S # {} PROVE FALSE
  OBVIOUS
<1>1. PICK x \in Nat \ S : \A y \in Nat \ S : ~ (<<y, x>> \in R)
  <2> HIDE DEF R
  <2>1. IsWellFoundedOn(R, Nat)
    BY NatLessThanWellFounded DEF R
  <2> QED
    BY <2>1, WFMin, Zenon
<1>2. x - 1 \in Nat \ S /\ x - 1 < x /\ (x - 1) + 1 = x
  OBVIOUS
<1>3. <<x - 1, x>> \in R
  BY <1>2 DEF OpToRel
<1> QED
  BY <1>1, <1>2, <1>3

\* Induction along 0 .. n.
LEMMA StepByStep ==
  ASSUME NEW n \in Nat, NEW S, 0 \in S, \A k \in 1 .. n : k - 1 \in S => k \in S
  PROVE  \A k \in 0 .. n : k \in S
<1> DEFINE T == {k \in Nat : k <= n => k \in S}
<1>1. 0 \in T
  OBVIOUS
<1>2. \A k \in T : k + 1 \in T
  <2> TAKE k \in T
  <2> SUFFICES ASSUME k + 1 <= n PROVE k + 1 \in S
    OBVIOUS
  <2>1. k + 1 \in 1 .. n /\ (k + 1) - 1 = k /\ k \in S
    OBVIOUS
  <2> QED
    BY <2>1
<1>3. T \in SUBSET Nat
  OBVIOUS
<1>4. T = Nat
  <2> HIDE DEF T
  <2> QED
    BY <1>1, <1>2, <1>3, Induction
<1> QED
  BY <1>4

\* The components a component names are shown in one of its cells.
LEMMA RefsType ==
  ASSUME NEW c \in Component
  PROVE  Refs(c) \subseteq Ids
<1>1. Shown(c) \in Seq(Ids) /\ Rows(c) \in Seq(Seq(Ids))
  BY DEF Shown, Rows, Component
<1>2. \A r \in DOMAIN Rows(c) : Rows(c)[r] \in Seq(Ids)
  BY <1>1
<1>3. ASSUME NEW r \in DOMAIN Rows(c), NEW k \in DOMAIN Rows(c)[r]
      PROVE  Rows(c)[r][k] \in Ids
  <2>1. Rows(c)[r] \in Seq(Ids)
    BY <1>2
  <2> QED
    BY <2>1
<1>4. \A k \in DOMAIN Shown(c) : Shown(c)[k] \in Ids
  BY <1>1
<1> QED
  BY <1>3, <1>4 DEF Refs

LEMMA CellOfRef ==
  ASSUME NEW c \in Component, NEW j \in Refs(c)
  PROVE  \E r \in 0 .. Len(Rows(c)) : \E n \in 1 .. Len(Cells(c, r)) : Cells(c, r)[n] = j
<1>1. Shown(c) \in Seq(Ids) /\ Rows(c) \in Seq(Seq(Ids)) /\ Len(Rows(c)) \in Nat
  BY DEF Shown, Rows, Component
<1>2. CASE \E k \in DOMAIN Shown(c) : Shown(c)[k] = j
  <2>1. 0 \in 0 .. Len(Rows(c)) /\ Cells(c, 0) = Shown(c) /\ DOMAIN Shown(c) = 1 .. Len(Shown(c))
    BY <1>1 DEF Cells
  <2> QED
    BY <1>2, <2>1
<1>3. CASE \E r \in DOMAIN Rows(c) : \E k \in DOMAIN Rows(c)[r] : Rows(c)[r][k] = j
  <2>1. PICK r \in DOMAIN Rows(c) : \E k \in DOMAIN Rows(c)[r] : Rows(c)[r][k] = j
    BY <1>3
  <2>4. PICK k \in DOMAIN Rows(c)[r] : Rows(c)[r][k] = j
    BY <2>1
  <2>2. Rows(c)[r] \in Seq(Ids) /\ r \in 0 .. Len(Rows(c)) /\ r # 0
    BY <1>1
  <2>3. Cells(c, r) = Rows(c)[r] /\ k \in 1 .. Len(Rows(c)[r])
    BY <2>2 DEF Cells
  <2> QED
    BY <2>2, <2>3, <2>4
<1> QED
  BY <1>2, <1>3 DEF Refs

\* What stands at a place of a component that a page shows.
LEMMA PlaceShown ==
  ASSUME NEW k \in DOMAIN out, out \in Seq(PageElement), NEW places, Shows(out, k, places), NEW q \in places
  PROVE  \E m \in Parts(out, k) : m \in DOMAIN out /\ out[m] = Filling(out[k].id, out[k].depth, q)
<1>1. Parts(out, k) \subseteq DOMAIN out
  BY DEF Parts
<1> QED
  BY <1>1 DEF Shows

\* On a finished page each component is in the map, and what it names and is
\* there stands one level below it.
Finished == MInv /\ status = "done" /\ writes = 0
LEMMA ComponentShown ==
  ASSUME Finished, NEW k \in DOMAIN out, out[k].row = 0
  PROVE  /\ out[k].id \in Ids /\ out[k].depth \in 1 .. MaxDepth
         /\ components[out[k].id] \in Component /\ components[out[k].id] # None
         /\ Shows(out, k, Filled(components[out[k].id]))
<1>1. Layout(root, <<>>, out) /\ out \in Seq(PageElement)
  BY DEF Finished, MInv, Inv, TypeOK, Making, Undisturbed
<1>2. out[k] \in PageElement
  BY <1>1
<1>3. out[k].id \in Ids /\ out[k].depth \in 1 .. MaxDepth
  <2>1. out[k].id \in Ids /\ out[k].depth \in 1 .. MaxDepth + 1
    BY <1>2 DEF PageElement
  <2>2. out[k].depth <= MaxDepth
    BY <1>1 DEF Layout
  <2> QED
    BY <2>1, <2>2, MaxDepthAssumption
<1>4. components[out[k].id] # None /\ Shows(out, k, Filled(components[out[k].id]))
  BY DoneShows DEF Finished, ShowsTheDocument
<1>5. components[out[k].id] \in Component
  BY <1>3, <1>4 DEF Finished, MInv, Inv, TypeOK
<1> QED
  BY <1>3, <1>4, <1>5

OnPage(j, d) == \E m \in DOMAIN out : out[m] = Element(j, d)
LEMMA RefShown ==
  ASSUME Finished, NEW i, NEW d \in Nat, OnPage(i, d),
         NEW j \in Refs(components[i]), components[j] # None
  PROVE  OnPage(j, d + 1)
<1>1. PICK k \in DOMAIN out : out[k] = Element(i, d)
  BY DEF OnPage
<1>2. out[k].id = i /\ out[k].depth = d /\ out[k].row = 0
  BY <1>1 DEF Element
<1>3. components[i] \in Component /\ Shows(out, k, Filled(components[i]))
  BY <1>2, ComponentShown
<1>4. PICK r \in 0 .. Len(Rows(components[i])) :
        \E n \in 1 .. Len(Cells(components[i], r)) : Cells(components[i], r)[n] = j
  BY <1>3, CellOfRef
<1>5. PICK n \in 1 .. Len(Cells(components[i], r)) : Cells(components[i], r)[n] = j
  BY <1>4
<1>6. Len(Cells(components[i], r)) \in Nat /\ n \in Nat
  BY <1>3, CellsType
<1>7. <<r, n>> \in Filled(components[i])
  BY <1>3, <1>5, <1>6, FilledIs
<1>8. out \in Seq(PageElement)
  BY DEF Finished, MInv, Inv, TypeOK
<1>9. PICK m \in DOMAIN out : out[m] = Filling(i, d, <<r, n>>)
  <2> DEFINE places == Filled(components[i])
  <2>1. <<r, n>> \in places /\ Shows(out, k, places)
    BY <1>3, <1>7
  <2> HIDE DEF places
  <2> QED
    BY <1>2, <1>8, <2>1, PlaceShown
<1>10. Filling(i, d, <<r, n>>) = Element(j, d + 1)
  <2>1. ~IsEnd(components[i], <<r, n>>)
    BY <1>6 DEF IsEnd
  <2> QED
    BY <1>5, <2>1 DEF Filling
<1> QED
  BY <1>9, <1>10 DEF OnPage
-----------------------------------------------------------------------------
\* A walk along the components that visits each once more than there are comes to
\* one twice: on a page, it would be shown ever deeper below itself.
LEMMA NoCycleOnPage ==
  ASSUME IsFiniteSet(Ids), Finished
  PROVE  ~Cyclic
<1> DEFINE N == Cardinality(Ids)
<1> SUFFICES ASSUME NEW p \in [0 .. N -> Ids], p[0] = root,
                    \A k \in 0 .. N : components[p[k]] # None,
                    \A k \in 1 .. N : p[k] \in Refs(components[p[k - 1]])
             PROVE  FALSE
  BY DEF Cyclic
<1>1. N \in Nat
  BY FS_CardinalityType
<1> HIDE DEF N
<1>2. OnPage(root, 1)
  <2>1. components[root] # None
    BY <1>1
  <2>2. out # <<>> /\ out[1] = Element(root, 1) /\ out \in Seq(PageElement)
    BY <2>1, DoneShows DEF Finished, ShowsTheDocument, MInv, Inv, TypeOK
  <2>3. 1 \in DOMAIN out
    BY <2>2
  <2> QED
    BY <2>2, <2>3 DEF OnPage
<1>3. ASSUME NEW k \in 0 .. N PROVE OnPage(p[k], k + 1)
  <2> DEFINE S == {n \in 0 .. N : OnPage(p[n], n + 1)}
  <2>1. 0 \in S
    BY <1>1, <1>2
  <2>2. ASSUME NEW n \in 1 .. N, n - 1 \in S PROVE n \in S
    <3>1. OnPage(p[n - 1], n) /\ n \in Nat /\ n \in 0 .. N
      BY <1>1, <2>2
    <3>2. p[n] \in Refs(components[p[n - 1]]) /\ components[p[n]] # None
      BY <3>1
    <3>3. OnPage(p[n], n + 1)
      BY <3>1, <3>2, RefShown
    <3> QED
      BY <3>1, <3>3
  <2>3. \A n \in 0 .. N : n \in S
    <3> HIDE DEF S
    <3> QED
      BY <1>1, <2>1, <2>2, StepByStep
  <2> QED
    BY <2>3
<1>4. PICK a \in 0 .. N, b \in 0 .. N : a < b /\ p[a] = p[b]
  <2>1. IsFiniteSet(0 .. N) /\ Cardinality(0 .. N) = N + 1
    BY <1>1, FS_Interval
  <2>2. PICK x \in 0 .. N, y \in 0 .. N : x # y /\ p[x] = p[y]
    <3>1. Cardinality(Ids) < Cardinality(0 .. N)
      BY <1>1, <2>1 DEF N
    <3> QED
      BY <2>1, <3>1, FS_PigeonHole
  <2>3. x < y \/ y < x
    BY <1>1, <2>2
  <2> QED
    BY <2>2, <2>3
<1> DEFINE Deep(n) == \E j \in a .. b - 1 : OnPage(p[j], a + 1 + n)
           T == {n \in Nat : Deep(n)}
<1>5. 0 \in T
  <2>1. a \in a .. b - 1 /\ a + 1 + 0 = a + 1
    BY <1>1, <1>4
  <2> QED
    BY <1>3, <2>1
<1>6. ASSUME NEW n \in T PROVE n + 1 \in T
  <2>1. PICK j \in a .. b - 1 : OnPage(p[j], a + 1 + n)
    BY <1>6
  <2>2. /\ j + 1 \in 1 .. N /\ j + 1 \in 0 .. N /\ (j + 1) - 1 = j /\ a + 1 + n \in Nat
        /\ (a + 1 + n) + 1 = a + 1 + (n + 1)
    BY <1>1, <1>4
  <2>3. p[j + 1] \in Refs(components[p[j]]) /\ components[p[j + 1]] # None
    BY <2>2
  <2>4. OnPage(p[j + 1], a + 1 + (n + 1))
    BY <2>1, <2>2, <2>3, RefShown
  <2>5. CASE j + 1 = b
    <3>1. p[a] = p[j + 1]
      BY <1>4, <2>5
    <3>2. a \in a .. b - 1
      BY <1>1, <1>4
    <3> QED
      BY <2>4, <3>1, <3>2
  <2>6. CASE j + 1 # b
    <3>1. j + 1 \in a .. b - 1
      BY <1>1, <1>4, <2>6
    <3> QED
      BY <2>4, <3>1
  <2> QED
    BY <2>5, <2>6
<1>7. T = Nat
  <2>1. T \in SUBSET Nat
    OBVIOUS
  <2> HIDE DEF T
  <2> QED
    BY <1>5, <1>6, <2>1, Induction
<1>8. PICK j \in a .. b - 1 : OnPage(p[j], a + 1 + MaxDepth)
  BY <1>7, MaxDepthAssumption
<1>9. PICK m \in DOMAIN out : out[m] = Element(p[j], a + 1 + MaxDepth)
  BY <1>8 DEF OnPage
<1>10. out[m].row = 0 /\ out[m].depth = a + 1 + MaxDepth
  BY <1>9 DEF Element
<1>11. out[m].depth \in 1 .. MaxDepth
  BY <1>10, ComponentShown
<1> QED
  BY <1>1, <1>10, <1>11, MaxDepthAssumption

\* A stack that is too deep is such a walk.
LEMMA OverflowIsCycle ==
  ASSUME IsFiniteSet(Ids), Cardinality(Ids) <= MaxDepth, MInv, status = "overflow", writes = 0
  PROVE  Cyclic
<1> DEFINE N == Cardinality(Ids)
<1>1. N \in Nat
  BY FS_CardinalityType
<1>2. Path(root, stack) /\ TooDeep /\ stack \in Seq(Frame)
  BY DEF MInv, Making, Undisturbed, Inv, TypeOK
<1>3. /\ MaxDepth \in Nat \ {0} /\ DOMAIN stack = 1 .. MaxDepth /\ stack # <<>>
      /\ N <= MaxDepth
  BY <1>2, MaxDepthAssumption DEF TooDeep
<1> HIDE DEF N
<1>4. \A s \in 1 .. MaxDepth :
        /\ stack[s].id \in Ids /\ stack[s].comp = components[stack[s].id]
        /\ stack[s].comp \in Component /\ components[stack[s].id] # None
  <2> TAKE s \in 1 .. MaxDepth
  <2>1. stack[s] \in Frame /\ stack[s].comp = components[stack[s].id]
    BY <1>2, <1>3 DEF Path
  <2> QED
    BY <2>1, NoneAssumption DEF Frame
<1>5. PICK i \in Refs(stack[MaxDepth].comp) : components[i] # None
  BY <1>2 DEF TooDeep
<1>6. i \in Ids
  BY <1>3, <1>4, <1>5, RefsType
<1> DEFINE p == [k \in 0 .. N |-> IF k < MaxDepth THEN stack[k + 1].id ELSE i]
<1>7. \A k \in 0 .. N : k < MaxDepth => k + 1 \in 1 .. MaxDepth
  BY <1>1, <1>3
<1>8. p \in [0 .. N -> Ids] /\ \A k \in 0 .. N : components[p[k]] # None
  BY <1>4, <1>5, <1>6, <1>7
<1>9. p[0] = root
  <2>1. 0 \in 0 .. N /\ 0 < MaxDepth /\ 0 + 1 = 1
    BY <1>1, <1>3
  <2>2. p[0] = stack[1].id
    BY <2>1
  <2> QED
    BY <1>2, <1>3, <2>2 DEF Path
<1>10. ASSUME NEW k \in 1 .. N PROVE p[k] \in Refs(components[p[k - 1]])
  <2>1. /\ k \in 1 .. MaxDepth /\ k - 1 \in 0 .. N /\ k \in 0 .. N /\ k - 1 < MaxDepth
        /\ (k - 1) + 1 = k
    BY <1>1, <1>3
  <2>2. p[k - 1] = stack[k].id /\ components[p[k - 1]] = stack[k].comp
    BY <1>4, <2>1
  <2>3. CASE k < MaxDepth
    <3>1. k + 1 \in 1 .. MaxDepth /\ k + 1 > 1 /\ (k + 1) - 1 = k
      BY <1>3, <2>1, <2>3
    <3>2. p[k] = stack[k + 1].id
      BY <2>1, <2>3
    <3>3. stack[k + 1].id \in Refs(stack[(k + 1) - 1].comp)
      BY <1>2, <1>3, <3>1 DEF Path
    <3> QED
      BY <2>2, <3>1, <3>2, <3>3
  <2>4. CASE ~(k < MaxDepth)
    <3>1. k = MaxDepth /\ p[k] = i
      BY <1>3, <2>1, <2>4
    <3> QED
      BY <1>5, <2>2, <3>1
  <2> QED
    BY <2>3, <2>4
<1> HIDE DEF p
<1> QED
  BY <1>8, <1>9, <1>10 DEF Cyclic, N

\* Components that contain each other never make a page and, on a goroutine stack
\* that holds a path through all the components, nothing else overflows it.
THEOREM CyclesOverflow ==
  IsFiniteSet(Ids) /\ Cardinality(Ids) <= MaxDepth => (Spec => []CyclesNeverRender)
<1> SUFFICES ASSUME IsFiniteSet(Ids), Cardinality(Ids) <= MaxDepth
             PROVE  Spec => []CyclesNeverRender
  OBVIOUS
<1>1. MInv => CyclesNeverRender
  BY NoCycleOnPage, OverflowIsCycle DEF Finished, CyclesNeverRender
<1> QED
  BY <1>1, InitMaking, StepMaking, PTL DEF Spec
-----------------------------------------------------------------------------
\* An element with a row's action stands at the end of that row of a component.
LEMMA ActionAtEnd ==
  ASSUME Finished, NEW k \in DOMAIN out, out[k].action \in Ids
  PROVE  \E h \in DOMAIN out :
           /\ out[h].row = 0 /\ out[h].id = out[k].id /\ k \in Parts(out, h)
           /\ out[k].depth = out[h].depth + 1
           /\ out[k].row \in 1 .. Len(Rows(components[out[h].id]))
           /\ out[k].action = RowAction(components[out[h].id], out[k].row)
<1>1. PICK l \in Nat : l = Len(out) /\ DOMAIN out = 1 .. l
  BY DEF Finished, MInv, Inv, TypeOK
<1>2. k # 1
  <2>1. ASSUME k = 1 PROVE out[k].action = None
    <3>1. out # <<>>
      BY <1>1
    <3> QED
      BY <2>1, <3>1, DoneShows DEF Finished, ShowsTheDocument, Element
  <2> QED
    BY <2>1, NoneAssumption
<1>3. PICK h \in 1 .. k - 1 : out[h].row = 0 /\ k \in Parts(out, h)
  <2>1. k \in 2 .. Len(out)
    BY <1>1, <1>2
  <2> QED
    BY <2>1, DoneShows DEF Finished, ShowsTheDocument
<1>4. h \in DOMAIN out
  BY <1>1
<1> DEFINE c == components[out[h].id]
           places == Filled(c)
<1>5. out[h].id \in Ids /\ c \in Component /\ Shows(out, h, places)
  BY <1>3, <1>4, ComponentShown
<1> HIDE DEF places
<1>6. PICK p \in places : out[k] = Filling(out[h].id, out[h].depth, p)
  BY <1>3, <1>5 DEF Shows
<1>7. IsEnd(c, p)
  <2>1. ASSUME ~IsEnd(c, p) PROVE out[k].action = None
    BY <1>6, <2>1 DEF Filling, Element
  <2> QED
    BY <2>1, NoneAssumption
<1>8. out[k] = RowElement(out[h].id, out[h].depth + 1, p[1], RowAction(c, p[1]))
  BY <1>6, <1>7 DEF Filling
<1>9. p[1] \in 1 .. Len(Rows(c))
  <2>1. p = <<p[1], p[2]>> /\ p[1] \in 0 .. Len(Rows(c)) /\ p[2] \in 1 .. Len(Cells(c, p[1])) + 1
    BY <1>5, FilledIs DEF places
  <2>2. Len(Cells(c, p[1])) \in Nat /\ Len(Rows(c)) \in Nat
    BY <1>5, <2>1, CellsType
  <2>3. p[2] \in Nat /\ p[2] > Len(Cells(c, p[1]))
    BY <1>7, <2>1, <2>2 DEF IsEnd
  <2>4. <<p[1], p[2]>> \in Filled(c)
    BY <2>1 DEF places
  <2>5. p[1] # 0
    BY <1>5, <2>1, <2>2, <2>3, <2>4, FilledIs
  <2> QED
    BY <2>1, <2>2, <2>5
<1> QED
  BY <1>3, <1>4, <1>8, <1>9 DEF RowElement

\* A cell of a row that is there stands on the page between the end of the row
\* before and the end of its own.
InRow(j, k) ==
  j \in 1 .. k - 1 /\ \A m \in j .. k - 1 : out[m].row = 0 \/ out[m].depth > out[k].depth
LEMMA CellInRow ==
  ASSUME Finished, NEW k \in DOMAIN out, NEW h \in DOMAIN out,
         out[h].row = 0, k \in Parts(out, h), out[k].depth = out[h].depth + 1,
         NEW r \in 1 .. Len(Rows(components[out[h].id])), r = out[k].row,
         NEW n \in DOMAIN Rows(components[out[h].id])[r],
         components[Rows(components[out[h].id])[r][n]] # None
  PROVE  \E j \in DOMAIN out :
           InRow(j, k) /\ out[j] = Element(Rows(components[out[h].id])[r][n], out[k].depth)
<1> DEFINE c == components[out[h].id]
           places == Filled(c)
           d == out[h].depth
           q == <<r, n>>
<1>1. PICK l \in Nat : l = Len(out) /\ DOMAIN out = 1 .. l
  BY DEF Finished, MInv, Inv, TypeOK
<1>2. /\ out[h].id \in Ids /\ c \in Component /\ Shows(out, h, places) /\ d \in Nat
      /\ Rows(c) \in Seq(Seq(Ids)) /\ r \in 0 .. Len(Rows(c)) /\ r # 0
  <2>1. out[h].id \in Ids /\ c \in Component /\ Shows(out, h, places) /\ d \in 1 .. MaxDepth
    BY ComponentShown
  <2>2. Rows(c) \in Seq(Seq(Ids))
    BY <2>1 DEF Rows, Component
  <2> HIDE DEF c, places
  <2>3. r \in 0 .. Len(Rows(c)) /\ r # 0
    BY <2>2 DEF c
  <2> QED
    BY <2>1, <2>2, <2>3, MaxDepthAssumption
<1>3. /\ Cells(c, r) = Rows(c)[r] /\ n \in 1 .. Len(Cells(c, r)) /\ n \in Nat
      /\ Len(Cells(c, r)) \in Nat
  <2> HIDE DEF c
  <2>1. Rows(c)[r] \in Seq(Ids) /\ Cells(c, r) = Rows(c)[r]
    BY <1>2 DEF Cells
  <2>2. n \in DOMAIN Rows(c)[r]
    BY DEF c
  <2> QED
    BY <2>1, <2>2
<1>4. q \in places
  BY <1>2, <1>3, FilledIs
<1>5. \A p \in places : p = <<p[1], p[2]>> /\ p[1] \in Nat /\ p[2] \in 1 .. Len(Cells(c, p[1])) + 1
                        /\ Len(Cells(c, p[1])) \in Nat
  BY <1>2, FilledIs, CellsType
<1> HIDE DEF places, q
<1>6. PICK at \in [places -> Parts(out, h)] :
        /\ \A m \in Parts(out, h) : \E p \in places : at[p] = m
        /\ \A p1, p2 \in places : Before(p1, p2) => at[p1] < at[p2]
        /\ \A p \in places : out[at[p]] = Filling(out[h].id, d, p)
  BY <1>2 DEF Shows
<1>7. ASSUME NEW p \in places
      PROVE  IF out[at[p]].row = 0 THEN ~IsEnd(c, p) \/ p[1] = 0
             ELSE p = <<out[at[p]].row, Len(Cells(c, out[at[p]].row)) + 1>>
  <2>1. out[at[p]] = Filling(out[h].id, d, p)
    BY <1>6
  <2>2. CASE IsEnd(c, p)
    <3>1. out[at[p]].row = p[1]
      BY <2>1, <2>2 DEF Filling, RowElement
    <3>2. p[2] = Len(Cells(c, p[1])) + 1
      BY <1>5, <2>2 DEF IsEnd
    <3> HIDE DEF c
    <3> QED
      BY <1>5, <3>1, <3>2
  <2>3. CASE ~IsEnd(c, p)
    BY <2>1, <2>3 DEF Filling, Element
  <2> QED
    BY <2>2, <2>3
<1> DEFINE e == <<r, Len(Cells(c, r)) + 1>>
           j == at[q]
<1>8. e \in places /\ at[e] = k
  <2>1. PICK p \in places : at[p] = k
    BY <1>6
  <2>2. p = e
    BY <1>2, <1>7, <2>1
  <2> QED
    BY <2>1, <2>2
<1>9. j \in Parts(out, h) /\ out[j] = Element(Rows(c)[r][n], d + 1)
  <2>1. out[j] = Filling(out[h].id, d, q)
    BY <1>4, <1>6
  <2>2. ~IsEnd(c, q) /\ q[1] = r /\ q[2] = n
    BY <1>3 DEF IsEnd, q
  <2>3. out[j] = Element(Cells(c, r)[n], d + 1)
    BY <2>1, <2>2 DEF Filling
  <2> QED
    BY <1>3, <1>4, <1>6, <2>3
<1>10. j < k /\ j \in DOMAIN out /\ h < j
  <2>1. Before(q, e)
    BY <1>3 DEF Before, q
  <2>2. j < k
    BY <1>4, <1>6, <1>8, <2>1
  <2> QED
    BY <1>1, <1>9, <2>2 DEF Parts
<1>11. ASSUME NEW m \in j .. k - 1, out[m].row # 0, ~(out[m].depth > d + 1)
       PROVE  FALSE
  <2>1. m \in h + 1 .. k /\ m \in DOMAIN out
    BY <1>1, <1>10
  <2>2. out[m].depth > d /\ \A x \in h + 1 .. m : out[x].depth > d
    <3>1. \A x \in h + 1 .. k : out[x].depth > d
      BY DEF Parts
    <3>2. \A x \in h + 1 .. m : x \in h + 1 .. k
      BY <1>1, <2>1
    <3> QED
      BY <2>1, <3>1, <3>2
  <2>3. out[m].depth = d + 1
    <3>1. out[m] \in PageElement
      BY <2>1 DEF Finished, MInv, Inv, TypeOK
    <3>2. out[m].depth \in Nat
      BY <3>1, DepthType
    <3> QED
      BY <1>2, <1>11, <2>2, <3>2
  <2>4. m \in Parts(out, h)
    BY <1>1, <2>1, <2>2, <2>3 DEF Parts
  <2>5. PICK p \in places : at[p] = m
    BY <1>6, <2>4
  <2>6. p = <<p[1], p[2]>> /\ p[2] = Len(Cells(c, p[1])) + 1 /\ p[1] \in Nat /\ p[2] \in Nat
    <3>1. p = <<out[m].row, Len(Cells(c, out[m].row)) + 1>>
      BY <1>7, <1>11, <2>5
    <3> HIDE DEF c
    <3>2. p[1] = out[m].row /\ p[2] = Len(Cells(c, out[m].row)) + 1
      BY <3>1
    <3> QED
      BY <1>5, <3>2
  <2>7. ~Before(p, q)
    <3>1. ~(at[p] < j)
      BY <1>1, <1>10, <2>5
    <3> QED
      BY <1>4, <1>6, <3>1
  <2>8. ~Before(e, p)
    <3>1. ~(at[e] < at[p])
      BY <1>1, <1>8, <1>10, <2>5
    <3> QED
      BY <1>6, <1>8, <3>1
  <2>9. ~(p[1] < r)
    BY <2>7 DEF Before, q
  <2>10. ~(r < p[1])
    BY <2>8 DEF Before
  <2>11. p[1] = r
    BY <1>2, <2>6, <2>9, <2>10
  <2>12. p = e
    BY <2>6, <2>11
  <2> QED
    BY <1>1, <1>8, <1>10, <2>5, <2>12
<1>12. InRow(j, k)
  <2>1. j \in 1 .. k - 1
    BY <1>1, <1>10
  <2> QED
    BY <1>11, <2>1 DEF InRow
<1> QED
  BY <1>9, <1>10, <1>12

\* A child of a component that is there comes before whatever stands beside it.
LEMMA ChildInRow ==
  ASSUME Finished, NEW k \in DOMAIN out, NEW j \in DOMAIN out, InRow(j, k),
         out[j].row = 0, out[j].depth = out[k].depth,
         NEW i \in Ids, components[i] # None,
         NEW x \in DOMAIN Shown(components[out[j].id]), Shown(components[out[j].id])[x] = i
  PROVE  \E m \in DOMAIN out : InRow(m, k) /\ out[m] = Element(i, out[k].depth + 1)
<1> DEFINE c == components[out[j].id]
           places == Filled(c)
           q == <<0, x>>
<1>1. PICK l \in Nat : l = Len(out) /\ DOMAIN out = 1 .. l
  BY DEF Finished, MInv, Inv, TypeOK
<1>2. c \in Component /\ Shows(out, j, places) /\ out \in Seq(PageElement)
  BY ComponentShown DEF Finished, MInv, Inv, TypeOK
<1>3. /\ Len(Rows(c)) \in Nat /\ 0 \in 0 .. Len(Rows(c)) /\ Cells(c, 0) = Shown(c)
      /\ x \in 1 .. Len(Cells(c, 0)) /\ x \in Nat /\ Len(Cells(c, 0)) \in Nat
  <2>1. Shown(c) \in Seq(Ids) /\ Rows(c) \in Seq(Seq(Ids))
    BY <1>2 DEF Shown, Rows, Component
  <2> HIDE DEF c
  <2>2. x \in DOMAIN Shown(c)
    BY DEF c
  <2> QED
    BY <2>1, <2>2 DEF Cells
<1>4. q \in places
  BY <1>2, <1>3, FilledIs
<1>5. Filling(out[j].id, out[j].depth, q) = Element(i, out[k].depth + 1)
  BY <1>3 DEF Filling, IsEnd
<1> HIDE DEF places, q
<1>6. PICK m \in Parts(out, j) : m \in DOMAIN out /\ out[m] = Element(i, out[k].depth + 1)
  BY <1>2, <1>4, <1>5, PlaceShown
<1>7. j < m
  BY <1>1 DEF Parts
<1>8. m < k
  <2> SUFFICES ASSUME ~(m < k) PROVE FALSE
    OBVIOUS
  <2>1. k \in j + 1 .. m
    BY <1>1, <1>6 DEF InRow
  <2>2. out[k].depth > out[j].depth
    BY <2>1 DEF Parts
  <2>3. out[k].depth \in Nat
    <3>1. out[k] \in PageElement
      BY <1>2
    <3> QED
      BY <3>1, DepthType
  <2> QED
    BY <2>2, <2>3
<1>9. InRow(m, k)
  <2>1. m \in 1 .. k - 1 /\ \A y \in m .. k - 1 : y \in j .. k - 1
    BY <1>1, <1>6, <1>7, <1>8
  <2> QED
    BY <2>1 DEF InRow
<1> QED
  BY <1>6, <1>9

LEMMA ActsAsButton ==
  ASSUME MInv
  PROVE  RowActsAsItsButton
<1> DEFINE Row(k) == Rows(components[out[k].id])[out[k].row]
<1> SUFFICES ASSUME status = "done", writes = 0, NEW k \in DOMAIN out, out[k].action \in Ids,
                    \A n \in DOMAIN Row(k) : ~HasTemplateAndList(Row(k)[n])
             PROVE  \E j \in 1 .. k - 1 :
                      /\ out[j] \in {Element(out[k].action, out[k].depth),
                                     Element(out[k].action, out[k].depth + 1)}
                      /\ \A m \in j .. k - 1 : out[m].row = 0 \/ out[m].depth > out[k].depth
  BY DEF RowActsAsItsButton
<1>1. Finished
  BY DEF Finished
<1>2. PICK h \in DOMAIN out :
        /\ out[h].row = 0 /\ out[h].id = out[k].id /\ k \in Parts(out, h)
        /\ out[k].depth = out[h].depth + 1
        /\ out[k].row \in 1 .. Len(Rows(components[out[h].id]))
        /\ out[k].action = RowAction(components[out[h].id], out[k].row)
  BY <1>1, ActionAtEnd
<1> DEFINE c == components[out[h].id]
           r == out[k].row
           a == out[k].action
<1>3. c \in Component /\ Rows(c)[r] = Row(k) /\ Row(k) \in Seq(Ids) /\ r \in 1 .. Len(Rows(c))
  <2>1. c \in Component
    BY <1>1, <1>2, ComponentShown
  <2>2. Rows(c) \in Seq(Seq(Ids)) /\ r \in 1 .. Len(Rows(c)) /\ Rows(c)[r] = Row(k)
    BY <1>2, <2>1 DEF Rows, Component
  <2> HIDE DEF c, r
  <2>3. Rows(c)[r] \in Seq(Ids)
    BY <2>2
  <2> QED
    BY <2>1, <2>2, <2>3
<1>4. components \in [Ids -> Component \cup {None}]
  BY DEF MInv, Inv, TypeOK
<1>5. PICK n \in DOMAIN Rows(c)[r] : a = ButtonIn(Rows(c)[r][n]) /\ ButtonIn(Rows(c)[r][n]) # None
  <2>1. a = RowAction(c, r) /\ a \in Ids
    BY <1>2
  <2> HIDE DEF a, c, r, Row
  <2> QED
    BY <1>3, <1>4, <2>1, RowActionIs
<1> DEFINE i == Rows(c)[r][n]
<1>6. i \in Ids /\ ~HasTemplateAndList(i)
  BY <1>3
<1>7. /\ IsActionButton(a) /\ components[i] # None
      /\ \/ a = i
         \/ /\ components[i].type = "Row"
            /\ \E x \in DOMAIN components[i].children : components[i].children[x] = a
  BY <1>4, <1>5, <1>6, ButtonInIs
<1>8. PICK j \in DOMAIN out : InRow(j, k) /\ out[j] = Element(i, out[k].depth)
  BY <1>1, <1>2, <1>3, <1>7, CellInRow
<1>9. CASE a = i
  BY <1>8, <1>9 DEF InRow
<1>10. CASE components[i].type = "Row" /\ \E x \in DOMAIN components[i].children : components[i].children[x] = a
  <2>1. PICK x \in DOMAIN components[i].children : components[i].children[x] = a
    BY <1>10
  <2>2. components[i] \in Component /\ components[i].children \in Seq(Ids)
    BY <1>4, <1>6, <1>7 DEF Component
  <2>3. components[i].children # <<>>
    <3> DEFINE ids == components[i].children
    <3>1. ids \in Seq(Ids) /\ x \in DOMAIN ids
      BY <2>1, <2>2
    <3> HIDE DEF ids
    <3>2. ids # <<>>
      BY <3>1
    <3> QED
      BY <3>2 DEF ids
  <2>4. Shown(components[i]) = components[i].children
    BY <1>6, <1>7, <1>10, <2>3 DEF HasTemplateAndList, Shown, Layouts
  <2>5. out[j].row = 0 /\ out[j].id = i /\ out[j].depth = out[k].depth
    BY <1>8 DEF Element
  <2>6. components[a] # None
    BY <1>7 DEF IsActionButton
  <2> HIDE DEF i, a
  <2>7. /\ x \in DOMAIN Shown(components[out[j].id]) /\ Shown(components[out[j].id])[x] = a
        /\ a \in Ids
    BY <2>1, <2>4, <2>5 DEF a
  <2>8. PICK m \in DOMAIN out : InRow(m, k) /\ out[m] = Element(a, out[k].depth + 1)
    BY <1>1, <1>8, <2>5, <2>6, <2>7, ChildInRow
  <2> QED
    BY <2>8 DEF InRow, a
<1> QED
  BY <1>7, <1>9, <1>10

\* The action a table row infers is that of a button the row shows: the first that
\* inference finds is among the elements between the row before and the row's end.
THEOREM InferredActionsShow == Spec => []RowActsAsItsButton
  BY InitMaking, StepMaking, ActsAsButton, PTL DEF Spec
=============================================================================
