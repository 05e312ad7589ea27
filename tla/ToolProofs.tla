----------------------------- MODULE ToolProofs -----------------------------
(***************************************************************************)
(* Proofs about ToolContracts, for any surfaces, payloads and definitions. *)
(***************************************************************************)
EXTENDS ToolContracts, SequenceTheorems, WellFoundedInduction, TLAPS

\* A set of line numbers has a first one.
LEMMA FirstExists ==
  ASSUME NEW I \in SUBSET Nat, I # {}
  PROVE  Min(I) \in I /\ \A i \in I : Min(I) <= i
<1> DEFINE R == {ss \in Nat \X Nat : ss[1] < ss[2]}
<1>1. IsWellFoundedOn(R, Nat)
  BY NatLessThanWellFounded DEF OpToRel
<1>2. PICK x \in I : \A y \in I : ~ (<<y, x>> \in R)
  <2> HIDE DEF R
  <2> QED
    BY <1>1, WFMin, Zenon
<1>3. ASSUME NEW y \in I PROVE x =< y
  <2>1. <<y, x>> \in Nat \X Nat /\ <<y, x>>[1] = y /\ <<y, x>>[2] = x
    OBVIOUS
  <2>2. ~ (y < x)
    BY <1>2, <2>1
  <2> QED
    BY <2>2
<1> QED
  BY <1>3 DEF Min

\* Validation answers "ok" or with the code of the first fault.
LEMMA ValidateCodes ==
  ASSUME NEW body
  PROVE  ValidateJSONL(body) \in {"ok", "DECODE_ERROR", "VALIDATION_ERROR", "SCAN_ERROR"}
<1> DEFINE I == {i \in 1 .. Len(body) : IsFault(body[i])}
<1>1. CASE I = {}
  <2>1. SelectInSeq(body, IsFault) = 0
    BY <1>1 DEF SelectInSeq
  <2> QED
    BY <2>1 DEF ValidateJSONL
<1>2. CASE I # {}
  <2>1. Min(I) \in I
    <3>1. I \in SUBSET Nat
      OBVIOUS
    <3> HIDE DEF I
    <3> QED
      BY <1>2, <3>1, FirstExists
  <2>2. SelectInSeq(body, IsFault) = Min(I)
    BY <1>2 DEF SelectInSeq
  <2>3. body[Min(I)].kind \in Faults /\ Min(I) # 0
    BY <2>1 DEF IsFault
  <2>4. ValidateJSONL(body) = FaultCode[body[Min(I)].kind]
    BY <2>2, <2>3 DEF ValidateJSONL
  <2> QED
    BY <2>3, <2>4 DEF FaultCode, Faults
<1> QED
  BY <1>1, <1>2

\* Every answer is one of those its tool declares.
LEMMA AnswersDeclared == ASSUME Next PROVE CodesDeclared'
<1> USE DEF Answer, CodesDeclared, ErrorCodes, Tools
<1>1. ASSUME NEW t \in Tools \ (ReadTools \cup {"reset_runtime", "list_composites", "examples_list"}),
             Refuse(t)
      PROVE  CodesDeclared'
  BY <1>1 DEF Refuse, GetTools, JSONLTools, SurfaceTools, FileTools, ReadTools
<1>2. ASSUME NEW t \in ReadTools, Read(t) PROVE CodesDeclared'
  BY <1>2 DEF Read, ReadTools, GetTools
<1>3. ASSUME NEW name, DescribeTool(name) PROVE CodesDeclared'
  BY <1>3 DEF DescribeTool, GetTools
<1>4. ASSUME NEW b, ValidateTool(b) PROVE CodesDeclared'
  BY <1>4, ValidateCodes DEF ValidateTool, JSONLTools, GetTools
<1>5. ASSUME NEW t \in {"apply_jsonl", "render"}, NEW b, ApplyTool(t, b) PROVE CodesDeclared'
  BY <1>5 DEF ApplyTool, JSONLTools, GetTools
<1>6. ASSUME NEW t \in GetTools, NEW a, GetSurface(t, a) PROVE CodesDeclared'
  BY <1>6 DEF GetSurface, GetTools
<1>7. ASSUME NEW a, RenderSurfaceTool(a) \/ CreateSurface(a) \/ DeleteSurface(a)
      PROVE  CodesDeclared'
  BY <1>7 DEF RenderSurfaceTool, CreateSurface, DeleteSurface, SurfaceTools, GetTools
<1>8. ResetRuntime => CodesDeclared'
  BY DEF ResetRuntime, SurfaceTools, GetTools, ReadTools
<1>9. ASSUME NEW a, NEW c, NEW row, InspectTableRow(a, c, row) PROVE CodesDeclared'
  BY <1>9 DEF InspectTableRow, SurfaceTools, GetTools
<1>10. ASSUME NEW t \in {"list_composites", "examples_list"}, NEW ok \in BOOLEAN, ListFiles(t, ok)
       PROVE  CodesDeclared'
  BY <1>10 DEF ListFiles, FileTools, GetTools
<1>11. ASSUME NEW ok \in BOOLEAN, NEW file \in {"present", "absent", "unreadable"},
              FetchComposite(ok, file) \/ ExampleGet(ok, file)
       PROVE  CodesDeclared'
  BY <1>11 DEF FetchComposite, ExampleGet, FileTools, GetTools
<1> QED
  BY <1>1, <1>2, <1>3, <1>4, <1>5, <1>6, <1>7, <1>8, <1>9, <1>10, <1>11 DEF Next

\* A client can rely on the document: whatever the payloads and surfaces are, no
\* call fails with a code that its tool's entry does not list.
THEOREM CodesAreDeclared == Spec => []CodesDeclared
<1>1. Init => CodesDeclared
  BY DEF Init, CodesDeclared
<1>2. CodesDeclared /\ [Next]_vars => CodesDeclared'
  BY AnswersDeclared DEF vars, CodesDeclared
<1> QED
  BY <1>1, <1>2, PTL DEF Spec

-----------------------------------------------------------------------------
(* Folds: the intermediate results (the same five lemmas as in             *)
(* DataModelProofs).                                                       *)

\* Induction, on the set of the numbers that have a property.
LEMMA Induction ==
  ASSUME NEW S \in SUBSET Nat, 0 \in S, \A n \in S : n + 1 \in S
  PROVE  S = Nat
<1> DEFINE R == OpToRel(<, Nat)
<1> SUFFICES ASSUME Nat \ S # {} PROVE FALSE
  OBVIOUS
<1>1. PICK x \in Nat \ S : \A y \in Nat \ S : ~ (<<y, x>> \in R)
  <2> HIDE DEF R
  <2>1. IsWellFoundedOn(R, Nat)
    BY NatLessThanWellFounded DEF R
  <2> QED
    BY <2>1, WFMin, Zenon
<1>2. x - 1 \in Nat \ S /\ x - 1 < x /\ (x - 1) + 1 = x
  OBVIOUS
<1>3. <<x - 1, x>> \in R
  BY <1>2 DEF OpToRel
<1> QED
  BY <1>1, <1>2, <1>3

\* Induction along 0 .. n.
LEMMA StepByStep ==
  ASSUME NEW n \in Nat, NEW S, 0 \in S, \A k \in 1 .. n : k - 1 \in S => k \in S
  PROVE  \A k \in 0 .. n : k \in S
<1> DEFINE T == {k \in Nat : k <= n => k \in S}
<1>1. 0 \in T
  OBVIOUS
<1>2. \A k \in T : k + 1 \in T
  <2> TAKE k \in T
  <2> SUFFICES ASSUME k + 1 <= n PROVE k + 1 \in S
    OBVIOUS
  <2>1. k + 1 \in 1 .. n /\ (k + 1) - 1 = k /\ k \in S
    OBVIOUS
  <2> QED
    BY <2>1
<1>3. T \in SUBSET Nat
  OBVIOUS
<1>4. T = Nat
  <2> HIDE DEF T
  <2> QED
    BY <1>1, <1>2, <1>3, Induction
<1> QED
  BY <1>4

\* A set of positions that is not empty has a last one.
LEMMA LastPosition ==
  ASSUME NEW n \in Nat, NEW s \in SUBSET (1 .. n), s # {}
  PROVE  Max(s) \in s /\ \A i \in s : i <= Max(s)
<1> DEFINE P(k) == \A t \in SUBSET (1 .. k) : t # {} => \E x \in t : \A i \in t : i <= x
           S == {k \in Nat : P(k)}
<1>1. P(0)
  <2>1. \A t \in SUBSET (1 .. 0) : t = {}
    OBVIOUS
  <2> QED
    BY <2>1
<1>2. ASSUME NEW k \in Nat, P(k) PROVE P(k + 1)
  <2> SUFFICES ASSUME NEW t \in SUBSET (1 .. k + 1), t # {}
               PROVE  \E x \in t : \A i \in t : i <= x
    OBVIOUS
  <2>1. CASE k + 1 \in t
    BY <2>1
  <2>2. CASE k + 1 \notin t
    <3>1. t \in SUBSET (1 .. k)
      BY <2>2
    <3> QED
      BY <1>2, <3>1
  <2> QED
    BY <2>1, <2>2
<1>3. P(n)
  <2> HIDE DEF P
  <2>1. 0 \in S
    BY <1>1
  <2>2. \A k \in S : k + 1 \in S
    BY <1>2
  <2>3. S \in SUBSET Nat
    OBVIOUS
  <2> HIDE DEF S
  <2>4. S = Nat
    BY <2>1, <2>2, <2>3, Induction
  <2> QED
    BY <2>4 DEF S
<1>4. PICK x \in s : \A i \in s : i <= x
  BY <1>3
<1>5. \A i \in s : x >= i
  BY <1>4
<1> QED
  BY <1>4, <1>5 DEF Max

\* The function by which FoldLeft is defined exists: on every set of positions it
\* is the fold over the positions in the set.
FoldsOf(A, base, n, F) ==
  {g \in [SUBSET (1 .. n) -> A] :
     \A s \in SUBSET (1 .. n) :
       g[s] = IF s = {} THEN base ELSE F[<<g[s \ {Max(s)}], Max(s)>>]}
LEMMA FoldExists ==
  ASSUME NEW A, NEW base \in A, NEW n \in Nat, NEW F \in [A \X (1 .. n) -> A]
  PROVE  FoldsOf(A, base, n, F) # {}
<1> DEFINE P(k) == k <= n => \E g : g \in FoldsOf(A, base, k, F)
           S == {k \in Nat : P(k)}
<1>1. P(0)
  <2>1. PICK g : g = [s \in SUBSET (1 .. 0) |-> base]
    OBVIOUS
  <2>2. \A s \in SUBSET (1 .. 0) : s = {}
    OBVIOUS
  <2>3. g \in FoldsOf(A, base, 0, F)
    BY <2>1, <2>2 DEF FoldsOf
  <2> QED
    BY <2>3
<1>2. ASSUME NEW k \in Nat, P(k) PROVE P(k + 1)
  <2> SUFFICES ASSUME k + 1 <= n PROVE \E g : g \in FoldsOf(A, base, k + 1, F)
    OBVIOUS
  <2>1. PICK g \in [SUBSET (1 .. k) -> A] : \A s \in SUBSET (1 .. k) :
          g[s] = IF s = {} THEN base ELSE F[<<g[s \ {Max(s)}], Max(s)>>]
    <3>1. k <= n
      OBVIOUS
    <3> QED
      BY <1>2, <3>1 DEF FoldsOf
  <2>2. PICK h : h = [s \in SUBSET (1 .. k + 1) |->
                        IF k + 1 \in s THEN F[<<g[s \ {k + 1}], k + 1>>] ELSE g[s]]
    OBVIOUS
  <2>3. ASSUME NEW s \in SUBSET (1 .. k + 1), k + 1 \in s
        PROVE  /\ s # {}
               /\ h[s] \in A /\ h[s] = F[<<h[s \ {Max(s)}], Max(s)>>]
    <3>1. k + 1 \in Nat /\ s # {}
      BY <2>3
    <3>2. Max(s) = k + 1
      <4>1. PICK x : x = Max(s)
        OBVIOUS
      <4>2. x \in s /\ \A i \in s : i <= x
        BY <3>1, <4>1, LastPosition
      <4>3. x \in 1 .. k + 1 /\ k + 1 <= x
        BY <2>3, <4>2
      <4> QED
        BY <4>1, <4>3
    <3>3. s \ {k + 1} \in SUBSET (1 .. k) /\ s \ {k + 1} \in SUBSET (1 .. k + 1)
      OBVIOUS
    <3>4. g[s \ {k + 1}] \in A /\ k + 1 \in 1 .. n
      BY <3>3
    <3>5. h[s \ {k + 1}] = g[s \ {k + 1}]
      BY <2>2, <3>3
    <3>6. h[s] = F[<<g[s \ {k + 1}], k + 1>>]
      BY <2>2, <2>3
    <3> QED
      BY <2>3, <3>2, <3>4, <3>5, <3>6
  <2>4. ASSUME NEW s \in SUBSET (1 .. k + 1), k + 1 \notin s
        PROVE  /\ h[s] \in A
               /\ h[s] = IF s = {} THEN base ELSE F[<<h[s \ {Max(s)}], Max(s)>>]
    <3>1. s \in SUBSET (1 .. k) /\ h[s] = g[s]
      BY <2>2, <2>4
    <3>2. s \ {Max(s)} \in SUBSET (1 .. k) /\ s \ {Max(s)} \in SUBSET (1 .. k + 1)
      BY <3>1
    <3>3. h[s \ {Max(s)}] = g[s \ {Max(s)}]
      BY <2>2, <3>2
    <3> QED
      BY <2>1, <3>1, <3>3
  <2>5. h \in [SUBSET (1 .. k + 1) -> A]
    BY <2>2, <2>3, <2>4
  <2>6. h \in FoldsOf(A, base, k + 1, F)
    BY <2>3, <2>4, <2>5 DEF FoldsOf
  <2> QED
    BY <2>6
<1>3. P(n)
  <2> HIDE DEF P
  <2>1. 0 \in S
    BY <1>1
  <2>2. \A k \in S : k + 1 \in S
    BY <1>2
  <2>3. S \in SUBSET Nat
    OBVIOUS
  <2> HIDE DEF S
  <2>4. S = Nat
    BY <2>1, <2>2, <2>3, Induction
  <2> QED
    BY <2>4 DEF S
<1> QED
  BY <1>3

\* A function h with the equation of a fold gives its intermediate results, one
\* after each position.
TracesOf(A, base, n, F) ==
  {f \in [0 .. n -> A] : f[0] = base /\ \A k \in 1 .. n : f[k] = F[<<f[k - 1], k>>]}
LEMMA FoldTrace ==
  ASSUME NEW A, NEW base \in A, NEW n \in Nat, NEW F \in [A \X (1 .. n) -> A],
         NEW h, h[{}] = base,
         \A s \in SUBSET (1 .. n) :
           s # {} /\ h[s \ {Max(s)}] \in A => h[s] = F[<<h[s \ {Max(s)}], Max(s)>>]
  PROVE  [k \in 0 .. n |-> h[1 .. k]] \in TracesOf(A, base, n, F)
<1> DEFINE P(k) == k <= n => h[1 .. k] \in A
           S == {k \in Nat : P(k)}
<1>1. P(0)
  <2>1. 1 .. 0 = {}
    OBVIOUS
  <2> QED
    BY <2>1
<1>2. ASSUME NEW k \in 1 .. n, h[1 .. k - 1] \in A
      PROVE  h[1 .. k] = F[<<h[1 .. k - 1], k>>] /\ h[1 .. k] \in A
  <2>1. 1 .. k \in SUBSET (1 .. n) /\ 1 .. k # {} /\ k \in 1 .. k
    OBVIOUS
  <2>2. PICK x : x = Max(1 .. k)
    OBVIOUS
  <2>3. x \in 1 .. k /\ \A i \in 1 .. k : i <= x
    BY <2>1, <2>2, LastPosition
  <2>4. x = k
    BY <2>1, <2>3
  <2>5. (1 .. k) \ {k} = 1 .. k - 1
    OBVIOUS
  <2>6. h[(1 .. k) \ {Max(1 .. k)}] = h[1 .. k - 1]
    BY <2>2, <2>4, <2>5
  <2>7. h[1 .. k] = F[<<h[1 .. k - 1], k>>]
    BY <1>2, <2>1, <2>2, <2>4, <2>6
  <2>8. <<h[1 .. k - 1], k>> \in A \X (1 .. n)
    BY <1>2
  <2> QED
    BY <2>7, <2>8
<1>3. ASSUME NEW k \in Nat, P(k) PROVE P(k + 1)
  <2> SUFFICES ASSUME k + 1 <= n PROVE h[1 .. k + 1] \in A
    OBVIOUS
  <2>1. k + 1 \in 1 .. n /\ (k + 1) - 1 = k /\ h[1 .. k] \in A
    BY <1>3
  <2> QED
    BY <1>2, <2>1
<1>4. \A k \in Nat : P(k)
  <2> HIDE DEF P
  <2>1. 0 \in S
    BY <1>1
  <2>2. \A k \in S : k + 1 \in S
    BY <1>3
  <2>3. S \in SUBSET Nat
    OBVIOUS
  <2> HIDE DEF S
  <2>4. S = Nat
    BY <2>1, <2>2, <2>3, Induction
  <2> QED
    BY <2>4 DEF S
<1>5. 1 .. 0 = {}
  OBVIOUS
<1>6. \A k \in 1 .. n : h[1 .. k] = F[<<h[1 .. k - 1], k>>] /\ k \in 0 .. n /\ k - 1 \in 0 .. n
  <2> TAKE k \in 1 .. n
  <2>1. k - 1 \in Nat /\ k - 1 <= n
    OBVIOUS
  <2>2. h[1 .. k - 1] \in A
    BY <1>4, <2>1
  <2> QED
    BY <1>2, <2>1, <2>2
<1>7. \A k \in 0 .. n : h[1 .. k] \in A
  BY <1>4
<1> QED
  BY <1>5, <1>6, <1>7 DEF TracesOf

-----------------------------------------------------------------------------
(* What the messages of a payload do *)

\* A page is ready, has HTML and has a root, or it is none of the three.
GoodPages == {p \in Page : (p.ready <=> p.html # None) /\ (p.ready <=> p.root # None)} \cup {NoPage}
Surfaces == [IDs -> GoodPages]
States == [pages : Surfaces, ok : BOOLEAN]

\* A line that is a message names a surface; what an update writes has its type.
Writes == [cell : Cells, val : Vals \cup {Bad}]
LEMMA LineIs ==
  ASSUME NEW m \in Line, ~ IsFault(m)
  PROVE  /\ m.kind \in {"surfaceUpdate", "dataModelUpdate", "beginRendering", "deleteSurface"}
         /\ m.id \in IDs
         /\ m.kind = "beginRendering" => m.root \in Roots
         /\ m.kind \in {"surfaceUpdate", "dataModelUpdate"} => m.writes \in Seq(Writes)
         /\ m.kind = "dataModelUpdate" => \A i \in DOMAIN m.writes : m.writes[i].val # Bad
<1> DEFINE C == [cell : CompCells, val : Vals \cup {Bad}]
           D == [cell : DataCells, val : Vals]
<1>1. C \subseteq Writes /\ D \subseteq Writes
  BY DEF Cells, Writes
<1>2. /\ m.kind = "surfaceUpdate" => m.writes \in Seq(C)
      /\ m.kind = "dataModelUpdate" => m.writes \in Seq(D)
  BY DEF Line, Faults, IsFault
<1>3. /\ m.kind \in {"surfaceUpdate", "dataModelUpdate", "beginRendering", "deleteSurface"}
      /\ m.id \in IDs /\ (m.kind = "beginRendering" => m.root \in Roots)
  BY DEF Line, Faults, IsFault
<1>4. \A w \in D : w.val # Bad
  BY MarkersAssumption
<1> HIDE DEF C, D
<1>5. m.kind \in {"surfaceUpdate", "dataModelUpdate"} => m.writes \in Seq(Writes)
  BY <1>1, <1>2, SeqMonotonic
<1>6. m.kind = "dataModelUpdate" => \A i \in DOMAIN m.writes : m.writes[i].val # Bad
  <2> SUFFICES ASSUME m.kind = "dataModelUpdate", NEW i \in DOMAIN m.writes
               PROVE  m.writes[i].val # Bad
    OBVIOUS
  <2>1. DOMAIN m.writes = 1 .. Len(m.writes)
    BY <1>2
  <2>2. m.writes[i] \in D
    BY <1>2, <2>1, ElementOfSeq
  <2> QED
    BY <1>4, <2>2
<1> QED
  BY <1>3, <1>5, <1>6

\* Cells that are written hold definitions and values again.
LEMMA CellsType ==
  ASSUME NEW cells \in [Cells -> Content], NEW writes \in Seq(Writes),
         \A i \in 1 .. Len(writes) : writes[i].val # Bad
  PROVE  WriteCells(cells, writes) \in [Cells -> Content]
<1> DEFINE n == Len(writes)
           A == [Cells -> Content]
           E(h) == [s \in SUBSET (1 .. n) |->
                      IF s = {} THEN cells
                      ELSE [h[s \ {Max(s)}] EXCEPT ![writes[Max(s)].cell] = writes[Max(s)].val]]
           F == [x \in A \X (1 .. n) |-> [x[1] EXCEPT ![writes[x[2]].cell] = writes[x[2]].val]]
<1>1. n \in Nat /\ DOMAIN writes = 1 .. n
  OBVIOUS
<1>2. \A k \in 1 .. n : writes[k].cell \in Cells /\ writes[k].val \in Content
  <2>1. \A k \in 1 .. n : writes[k] \in Writes
    BY ElementOfSeq
  <2> QED
    BY <2>1 DEF Writes, Content
<1>3. F \in [A \X (1 .. n) -> A]
  <2>1. \A c \in A, k \in 1 .. n : [c EXCEPT ![writes[k].cell] = writes[k].val] \in A
    BY <1>2
  <2> QED
    BY <2>1
<1> HIDE DEF n, A
<1>4. PICK g \in [SUBSET (1 .. n) -> A] :
        \A s \in SUBSET (1 .. n) : g[s] = IF s = {} THEN cells ELSE F[<<g[s \ {Max(s)}], Max(s)>>]
  <2> HIDE DEF F
  <2>1. FoldsOf(A, cells, n, F) # {}
    BY <1>1, <1>3, FoldExists DEF A
  <2> QED
    BY <2>1 DEF FoldsOf
<1>5. \A s \in SUBSET (1 .. n) : s # {} => Max(s) \in 1 .. n
  BY <1>1, LastPosition
<1>6. \A s \in SUBSET (1 .. n) : g[s] = E(g)[s]
  <2> TAKE s \in SUBSET (1 .. n)
  <2> SUFFICES ASSUME s # {} PROVE g[s] = E(g)[s]
    BY <1>4
  <2>1. s \ {Max(s)} \in SUBSET (1 .. n) /\ Max(s) \in 1 .. n
    BY <1>5
  <2>2. g[s] = F[<<g[s \ {Max(s)}], Max(s)>>] /\ g[s \ {Max(s)}] \in A
    BY <1>4, <2>1
  <2> QED
    BY <2>1, <2>2
<1>7. g = E(g)
  BY <1>4, <1>6
<1>8. PICK h : h = E(h) /\ WriteCells(cells, writes) = h[1 .. n]
  <2>1. WriteCells(cells, writes) = (CHOOSE h : h = E(h))[1 .. n]
    BY <1>1 DEF WriteCells, FoldLeft, MapThenFoldSet
  <2>2. (CHOOSE h : h = E(h)) = E(CHOOSE h : h = E(h))
    BY <1>7
  <2> QED
    BY <2>1, <2>2
<1>9. h[{}] = cells
  BY <1>8
<1>10. ASSUME NEW s \in SUBSET (1 .. n), s # {}, h[s \ {Max(s)}] \in A
       PROVE  h[s] = F[<<h[s \ {Max(s)}], Max(s)>>]
  BY <1>5, <1>8, <1>10
<1>11. [k \in 0 .. n |-> h[1 .. k]] \in TracesOf(A, cells, n, F)
  <2> HIDE DEF F, E
  <2> QED
    BY <1>1, <1>3, <1>9, <1>10, FoldTrace DEF A
<1>12. h[1 .. n] \in A
  <2> HIDE DEF F, E
  <2>1. n \in 0 .. n
    BY <1>1
  <2> QED
    BY <1>11, <2>1 DEF TracesOf
<1> QED
  BY <1>8, <1>12 DEF A

\* A new page, and a page that is rendered, are good pages.
LEMMA NewIsGood == NewPage \in GoodPages /\ NewPage # NoPage
<1>1. NewPage \in Page
  BY DEF NewPage, Page, Content
<1> QED
  BY <1>1, MarkersAssumption DEF NewPage, GoodPages

LEMMA RenderedIsGood ==
  ASSUME NEW p \in Page, p.root # None
  PROVE  /\ RenderSurface(p) \in Page /\ RenderSurface(p).html # None
         /\ RenderSurface(p).ready = p.ready /\ RenderSurface(p).root = p.root
         /\ RenderSurface(p).cells = p.cells
         /\ RenderSurface(RenderSurface(p)) = RenderSurface(p)
         /\ p.ready => RenderSurface(p) \in GoodPages
<1>1. [root |-> p.root, view |-> p.cells] \in Html
  BY DEF Html, Page
<1>2. [root |-> p.root, view |-> p.cells] # None
  BY <1>1, MarkersAssumption
<1>3. RenderSurface(p) \in Page
  BY <1>1 DEF RenderSurface, Page
<1>4. /\ RenderSurface(p).html # None
      /\ RenderSurface(p).ready = p.ready /\ RenderSurface(p).root = p.root
      /\ RenderSurface(p).cells = p.cells
  BY <1>2 DEF RenderSurface, Page
<1>5. RenderSurface(RenderSurface(p)) = RenderSurface(p)
  BY <1>3 DEF RenderSurface, Page
<1> QED
  BY <1>3, <1>4, <1>5 DEF GoodPages

\* The first definition that does not parse, if there is one.
LEMMA FirstBad ==
  ASSUME NEW writes \in Seq(Writes)
  PROVE  IF \E i \in DOMAIN writes : IsBad(writes[i])
         THEN /\ SelectInSeq(writes, IsBad) \in 1 .. Len(writes)
              /\ \A i \in 1 .. SelectInSeq(writes, IsBad) - 1 : ~ IsBad(writes[i])
         ELSE SelectInSeq(writes, IsBad) = 0
<1> DEFINE I == {i \in 1 .. Len(writes) : IsBad(writes[i])}
<1>1. DOMAIN writes = 1 .. Len(writes) /\ Len(writes) \in Nat
  OBVIOUS
<1>2. SelectInSeq(writes, IsBad) = IF I # {} THEN Min(I) ELSE 0
  BY DEF SelectInSeq
<1>3. I \in SUBSET Nat
  BY <1>1
<1>4. I # {} => Min(I) \in I /\ \A i \in I : Min(I) <= i
  <2> HIDE DEF I
  <2> QED
    BY <1>3, FirstExists
<1>5. CASE I = {}
  BY <1>1, <1>2, <1>5
<1>6. CASE I # {}
  <2>1. PICK x \in 1 .. Len(writes) : x = Min(I) /\ IsBad(writes[x]) /\ \A i \in I : x <= i
    BY <1>4, <1>6
  <2>2. SelectInSeq(writes, IsBad) = x
    BY <1>2, <1>6, <2>1
  <2>3. ASSUME NEW i \in 1 .. x - 1 PROVE ~ IsBad(writes[i])
    <3>1. i \in 1 .. Len(writes) /\ ~ (x <= i)
      BY <1>1, <2>1
    <3> QED
      BY <2>1, <3>1
  <2> QED
    BY <1>1, <2>1, <2>2, <2>3
<1> QED
  BY <1>5, <1>6

\* A message leaves good pages, and succeeds unless a definition in it does not parse.
Refused(m) == m.kind = "surfaceUpdate" /\ \E j \in DOMAIN m.writes : IsBad(m.writes[j])
LEMMA MessageIs ==
  ASSUME NEW st \in States, st.ok, NEW m \in Line, ~ IsFault(m)
  PROVE  ApplyMessage(st, m) \in States /\ (ApplyMessage(st, m).ok <=> ~ Refused(m))
<1>1. /\ m.kind \in {"surfaceUpdate", "dataModelUpdate", "beginRendering", "deleteSurface"}
      /\ m.id \in IDs
      /\ m.kind = "beginRendering" => m.root \in Roots
      /\ m.kind \in {"surfaceUpdate", "dataModelUpdate"} => m.writes \in Seq(Writes)
      /\ m.kind = "dataModelUpdate" => \A i \in DOMAIN m.writes : m.writes[i].val # Bad
  BY LineIs
<1>2. st.pages \in Surfaces /\ st.pages[m.id] \in GoodPages
  BY <1>1 DEF States, Surfaces
<1>3. PICK old : old = IF st.pages[m.id] = NoPage THEN NewPage ELSE st.pages[m.id]
  OBVIOUS
<1>4. /\ old \in GoodPages /\ old # NoPage /\ old \in Page
      /\ (old.ready <=> old.html # None) /\ (old.ready <=> old.root # None)
  BY <1>2, <1>3, NewIsGood DEF GoodPages
<1>5. \A p \in GoodPages : /\ [st EXCEPT !.pages[m.id] = p] \in States
                           /\ [st EXCEPT !.pages[m.id] = p].ok
  BY <1>1 DEF States, Surfaces
<1>6. CASE m.kind = "deleteSurface"
  <2>1. ApplyMessage(st, m) = [st EXCEPT !.pages[m.id] = NoPage]
    BY <1>6 DEF ApplyMessage
  <2>2. NoPage \in GoodPages
    BY DEF GoodPages
  <2> QED
    BY <1>5, <1>6, <2>1, <2>2 DEF Refused
<1>7. CASE m.kind = "beginRendering"
  <2>1. PICK p : p = [old EXCEPT !.root = m.root, !.ready = TRUE]
    OBVIOUS
  <2>2. ApplyMessage(st, m) = [st EXCEPT !.pages[m.id] = RenderSurface(p)]
    BY <1>3, <1>7, <2>1 DEF ApplyMessage, ApplyBeginRendering
  <2>3. m.root \in Roots /\ m.root # None
    BY <1>1, <1>7, MarkersAssumption
  <2>4. p \in Page /\ p.root # None /\ p.ready
    BY <1>4, <2>1, <2>3 DEF Page
  <2>5. RenderSurface(p) \in GoodPages
    BY <2>4, RenderedIsGood
  <2> QED
    BY <1>5, <1>7, <2>2, <2>5 DEF Refused
<1>8. CASE m.kind \in {"surfaceUpdate", "dataModelUpdate"}
  <2> DEFINE bad == SelectInSeq(m.writes, IsBad)
             writes == IF bad = 0 THEN m.writes ELSE SubSeq(m.writes, 1, bad - 1)
             new == [old EXCEPT !.cells = WriteCells(@, writes)]
  <2>1. ApplyMessage(st, m) = ApplyUpdate(st, m)
    BY <1>8 DEF ApplyMessage
  <2>2. ApplyUpdate(st, m) =
          IF bad = 0 THEN [st EXCEPT !.pages[m.id] = Refresh(new)]
          ELSE [ok |-> FALSE,
                pages |-> IF st.pages[m.id] = NoPage THEN st.pages
                          ELSE [st.pages EXCEPT ![m.id] = new]]
    BY <1>3 DEF ApplyUpdate
  <2>3. m.writes \in Seq(Writes) /\ DOMAIN m.writes = 1 .. Len(m.writes) /\ Len(m.writes) \in Nat
    BY <1>1, <1>8
  <2>4. /\ bad = 0 <=> ~ \E i \in DOMAIN m.writes : IsBad(m.writes[i])
        /\ bad # 0 => /\ bad \in 1 .. Len(m.writes)
                      /\ \A i \in 1 .. bad - 1 : ~ IsBad(m.writes[i])
    <3>1. PICK w : w = m.writes
      OBVIOUS
    <3>2. w \in Seq(Writes)
      BY <2>3, <3>1
    <3>3. IF \E i \in DOMAIN w : IsBad(w[i])
          THEN /\ SelectInSeq(w, IsBad) \in 1 .. Len(w)
               /\ \A i \in 1 .. SelectInSeq(w, IsBad) - 1 : ~ IsBad(w[i])
          ELSE SelectInSeq(w, IsBad) = 0
      BY <3>2, FirstBad
    <3>4. bad = SelectInSeq(w, IsBad)
      BY <3>1
    <3> HIDE DEF bad
    <3>5. \A k \in 1 .. Len(w) : k # 0
      OBVIOUS
    <3> QED
      BY <3>1, <3>3, <3>4, <3>5
  <2>5. bad = 0 <=> ~ Refused(m)
    BY <1>1, <1>8, <2>4 DEF Refused, IsBad
  <2> HIDE DEF bad
  <2>6. writes \in Seq(Writes) /\ \A i \in 1 .. Len(writes) : writes[i].val # Bad
    <3>1. CASE bad = 0
      BY <2>3, <2>4, <3>1 DEF IsBad
    <3>2. CASE bad # 0
      <4>1. PICK w : w = m.writes
        OBVIOUS
      <4>2. w \in Seq(Writes) /\ bad \in 1 .. Len(w)
        BY <2>3, <2>4, <3>2, <4>1
      <4>3. /\ SubSeq(w, 1, bad - 1) \in Seq(Writes) /\ Len(SubSeq(w, 1, bad - 1)) = bad - 1
            /\ \A i \in 1 .. bad - 1 : SubSeq(w, 1, bad - 1)[i] = w[i]
        BY <4>2
      <4> QED
        BY <2>4, <3>2, <4>1, <4>3 DEF IsBad
    <3> QED
      BY <3>1, <3>2
  <2> HIDE DEF writes
  <2>7. WriteCells(old.cells, writes) \in [Cells -> Content]
    BY <1>4, <2>6, CellsType DEF Page
  <2>8. /\ new \in Page /\ new \in GoodPages
        /\ new.ready = old.ready /\ new.root = old.root
    BY <1>4, <2>7 DEF Page, GoodPages
  <2> HIDE DEF new
  <2>9. Refresh(new) \in GoodPages
    BY <1>4, <2>8, RenderedIsGood DEF Refresh
  <2>10. CASE bad = 0
    BY <1>5, <2>1, <2>2, <2>5, <2>9, <2>10
  <2>11. CASE bad # 0
    <3>1. [st.pages EXCEPT ![m.id] = new] \in Surfaces
      BY <1>1, <1>2, <2>8 DEF Surfaces
    <3> QED
      BY <1>2, <2>1, <2>2, <2>5, <2>11, <3>1 DEF States
  <2> QED
    BY <2>10, <2>11
<1> QED
  BY <1>1, <1>6, <1>7, <1>8

\* A payload leaves good pages, and is applied when no line of it is at fault and no
\* definition in it fails to parse.
LEMMA PayloadIs ==
  ASSUME pages \in Surfaces, NEW body \in Seq(Line)
  PROVE  /\ ProcessJSONL(body) \in States
         /\ ProcessJSONL(body).ok <=> \A i \in 1 .. Len(body) : ~ IsFault(body[i]) /\ ~ Refused(body[i])
<1> DEFINE n == Len(body)
           start == [pages |-> pages, ok |-> TRUE]
           StepOf(st, m) == IF ~st.ok THEN st
                            ELSE IF IsFault(m) THEN [st EXCEPT !.ok = FALSE]
                            ELSE ApplyMessage(st, m)
           E(h) == [s \in SUBSET (1 .. n) |->
                      IF s = {} THEN start ELSE StepOf(h[s \ {Max(s)}], body[Max(s)])]
           F == [x \in States \X (1 .. n) |-> StepOf(x[1], body[x[2]])]
<1>1. n \in Nat /\ DOMAIN body = 1 .. n /\ \A k \in 1 .. n : body[k] \in Line
  BY ElementOfSeq
<1>2. start \in States /\ start.ok
  BY DEF States
<1>3. ASSUME NEW st \in States, NEW m \in Line
      PROVE  StepOf(st, m) \in States /\ (StepOf(st, m).ok <=> st.ok /\ ~ IsFault(m) /\ ~ Refused(m))
  <2>1. st.ok \in BOOLEAN
    BY DEF States
  <2>2. CASE ~ st.ok
    BY <2>2
  <2>3. CASE st.ok /\ IsFault(m)
    <3>1. [st EXCEPT !.ok = FALSE] \in States /\ [st EXCEPT !.ok = FALSE].ok = FALSE
      BY DEF States
    <3> QED
      BY <2>3, <3>1
  <2>4. CASE st.ok /\ ~ IsFault(m)
    BY <2>4, MessageIs
  <2> QED
    BY <2>1, <2>2, <2>3, <2>4
<1> HIDE DEF n, start
<1>4. F \in [States \X (1 .. n) -> States]
  BY <1>1, <1>3
<1>5. PICK g \in [SUBSET (1 .. n) -> States] :
        \A s \in SUBSET (1 .. n) : g[s] = IF s = {} THEN start ELSE F[<<g[s \ {Max(s)}], Max(s)>>]
  <2> HIDE DEF F
  <2>1. FoldsOf(States, start, n, F) # {}
    BY <1>1, <1>2, <1>4, FoldExists
  <2> QED
    BY <2>1 DEF FoldsOf
<1>6. \A s \in SUBSET (1 .. n) : s # {} => Max(s) \in 1 .. n
  BY <1>1, LastPosition
<1>7. \A s \in SUBSET (1 .. n) : g[s] = E(g)[s]
  <2> TAKE s \in SUBSET (1 .. n)
  <2> SUFFICES ASSUME s # {} PROVE g[s] = E(g)[s]
    BY <1>5
  <2>1. s \ {Max(s)} \in SUBSET (1 .. n) /\ Max(s) \in 1 .. n
    BY <1>6
  <2>2. g[s] = F[<<g[s \ {Max(s)}], Max(s)>>] /\ g[s \ {Max(s)}] \in States
    BY <1>5, <2>1
  <2> HIDE DEF StepOf
  <2> QED
    BY <2>1, <2>2
<1>8. g = E(g)
  <2> HIDE DEF StepOf
  <2> QED
    BY <1>5, <1>7
<1>9. PICK h : h = E(h) /\ ProcessJSONL(body) = h[1 .. n]
  <2>1. ProcessJSONL(body) = (CHOOSE h : h = E(h))[1 .. n]
    BY <1>1 DEF ProcessJSONL, FoldLeft, MapThenFoldSet, start
  <2>2. (CHOOSE h : h = E(h)) = E(CHOOSE h : h = E(h))
    <3> HIDE DEF StepOf
    <3> QED
      BY <1>8
  <2> QED
    BY <2>1, <2>2
<1> HIDE DEF StepOf
<1>10. h[{}] = start
  BY <1>9
<1>11. ASSUME NEW s \in SUBSET (1 .. n), s # {}, h[s \ {Max(s)}] \in States
       PROVE  h[s] = F[<<h[s \ {Max(s)}], Max(s)>>]
  BY <1>6, <1>9, <1>11
<1>12. PICK f : f = [k \in 0 .. n |-> h[1 .. k]]
  OBVIOUS
<1>13. /\ f \in [0 .. n -> States] /\ f[0] = start /\ f[n] = ProcessJSONL(body) /\ n \in 0 .. n
       /\ \A k \in 1 .. n : f[k] = F[<<f[k - 1], k>>]
  <2> HIDE DEF F, E
  <2>1. f \in TracesOf(States, start, n, F)
    BY <1>1, <1>2, <1>4, <1>10, <1>11, <1>12, FoldTrace
  <2>2. n \in 0 .. n
    BY <1>1
  <2> QED
    BY <1>9, <1>12, <2>1, <2>2 DEF TracesOf
<1> DEFINE Clean(k) == \A i \in 1 .. k : ~ IsFault(body[i]) /\ ~ Refused(body[i])
           S == {k \in 0 .. n : f[k].ok <=> Clean(k)}
<1>14. 0 \in S
  <2>1. 1 .. 0 = {} /\ 0 \in 0 .. n
    BY <1>1
  <2> QED
    BY <1>2, <1>13, <2>1
<1>15. ASSUME NEW k \in 1 .. n, k - 1 \in S PROVE k \in S
  <2>1. k \in 0 .. n /\ k - 1 \in 0 .. n /\ 1 .. k = (1 .. k - 1) \cup {k}
    BY <1>1
  <2>2. f[k - 1] \in States /\ body[k] \in Line
    BY <1>1, <1>13, <2>1
  <2>3. f[k] = StepOf(f[k - 1], body[k])
    <3>1. f[k] = F[<<f[k - 1], k>>]
      BY <1>13
    <3> QED
      BY <2>2, <3>1
  <2>4. f[k].ok <=> f[k - 1].ok /\ ~ IsFault(body[k]) /\ ~ Refused(body[k])
    BY <1>3, <2>2, <2>3
  <2>5. Clean(k) <=> Clean(k - 1) /\ ~ IsFault(body[k]) /\ ~ Refused(body[k])
    BY <2>1
  <2> HIDE DEF Clean
  <2> QED
    BY <1>15, <2>1, <2>4, <2>5
<1>16. n \in S
  <2> HIDE DEF S
  <2> QED
    BY <1>1, <1>13, <1>14, <1>15, StepByStep
<1> QED
  BY <1>13, <1>16 DEF n

-----------------------------------------------------------------------------
(* The invariants *)

\* Looking up an id of the input finds a good page.
LEMMA LookUp ==
  ASSUME pages \in Surfaces, NEW a \in IDs \cup {Blank}
  PROVE  /\ a # Blank => a \in IDs /\ TrimSpace[a] \in IDs
         /\ GetPage(a) \in GoodPages /\ (Found(a) => a # Blank /\ GetPage(a) \in Page)
<1>1. a # Blank => a \in IDs /\ TrimSpace[a] \in IDs
  BY IDsAssumption
<1>2. NoPage \in GoodPages
  BY DEF GoodPages
<1>3. GetPage(a) \in GoodPages
  BY <1>1, <1>2 DEF GetPage, Surfaces
<1> QED
  BY <1>1, <1>3 DEF Found, GetPage, GoodPages

\* Every call leaves good pages.
LEMMA PagesStayGood == ASSUME pages \in Surfaces, Next PROVE pages' \in Surfaces
<1>1. ASSUME NEW b \in Bodies PROVE ProcessJSONL(b).pages \in Surfaces
  <2>1. b \in Seq(Line)
    BY BodiesAssumption
  <2> QED
    BY <2>1, PayloadIs DEF States
<1>2. ASSUME NEW a \in Named, RenderSurfaceTool(a) PROVE pages' \in Surfaces
  <2>1. CASE Found(a) /\ GetPage(a).root # None
    <3>1. a \in IDs /\ TrimSpace[a] \in IDs /\ GetPage(a) = pages[TrimSpace[a]]
          /\ GetPage(a) \in GoodPages /\ GetPage(a) \in Page /\ GetPage(a) # NoPage
      BY <2>1, LookUp DEF Named, GetPage, Found
    <3>2. RenderSurface(GetPage(a)) \in GoodPages
      BY <2>1, <3>1, RenderedIsGood DEF GoodPages
    <3>3. pages' = [pages EXCEPT ![TrimSpace[a]] = RenderSurface(GetPage(a))]
      BY <1>2, <2>1, <3>1 DEF RenderSurfaceTool
    <3> QED
      BY <3>1, <3>2, <3>3 DEF Surfaces
  <2>2. CASE ~ (Found(a) /\ GetPage(a).root # None)
    BY <1>2, <2>2 DEF RenderSurfaceTool
  <2> QED
    BY <2>1, <2>2
<1>3. ASSUME NEW a \in Named, CreateSurface(a) \/ DeleteSurface(a) PROVE pages' \in Surfaces
  <2>1. NoPage \in GoodPages /\ NewPage \in GoodPages
    BY NewIsGood DEF GoodPages
  <2>2. (a # Blank => TrimSpace[a] \in IDs) /\ (Found(a) => a # Blank)
    BY LookUp DEF Named
  <2> QED
    BY <1>3, <2>1, <2>2 DEF CreateSurface, DeleteSurface, Surfaces
<1>4. ResetRuntime => pages' \in Surfaces
  BY DEF ResetRuntime, Surfaces, GoodPages
<1>5. ASSUME UNCHANGED pages PROVE pages' \in Surfaces
  BY <1>5
<1> QED
  BY <1>1, <1>2, <1>3, <1>4, <1>5
     DEF Next, Refuse, Read, DescribeTool, ValidateTool, ApplyTool, GetSurface, InspectTableRow,
         ListFiles, FetchComposite, ExampleGet

\* Every answer is that of a tool.
LEMMA ToolsAnswer == ASSUME Next PROVE reply'.tool \in Tools
BY DEF Next, Refuse, Read, DescribeTool, ValidateTool, ApplyTool, GetSurface, RenderSurfaceTool,
       CreateSurface, DeleteSurface, ResetRuntime, InspectTableRow, ListFiles, FetchComposite,
       ExampleGet, Answer, Tools, ReadTools, GetTools, JSONLTools, SurfaceTools, FileTools

\* TypeOK: whatever is called, the surfaces are pages, and a page is ready exactly when
\* it has HTML.  Inductive is that it is ready exactly when it has a root, too.
GoodState == pages \in Surfaces /\ reply.tool \in Tools
LEMMA GoodStates == Spec => []GoodState
<1>1. Init => GoodState
  BY DEF Init, GoodState, Surfaces, GoodPages, Tools, ReadTools
<1>2. GoodState /\ [Next]_vars => GoodState'
  BY PagesStayGood, ToolsAnswer DEF GoodState, vars
<1> QED
  BY <1>1, <1>2, PTL DEF Spec

THEOREM TypeCorrect == Spec => []TypeOK
<1>1. GoodState => TypeOK
  BY DEF GoodState, TypeOK, Surfaces, GoodPages
<1> QED
  BY <1>1, GoodStates, PTL

\* VerdictsAgree: whatever the surfaces are, a payload is applied exactly when
\* a2ui_validate_jsonl accepts it and its component definitions parse.
THEOREM Verdicts == Spec => []VerdictsAgree
<1>1. ASSUME NEW b \in Seq(Line)
      PROVE  ValidateJSONL(b) = "ok" <=> \A i \in 1 .. Len(b) : ~ IsFault(b[i])
  <2> DEFINE I == {i \in 1 .. Len(b) : IsFault(b[i])}
  <2>1. CASE I = {}
    <3>1. SelectInSeq(b, IsFault) = 0
      BY <2>1 DEF SelectInSeq
    <3> QED
      BY <2>1, <3>1 DEF ValidateJSONL
  <2>2. CASE I # {}
    <3>1. Min(I) \in I
      <4>1. I \in SUBSET Nat
        OBVIOUS
      <4> HIDE DEF I
      <4> QED
        BY <2>2, <4>1, FirstExists
    <3>2. SelectInSeq(b, IsFault) = Min(I)
      BY <2>2 DEF SelectInSeq
    <3>3. b[Min(I)].kind \in Faults /\ Min(I) # 0
      BY <3>1 DEF IsFault
    <3>4. ValidateJSONL(b) = FaultCode[b[Min(I)].kind]
      BY <3>2, <3>3 DEF ValidateJSONL
    <3>5. ValidateJSONL(b) # "ok"
      BY <3>3, <3>4 DEF FaultCode, Faults
    <3> QED
      BY <2>2, <3>5
  <2> QED
    BY <2>1, <2>2
<1>2. ASSUME NEW b \in Seq(Line) PROVE Parses(b) <=> \A i \in 1 .. Len(b) : ~ Refused(b[i])
  BY DEF Parses, Refused
<1>3. GoodState => VerdictsAgree
  <2> SUFFICES ASSUME GoodState, NEW b \in Bodies
               PROVE  ProcessJSONL(b).ok <=> ValidateJSONL(b) = "ok" /\ Parses(b)
    BY DEF VerdictsAgree
  <2>1. b \in Seq(Line)
    BY BodiesAssumption
  <2>2. ProcessJSONL(b).ok <=> \A i \in 1 .. Len(b) : ~ IsFault(b[i]) /\ ~ Refused(b[i])
    BY <2>1, PayloadIs DEF GoodState
  <2> QED
    BY <1>1, <1>2, <2>1, <2>2
<1> QED
  BY <1>3, GoodStates, PTL

-----------------------------------------------------------------------------
(* What calls may do *)

\* A tool's call that is none of the five that write surfaces leaves them alone.
LEMMA OthersKeep ==
  ASSUME Next, reply'.tool \notin Mutable \cup {"render_surface"}
  PROVE  UNCHANGED pages
BY DEF Next, Refuse, Read, DescribeTool, ValidateTool, ApplyTool, GetSurface, RenderSurfaceTool,
       CreateSurface, DeleteSurface, ResetRuntime, InspectTableRow, ListFiles, FetchComposite,
       ExampleGet, Answer, Mutable

\* A call of one of the surface tools is a refusal or a call with an id.
LEMMA SurfaceCalls ==
  ASSUME Next
  PROVE  /\ reply'.tool = "render_surface" =>
              \/ Refuse("render_surface")
              \/ \E a \in Named : RenderSurfaceTool(a) /\ reply'.arg = a
         /\ reply'.tool = "create_surface" =>
              \/ Refuse("create_surface")
              \/ \E a \in Named : CreateSurface(a) /\ reply'.arg = a
         /\ reply'.tool = "delete_surface" =>
              \/ Refuse("delete_surface")
              \/ \E a \in Named : DeleteSurface(a) /\ reply'.arg = a
         /\ reply'.tool = "reset_runtime" => ResetRuntime
         /\ reply'.tool \in {"apply_jsonl", "render"} =>
              \/ Refuse("apply_jsonl") \/ Refuse("render")
              \/ \E b \in Bodies : ApplyTool("apply_jsonl", b) \/ ApplyTool("render", b)
BY DEF Next, Refuse, Read, DescribeTool, ValidateTool, ApplyTool, GetSurface, RenderSurfaceTool,
       CreateSurface, DeleteSurface, ResetRuntime, InspectTableRow, ListFiles, FetchComposite,
       ExampleGet, Answer, ReadTools, GetTools

\* What each of the surface tools does to the surface under the id it names.
LEMMA RenderDoes ==
  ASSUME pages \in Surfaces, NEW a \in Named, RenderSurfaceTool(a)
  PROVE  /\ \A i \in IDs : WithoutHTML(pages'[i]) = WithoutHTML(pages[i])
         /\ IF Found(a) /\ GetPage(a).root # None
            THEN /\ a # Blank /\ pages' = [pages EXCEPT ![TrimSpace[a]] = RenderSurface(GetPage(a))]
                 /\ TrimSpace[a] \in IDs
                 /\ reply'.code = "ok"
                 /\ pages'[TrimSpace[a]] = RenderSurface(pages'[TrimSpace[a]])
                 /\ pages'[TrimSpace[a]] # NoPage
            ELSE reply'.code # "ok" /\ UNCHANGED pages
<1>1. CASE Found(a) /\ GetPage(a).root # None
  <2>1. /\ a \in IDs /\ a # Blank /\ TrimSpace[a] \in IDs /\ GetPage(a) = pages[TrimSpace[a]]
        /\ GetPage(a) \in Page /\ GetPage(a) # NoPage
    BY <1>1, LookUp DEF Named, GetPage, Found
  <2>2. PICK p \in Page : p = GetPage(a) /\ p.root # None /\ p # NoPage
    BY <1>1, <2>1
  <2>3. pages' = [pages EXCEPT ![TrimSpace[a]] = RenderSurface(p)] /\ reply'.code = "ok"
    BY <1>1, <2>1, <2>2 DEF RenderSurfaceTool, Answer
  <2>4. /\ pages'[TrimSpace[a]] = RenderSurface(p)
        /\ \A i \in IDs : i # TrimSpace[a] => pages'[i] = pages[i]
    BY <2>1, <2>3 DEF Surfaces
  <2>5. RenderSurface(p) \in Page /\ RenderSurface(RenderSurface(p)) = RenderSurface(p)
    BY <2>2, RenderedIsGood
  <2>6. RenderSurface(p) # NoPage
    BY <2>5, MarkersAssumption
  <2>7. WithoutHTML(RenderSurface(p)) = WithoutHTML(p)
    BY <2>2, <2>6 DEF WithoutHTML, RenderSurface, Page
  <2>8. \A i \in IDs : WithoutHTML(pages'[i]) = WithoutHTML(pages[i])
    BY <2>1, <2>2, <2>4, <2>7
  <2> QED
    BY <1>1, <2>1, <2>2, <2>3, <2>4, <2>5, <2>6, <2>8
<1>2. CASE ~ (Found(a) /\ GetPage(a).root # None)
  BY <1>2 DEF RenderSurfaceTool, Answer
<1> QED
  BY <1>1, <1>2

LEMMA CreateDoes ==
  ASSUME pages \in Surfaces, NEW a \in Named, CreateSurface(a)
  PROVE  IF a = Blank THEN reply'.code # "ok" /\ UNCHANGED pages
         ELSE /\ Found(a) => UNCHANGED pages
              /\ pages'[TrimSpace[a]] # NoPage
<1>1. CASE a = Blank
  BY <1>1 DEF CreateSurface, Answer
<1>2. CASE a # Blank
  <2>1. TrimSpace[a] \in IDs
    BY <1>2, LookUp DEF Named
  <2> QED
    BY <1>2, <2>1, NewIsGood DEF CreateSurface, Found, GetPage, Surfaces
<1> QED
  BY <1>1, <1>2

LEMMA DeleteDoes ==
  ASSUME pages \in Surfaces, NEW a \in Named, DeleteSurface(a)
  PROVE  /\ a # Blank => pages'[TrimSpace[a]] = NoPage
         /\ ~ Found(a) => reply'.code # "ok" /\ UNCHANGED pages
<1>1. a # Blank => TrimSpace[a] \in IDs
  BY LookUp DEF Named
<1> QED
  BY <1>1 DEF DeleteSurface, Found, GetPage, Surfaces, Answer

\* ImmutableToolsKeep: of the tools marked Mutable: false only a2ui_render_surface
\* changes anything, and that is the HTML of the surface it names.
THEOREM ImmutableToolsDoKeep == Spec => ImmutableToolsKeep
<1>1. ASSUME GoodState, [Next]_vars
      PROVE  [reply'.tool \notin Mutable =>
                \/ UNCHANGED pages
                \/ reply'.tool = "render_surface" /\ OnlyHTMLOf(reply'.arg)]_vars
  <2> SUFFICES ASSUME Next, reply'.tool \notin Mutable, reply'.tool = "render_surface"
               PROVE  UNCHANGED pages \/ OnlyHTMLOf(reply'.arg)
    BY <1>1, OthersKeep
  <2>1. CASE Refuse("render_surface")
    BY <2>1 DEF Refuse
  <2>2. ASSUME NEW a \in Named, RenderSurfaceTool(a), reply'.arg = a
        PROVE  UNCHANGED pages \/ OnlyHTMLOf(reply'.arg)
    <3>1. CASE Found(a) /\ GetPage(a).root # None
      <4>1. /\ \A i \in IDs : WithoutHTML(pages'[i]) = WithoutHTML(pages[i])
            /\ pages' = [pages EXCEPT ![TrimSpace[a]] = RenderSurface(GetPage(a))]
        BY <1>1, <2>2, <3>1, RenderDoes DEF GoodState
      <4>2. \A i \in IDs : i # TrimSpace[a] => pages'[i] = pages[i]
        BY <1>1, <4>1 DEF GoodState, Surfaces
      <4> QED
        BY <2>2, <4>1, <4>2 DEF OnlyHTMLOf
    <3>2. CASE ~ (Found(a) /\ GetPage(a).root # None)
      BY <2>2, <3>2 DEF RenderSurfaceTool
    <3> QED
      BY <3>1, <3>2
  <2> QED
    BY <2>1, <2>2, SurfaceCalls
<1> QED
  BY <1>1, GoodStates, PTL DEF Spec, ImmutableToolsKeep

\* RepeatsAreIdle rests on what the last call left behind.
Settled ==
  reply.arg \in Named \ {Blank} =>
    /\ reply.tool = "create_surface" => Found(reply.arg)
    /\ reply.tool = "delete_surface" => ~ Found(reply.arg)
    /\ reply.tool = "render_surface" /\ Found(reply.arg) /\ GetPage(reply.arg).root # None =>
         GetPage(reply.arg) = RenderSurface(GetPage(reply.arg))
AllSettled == Settled /\ (reply.tool = "reset_runtime" => \A i \in IDs : pages[i] = NoPage)

LEMMA Settles == ASSUME pages \in Surfaces, Next PROVE AllSettled'
<1>1. ASSUME reply'.tool = "create_surface", reply'.arg \in Named \ {Blank} PROVE Found(reply.arg)'
  <2>1. PICK a \in Named : CreateSurface(a) /\ reply'.arg = a /\ a # Blank
    BY <1>1, SurfaceCalls, IDsAssumption DEF Refuse, Answer, Named
  <2>2. pages'[TrimSpace[a]] # NoPage
    BY <2>1, CreateDoes
  <2> QED
    BY <2>1, <2>2 DEF Found, GetPage
<1>2. ASSUME reply'.tool = "delete_surface", reply'.arg \in Named \ {Blank} PROVE ~ Found(reply.arg)'
  <2>1. PICK a \in Named : DeleteSurface(a) /\ reply'.arg = a /\ a # Blank
    BY <1>2, SurfaceCalls, IDsAssumption DEF Refuse, Answer, Named
  <2>2. pages'[TrimSpace[a]] = NoPage
    BY <2>1, DeleteDoes
  <2> QED
    BY <2>1, <2>2 DEF Found, GetPage
<1>3. ASSUME reply'.tool = "render_surface", reply'.arg \in Named \ {Blank},
             Found(reply.arg)', (GetPage(reply.arg).root # None)'
      PROVE  (GetPage(reply.arg) = RenderSurface(GetPage(reply.arg)))'
  <2>1. PICK a \in Named : RenderSurfaceTool(a) /\ reply'.arg = a /\ a # Blank
    BY <1>3, SurfaceCalls, IDsAssumption DEF Refuse, Answer, Named
  <2>2. GetPage(reply.arg)' = pages'[TrimSpace[a]] /\ GetPage(a) = pages[TrimSpace[a]]
    BY <2>1 DEF GetPage
  <2>3. Found(a) /\ GetPage(a).root # None => pages'[TrimSpace[a]] = RenderSurface(pages'[TrimSpace[a]])
    BY <2>1, RenderDoes
  <2>4. ~ (Found(a) /\ GetPage(a).root # None) => UNCHANGED pages
    BY <2>1, RenderDoes
  <2>5. (Found(reply.arg) <=> GetPage(reply.arg) # NoPage)' /\ (Found(a) <=> GetPage(a) # NoPage)
    BY DEF Found
  <2>6. Found(a) /\ GetPage(a).root # None
    BY <1>3, <2>2, <2>4, <2>5
  <2>7. (RenderSurface(GetPage(reply.arg)))' = RenderSurface(pages'[TrimSpace[a]])
    BY <2>2 DEF RenderSurface
  <2> QED
    BY <2>2, <2>3, <2>6, <2>7
<1>4. ASSUME reply'.tool = "reset_runtime" PROVE \A i \in IDs : pages'[i] = NoPage
  BY <1>4, SurfaceCalls DEF ResetRuntime
<1> QED
  BY <1>1, <1>2, <1>3, <1>4 DEF AllSettled, Settled

\* RepeatsAreIdle: a call of a tool marked Idempotent: true that repeats the call before it
\* changes nothing.
THEOREM Repeats == Spec => RepeatsAreIdle
<1>1. Init => AllSettled
  BY DEF Init, AllSettled, Settled
<1>2. GoodState /\ AllSettled /\ [Next]_vars => AllSettled'
  <2>1. AllSettled /\ UNCHANGED vars => AllSettled'
    BY DEF AllSettled, Settled, Found, GetPage, RenderSurface, vars
  <2> QED
    BY <2>1, Settles DEF GoodState
<1>3. ASSUME GoodState, AllSettled, [Next]_vars
      PROVE  [reply'.tool \in Idempotent /\ reply'.tool = reply.tool /\ reply'.arg = reply.arg
              => UNCHANGED pages]_vars
  <2> SUFFICES ASSUME Next, reply'.tool \in Idempotent, reply'.tool = reply.tool,
                      reply'.arg = reply.arg
               PROVE  UNCHANGED pages
    BY <1>3
  <2>1. pages \in Surfaces
    BY <1>3 DEF GoodState
  <2>2. CASE reply'.tool = "create_surface"
    <3>1. ASSUME NEW a \in Named, CreateSurface(a), reply'.arg = a PROVE UNCHANGED pages
      <4>1. a # Blank => Found(a)
        BY <1>3, <2>2, <3>1 DEF AllSettled, Settled
      <4> QED
        BY <2>1, <3>1, <4>1, CreateDoes
    <3> QED
      BY <2>2, <3>1, SurfaceCalls DEF Refuse
  <2>3. CASE reply'.tool = "delete_surface"
    <3>1. ASSUME NEW a \in Named, DeleteSurface(a), reply'.arg = a PROVE UNCHANGED pages
      <4>1. a # Blank => ~ Found(a)
        BY <1>3, <2>3, <3>1 DEF AllSettled, Settled
      <4>2. ~ Found(Blank)
        BY DEF Found, GetPage
      <4> QED
        BY <2>1, <3>1, <4>1, <4>2, DeleteDoes
    <3> QED
      BY <2>3, <3>1, SurfaceCalls DEF Refuse
  <2>4. CASE reply'.tool = "render_surface"
    <3>1. ASSUME NEW a \in Named, RenderSurfaceTool(a), reply'.arg = a PROVE UNCHANGED pages
      <4>1. CASE Found(a) /\ GetPage(a).root # None
        <5>1. a # Blank /\ pages' = [pages EXCEPT ![TrimSpace[a]] = RenderSurface(GetPage(a))]
          BY <2>1, <3>1, <4>1, RenderDoes
        <5>2. GetPage(a) = RenderSurface(GetPage(a))
          BY <1>3, <2>4, <3>1, <4>1, <5>1 DEF AllSettled, Settled
        <5>3. pages' = [pages EXCEPT ![TrimSpace[a]] = pages[TrimSpace[a]]]
          BY <5>1, <5>2 DEF GetPage
        <5> QED
          BY <2>1, <5>3 DEF Surfaces
      <4>2. CASE ~ (Found(a) /\ GetPage(a).root # None)
        BY <2>1, <3>1, <4>2, RenderDoes
      <4> QED
        BY <4>1, <4>2
    <3> QED
      BY <2>4, <3>1, SurfaceCalls DEF Refuse
  <2>5. CASE reply'.tool = "reset_runtime"
    <3>1. \A i \in IDs : pages[i] = NoPage
      BY <1>3, <2>5 DEF AllSettled
    <3>2. pages' = [i \in IDs |-> NoPage]
      BY <2>5, SurfaceCalls DEF ResetRuntime
    <3> QED
      BY <2>1, <3>1, <3>2 DEF Surfaces
  <2>6. CASE reply'.tool \notin {"create_surface", "delete_surface", "render_surface", "reset_runtime"}
    <3>1. reply'.tool \notin Mutable \cup {"render_surface"}
      BY <2>6 DEF Mutable, Idempotent
    <3> QED
      BY <3>1, OthersKeep
  <2> QED
    BY <2>2, <2>3, <2>4, <2>5, <2>6
<1>4. Spec => []AllSettled
  BY <1>1, <1>2, GoodStates, PTL DEF Spec
<1> QED
  BY <1>3, <1>4, GoodStates, PTL DEF Spec, RepeatsAreIdle

\* AnswersHold: an answer "ok" tells what a look under the id it named will find, and a
\* refused call changes nothing, unless it applied lines.
THEOREM Answers == Spec => AnswersHold
<1>1. ASSUME GoodState, [Next]_vars
      PROVE  [IF reply'.code = "ok" THEN Effect(reply)'
              ELSE reply'.tool \in {"apply_jsonl", "render"} \/ UNCHANGED pages]_vars
  <2> SUFFICES ASSUME Next
               PROVE  IF reply'.code = "ok" THEN Effect(reply)'
                      ELSE reply'.tool \in {"apply_jsonl", "render"} \/ UNCHANGED pages
    BY <1>1
  <2>1. pages \in Surfaces
    BY <1>1 DEF GoodState
  <2>2. ASSUME NEW t, Refuse(t) PROVE reply'.code # "ok" /\ UNCHANGED pages
    BY <2>2 DEF Refuse, Answer
  <2>3. CASE reply'.tool = "create_surface"
    <3>1. ASSUME NEW a \in Named, CreateSurface(a), reply'.arg = a, reply'.code = "ok"
          PROVE  Found(reply.arg)'
      <4>1. a # Blank /\ pages'[TrimSpace[a]] # NoPage
        BY <2>1, <3>1, CreateDoes
      <4> QED
        BY <3>1, <4>1 DEF Found, GetPage
    <3>2. ASSUME NEW a \in Named, CreateSurface(a), reply'.code # "ok" PROVE UNCHANGED pages
      BY <3>2 DEF CreateSurface, Answer
    <3> QED
      BY <2>2, <2>3, <3>1, <3>2, SurfaceCalls DEF Effect
  <2>4. CASE reply'.tool = "delete_surface"
    <3>1. ASSUME NEW a \in Named, DeleteSurface(a), reply'.arg = a PROVE ~ Found(reply.arg)'
      <4>1. a # Blank => pages'[TrimSpace[a]] = NoPage
        BY <2>1, <3>1, DeleteDoes
      <4> QED
        BY <3>1, <4>1 DEF Found, GetPage
    <3>2. ASSUME NEW a \in Named, DeleteSurface(a), reply'.code # "ok" PROVE UNCHANGED pages
      BY <3>2 DEF DeleteSurface, Answer
    <3> QED
      BY <2>2, <2>4, <3>1, <3>2, SurfaceCalls DEF Effect
  <2>5. CASE reply'.tool = "render_surface"
    <3>1. ASSUME NEW a \in Named, RenderSurfaceTool(a), reply'.arg = a, reply'.code = "ok"
          PROVE  (Found(reply.arg) /\ GetPage(reply.arg) = RenderSurface(GetPage(reply.arg)))'
      <4>1. /\ a # Blank /\ pages'[TrimSpace[a]] = RenderSurface(pages'[TrimSpace[a]])
            /\ pages'[TrimSpace[a]] # NoPage
        BY <2>1, <3>1, RenderDoes
      <4>2. GetPage(reply.arg)' = pages'[TrimSpace[a]]
        BY <3>1, <4>1 DEF GetPage
      <4>3. (Found(reply.arg) <=> GetPage(reply.arg) # NoPage)'
        BY DEF Found
      <4>4. (RenderSurface(GetPage(reply.arg)))' = RenderSurface(pages'[TrimSpace[a]])
        BY <4>2 DEF RenderSurface
      <4> QED
        BY <4>1, <4>2, <4>3, <4>4
    <3>2. ASSUME NEW a \in Named, RenderSurfaceTool(a), reply'.code # "ok" PROVE UNCHANGED pages
      BY <2>1, <3>2, RenderDoes
    <3> QED
      BY <2>2, <2>5, <3>1, <3>2, SurfaceCalls DEF Effect
  <2>6. CASE reply'.tool = "reset_runtime"
    <3>1. reply'.code = "ok"
      BY <2>6, SurfaceCalls DEF ResetRuntime, Answer
    <3> QED
      BY <2>6, <3>1 DEF Effect
  <2>7. CASE reply'.tool \notin {"create_surface", "delete_surface", "render_surface", "reset_runtime"}
    <3>1. Effect(reply)'
      BY <2>7 DEF Effect
    <3>2. reply'.tool \in {"apply_jsonl", "render"} \/ UNCHANGED pages
      BY <2>7, OthersKeep DEF Mutable
    <3> QED
      BY <3>1, <3>2
  <2> QED
    BY <2>3, <2>4, <2>5, <2>6, <2>7
<1> QED
  BY <1>1, GoodStates, PTL DEF Spec, AnswersHold
=============================================================================
