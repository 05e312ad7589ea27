--------------------------- MODULE DataModelProofs ---------------------------
(***************************************************************************)
(* Proofs about DataModel, for any keys, values and updates.  An update is *)
(* a fold over its path and its entries; the first lemmas turn a fold into *)
(* the sequence of its intermediate results, and the rest is induction     *)
(* along it.                                                               *)
(***************************************************************************)
EXTENDS DataModel, SequenceTheorems, WellFoundedInduction, TLAPS

\* Induction, on the set of the numbers that have a property.
LEMMA Induction ==
  ASSUME NEW S \in SUBSET Nat, 0 \in S, \A n \in S : n + 1 \in S
  PROVE  S = Nat
<1> DEFINE R == OpToRel(<, Nat)
<1> SUFFICES ASSUME Nat \ S # {} PROVE FALSE
  OBVIOUS
<1>1. PICK x \in Nat \ S : \A y \in Nat \ S : ~ (<<y, x>> \in R)
  <2> HIDE DEF R
  <2>1. IsWellFoundedOn(R, Nat)
    BY NatLessThanWellFounded DEF R
  <2> QED
    BY <2>1, WFMin, Zenon
<1>2. x - 1 \in Nat \ S /\ x - 1 < x /\ (x - 1) + 1 = x
  OBVIOUS
<1>3. <<x - 1, x>> \in R
  BY <1>2 DEF OpToRel
<1> QED
  BY <1>1, <1>2, <1>3

\* Induction along 0 .. n.
LEMMA StepByStep ==
  ASSUME NEW n \in Nat, NEW S, 0 \in S, \A k \in 1 .. n : k - 1 \in S => k \in S
  PROVE  \A k \in 0 .. n : k \in S
<1> DEFINE T == {k \in Nat : k <= n => k \in S}
<1>1. 0 \in T
  OBVIOUS
<1>2. \A k \in T : k + 1 \in T
  <2> TAKE k \in T
  <2> SUFFICES ASSUME k + 1 <= n PROVE k + 1 \in S
    OBVIOUS
  <2>1. k + 1 \in 1 .. n /\ (k + 1) - 1 = k /\ k \in S
    OBVIOUS
  <2> QED
    BY <2>1
<1>3. T \in SUBSET Nat
  OBVIOUS
<1>4. T = Nat
  <2> HIDE DEF T
  <2> QED
    BY <1>1, <1>2, <1>3, Induction
<1> QED
  BY <1>4

\* A set of positions that is not empty has a last one.
LEMMA LastPosition ==
  ASSUME NEW n \in Nat, NEW s \in SUBSET (1 .. n), s # {}
  PROVE  Max(s) \in s /\ \A i \in s : i <= Max(s)
<1> DEFINE P(k) == \A t \in SUBSET (1 .. k) : t # {} => \E x \in t : \A i \in t : i <= x
           S == {k \in Nat : P(k)}
<1>1. P(0)
  <2>1. \A t \in SUBSET (1 .. 0) : t = {}
    OBVIOUS
  <2> QED
    BY <2>1
<1>2. ASSUME NEW k \in Nat, P(k) PROVE P(k + 1)
  <2> SUFFICES ASSUME NEW t \in SUBSET (1 .. k + 1), t # {}
               PROVE  \E x \in t : \A i \in t : i <= x
    OBVIOUS
  <2>1. CASE k + 1 \in t
    BY <2>1
  <2>2. CASE k + 1 \notin t
    <3>1. t \in SUBSET (1 .. k)
      BY <2>2
    <3> QED
      BY <1>2, <3>1
  <2> QED
    BY <2>1, <2>2
<1>3. P(n)
  <2> HIDE DEF P
  <2>1. 0 \in S
    BY <1>1
  <2>2. \A k \in S : k + 1 \in S
    BY <1>2
  <2>3. S \in SUBSET Nat
    OBVIOUS
  <2> HIDE DEF S
  <2>4. S = Nat
    BY <2>1, <2>2, <2>3, Induction
  <2> QED
    BY <2>4 DEF S
<1>4. PICK x \in s : \A i \in s : i <= x
  BY <1>3
<1>5. \A i \in s : x >= i
  BY <1>4
<1> QED
  BY <1>4, <1>5 DEF Max

\* The function by which FoldLeft is defined exists: on every set of positions it
\* is the fold over the positions in the set.
FoldsOf(A, base, n, F) ==
  {g \in [SUBSET (1 .. n) -> A] :
     \A s \in SUBSET (1 .. n) :
       g[s] = IF s = {} THEN base ELSE F[<<g[s \ {Max(s)}], Max(s)>>]}
LEMMA FoldExists ==
  ASSUME NEW A, NEW base \in A, NEW n \in Nat, NEW F \in [A \X (1 .. n) -> A]
  PROVE  FoldsOf(A, base, n, F) # {}
<1> DEFINE P(k) == k <= n => \E g : g \in FoldsOf(A, base, k, F)
           S == {k \in Nat : P(k)}
<1>1. P(0)
  <2>1. PICK g : g = [s \in SUBSET (1 .. 0) |-> base]
    OBVIOUS
  <2>2. \A s \in SUBSET (1 .. 0) : s = {}
    OBVIOUS
  <2>3. g \in FoldsOf(A, base, 0, F)
    BY <2>1, <2>2 DEF FoldsOf
  <2> QED
    BY <2>3
<1>2. ASSUME NEW k \in Nat, P(k) PROVE P(k + 1)
  <2> SUFFICES ASSUME k + 1 <= n PROVE \E g : g \in FoldsOf(A, base, k + 1, F)
    OBVIOUS
  <2>1. PICK g \in [SUBSET (1 .. k) -> A] : \A s \in SUBSET (1 .. k) :
          g[s] = IF s = {} THEN base ELSE F[<<g[s \ {Max(s)}], Max(s)>>]
    <3>1. k <= n
      OBVIOUS
    <3> QED
      BY <1>2, <3>1 DEF FoldsOf
  <2>2. PICK h : h = [s \in SUBSET (1 .. k + 1) |->
                        IF k + 1 \in s THEN F[<<g[s \ {k + 1}], k + 1>>] ELSE g[s]]
    OBVIOUS
  <2>3. ASSUME NEW s \in SUBSET (1 .. k + 1), k + 1 \in s
        PROVE  /\ s # {}
               /\ h[s] \in A /\ h[s] = F[<<h[s \ {Max(s)}], Max(s)>>]
    <3>1. k + 1 \in Nat /\ s # {}
      BY <2>3
    <3>2. Max(s) = k + 1
      <4>1. PICK x : x = Max(s)
        OBVIOUS
      <4>2. x \in s /\ \A i \in s : i <= x
        BY <3>1, <4>1, LastPosition
      <4>3. x \in 1 .. k + 1 /\ k + 1 <= x
        BY <2>3, <4>2
      <4> QED
        BY <4>1, <4>3
    <3>3. s \ {k + 1} \in SUBSET (1 .. k) /\ s \ {k + 1} \in SUBSET (1 .. k + 1)
      OBVIOUS
    <3>4. g[s \ {k + 1}] \in A /\ k + 1 \in 1 .. n
      BY <3>3
    <3>5. h[s \ {k + 1}] = g[s \ {k + 1}]
      BY <2>2, <3>3
    <3>6. h[s] = F[<<g[s \ {k + 1}], k + 1>>]
      BY <2>2, <2>3
    <3> QED
      BY <2>3, <3>2, <3>4, <3>5, <3>6
  <2>4. ASSUME NEW s \in SUBSET (1 .. k + 1), k + 1 \notin s
        PROVE  /\ h[s] \in A
               /\ h[s] = IF s = {} THEN base ELSE F[<<h[s \ {Max(s)}], Max(s)>>]
    <3>1. s \in SUBSET (1 .. k) /\ h[s] = g[s]
      BY <2>2, <2>4
    <3>2. s \ {Max(s)} \in SUBSET (1 .. k) /\ s \ {Max(s)} \in SUBSET (1 .. k + 1)
      BY <3>1
    <3>3. h[s \ {Max(s)}] = g[s \ {Max(s)}]
      BY <2>2, <3>2
    <3> QED
      BY <2>1, <3>1, <3>3
  <2>5. h \in [SUBSET (1 .. k + 1) -> A]
    BY <2>2, <2>3, <2>4
  <2>6. h \in FoldsOf(A, base, k + 1, F)
    BY <2>3, <2>4, <2>5 DEF FoldsOf
  <2> QED
    BY <2>6
<1>3. P(n)
  <2> HIDE DEF P
  <2>1. 0 \in S
    BY <1>1
  <2>2. \A k \in S : k + 1 \in S
    BY <1>2
  <2>3. S \in SUBSET Nat
    OBVIOUS
  <2> HIDE DEF S
  <2>4. S = Nat
    BY <2>1, <2>2, <2>3, Induction
  <2> QED
    BY <2>4 DEF S
<1> QED
  BY <1>3

\* A function h with the equation of a fold gives its intermediate results, one
\* after each position.
TracesOf(A, base, n, F) ==
  {f \in [0 .. n -> A] : f[0] = base /\ \A k \in 1 .. n : f[k] = F[<<f[k - 1], k>>]}
LEMMA FoldTrace ==
  ASSUME NEW A, NEW base \in A, NEW n \in Nat, NEW F \in [A \X (1 .. n) -> A],
         NEW h, h[{}] = base,
         \A s \in SUBSET (1 .. n) :
           s # {} /\ h[s \ {Max(s)}] \in A => h[s] = F[<<h[s \ {Max(s)}], Max(s)>>]
  PROVE  [k \in 0 .. n |-> h[1 .. k]] \in TracesOf(A, base, n, F)
<1> DEFINE P(k) == k <= n => h[1 .. k] \in A
           S == {k \in Nat : P(k)}
<1>1. P(0)
  <2>1. 1 .. 0 = {}
    OBVIOUS
  <2> QED
    BY <2>1
<1>2. ASSUME NEW k \in 1 .. n, h[1 .. k - 1] \in A
      PROVE  h[1 .. k] = F[<<h[1 .. k - 1], k>>] /\ h[1 .. k] \in A
  <2>1. 1 .. k \in SUBSET (1 .. n) /\ 1 .. k # {} /\ k \in 1 .. k
    OBVIOUS
  <2>2. PICK x : x = Max(1 .. k)
    OBVIOUS
  <2>3. x \in 1 .. k /\ \A i \in 1 .. k : i <= x
    BY <2>1, <2>2, LastPosition
  <2>4. x = k
    BY <2>1, <2>3
  <2>5. (1 .. k) \ {k} = 1 .. k - 1
    OBVIOUS
  <2>6. h[(1 .. k) \ {Max(1 .. k)}] = h[1 .. k - 1]
    BY <2>2, <2>4, <2>5
  <2>7. h[1 .. k] = F[<<h[1 .. k - 1], k>>]
    BY <1>2, <2>1, <2>2, <2>4, <2>6
  <2>8. <<h[1 .. k - 1], k>> \in A \X (1 .. n)
    BY <1>2
  <2> QED
    BY <2>7, <2>8
<1>3. ASSUME NEW k \in Nat, P(k) PROVE P(k + 1)
  <2> SUFFICES ASSUME k + 1 <= n PROVE h[1 .. k + 1] \in A
    OBVIOUS
  <2>1. k + 1 \in 1 .. n /\ (k + 1) - 1 = k /\ h[1 .. k] \in A
    BY <1>3
  <2> QED
    BY <1>2, <2>1
<1>4. \A k \in Nat : P(k)
  <2> HIDE DEF P
  <2>1. 0 \in S
    BY <1>1
  <2>2. \A k \in S : k + 1 \in S
    BY <1>3
  <2>3. S \in SUBSET Nat
    OBVIOUS
  <2> HIDE DEF S
  <2>4. S = Nat
    BY <2>1, <2>2, <2>3, Induction
  <2> QED
    BY <2>4 DEF S
<1>5. 1 .. 0 = {}
  OBVIOUS
<1>6. \A k \in 1 .. n : h[1 .. k] = F[<<h[1 .. k - 1], k>>] /\ k \in 0 .. n /\ k - 1 \in 0 .. n
  <2> TAKE k \in 1 .. n
  <2>1. k - 1 \in Nat /\ k - 1 <= n
    OBVIOUS
  <2>2. h[1 .. k - 1] \in A
    BY <1>4, <2>1
  <2> QED
    BY <1>2, <2>1, <2>2
<1>7. \A k \in 0 .. n : h[1 .. k] \in A
  BY <1>4
<1> QED
  BY <1>5, <1>6, <1>7 DEF TracesOf

-----------------------------------------------------------------------------
\* An assignment gives a model.
LEMMA PutModel ==
  ASSUME NEW m \in Model, NEW p, NEW v \in Scalars \cup {Map}
  PROVE  Put(m, p, v) \in Model
BY DEF Put, Model

\* The maps on the way to the target are made one by one.
DescentsOf(m, path) ==
  {f \in [0 .. Len(path) -> Model] :
     /\ f[0] = m /\ f[Len(path)] = Descend(m, path)
     /\ \A k \in 1 .. Len(path) : f[k] = Put(f[k - 1], SubSeq(path, 1, k), Map)}
LEMMA DescendTrace ==
  ASSUME NEW m \in Model, NEW path \in Paths \cup {<<>>}
  PROVE  DescentsOf(m, path) # {}
<1> DEFINE n == Len(path)
           E(h) == [s \in SUBSET (1 .. n) |->
                      IF s = {} THEN m
                      ELSE Put(h[s \ {Max(s)}], SubSeq(path, 1, [i \in 1 .. n |-> i][Max(s)]), Map)]
           F == [x \in Model \X (1 .. n) |-> Put(x[1], SubSeq(path, 1, x[2]), Map)]
<1>1. n \in Nat
  BY DEF Paths
<1>2. F \in [Model \X (1 .. n) -> Model]
  BY PutModel
<1>3. PICK g \in [SUBSET (1 .. n) -> Model] :
        \A s \in SUBSET (1 .. n) : g[s] = IF s = {} THEN m ELSE F[<<g[s \ {Max(s)}], Max(s)>>]
  <2> HIDE DEF F, n
  <2>1. FoldsOf(Model, m, n, F) # {}
    BY <1>1, <1>2, FoldExists
  <2> QED
    BY <2>1 DEF FoldsOf
<1>4. \A s \in SUBSET (1 .. n) : s # {} => Max(s) \in 1 .. n
  BY <1>1, LastPosition
<1>5. \A s \in SUBSET (1 .. n) : g[s] = E(g)[s]
  <2> TAKE s \in SUBSET (1 .. n)
  <2> SUFFICES ASSUME s # {} PROVE g[s] = E(g)[s]
    BY <1>3
  <2>1. s \ {Max(s)} \in SUBSET (1 .. n) /\ Max(s) \in 1 .. n
    BY <1>4
  <2>2. g[s] = F[<<g[s \ {Max(s)}], Max(s)>>] /\ g[s \ {Max(s)}] \in Model
    BY <1>3, <2>1
  <2> QED
    BY <2>1, <2>2
<1>6. g = E(g)
  BY <1>3, <1>5
<1>7. PICK h : h = E(h) /\ Descend(m, path) = h[1 .. n]
  <2>1. DOMAIN [i \in 1 .. n |-> i] = 1 .. n
    OBVIOUS
  <2>2. Descend(m, path) = (CHOOSE h : h = E(h))[1 .. n]
    BY <2>1 DEF Descend, FoldLeft, MapThenFoldSet
  <2>3. (CHOOSE h : h = E(h)) = E(CHOOSE h : h = E(h))
    BY <1>6
  <2> QED
    BY <2>2, <2>3
<1>8. h[{}] = m
  BY <1>7
<1>9. ASSUME NEW s \in SUBSET (1 .. n), s # {}, h[s \ {Max(s)}] \in Model
      PROVE  h[s] = F[<<h[s \ {Max(s)}], Max(s)>>]
  BY <1>4, <1>7, <1>9
<1>10. [k \in 0 .. n |-> h[1 .. k]] \in TracesOf(Model, m, n, F)
  <2> HIDE DEF F, n, E
  <2> QED
    BY <1>1, <1>2, <1>8, <1>9, FoldTrace
<1>11. PICK f : f = [k \in 0 .. n |-> h[1 .. k]]
  OBVIOUS
<1>12. /\ f \in [0 .. n -> Model] /\ f[0] = m /\ f[n] = Descend(m, path)
       /\ \A k \in 1 .. n : f[k] = F[<<f[k - 1], k>>]
  <2> HIDE DEF F, n, E
  <2>1. f \in TracesOf(Model, m, n, F)
    BY <1>10, <1>11
  <2>2. n \in 0 .. n
    BY <1>1
  <2> QED
    BY <1>7, <1>11, <2>1, <2>2 DEF TracesOf
<1>13. ASSUME NEW k \in 1 .. n PROVE f[k] = Put(f[k - 1], SubSeq(path, 1, k), Map)
  <2>1. f[k] = F[<<f[k - 1], k>>] /\ k - 1 \in 0 .. n
    <3> HIDE DEF F, n
    <3> QED
      BY <1>1, <1>12
  <2>2. <<f[k - 1], k>> \in Model \X (1 .. n)
    BY <1>12, <2>1
  <2> QED
    BY <2>1, <2>2
<1>14. f \in DescentsOf(m, path)
  BY <1>12, <1>13, Zenon DEF DescentsOf
<1> QED
  BY <1>14

\* The entries are assigned one by one.
Entries == Seq([at : Seq(Keys), val : Scalars \cup {Map}])
AssignmentsOf(m, path, contents) ==
  {f \in [0 .. Len(contents) -> Model] :
     /\ f[0] = m /\ f[Len(contents)] = ApplyDataEntries(m, path, contents)
     /\ \A k \in 1 .. Len(contents) : f[k] = Put(f[k - 1], path \o contents[k].at, contents[k].val)}
LEMMA EntriesTrace ==
  ASSUME NEW m \in Model, NEW path, NEW contents \in Entries
  PROVE  AssignmentsOf(m, path, contents) # {}
<1> DEFINE n == Len(contents)
           E(h) == [s \in SUBSET (1 .. n) |->
                      IF s = {} THEN m
                      ELSE Put(h[s \ {Max(s)}], path \o contents[Max(s)].at, contents[Max(s)].val)]
           F == [x \in Model \X (1 .. n) |-> Put(x[1], path \o contents[x[2]].at, contents[x[2]].val)]
<1>1. n \in Nat /\ DOMAIN contents = 1 .. n
  BY DEF Entries
<1>2. F \in [Model \X (1 .. n) -> Model]
  <2>1. \A k \in 1 .. n : contents[k] \in [at : Seq(Keys), val : Scalars \cup {Map}]
    BY ElementOfSeq DEF Entries
  <2>2. \A k \in 1 .. n : contents[k].val \in Scalars \cup {Map}
    BY <2>1
  <2> QED
    BY <2>2, PutModel
<1>3. PICK g \in [SUBSET (1 .. n) -> Model] :
        \A s \in SUBSET (1 .. n) : g[s] = IF s = {} THEN m ELSE F[<<g[s \ {Max(s)}], Max(s)>>]
  <2> HIDE DEF F, n
  <2>1. FoldsOf(Model, m, n, F) # {}
    BY <1>1, <1>2, FoldExists
  <2> QED
    BY <2>1 DEF FoldsOf
<1>4. \A s \in SUBSET (1 .. n) : s # {} => Max(s) \in 1 .. n
  BY <1>1, LastPosition
<1>5. \A s \in SUBSET (1 .. n) : g[s] = E(g)[s]
  <2> TAKE s \in SUBSET (1 .. n)
  <2> SUFFICES ASSUME s # {} PROVE g[s] = E(g)[s]
    BY <1>3
  <2>1. s \ {Max(s)} \in SUBSET (1 .. n) /\ Max(s) \in 1 .. n
    BY <1>4
  <2>2. g[s] = F[<<g[s \ {Max(s)}], Max(s)>>] /\ g[s \ {Max(s)}] \in Model
    BY <1>3, <2>1
  <2> QED
    BY <2>1, <2>2
<1>6. g = E(g)
  BY <1>3, <1>5
<1>7. PICK h : h = E(h) /\ ApplyDataEntries(m, path, contents) = h[1 .. n]
  <2>1. DOMAIN contents = 1 .. n
    BY <1>1
  <2>2. ApplyDataEntries(m, path, contents) = (CHOOSE h : h = E(h))[1 .. n]
    BY <2>1 DEF ApplyDataEntries, FoldLeft, MapThenFoldSet
  <2>3. (CHOOSE h : h = E(h)) = E(CHOOSE h : h = E(h))
    BY <1>6
  <2> QED
    BY <2>2, <2>3
<1>8. h[{}] = m
  BY <1>7
<1>9. ASSUME NEW s \in SUBSET (1 .. n), s # {}, h[s \ {Max(s)}] \in Model
      PROVE  h[s] = F[<<h[s \ {Max(s)}], Max(s)>>]
  BY <1>4, <1>7, <1>9
<1>10. [k \in 0 .. n |-> h[1 .. k]] \in TracesOf(Model, m, n, F)
  <2> HIDE DEF F, n, E
  <2> QED
    BY <1>1, <1>2, <1>8, <1>9, FoldTrace
<1>11. PICK f : f = [k \in 0 .. n |-> h[1 .. k]]
  OBVIOUS
<1>12. /\ f \in [0 .. n -> Model] /\ f[0] = m /\ f[n] = ApplyDataEntries(m, path, contents)
       /\ \A k \in 1 .. n : f[k] = F[<<f[k - 1], k>>]
  <2> HIDE DEF F, n, E
  <2>1. f \in TracesOf(Model, m, n, F)
    BY <1>10, <1>11
  <2>2. n \in 0 .. n
    BY <1>1
  <2> QED
    BY <1>7, <1>11, <2>1, <2>2 DEF TracesOf
<1>13. ASSUME NEW k \in 1 .. n PROVE f[k] = Put(f[k - 1], path \o contents[k].at, contents[k].val)
  <2>1. f[k] = F[<<f[k - 1], k>>] /\ k - 1 \in 0 .. n
    <3> HIDE DEF F, n
    <3> QED
      BY <1>1, <1>12
  <2>2. <<f[k - 1], k>> \in Model \X (1 .. n)
    BY <1>12, <2>1
  <2> QED
    BY <2>1, <2>2
<1>14. f \in AssignmentsOf(m, path, contents)
  BY <1>12, <1>13, Zenon DEF AssignmentsOf
<1> QED
  BY <1>14

-----------------------------------------------------------------------------
\* A path is a sequence of at least one key and of bounded length.
LEMMA PathIs ==
  \A q : q \in Paths <=> q \in Seq(Keys) /\ Len(q) \in 1 .. MaxDepth
<1>1. ASSUME NEW q \in Paths PROVE q \in Seq(Keys) /\ Len(q) \in 1 .. MaxDepth
  BY MarkersAssumption DEF Paths
<1>2. ASSUME NEW q \in Seq(Keys), Len(q) \in 1 .. MaxDepth PROVE q \in Paths
  <2>1. q \in [1 .. Len(q) -> Keys]
    OBVIOUS
  <2> QED
    BY <1>2, <2>1 DEF Paths
<1> QED
  BY <1>1, <1>2

\* A prefix agrees with the sequence at its positions.
LEMMA PrefixIs ==
  ASSUME NEW s \in Seq(Keys), NEW t \in Seq(Keys)
  PROVE  IsPrefix(s, t) <=> Len(s) <= Len(t) /\ \A i \in 1 .. Len(s) : s[i] = t[i]
<1> SUFFICES ASSUME Len(s) <= Len(t)
             PROVE  SubSeq(s, 1, Len(s)) = SubSeq(t, 1, Len(s)) <=> \A i \in 1 .. Len(s) : s[i] = t[i]
  BY DEF IsPrefix
<1>1. /\ SubSeq(s, 1, Len(s)) = [i \in 1 .. Len(s) |-> s[i]]
      /\ SubSeq(t, 1, Len(s)) = [i \in 1 .. Len(s) |-> t[i]]
  OBVIOUS
<1> QED
  BY <1>1

\* A path of more than one key lies in the map one key up.
LEMMA FrontIs ==
  ASSUME NEW q \in Paths, Len(q) > 1
  PROVE  /\ Front(q) \in Paths /\ Len(Front(q)) = Len(q) - 1 /\ Front(q) # q
         /\ \A i \in 1 .. Len(q) - 1 : Front(q)[i] = q[i]
         /\ IsPrefix(Front(q), q)
<1>1. q \in Seq(Keys) /\ Len(q) \in 1 .. MaxDepth
  BY PathIs
<1>2. Front(q) = [i \in 1 .. Len(q) - 1 |-> q[i]]
  BY <1>1 DEF Front
<1>3. Front(q) \in Seq(Keys) /\ Len(Front(q)) = Len(q) - 1 /\ \A i \in 1 .. Len(q) - 1 : Front(q)[i] = q[i]
  BY <1>1, <1>2
<1>4. IsPrefix(Front(q), q)
  BY <1>1, <1>3, PrefixIs
<1>5. Front(q) # q
  BY <1>1, <1>3
<1> QED
  BY <1>1, <1>3, <1>4, <1>5, PathIs, MarkersAssumption

\* The assignments of an update, numbered: those that make the maps on the way, then
\* those of the entries.
Steps(u) == Len(u.path) + Len(u.contents)
At(u, k) == IF k <= Len(u.path) THEN SubSeq(u.path, 1, k)
            ELSE u.path \o u.contents[k - Len(u.path)].at
Val(u, k) == IF k <= Len(u.path) THEN Map ELSE u.contents[k - Len(u.path)].val

\* What is known of an update.
LEMMA UpdateIs ==
  ASSUME NEW u \in Updates
  PROVE  /\ u.path \in Seq(Keys) /\ u.path \in Paths \cup {<<>>}
         /\ u.contents \in Entries
         /\ Len(u.path) \in Nat /\ Len(u.contents) \in Nat /\ Steps(u) \in Nat
         /\ \A i \in 1 .. Len(u.contents) :
              /\ u.contents[i].at \in Seq(Keys) /\ u.contents[i].val \in Scalars \cup {Map}
              /\ u.path \o u.contents[i].at \in Paths
<1>1. u \in Update
  BY UpdatesAssumption
<1>2. u.path \in Seq(Keys) /\ u.contents \in Entries
  BY <1>1 DEF Update, Entries
<1>3. DOMAIN u.contents = 1 .. Len(u.contents)
  BY <1>2 DEF Entries
<1>4. \A i \in 1 .. Len(u.contents) : u.contents[i] \in [at : Seq(Keys), val : Scalars \cup {Map}]
  BY <1>2, ElementOfSeq DEF Entries
<1>5. \A i \in 1 .. Len(u.contents) :
         u.contents[i].at \in Seq(Keys) /\ u.contents[i].val \in Scalars \cup {Map}
  BY <1>4
<1>6. Len(u.path) \in Nat /\ Len(u.contents) \in Nat
  BY <1>2 DEF Entries
<1>7. \A i \in 1 .. Len(u.contents) : u.path \o u.contents[i].at \in Paths
  BY <1>3, UpdatesAssumption
<1>8. u.path \in Paths \cup {<<>>}
  BY UpdatesAssumption
<1>9. Steps(u) \in Nat
  <2>1. PICK a \in Nat, b \in Nat : a = Len(u.path) /\ b = Len(u.contents)
    BY <1>6
  <2>2. Steps(u) = a + b
    BY <2>1, Zenon DEF Steps
  <2>3. a + b \in Nat
    OBVIOUS
  <2> QED
    BY <2>2, <2>3
<1> QED
  BY <1>2, <1>5, <1>6, <1>7, <1>8, <1>9, Zenon

\* Every assignment is of a value to a path.
LEMMA StepIs ==
  ASSUME NEW u \in Updates, NEW k \in 1 .. Steps(u)
  PROVE  At(u, k) \in Paths /\ Val(u, k) \in Scalars \cup {Map}
<1>0. /\ Len(u.path) \in Nat /\ Len(u.contents) \in Nat
      /\ Steps(u) = Len(u.path) + Len(u.contents) /\ k \in 1 .. Steps(u)
  BY UpdateIs DEF Steps
<1>1. CASE k <= Len(u.path)
  <2>1. u.path \in Seq(Keys) /\ Len(u.path) \in 1 .. MaxDepth
    <3>1. u.path # <<>>
      BY <1>0, <1>1
    <3> QED
      BY <3>1, UpdateIs, PathIs
  <2>2. SubSeq(u.path, 1, k) \in Seq(Keys) /\ Len(SubSeq(u.path, 1, k)) = k
    BY <1>1, <2>1, <1>0
  <2>3. k \in 1 .. MaxDepth
    BY <1>0, <1>1, <2>1, MarkersAssumption
  <2>4. At(u, k) = SubSeq(u.path, 1, k) /\ Val(u, k) = Map
    BY <1>1 DEF At, Val
  <2> QED
    BY <2>2, <2>3, <2>4, PathIs
<1>2. CASE ~ (k <= Len(u.path))
  <2>1. k - Len(u.path) \in 1 .. Len(u.contents)
    <3>1. PICK a \in Nat, b \in Nat : a = Len(u.path) /\ b = Len(u.contents)
      BY <1>0
    <3>2. k \in 1 .. a + b /\ ~ (k <= a)
      BY <1>0, <1>2, <3>1
    <3>3. k - a \in 1 .. b
      BY <3>2
    <3> QED
      BY <3>1, <3>3
  <2> QED
    BY <1>2, <2>1, UpdateIs DEF At, Val
<1> QED
  BY <1>1, <1>2

\* An update is the sequence of its assignments.
Runs(m, u) ==
  {f \in [0 .. Steps(u) -> Model] :
     /\ f[0] = m /\ f[Steps(u)] = ApplyUpdate(m, u)
     /\ \A k \in 1 .. Steps(u) : f[k] = Put(f[k - 1], At(u, k), Val(u, k))}
LEMMA UpdateTrace ==
  ASSUME NEW m \in Model, NEW u \in Updates
  PROVE  Runs(m, u) # {}
<1> DEFINE n == Len(u.path)
           l == Len(u.contents)
<1>1. n \in Nat /\ l \in Nat /\ Steps(u) = n + l
  BY UpdateIs DEF Steps
<1>2. PICK d \in [0 .. n -> Model] :
        /\ d[0] = m /\ d[n] = Descend(m, u.path)
        /\ \A k \in 1 .. n : d[k] = Put(d[k - 1], SubSeq(u.path, 1, k), Map)
  <2>1. DescentsOf(m, u.path) # {}
    BY UpdateIs, DescendTrace
  <2> QED
    BY <2>1, Zenon DEF DescentsOf
<1>3. PICK e \in [0 .. l -> Model] :
        /\ e[0] = d[n] /\ e[l] = ApplyDataEntries(d[n], u.path, u.contents)
        /\ \A k \in 1 .. l : e[k] = Put(e[k - 1], u.path \o u.contents[k].at, u.contents[k].val)
  <2>1. d[n] \in Model
    BY <1>1
  <2>2. u.contents \in Entries
    BY UpdateIs
  <2> HIDE DEF n, l
  <2>3. AssignmentsOf(d[n], u.path, u.contents) # {}
    BY <2>1, <2>2, EntriesTrace
  <2> QED
    BY <2>3 DEF AssignmentsOf, l
<1>4. PICK f : f = [k \in 0 .. Steps(u) |-> IF k <= n THEN d[k] ELSE e[k - n]]
  OBVIOUS
<1> HIDE DEF n, l
<1>5. \A k \in 0 .. Steps(u) : /\ f[k] = IF k <= n THEN d[k] ELSE e[k - n]
                               /\ k <= n => k \in 0 .. n
                               /\ ~ (k <= n) => k - n \in 0 .. l
  BY <1>1, <1>4
<1>6. f \in [0 .. Steps(u) -> Model]
  BY <1>2, <1>3, <1>4, <1>5
<1>7. f[0] = m
  BY <1>1, <1>2, <1>5
<1>8. f[Steps(u)] = ApplyUpdate(m, u)
  <2>1. e[l] = ApplyUpdate(m, u)
    BY <1>2, <1>3 DEF ApplyUpdate
  <2>2. CASE l = 0
    BY <1>1, <1>3, <1>5, <2>1, <2>2
  <2>3. CASE l # 0
    <3>1. ~ (Steps(u) <= n) /\ Steps(u) - n = l /\ Steps(u) \in 0 .. Steps(u)
      BY <1>1, <2>3
    <3> QED
      BY <1>5, <2>1, <3>1
  <2> QED
    BY <2>2, <2>3
<1>9. ASSUME NEW k \in 1 .. Steps(u) PROVE f[k] = Put(f[k - 1], At(u, k), Val(u, k))
  <2>1. CASE k <= n
    <3>1. k \in 1 .. n /\ k - 1 <= n /\ k - 1 \in 0 .. Steps(u) /\ k \in 0 .. Steps(u)
      BY <1>1, <2>1
    <3>2. f[k] = d[k] /\ f[k - 1] = d[k - 1]
      BY <1>5, <2>1, <3>1
    <3> QED
      BY <1>2, <2>1, <3>1, <3>2 DEF At, Val, n
  <2>2. CASE ~ (k <= n)
    <3>1. PICK j \in Nat : j = k - n
      BY <1>1, <2>2
    <3>2. j \in 1 .. l /\ k - 1 \in 0 .. Steps(u) /\ k \in 0 .. Steps(u)
      BY <1>1, <2>2, <3>1
    <3>3. f[k] = e[j]
      BY <1>5, <2>2, <3>1, <3>2
    <3>4. f[k - 1] = e[j - 1]
      <4>1. CASE j = 1
        <5>1. k - 1 = n
          BY <1>1, <3>1, <4>1
        <5> QED
          BY <1>1, <1>3, <1>5, <3>2, <4>1, <5>1
      <4>2. CASE j # 1
        <5>1. ~ (k - 1 <= n) /\ (k - 1) - n = j - 1
          BY <1>1, <3>1, <3>2, <4>2
        <5> QED
          BY <1>5, <3>2, <5>1
      <4> QED
        BY <4>1, <4>2
    <3>5. e[j] = Put(e[j - 1], u.path \o u.contents[j].at, u.contents[j].val)
      BY <1>3, <3>2
    <3> QED
      BY <2>2, <3>1, <3>3, <3>4, <3>5 DEF At, Val, n
  <2> QED
    BY <2>1, <2>2
<1>10. f \in Runs(m, u)
  BY <1>6, <1>7, <1>8, <1>9 DEF Runs
<1> QED
  BY <1>10

-----------------------------------------------------------------------------
\* The entries of an update lie below its target.
LEMMA EntryIs ==
  ASSUME NEW u \in Updates, NEW i \in 1 .. Len(u.contents)
  PROVE  /\ Steps(u) \in Nat /\ Len(u.path) + i \in 1 .. Steps(u)
         /\ At(u, Len(u.path) + i) = u.path \o u.contents[i].at
         /\ Val(u, Len(u.path) + i) = u.contents[i].val
<1>1. PICK a \in Nat, b \in Nat : a = Len(u.path) /\ b = Len(u.contents)
  BY UpdateIs
<1>2. i \in 1 .. b /\ Steps(u) = a + b
  BY <1>1, Zenon DEF Steps
<1>3. a + i \in 1 .. a + b /\ ~ (a + i <= a) /\ (a + i) - a = i /\ a + b \in Nat
  BY <1>2
<1>4. ~ (Len(u.path) + i <= Len(u.path)) /\ (Len(u.path) + i) - Len(u.path) = i
  BY <1>1, <1>3
<1>5. Steps(u) \in Nat /\ Len(u.path) + i \in 1 .. Steps(u)
  BY <1>1, <1>2, <1>3
<1> QED
  BY <1>4, <1>5, Zenon DEF At, Val

\* An assignment is one on the way or that of an entry.
LEMMA StepCases ==
  ASSUME NEW u \in Updates, NEW k \in 1 .. Steps(u)
  PROVE  \/ /\ k \in 1 .. Len(u.path) /\ At(u, k) = SubSeq(u.path, 1, k) /\ Val(u, k) = Map
         \/ \E i \in 1 .. Len(u.contents) :
              /\ k = Len(u.path) + i
              /\ At(u, k) = u.path \o u.contents[i].at /\ Val(u, k) = u.contents[i].val
<1>1. PICK a \in Nat, b \in Nat : a = Len(u.path) /\ b = Len(u.contents)
  BY UpdateIs
<1>2. k \in 1 .. a + b
  BY <1>1, Zenon DEF Steps
<1>3. CASE k <= a
  <2>1. k \in 1 .. a
    BY <1>2, <1>3
  <2> QED
    BY <1>1, <1>3, <2>1, Zenon DEF At, Val
<1>4. CASE ~ (k <= a)
  <2>1. PICK i \in 1 .. b : k = a + i
    <3>1. k - a \in 1 .. b /\ k = a + (k - a)
      BY <1>2, <1>4
    <3> QED
      BY <3>1
  <2> QED
    BY <1>1, <2>1, EntryIs, Zenon
<1> QED
  BY <1>3, <1>4

\* What a common start does to prefixes.
LEMMA BelowTarget ==
  ASSUME NEW p \in Seq(Keys), NEW s \in Seq(Keys), NEW t \in Seq(Keys)
  PROVE  /\ IsPrefix(p \o s, p \o t) <=> IsPrefix(s, t)
         /\ p \o s = p \o t <=> s = t
         /\ IsPrefix(p, p \o t)
         /\ p = p \o t <=> t = <<>>
<1>1. PICK a \in Nat, b \in Nat, c \in Nat : a = Len(p) /\ b = Len(s) /\ c = Len(t)
  OBVIOUS
<1>2. /\ p \o s \in Seq(Keys) /\ Len(p \o s) = a + b
      /\ \A i \in 1 .. a : (p \o s)[i] = p[i]
      /\ \A i \in 1 .. b : (p \o s)[a + i] = s[i]
  BY <1>1
<1>3. /\ p \o t \in Seq(Keys) /\ Len(p \o t) = a + c
      /\ \A i \in 1 .. a : (p \o t)[i] = p[i]
      /\ \A i \in 1 .. c : (p \o t)[a + i] = t[i]
  BY <1>1
<1>4. \A i \in 1 .. a + b : i \in 1 .. a \/ \E j \in 1 .. b : i = a + j
  <2> TAKE i \in 1 .. a + b
  <2>1. CASE i <= a
    BY <2>1
  <2>2. CASE ~ (i <= a)
    <3>1. i - a \in 1 .. b /\ i = a + (i - a)
      BY <2>2
    <3> QED
      BY <3>1
  <2> QED
    BY <2>1, <2>2
<1>5. ASSUME IsPrefix(p \o s, p \o t) PROVE IsPrefix(s, t)
  <2>1. a + b <= a + c /\ \A i \in 1 .. a + b : (p \o s)[i] = (p \o t)[i]
    <3>1. PICK x, y : x = p \o s /\ y = p \o t
      OBVIOUS
    <3>2. x \in Seq(Keys) /\ y \in Seq(Keys) /\ Len(x) = a + b /\ Len(y) = a + c /\ IsPrefix(x, y)
      BY <1>2, <1>3, <1>5, <3>1
    <3>3. Len(x) <= Len(y) /\ \A i \in 1 .. Len(x) : x[i] = y[i]
      BY <3>2, PrefixIs
    <3> QED
      BY <3>1, <3>2, <3>3
  <2>2. b <= c
    BY <2>1
  <2>3. ASSUME NEW i \in 1 .. b PROVE s[i] = t[i]
    <3>1. a + i \in 1 .. a + b /\ i \in 1 .. c
      BY <2>2
    <3> QED
      BY <1>2, <1>3, <2>1, <3>1
  <2> QED
    BY <1>1, <2>2, <2>3, PrefixIs
<1>6. ASSUME IsPrefix(s, t) PROVE IsPrefix(p \o s, p \o t)
  <2>1. b <= c /\ \A i \in 1 .. b : s[i] = t[i]
    BY <1>1, <1>6, PrefixIs
  <2>2. a + b <= a + c
    BY <2>1
  <2>3. ASSUME NEW i \in 1 .. a + b PROVE (p \o s)[i] = (p \o t)[i]
    <3>1. CASE i \in 1 .. a
      BY <1>2, <1>3, <3>1
    <3>2. ASSUME NEW j \in 1 .. b, i = a + j PROVE (p \o s)[i] = (p \o t)[i]
      <4>1. j \in 1 .. c
        BY <2>1
      <4> QED
        BY <1>2, <1>3, <2>1, <3>2, <4>1
    <3> QED
      BY <1>4, <3>1, <3>2
  <2> QED
    BY <1>2, <1>3, <2>2, <2>3, PrefixIs
<1>7. p \o s = p \o t <=> s = t
  BY ConcatSimplifications
<1>8. IsPrefix(p, p \o t)
  <2>1. a <= a + c
    OBVIOUS
  <2> QED
    BY <1>1, <1>3, <2>1, PrefixIs
<1>9. p = p \o t <=> t = <<>>
  BY ConcatSimplifications
<1> QED
  BY <1>5, <1>6, <1>7, <1>8, <1>9

\* The front of a path below p.
LEMMA FrontBelow ==
  ASSUME NEW p \in Seq(Keys), NEW e \in Seq(Keys), e # <<>>
  PROVE  Front(p \o e) = p \o Front(e)
<1>1. PICK a \in Nat, d \in Nat : a = Len(p) /\ d = Len(e) /\ d >= 1
  OBVIOUS
<1>2. /\ p \o e \in Seq(Keys) /\ Len(p \o e) = a + d
      /\ \A x \in 1 .. a + d : (p \o e)[x] = IF x <= a THEN p[x] ELSE e[x - a]
  BY <1>1
<1>0. PICK c \in Nat : c = d - 1
  BY <1>1
<1>3. PICK f, g : f = Front(e) /\ g = Front(p \o e) /\ c = d - 1
  BY <1>0
<1>4. f \in Seq(Keys) /\ Len(f) = c /\ \A x \in 1 .. c : f[x] = e[x]
  <2>1. f = [x \in 1 .. c |-> e[x]]
    BY <1>1, <1>3 DEF Front
  <2> QED
    BY <1>1, <1>3, <2>1
<1>5. g \in Seq(Keys) /\ Len(g) = a + c /\ \A x \in 1 .. a + c : g[x] = (p \o e)[x]
  <2>1. PICK h : h = p \o e
    OBVIOUS
  <2>2. PICK n \in Nat : n = a + c
    OBVIOUS
  <2>3. g = [x \in 1 .. n |-> h[x]]
    BY <1>1, <1>2, <1>3, <2>1, <2>2 DEF Front
  <2>4. \A x \in 1 .. n : h[x] \in Keys
    BY <1>1, <1>2, <1>3, <2>1, <2>2
  <2>5. g \in [1 .. n -> Keys]
    BY <2>3, <2>4
  <2>6. g \in Seq(Keys) /\ Len(g) = n
    BY <2>5
  <2> QED
    BY <2>1, <2>2, <2>3, <2>6
<1>6. /\ p \o f \in Seq(Keys) /\ Len(p \o f) = a + c
      /\ \A x \in 1 .. a + c : (p \o f)[x] = IF x <= a THEN p[x] ELSE f[x - a]
  BY <1>1, <1>4
<1>7. ASSUME NEW x \in 1 .. a + c PROVE g[x] = (p \o f)[x]
  <2>1. x \in 1 .. a + d /\ (~ (x <= a) => x - a \in 1 .. c)
    BY <1>3
  <2> QED
    BY <1>2, <1>4, <1>5, <1>6, <2>1
<1>8. g = p \o f
  BY <1>5, <1>6, <1>7, SeqEqual
<1> QED
  BY <1>3, <1>8

\* What is written in a map comes after the map, with nothing between them but what
\* is below the map.
Kept(u, j, k) == \A i \in j + 1 .. k : IsStrictPrefix(At(u, j), At(u, i))
LEMMA MapsComeFirst ==
  ASSUME NEW u \in Updates, NEW k \in 1 .. Steps(u), Len(At(u, k)) > 1
  PROVE  \E j \in 1 .. k - 1 : /\ At(u, j) = Front(At(u, k)) /\ Val(u, j) = Map
                             /\ Kept(u, j, k - 1)
<1>1. PICK a \in Nat, b \in Nat : a = Len(u.path) /\ b = Len(u.contents)
  BY UpdateIs
<1>2. PICK p, c : p = u.path /\ c = u.contents
  OBVIOUS
<1>3. /\ p \in Seq(Keys) /\ Len(p) = a /\ DOMAIN c = 1 .. b
      /\ \A i \in 1 .. b : c[i].at \in Seq(Keys)
  BY <1>1, <1>2, UpdateIs DEF Entries
<1>4. a + b \in Nat /\ k \in 1 .. a + b
  <2>1. Steps(u) = a + b
    BY <1>1, Zenon DEF Steps
  <2> QED
    BY <2>1
<1>5. \A i \in 1 .. b : /\ a + i \in 1 .. a + b
                       /\ At(u, a + i) = p \o c[i].at /\ Val(u, a + i) = c[i].val
  <2> TAKE i \in 1 .. b
  <2>1. a + i \in 1 .. a + b
    OBVIOUS
  <2>2. At(u, a + i) = p \o c[i].at /\ Val(u, a + i) = c[i].val
    BY <1>1, <1>2, EntryIs, Zenon
  <2> QED
    BY <2>1, <2>2
<1>6. \A i \in 1 .. a : At(u, i) = SubSeq(p, 1, i) /\ Val(u, i) = Map
  <2> TAKE i \in 1 .. a
  <2>1. i <= a
    OBVIOUS
  <2> QED
    BY <1>1, <1>2, <2>1, Zenon DEF At, Val
<1>7. WrittenOut(c)
  BY <1>2, UpdatesAssumption
<1>8. CASE k \in 1 .. a
  <2>1. At(u, k) = [i \in 1 .. k |-> p[i]]
    BY <1>3, <1>6, <1>8
  <2>2. k > 1 /\ Len(At(u, k)) = k
    BY <1>8, <2>1
  <2>3. Front(At(u, k)) = [i \in 1 .. k - 1 |-> p[i]]
    BY <1>8, <2>1, <2>2 DEF Front
  <2>4. k - 1 \in 1 .. k - 1 /\ k - 1 \in 1 .. a
    BY <1>8, <2>2
  <2>5. At(u, k - 1) = [i \in 1 .. k - 1 |-> p[i]] /\ Val(u, k - 1) = Map
    BY <1>3, <1>6, <2>4
  <2>6. Kept(u, k - 1, k - 1)
    <3>1. (k - 1) + 1 .. k - 1 = {}
      BY <1>8
    <3> QED
      BY <3>1 DEF Kept
  <2> QED
    BY <2>3, <2>4, <2>5, <2>6
<1>9. ASSUME NEW i \in 1 .. b, k = a + i
      PROVE  \E j \in 1 .. k - 1 : /\ At(u, j) = Front(At(u, k)) /\ Val(u, j) = Map
                                 /\ Kept(u, j, k - 1)
  <2> DEFINE e == c[i].at
  <2>1. At(u, k) = p \o e /\ e \in Seq(Keys) /\ e # <<>>
    BY <1>3, <1>5, <1>7, <1>9 DEF WrittenOut
  <2>2. PICK d \in Nat : d = Len(e) /\ d >= 1
    BY <2>1
  <2> HIDE DEF e
  <2>3. Len(p \o e) = a + d
    BY <1>3, <2>1, <2>2, ConcatProperties
  <2>4. Front(p \o e) = p \o Front(e)
    BY <1>3, <2>1, FrontBelow
  <2>5. CASE d = 1
    <3>1. a >= 1
      BY <2>1, <2>3, <2>5
    <3>2. Front(e) = <<>>
      BY <2>1, <2>2, <2>5 DEF Front
    <3>3. Front(At(u, k)) = p
      BY <1>3, <2>1, <2>4, <3>2, ConcatEmptySeq
    <3>4. a \in 1 .. k - 1 /\ a \in 1 .. a
      BY <1>9, <3>1
    <3>5. At(u, a) = p /\ Val(u, a) = Map
      BY <1>3, <1>6, <3>4
    <3>6. Kept(u, a, k - 1)
      <4> SUFFICES ASSUME NEW x \in a + 1 .. k - 1 PROVE IsStrictPrefix(p, At(u, x))
        BY <3>5 DEF Kept
      <4>1. x - a \in 1 .. b /\ a + (x - a) = x
        BY <1>9
      <4>2. At(u, x) = p \o c[x - a].at /\ c[x - a].at \in Seq(Keys) /\ c[x - a].at # <<>>
        BY <1>3, <1>5, <1>7, <4>1 DEF WrittenOut
      <4>3. IsPrefix(p, At(u, x)) /\ p # At(u, x)
        BY <1>3, <4>2, BelowTarget
      <4> QED
        BY <4>3 DEF IsStrictPrefix
    <3> QED
      BY <3>3, <3>4, <3>5, <3>6
  <2>6. CASE d # 1
    <3>1. PICK j \in 1 .. i - 1 :
            /\ c[j] = [at |-> Front(e), val |-> Map]
            /\ \A x \in j + 1 .. i : IsStrictPrefix(c[j].at, c[x].at)
      <4>1. Len(e) > 1 /\ i \in DOMAIN c
        BY <1>3, <2>2, <2>6
      <4> QED
        BY <1>7, <4>1, Zenon DEF WrittenOut, e
    <3>2. j \in 1 .. b /\ a + j \in 1 .. k - 1 /\ c[j].at = Front(e) /\ c[j].val = Map
      BY <1>9, <3>1
    <3>3. At(u, a + j) = Front(At(u, k)) /\ Val(u, a + j) = Map
      BY <1>5, <2>1, <2>4, <3>2
    <3>4. Kept(u, a + j, k - 1)
      <4> SUFFICES ASSUME NEW x \in (a + j) + 1 .. k - 1 PROVE IsStrictPrefix(At(u, a + j), At(u, x))
        BY DEF Kept
      <4>1. x - a \in j + 1 .. i /\ x - a \in 1 .. b /\ a + (x - a) = x
        BY <1>9, <3>2
      <4>2. At(u, x) = p \o c[x - a].at /\ c[x - a].at \in Seq(Keys)
        BY <1>3, <1>5, <4>1
      <4>3. At(u, a + j) = p \o c[j].at /\ c[j].at \in Seq(Keys)
        BY <1>3, <1>5, <3>2
      <4>4. IsPrefix(c[j].at, c[x - a].at) /\ c[j].at # c[x - a].at
        BY <3>1, <4>1 DEF IsStrictPrefix
      <4>5. IsPrefix(At(u, a + j), At(u, x)) /\ At(u, a + j) # At(u, x)
        <5>1. PICK s, t : s = c[j].at /\ t = c[x - a].at
          OBVIOUS
        <5>2. s \in Seq(Keys) /\ t \in Seq(Keys) /\ IsPrefix(s, t) /\ s # t
          BY <4>2, <4>3, <4>4, <5>1
        <5>3. IsPrefix(p \o s, p \o t) /\ p \o s # p \o t
          BY <1>3, <5>2, BelowTarget
        <5> QED
          BY <4>2, <4>3, <5>1, <5>3
      <4> QED
        BY <4>5 DEF IsStrictPrefix
    <3> QED
      BY <3>2, <3>3, <3>4
  <2> QED
    BY <2>5, <2>6
<1>10. k \in 1 .. a \/ \E i \in 1 .. b : k = a + i
  BY <1>1, StepCases, Zenon
<1> QED
  BY <1>8, <1>9, <1>10

-----------------------------------------------------------------------------
\* What lies below something lies in maps, as TypeOK has it.
Tree(m) == \A q \in Paths : Len(q) > 1 /\ m[q] # Nothing => m[Front(q)] = Map

\* Prefixes of prefixes, of two prefixes of a path one is a prefix of the other, and
\* a path strictly below p is p, or below p, one key up.
LEMMA Prefix ==
  ASSUME NEW p \in Paths, NEW q \in Paths
  PROVE  /\ IsPrefix(p, p)
         /\ \A r \in Paths : IsPrefix(p, r) /\ IsPrefix(r, q) => IsPrefix(p, q)
         /\ \A r \in Paths : IsPrefix(p, r) /\ IsPrefix(q, r) => IsPrefix(p, q) \/ IsPrefix(q, p)
         /\ IsStrictPrefix(p, q) => Len(q) > 1 /\ Len(p) < Len(q) /\ IsPrefix(p, Front(q))
         /\ IsStrictPrefix(p, q) /\ Front(q) # p => IsStrictPrefix(p, Front(q))
<1>1. \A x \in Paths : x \in Seq(Keys) /\ Len(x) \in Nat /\ Len(x) >= 1
  BY PathIs, MarkersAssumption
<1>2. \A x, y \in Paths : IsPrefix(x, y) <=> Len(x) <= Len(y) /\ \A i \in 1 .. Len(x) : x[i] = y[i]
  BY <1>1, PrefixIs
<1>3. IsPrefix(p, p)
  BY <1>1, <1>2
<1>4. ASSUME NEW r \in Paths, IsPrefix(p, r), IsPrefix(r, q) PROVE IsPrefix(p, q)
  <2>1. Len(p) <= Len(r) /\ Len(r) <= Len(q)
    BY <1>2, <1>4
  <2>2. Len(p) <= Len(q) /\ \A i \in 1 .. Len(p) : i \in 1 .. Len(r)
    BY <1>1, <2>1
  <2>3. \A i \in 1 .. Len(p) : p[i] = q[i]
    BY <1>2, <1>4, <2>2
  <2> QED
    BY <1>2, <2>2, <2>3
<1>5. ASSUME NEW r \in Paths, IsPrefix(p, r), IsPrefix(q, r) PROVE IsPrefix(p, q) \/ IsPrefix(q, p)
  <2>1. CASE Len(p) <= Len(q)
    <3>1. \A i \in 1 .. Len(p) : i \in 1 .. Len(q)
      BY <1>1, <2>1
    <3> QED
      BY <1>2, <1>5, <2>1, <3>1
  <2>2. CASE Len(q) <= Len(p)
    <3>1. \A i \in 1 .. Len(q) : i \in 1 .. Len(p)
      BY <1>1, <2>2
    <3> QED
      BY <1>2, <1>5, <2>2, <3>1
  <2> QED
    BY <1>1, <2>1, <2>2
<1>6. ASSUME IsStrictPrefix(p, q) PROVE Len(q) > 1 /\ Len(p) < Len(q) /\ IsPrefix(p, Front(q))
  <2>1. IsPrefix(p, q) /\ p # q
    BY <1>6 DEF IsStrictPrefix
  <2>2. Len(p) # Len(q)
    BY <1>1, <1>2, <2>1, SeqEqual
  <2>3. Len(q) > 1 /\ Len(p) < Len(q)
    BY <1>1, <1>2, <2>1, <2>2
  <2>4. Len(p) <= Len(q) - 1 /\ \A i \in 1 .. Len(p) : i \in 1 .. Len(q) - 1
    BY <1>1, <2>3
  <2>5. Front(q) \in Paths /\ Len(Front(q)) = Len(q) - 1
        /\ \A i \in 1 .. Len(q) - 1 : Front(q)[i] = q[i]
    BY <2>3, FrontIs
  <2>6. \A i \in 1 .. Len(p) : p[i] = Front(q)[i]
    BY <1>2, <2>1, <2>4, <2>5
  <2> QED
    BY <1>2, <2>3, <2>4, <2>5, <2>6
<1> QED
  BY <1>3, <1>4, <1>5, <1>6 DEF IsStrictPrefix

\* Everything above something is a map.
LEMMA Ancestors ==
  ASSUME NEW m \in Model, Tree(m), NEW p \in Paths, NEW q \in Paths,
         IsStrictPrefix(p, q), m[q] # Nothing
  PROVE  m[p] = Map
<1> DEFINE P(k) == \A r \in Paths : /\ Len(r) <= k
                                  /\ IsStrictPrefix(p, r) /\ m[r] # Nothing
                                  => m[p] = Map
           S == {k \in Nat : P(k)}
<1>1. \A r \in Paths : Len(r) \in Nat /\ Len(r) >= 1
  BY PathIs, MarkersAssumption
<1>2. P(0)
  BY <1>1
<1>3. ASSUME NEW k \in Nat, P(k) PROVE P(k + 1)
  <2> SUFFICES ASSUME NEW r \in Paths, Len(r) <= k + 1, IsStrictPrefix(p, r), m[r] # Nothing
               PROVE  m[p] = Map
    OBVIOUS
  <2>1. Len(r) > 1 /\ m[Front(r)] = Map
    BY Prefix DEF Tree
  <2>2. Front(r) \in Paths /\ Len(Front(r)) = Len(r) - 1
    BY <2>1, FrontIs
  <2>3. Len(Front(r)) <= k /\ m[Front(r)] # Nothing
    BY <1>1, <2>1, <2>2, MarkersAssumption
  <2>4. Front(r) = p \/ IsStrictPrefix(p, Front(r))
    BY Prefix
  <2> QED
    BY <1>3, <2>1, <2>2, <2>3, <2>4
<1>4. S = Nat
  <2> HIDE DEF P
  <2>1. 0 \in S
    BY <1>2
  <2>2. \A k \in S : k + 1 \in S
    BY <1>3
  <2>3. S \in SUBSET Nat
    OBVIOUS
  <2> HIDE DEF S
  <2> QED
    BY <2>1, <2>2, <2>3, Induction
<1>5. P(Len(q))
  <2> HIDE DEF P
  <2> QED
    BY <1>1, <1>4
<1> QED
  BY <1>1, <1>5

\* What an assignment does to each path: a map that is there already is kept, and
\* where there is none nothing is below.
LEMMA PutAt ==
  ASSUME NEW m \in Model, Tree(m), NEW p \in Paths, NEW v \in Scalars \cup {Map}, NEW q \in Paths
  PROVE  Put(m, p, v)[q] = IF q = p THEN v
                           ELSE IF v # Map /\ IsStrictPrefix(p, q) THEN Nothing ELSE m[q]
<1>1. CASE v = Map /\ m[p] = Map
  BY <1>1 DEF Put
<1>2. CASE ~ (v = Map /\ m[p] = Map)
  <2>1. Put(m, p, v)[q] = IF q = p THEN v ELSE IF IsStrictPrefix(p, q) THEN Nothing ELSE m[q]
    BY <1>2 DEF Put
  <2>2. v = Map /\ IsStrictPrefix(p, q) => m[q] = Nothing
    BY <1>2, Ancestors
  <2> QED
    BY <2>1, <2>2
<1> QED
  BY <1>1, <1>2

\* An assignment in a map, or at the root, leaves a tree.
LEMMA PutTree ==
  ASSUME NEW m \in Model, Tree(m), NEW p \in Paths, NEW v \in Scalars \cup {Map},
         Len(p) > 1 => m[Front(p)] = Map
  PROVE  Tree(Put(m, p, v))
<1> SUFFICES ASSUME NEW q \in Paths, Len(q) > 1, Put(m, p, v)[q] # Nothing
             PROVE  Put(m, p, v)[Front(q)] = Map
  BY DEF Tree
<1>1. Front(q) \in Paths /\ Front(q) # q /\ IsPrefix(Front(q), q)
  BY FrontIs
<1>2. \A r \in Paths :
        Put(m, p, v)[r] = IF r = p THEN v
                          ELSE IF v # Map /\ IsStrictPrefix(p, r) THEN Nothing ELSE m[r]
  BY PutAt
<1>3. CASE q = p
  <2>1. ~ IsStrictPrefix(p, Front(q))
    <3>1. Len(Front(q)) = Len(q) - 1 /\ Len(q) \in Nat
      BY FrontIs, PathIs, MarkersAssumption
    <3>2. IsStrictPrefix(p, Front(q)) => Len(q) < Len(Front(q))
      BY <1>1, <1>3, Prefix
    <3> QED
      BY <3>1, <3>2
  <2> QED
    BY <1>1, <1>2, <1>3, <2>1
<1>4. CASE q # p
  <2>1. ~ (v # Map /\ IsStrictPrefix(p, q)) /\ m[q] # Nothing
    BY <1>2, <1>4
  <2>2. m[Front(q)] = Map
    BY <2>1 DEF Tree
  <2>3. Front(q) = p => IsStrictPrefix(p, q)
    BY <1>1 DEF IsStrictPrefix
  <2>4. IsStrictPrefix(p, Front(q)) => IsStrictPrefix(p, q)
    <3>1. IsPrefix(p, Front(q)) => IsPrefix(p, q)
      BY <1>1, Prefix
    <3> QED
      BY <1>4, <3>1 DEF IsStrictPrefix
  <2> QED
    BY <1>1, <1>2, <2>1, <2>2, <2>3, <2>4
<1> QED
  BY <1>3, <1>4

\* Along an update the model stays a tree, and a map that was made stays as long as
\* the assignments stay below it.
LEMMA RunTrees ==
  ASSUME NEW m \in Model, Tree(m), NEW u \in Updates, NEW f \in Runs(m, u)
  PROVE  \A k \in 0 .. Steps(u) : Tree(f[k])
<1> DEFINE n == Steps(u)
           Maps(k) == \A j \in 1 .. k : Val(u, j) = Map /\ Kept(u, j, k) => f[k][At(u, j)] = Map
           S == {k \in 0 .. n : Tree(f[k]) /\ Maps(k)}
<1>1. /\ n \in Nat /\ f \in [0 .. n -> Model] /\ f[0] = m
      /\ \A k \in 1 .. n : f[k] = Put(f[k - 1], At(u, k), Val(u, k))
  BY UpdateIs DEF Runs
<1> HIDE DEF n
<1>2. 0 \in S
  BY <1>1
<1>3. ASSUME NEW k \in 1 .. n, k - 1 \in S PROVE k \in S
  <2>1. k - 1 \in 0 .. n /\ f[k - 1] \in Model /\ Tree(f[k - 1]) /\ Maps(k - 1)
    BY <1>1, <1>3
  <2>2. At(u, k) \in Paths /\ Val(u, k) \in Scalars \cup {Map}
    BY StepIs DEF n
  <2>3. Len(At(u, k)) > 1 => f[k - 1][Front(At(u, k))] = Map
    BY <2>1, MapsComeFirst DEF n
  <2>4. Tree(f[k])
    BY <1>1, <2>1, <2>2, <2>3, PutTree
  <2>5. ASSUME NEW j \in 1 .. k, Val(u, j) = Map, Kept(u, j, k) PROVE f[k][At(u, j)] = Map
    <3>1. j \in 1 .. n /\ At(u, j) \in Paths
      <4>1. j \in 1 .. n
        BY <1>1
      <4> QED
        BY <4>1, StepIs DEF n
    <3>2. f[k][At(u, j)] = IF At(u, j) = At(u, k) THEN Val(u, k)
                           ELSE IF Val(u, k) # Map /\ IsStrictPrefix(At(u, k), At(u, j)) THEN Nothing
                           ELSE f[k - 1][At(u, j)]
      BY <1>1, <2>1, <2>2, <3>1, PutAt
    <3>3. CASE j = k
      BY <2>5, <3>2, <3>3
    <3>4. CASE j # k
      <4>1. j \in 1 .. k - 1 /\ k \in j + 1 .. k /\ \A i \in j + 1 .. k - 1 : i \in j + 1 .. k
        BY <3>4
      <4>2. Kept(u, j, k - 1) /\ IsStrictPrefix(At(u, j), At(u, k))
        BY <2>5, <4>1 DEF Kept
      <4>3. f[k - 1][At(u, j)] = Map
        BY <2>1, <2>5, <4>1, <4>2
      <4>4. At(u, j) # At(u, k) /\ ~ IsStrictPrefix(At(u, k), At(u, j))
        <5>1. Len(At(u, j)) \in Nat /\ Len(At(u, k)) \in Nat
          BY <2>2, <3>1, PathIs
        <5>2. Len(At(u, j)) < Len(At(u, k))
          BY <2>2, <3>1, <4>2, Prefix
        <5>3. IsStrictPrefix(At(u, k), At(u, j)) => Len(At(u, k)) < Len(At(u, j))
          BY <2>2, <3>1, Prefix
        <5> QED
          BY <5>1, <5>2, <5>3
      <4> QED
        BY <3>2, <4>3, <4>4
    <3> QED
      BY <3>3, <3>4
  <2>6. k \in 0 .. n
    BY <1>1
  <2> QED
    BY <2>4, <2>5, <2>6
<1>4. \A k \in 0 .. n : k \in S
  <2> HIDE DEF S
  <2> QED
    BY <1>1, <1>2, <1>3, StepByStep
<1> QED
  BY <1>4 DEF n

\* What each assignment of an update does to each path.
LEMMA StepAt ==
  ASSUME NEW m \in Model, Tree(m), NEW u \in Updates, NEW f \in Runs(m, u),
         NEW k \in 1 .. Steps(u), NEW q \in Paths
  PROVE  f[k][q] = IF q = At(u, k) THEN Val(u, k)
                   ELSE IF Val(u, k) # Map /\ IsStrictPrefix(At(u, k), q) THEN Nothing
                   ELSE f[k - 1][q]
<1>1. /\ Steps(u) \in Nat /\ f \in [0 .. Steps(u) -> Model]
      /\ f[k] = Put(f[k - 1], At(u, k), Val(u, k))
  BY UpdateIs DEF Runs
<1>2. k - 1 \in 0 .. Steps(u)
  BY <1>1
<1>3. f[k - 1] \in Model /\ Tree(f[k - 1])
  BY <1>1, <1>2, RunTrees
<1> QED
  BY <1>1, <1>3, StepIs, PutAt

\* An update leads from a tree to a tree.
LEMMA UpdateTree ==
  ASSUME NEW m \in Model, Tree(m), NEW u \in Updates
  PROVE  ApplyUpdate(m, u) \in Model /\ Tree(ApplyUpdate(m, u))
<1>1. PICK f : f \in Runs(m, u)
  BY UpdateTrace
<1>2. Steps(u) \in Nat
  BY UpdateIs
<1>3. Steps(u) \in 0 .. Steps(u)
  BY <1>2
<1>4. f[Steps(u)] = ApplyUpdate(m, u) /\ f[Steps(u)] \in Model
  BY <1>1, <1>3 DEF Runs
<1>5. Tree(f[Steps(u)])
  BY <1>1, <1>3, RunTrees
<1> QED
  BY <1>4, <1>5

\* TypeOK: whatever updates arrive, what lies below something lies in maps.
THEOREM TypeCorrect == Spec => []TypeOK
<1>1. TypeOK <=> dm \in Model /\ Tree(dm)
  BY DEF TypeOK, Tree
<1>2. Init => TypeOK
  BY DEF Init, TypeOK, EmptyModel, Model
<1>3. TypeOK /\ [Next]_vars => TypeOK'
  <2> SUFFICES ASSUME TypeOK, [Next]_vars PROVE TypeOK'
    OBVIOUS
  <2>1. CASE Next
    <3>1. PICK u \in Updates : dm' = ApplyUpdate(dm, u)
      BY <2>1 DEF Next
    <3>2. dm' \in Model /\ Tree(dm')
      BY <1>1, <3>1, UpdateTree
    <3> QED
      BY <3>2 DEF TypeOK, Tree
  <2>2. CASE UNCHANGED vars
    BY <2>2 DEF vars, TypeOK
  <2> QED
    BY <2>1, <2>2
<1> QED
  BY <1>2, <1>3, PTL DEF Spec

-----------------------------------------------------------------------------
\* The assignments of an update are to the paths it names.
LEMMA StepNamed ==
  ASSUME NEW u \in Updates, NEW k \in 1 .. Steps(u)
  PROVE  At(u, k) \in Named(u) /\ (Val(u, k) # Map => At(u, k) \in ScalarPaths(u))
<1>1. DOMAIN u.contents = 1 .. Len(u.contents)
  BY UpdateIs DEF Entries
<1>2. CASE k \in 1 .. Len(u.path) /\ At(u, k) = SubSeq(u.path, 1, k) /\ Val(u, k) = Map
  <2>1. Len(u.path) \in Nat
    BY UpdateIs
  <2>2. k \in 0 .. Len(u.path)
    BY <1>2, <2>1
  <2>3. At(u, k) \in Prefixes(u.path)
    BY <1>2, <2>2 DEF Prefixes
  <2>4. At(u, k) # <<>>
    BY StepIs, PathIs
  <2> QED
    BY <1>2, <2>3, <2>4 DEF Named
<1>3. ASSUME NEW i \in 1 .. Len(u.contents), k = Len(u.path) + i,
             At(u, k) = u.path \o u.contents[i].at, Val(u, k) = u.contents[i].val
      PROVE  At(u, k) \in Named(u) /\ (Val(u, k) # Map => At(u, k) \in ScalarPaths(u))
  <2>1. At(u, k) \in EntryPaths(u)
    BY <1>1, <1>3 DEF EntryPaths
  <2>2. Val(u, k) # Map => At(u, k) \in ScalarPaths(u)
    BY <1>1, <1>3 DEF ScalarPaths
  <2> QED
    BY <2>1, <2>2 DEF Named
<1> QED
  BY <1>2, <1>3, StepCases

\* MergesKeep: an update leaves alone what it does not assign, unless it gives a scalar
\* to a path above.
THEOREM Merges == Spec => MergesKeep
<1>1. ASSUME TypeOK, [Next]_vars
      PROVE  [\A q \in Paths :
                q \notin Named(last') /\ (\A p \in ScalarPaths(last') : ~IsPrefix(p, q)) => dm'[q] = dm[q]]_vars
  <2> SUFFICES ASSUME Next, NEW q \in Paths,
                      q \notin Named(last'), \A p \in ScalarPaths(last') : ~IsPrefix(p, q)
               PROVE  dm'[q] = dm[q]
    BY <1>1
  <2>1. PICK u \in Updates : dm' = ApplyUpdate(dm, u) /\ last' = u
    BY DEF Next
  <2>2. dm \in Model /\ Tree(dm)
    BY <1>1 DEF TypeOK, Tree
  <2>3. PICK f : f \in Runs(dm, u)
    BY <2>2, UpdateTrace
  <2>4. /\ Steps(u) \in Nat /\ f[0] = dm /\ f[Steps(u)] = dm'
    BY <2>1, <2>3, UpdateIs DEF Runs
  <2> DEFINE S == {k \in 0 .. Steps(u) : f[k][q] = dm[q]}
  <2>5. 0 \in S
    BY <2>4
  <2>6. ASSUME NEW k \in 1 .. Steps(u), k - 1 \in S PROVE k \in S
    <3>1. q # At(u, k) /\ ~ (Val(u, k) # Map /\ IsStrictPrefix(At(u, k), q))
      BY <2>1, StepNamed DEF IsStrictPrefix
    <3>2. f[k][q] = f[k - 1][q]
      BY <2>2, <2>3, <3>1, StepAt
    <3>3. k \in 0 .. Steps(u)
      BY <2>4
    <3> QED
      BY <2>6, <3>2, <3>3
  <2>7. \A k \in 0 .. Steps(u) : k \in S
    <3> HIDE DEF S
    <3> QED
      BY <2>4, <2>5, <2>6, StepByStep
  <2>8. Steps(u) \in 0 .. Steps(u)
    BY <2>4
  <2> QED
    BY <2>4, <2>7, <2>8
<1> QED
  BY <1>1, TypeCorrect, PTL DEF Spec, MergesKeep

-----------------------------------------------------------------------------
\* A step of an update reaches a path when it assigns it or gives a scalar to a path
\* above it.
Reaches(u, k, q) == q = At(u, k) \/ (Val(u, k) # Map /\ IsPrefix(At(u, k), q))

\* What an update leaves at a path it reaches does not depend on what was there, and
\* it is a map unless it gives a scalar there or above.
LEMMA Reached ==
  ASSUME NEW m \in Model, Tree(m), NEW l \in Model, Tree(l), NEW u \in Updates, NEW q \in Paths
  PROVE  IF \E k \in 1 .. Steps(u) : Reaches(u, k, q)
         THEN /\ ApplyUpdate(m, u)[q] = ApplyUpdate(l, u)[q]
              /\ (\A k \in 1 .. Steps(u) : Val(u, k) # Map => ~ IsPrefix(At(u, k), q))
                   => ApplyUpdate(m, u)[q] = Map
         ELSE ApplyUpdate(m, u)[q] = m[q]
<1>1. PICK f, g : f \in Runs(m, u) /\ g \in Runs(l, u)
  <2>1. PICK f : f \in Runs(m, u)
    BY UpdateTrace
  <2>2. PICK g : g \in Runs(l, u)
    BY UpdateTrace
  <2> QED
    BY <2>1, <2>2
<1> DEFINE n == Steps(u)
           Hit(k) == \E j \in 1 .. k : Reaches(u, j, q)
           Maps(k) == \A j \in 1 .. k : Val(u, j) # Map => ~ IsPrefix(At(u, j), q)
           S == {k \in 0 .. n : IF Hit(k) THEN f[k][q] = g[k][q] /\ (Maps(k) => f[k][q] = Map)
                                 ELSE f[k][q] = m[q]}
<1>2. /\ n \in Nat /\ f[0] = m /\ f[n] = ApplyUpdate(m, u) /\ g[n] = ApplyUpdate(l, u)
  BY <1>1, UpdateIs DEF Runs
<1>3. \A k \in 1 .. n :
        /\ f[k][q] = IF q = At(u, k) THEN Val(u, k)
                     ELSE IF Val(u, k) # Map /\ IsStrictPrefix(At(u, k), q) THEN Nothing
                     ELSE f[k - 1][q]
        /\ g[k][q] = IF q = At(u, k) THEN Val(u, k)
                     ELSE IF Val(u, k) # Map /\ IsStrictPrefix(At(u, k), q) THEN Nothing
                     ELSE g[k - 1][q]
  BY <1>1, StepAt
<1> HIDE DEF n
<1>4. 0 \in S
  <2>1. 1 .. 0 = {}
    OBVIOUS
  <2> QED
    BY <1>2, <2>1
<1>5. ASSUME NEW k \in 1 .. n, k - 1 \in S PROVE k \in S
  <2>1. k \in 0 .. n /\ 1 .. k = (1 .. k - 1) \cup {k}
    BY <1>2
  <2>2. Hit(k) <=> Hit(k - 1) \/ Reaches(u, k, q)
    BY <2>1
  <2>3. Maps(k) => Maps(k - 1) /\ (Val(u, k) # Map => ~ IsPrefix(At(u, k), q))
    BY <2>1
  <2>4. IsPrefix(q, q)
    BY Prefix
  <2> HIDE DEF Hit, Maps
  <2>5. CASE q = At(u, k)
    BY <1>3, <2>1, <2>2, <2>3, <2>4, <2>5 DEF Reaches
  <2>6. CASE q # At(u, k) /\ Val(u, k) # Map /\ IsPrefix(At(u, k), q)
    BY <1>3, <2>1, <2>2, <2>3, <2>6 DEF Reaches, IsStrictPrefix
  <2>7. CASE ~ Reaches(u, k, q)
    <3>1. f[k][q] = f[k - 1][q] /\ g[k][q] = g[k - 1][q]
      BY <1>3, <2>7 DEF Reaches, IsStrictPrefix
    <3> QED
      BY <1>5, <2>1, <2>2, <2>3, <2>7, <3>1
  <2> QED
    BY <2>5, <2>6, <2>7 DEF Reaches
<1>6. \A k \in 0 .. n : k \in S
  <2> HIDE DEF S
  <2> QED
    BY <1>2, <1>4, <1>5, StepByStep
<1>7. n \in S
  BY <1>2, <1>6
<1> QED
  BY <1>2, <1>7 DEF n

\* UpdatesCommute: in every state, two updates of which neither gives a scalar to a
\* path that the other assigns or goes through give the same model in either order.
THEOREM Commute == Spec => []UpdatesCommute
<1>1. ASSUME TypeOK PROVE UpdatesCommute
  <2> SUFFICES ASSUME NEW u \in Updates, NEW v \in Updates, Independent(u, v), Independent(v, u)
               PROVE  ApplyUpdate(ApplyUpdate(dm, u), v) = ApplyUpdate(ApplyUpdate(dm, v), u)
    BY DEF UpdatesCommute
  <2>1. PICK mu, mv : mu = ApplyUpdate(dm, u) /\ mv = ApplyUpdate(dm, v)
    OBVIOUS
  <2>2. dm \in Model /\ Tree(dm)
    BY <1>1 DEF TypeOK, Tree
  <2>3. mu \in Model /\ Tree(mu) /\ mv \in Model /\ Tree(mv)
    BY <2>1, <2>2, UpdateTree
  <2>4. ApplyUpdate(mu, v) \in Model /\ ApplyUpdate(mv, u) \in Model
    BY <2>3, UpdateTree
  <2>5. ASSUME NEW q \in Paths PROVE ApplyUpdate(mu, v)[q] = ApplyUpdate(mv, u)[q]
    <3> DEFINE InU == \E k \in 1 .. Steps(u) : Reaches(u, k, q)
               InV == \E k \in 1 .. Steps(v) : Reaches(v, k, q)
               MapsU == \A k \in 1 .. Steps(u) : Val(u, k) # Map => ~ IsPrefix(At(u, k), q)
               MapsV == \A k \in 1 .. Steps(v) : Val(v, k) # Map => ~ IsPrefix(At(v, k), q)
    <3>1. IF InU THEN ApplyUpdate(mv, u)[q] = mu[q] /\ (MapsU => ApplyUpdate(mv, u)[q] = Map)
          ELSE ApplyUpdate(mv, u)[q] = mv[q]
      BY <2>1, <2>2, <2>3, Reached
    <3>2. IF InV THEN ApplyUpdate(mu, v)[q] = mv[q] /\ (MapsV => ApplyUpdate(mu, v)[q] = Map)
          ELSE ApplyUpdate(mu, v)[q] = mu[q]
      BY <2>1, <2>2, <2>3, Reached
    <3>3. ~ InU => mu[q] = dm[q]
      BY <2>1, <2>2, Reached
    <3>4. ~ InV => mv[q] = dm[q]
      BY <2>1, <2>2, Reached
    <3>5. ASSUME NEW j \in 1 .. Steps(u), Reaches(u, j, q), NEW k \in 1 .. Steps(v), Reaches(v, k, q)
          PROVE  ~ (Val(u, j) # Map /\ IsPrefix(At(u, j), q)) /\ ~ (Val(v, k) # Map /\ IsPrefix(At(v, k), q))
      <4>1. At(u, j) \in Paths /\ At(v, k) \in Paths
        BY StepIs
      <4>2. IsPrefix(At(u, j), q) /\ IsPrefix(At(v, k), q)
        BY <3>5, Prefix DEF Reaches
      <4>3. IsPrefix(At(u, j), At(v, k)) \/ IsPrefix(At(v, k), At(u, j))
        BY <4>1, <4>2, Prefix
      <4>4. Val(u, j) # Map => ~ IsPrefix(At(u, j), At(v, k))
        BY StepNamed DEF Independent
      <4>5. Val(v, k) # Map => ~ IsPrefix(At(v, k), At(u, j))
        BY StepNamed DEF Independent
      <4> QED
        BY <3>5, <4>2, <4>3, <4>4, <4>5 DEF Reaches
    <3>6. InU /\ InV => MapsU /\ MapsV
      BY <3>5 DEF Reaches
    <3> HIDE DEF InU, InV, MapsU, MapsV
    <3> QED
      BY <3>1, <3>2, <3>3, <3>4, <3>6
  <2> QED
    BY <2>1, <2>4, <2>5 DEF Model
<1> QED
  BY <1>1, TypeCorrect, PTL

-----------------------------------------------------------------------------
\* Get takes every part of a path that has no empty one.
LEMMA AllParts ==
  ASSUME NEW path \in Seq(Keys), \A i \in DOMAIN path : path[i] # Empty
  PROVE  Parts(path) = path
<1> DEFINE n == Len(path)
           A == Seq(Keys)
           E(h) == [s \in SUBSET (1 .. n) |->
                      IF s = {} THEN <<>>
                      ELSE IF path[Max(s)] = Empty THEN h[s \ {Max(s)}]
                      ELSE Append(h[s \ {Max(s)}], path[Max(s)])]
           F == [x \in A \X (1 .. n) |-> Append(x[1], path[x[2]])]
<1>1. n \in Nat /\ DOMAIN path = 1 .. n /\ \A k \in 1 .. n : path[k] \in Keys /\ path[k] # Empty
  OBVIOUS
<1>2. F \in [A \X (1 .. n) -> A] /\ <<>> \in A
  <2>1. \A q \in A, k \in 1 .. n : Append(q, path[k]) \in A
    BY <1>1
  <2> QED
    BY <2>1
<1> HIDE DEF n, A
<1>3. PICK g \in [SUBSET (1 .. n) -> A] :
        \A s \in SUBSET (1 .. n) : g[s] = IF s = {} THEN <<>> ELSE F[<<g[s \ {Max(s)}], Max(s)>>]
  <2> HIDE DEF F
  <2>1. FoldsOf(A, <<>>, n, F) # {}
    BY <1>1, <1>2, FoldExists
  <2> QED
    BY <2>1 DEF FoldsOf
<1>4. \A s \in SUBSET (1 .. n) : s # {} => Max(s) \in 1 .. n
  BY <1>1, LastPosition
<1>5. \A s \in SUBSET (1 .. n) : g[s] = E(g)[s]
  <2> TAKE s \in SUBSET (1 .. n)
  <2> SUFFICES ASSUME s # {} PROVE g[s] = E(g)[s]
    BY <1>3
  <2>1. s \ {Max(s)} \in SUBSET (1 .. n) /\ Max(s) \in 1 .. n
    BY <1>4
  <2>2. g[s] = F[<<g[s \ {Max(s)}], Max(s)>>] /\ g[s \ {Max(s)}] \in A
    BY <1>3, <2>1
  <2> QED
    BY <1>1, <2>1, <2>2
<1>6. g = E(g)
  BY <1>3, <1>5
<1>7. PICK h : h = E(h) /\ Parts(path) = h[1 .. n]
  <2>1. Parts(path) = (CHOOSE h : h = E(h))[1 .. n]
    BY <1>1 DEF Parts, FoldLeft, MapThenFoldSet
  <2>2. (CHOOSE h : h = E(h)) = E(CHOOSE h : h = E(h))
    BY <1>6
  <2> QED
    BY <2>1, <2>2
<1>8. h[{}] = <<>>
  BY <1>7
<1>9. ASSUME NEW s \in SUBSET (1 .. n), s # {}, h[s \ {Max(s)}] \in A
      PROVE  h[s] = F[<<h[s \ {Max(s)}], Max(s)>>]
  BY <1>1, <1>4, <1>7, <1>9
<1>10. PICK f : f = [k \in 0 .. n |-> h[1 .. k]]
  OBVIOUS
<1>11. /\ f \in [0 .. n -> A] /\ f[0] = <<>> /\ f[n] = Parts(path)
       /\ \A k \in 1 .. n : f[k] = F[<<f[k - 1], k>>]
  <2> HIDE DEF F, E
  <2>1. f \in TracesOf(A, <<>>, n, F)
    BY <1>1, <1>2, <1>8, <1>9, <1>10, FoldTrace
  <2>2. n \in 0 .. n
    BY <1>1
  <2> QED
    BY <1>7, <1>10, <2>1, <2>2 DEF TracesOf
<1>12. \A k \in 0 .. n : k \in {j \in 0 .. n : Len(f[j]) = j /\ \A i \in 1 .. j : f[j][i] = path[i]}
  <2> DEFINE S == {j \in 0 .. n : Len(f[j]) = j /\ \A i \in 1 .. j : f[j][i] = path[i]}
  <2>1. 0 \in S
    BY <1>1, <1>11
  <2>2. ASSUME NEW k \in 1 .. n, k - 1 \in S PROVE k \in S
    <3>1. k - 1 \in 0 .. n /\ k \in 0 .. n
      BY <1>1
    <3>2. f[k - 1] \in A /\ f[k] = F[<<f[k - 1], k>>]
      BY <1>11, <3>1
    <3>3. f[k] = Append(f[k - 1], path[k]) /\ path[k] \in Keys
      BY <1>1, <3>2
    <3>4. Len(f[k]) = k /\ f[k][k] = path[k] /\ \A i \in 1 .. k - 1 : f[k][i] = f[k - 1][i]
      <4>1. PICK x \in Seq(Keys) : x = f[k - 1]
        BY <3>2 DEF A
      <4>2. Len(x) = k - 1
        BY <2>2, <4>1
      <4> QED
        BY <3>3, <4>1, <4>2
    <3>5. \A i \in 1 .. k : i = k \/ i \in 1 .. k - 1
      OBVIOUS
    <3> QED
      BY <2>2, <3>1, <3>4, <3>5
  <2> HIDE DEF S
  <2>3. \A k \in 0 .. n : k \in S
    BY <1>1, <2>1, <2>2, StepByStep
  <2> QED
    BY <2>3 DEF S
<1>13. f[n] \in Seq(Keys) /\ Len(f[n]) = n /\ \A i \in 1 .. n : f[n][i] = path[i]
  <2>1. n \in 0 .. n
    BY <1>1
  <2> QED
    BY <1>11, <1>12, <2>1 DEF A
<1>14. f[n] = path
  BY <1>13, SeqEqual DEF n
<1> QED
  BY <1>11, <1>14

\* Two entries of an update are where their keys lead.
LEMMA EntriesBelow ==
  ASSUME NEW u \in Updates, NEW i \in 1 .. Len(u.contents), NEW j \in 1 .. Len(u.contents)
  PROVE  /\ IsPrefix(u.path \o u.contents[j].at, u.path \o u.contents[i].at)
              <=> IsPrefix(u.contents[j].at, u.contents[i].at)
         /\ u.path \o u.contents[j].at = u.path \o u.contents[i].at
              <=> u.contents[j].at = u.contents[i].at
<1>1. PICK p, s, t : p = u.path /\ s = u.contents[j].at /\ t = u.contents[i].at
  OBVIOUS
<1>2. p \in Seq(Keys) /\ s \in Seq(Keys) /\ t \in Seq(Keys)
  BY <1>1, UpdateIs
<1>3. IsPrefix(p \o s, p \o t) <=> IsPrefix(s, t)
  BY <1>2, BelowTarget
<1>4. p \o s = p \o t <=> s = t
  BY <1>2, ConcatSimplifications
<1> QED
  BY <1>1, <1>3, <1>4, Zenon

\* ReadsBack: what an update writes, a bound value with the same path reads, unless a
\* later entry of the update writes there, or a scalar above.
THEOREM Reads == Spec => []ReadsBack
<1>1. Init => ReadsBack
  BY DEF Init, ReadsBack
<1>2. TypeOK /\ ReadsBack /\ [Next]_vars => ReadsBack'
  <2> SUFFICES ASSUME TypeOK, ReadsBack, [Next]_vars PROVE ReadsBack'
    OBVIOUS
  <2>1. CASE UNCHANGED vars
    BY <2>1 DEF vars, ReadsBack
  <2>2. ASSUME NEW u \in Updates, dm' = ApplyUpdate(dm, u), last' = u PROVE ReadsBack'
    <3> SUFFICES ASSUME NEW i \in DOMAIN u.contents,
                        \A j \in DOMAIN (u.path \o u.contents[i].at) : (u.path \o u.contents[i].at)[j] # Empty,
                        ~ Overwritten(u, i)
                 PROVE  Get(dm', u.path \o u.contents[i].at) = u.contents[i].val
      BY <2>2 DEF ReadsBack
    <3>1. PICK q : q = u.path \o u.contents[i].at
      OBVIOUS
    <3>2. DOMAIN u.contents = 1 .. Len(u.contents)
      BY UpdateIs DEF Entries
    <3>3. q \in Paths /\ q \in Seq(Keys) /\ q # <<>>
      <4>1. q \in Paths
        BY <3>1, <3>2, UpdateIs
      <4>2. q \in Seq(Keys) /\ Len(q) \in 1 .. MaxDepth
        BY <4>1, PathIs
      <4> QED
        BY <4>1, <4>2
    <3>4. Get(dm', q) = dm'[q]
      <4>1. Parts(q) = q
        BY <3>1, <3>3, AllParts
      <4> QED
        BY <3>3, <4>1 DEF Get
    <3>5. dm \in Model /\ Tree(dm)
      BY DEF TypeOK, Tree
    <3>6. PICK f : f \in Runs(dm, u)
      BY <3>5, UpdateTrace
    <3>7. /\ Steps(u) \in Nat /\ f[Steps(u)] = dm'
      BY <2>2, <3>6, UpdateIs DEF Runs
    <3>8. PICK x \in 1 .. Steps(u) : x = Len(u.path) + i /\ At(u, x) = q /\ Val(u, x) = u.contents[i].val
      BY <3>1, <3>2, EntryIs
    <3> DEFINE S == {k \in 0 .. Steps(u) : k >= x => f[k][q] = Val(u, x)}
    <3>9. 0 \in S
      BY <3>7, <3>8
    <3>10. ASSUME NEW k \in 1 .. Steps(u), k - 1 \in S PROVE k \in S
      <4>1. k \in 0 .. Steps(u) /\ x \in Nat /\ k \in Nat
        BY <3>7, <3>8
      <4> SUFFICES ASSUME k >= x PROVE f[k][q] = Val(u, x)
        BY <4>1
      <4>2. CASE k = x
        BY <3>3, <3>5, <3>6, <3>8, <4>2, StepAt
      <4>3. CASE k # x
        <5>1. k - 1 >= x /\ k > x
          BY <4>1, <4>3
        <5>2. f[k - 1][q] = Val(u, x)
          BY <3>10, <5>1
        <5>3. q # At(u, k) /\ ~ (Val(u, k) # Map /\ IsStrictPrefix(At(u, k), q))
          <6>1. PICK j \in 1 .. Len(u.contents) :
                  /\ k = Len(u.path) + j
                  /\ At(u, k) = u.path \o u.contents[j].at /\ Val(u, k) = u.contents[j].val
            <7>1. PICK a \in Nat : a = Len(u.path)
              BY UpdateIs
            <7>2. i \in Nat
              BY <3>2, UpdateIs
            <7>3. k \notin 1 .. a
              BY <3>8, <4>1, <5>1, <7>1, <7>2
            <7> QED
              BY <7>1, <7>3, StepCases
          <6>2. j > i
            <7>1. PICK a \in Nat : a = Len(u.path)
              BY UpdateIs
            <7>2. i \in Nat /\ j \in Nat
              BY <3>2, UpdateIs
            <7> QED
              BY <3>8, <5>1, <6>1, <7>1, <7>2
          <6>3. /\ u.contents[j].at # u.contents[i].at
                /\ ~ (u.contents[j].val # Map /\ IsPrefix(u.contents[j].at, u.contents[i].at))
            BY <3>2, <6>2 DEF Overwritten
          <6>4. /\ IsPrefix(At(u, k), q) <=> IsPrefix(u.contents[j].at, u.contents[i].at)
                /\ At(u, k) = q <=> u.contents[j].at = u.contents[i].at
            BY <3>1, <3>2, <6>1, EntriesBelow, Zenon
          <6> QED
            BY <6>1, <6>3, <6>4, Zenon DEF IsStrictPrefix
        <5> QED
          BY <3>3, <3>5, <3>6, <5>2, <5>3, StepAt
      <4> QED
        BY <4>2, <4>3
    <3>11. \A k \in 0 .. Steps(u) : k \in S
      <4> HIDE DEF S
      <4> QED
        BY <3>7, <3>9, <3>10, StepByStep
    <3>12. Steps(u) \in 0 .. Steps(u) /\ Steps(u) >= x
      BY <3>7, <3>8
    <3>13. dm'[q] = u.contents[i].val
      BY <3>7, <3>8, <3>11, <3>12
    <3> QED
      BY <3>1, <3>4, <3>13
  <2> QED
    BY <2>1, <2>2 DEF Next
<1> QED
  BY <1>1, <1>2, TypeCorrect, PTL DEF Spec
=============================================================================
