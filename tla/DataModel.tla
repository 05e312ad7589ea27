------------------------------ MODULE DataModel ------------------------------
(***************************************************************************)
(* The data model of a surface (a2ui/model.go): nested maps that            *)
(* dataModelUpdate messages write and bound values read, by path.           *)
(*                                                                         *)
(* A model is a function of the paths it has: a path leads to a scalar, to  *)
(* a map (Map) or to nothing.  A path is the sequence of its parts, <<>> is *)
(* the root, written "" or "/".  Two slashes in a row, or one at the end,   *)
(* make an empty part.                                                      *)
(***************************************************************************)
EXTENDS Naturals, Sequences, SequencesExt

CONSTANTS
  Keys,      \* the keys of maps, and Empty
  Empty,     \* the empty part of a path, and the key ""
  Scalars,   \* strings, numbers and booleans
  MaxDepth,  \* bound on the length of a path, a model bound
  Updates,   \* the payloads that arrive
  Map,       \* the value at a path that has a map
  Nothing    \* the value at a path that has nothing: nil

Paths == UNION {[1 .. n -> Keys] : n \in 1 .. MaxDepth}
Model == [Paths -> Scalars \cup {Map, Nothing}]
EmptyModel == [q \in Paths |-> Nothing]

\* A payload: its path and its contents.  A nested valueMap is written out, an
\* entry for the map and then the entries in it, with the keys that lead there.
Update == [path : Seq(Keys), contents : Seq([at : Seq(Keys), val : Scalars \cup {Map}])]

\* The entries of a map come right after it: between a map and an entry in it there
\* are only entries below the map.
WrittenOut(contents) ==
  \A i \in DOMAIN contents :
    /\ contents[i].at # <<>>
    /\ Len(contents[i].at) > 1 =>
         \E j \in 1 .. i - 1 :
           /\ contents[j] = [at |-> Front(contents[i].at), val |-> Map]
           /\ \A k \in j + 1 .. i : IsStrictPrefix(contents[j].at, contents[k].at)

ASSUME MarkersAssumption == /\ Map \notin Scalars /\ Nothing \notin Scalars /\ Map # Nothing
                            /\ Empty \in Keys /\ MaxDepth \in Nat
ASSUME UpdatesAssumption ==
  /\ Updates \subseteq Update
  /\ \A u \in Updates : /\ u.path \in Paths \cup {<<>>}
                       /\ WrittenOut(u.contents)
                       /\ \A i \in DOMAIN u.contents : u.path \o u.contents[i].at \in Paths
-----------------------------------------------------------------------------
VARIABLES
  dm,   \* the data model
  last  \* the update applied last

vars == <<dm, last>>

Init == dm = EmptyModel /\ last = [path |-> <<>>, contents |-> <<>>]

\* Mistake: a map that is there already is made anew.
PutAnew(m, p, v) ==
  [q \in Paths |-> IF q = p THEN v ELSE IF IsStrictPrefix(p, q) THEN Nothing ELSE m[q]]

\* Mistake: a scalar on the way is not replaced.
PutUnlessScalar(m, p, v) ==
  IF m[p] # Nothing /\ v = Map THEN m
  ELSE [q \in Paths |-> IF q = p THEN v ELSE IF IsStrictPrefix(p, q) THEN Nothing ELSE m[q]]

\* One assignment to a map's key.  A map that is there already is kept and
\* written into; what was below another value is gone with it.
Put(m, p, v) ==
  IF v = Map /\ m[p] = Map THEN m
  ELSE [q \in Paths |-> IF q = p THEN v ELSE IF IsStrictPrefix(p, q) THEN Nothing ELSE m[q]]

\* The maps on the way to the target are found or made, the target included.
Descend(m, path) ==
  FoldLeft(LAMBDA a, n : Put(a, SubSeq(path, 1, n), Map), m, [n \in 1 .. Len(path) |-> n])

\* Mistake: the entries are taken from the last to the first.
ApplyBackwards(m, path, contents) ==
  FoldLeft(LAMBDA a, e : Put(a, path \o e.at, e.val), m, Reverse(contents))

\* applyDataEntries: entry after entry, a later one overwrites an earlier one.
ApplyDataEntries(m, path, contents) ==
  FoldLeft(LAMBDA a, e : Put(a, path \o e.at, e.val), m, contents)

\* ApplyUpdate splits the path at every slash and takes empty parts for keys.
ApplyUpdate(m, u) == ApplyDataEntries(Descend(m, u.path), u.path, u.contents)

\* Get, which skips empty parts and finds nothing at the root.
Parts(path) == FoldLeft(LAMBDA q, k : IF k = Empty THEN q ELSE Append(q, k), <<>>, path)
Get(m, path) ==
  CASE path = <<>> -> Nothing
    [] path # <<>> /\ Parts(path) = <<>> -> Map
    [] OTHER -> IF Parts(path) \in Paths THEN m[Parts(path)] ELSE Nothing

Next == \E u \in Updates : dm' = ApplyUpdate(dm, u) /\ last' = u

Spec == Init /\ [][Next]_vars
-----------------------------------------------------------------------------
\* What lies below something lies in maps.
TypeOK ==
  /\ dm \in Model
  /\ \A q \in Paths : Len(q) > 1 /\ dm[q] # Nothing => dm[Front(q)] = Map

\* The paths an update assigns, the maps on its way included, and those it gives a
\* scalar.
EntryPaths(u) == {u.path \o u.contents[i].at : i \in DOMAIN u.contents}
Named(u) == (Prefixes(u.path) \ {<<>>}) \cup EntryPaths(u)
ScalarPaths(u) == {u.path \o u.contents[i].at :
                     i \in {j \in DOMAIN u.contents : u.contents[j].val # Map}}

\* What an update writes, a bound value with the same path reads, unless a later
\* entry of the update writes there, or a scalar above.  (Empty parts are excepted:
\* Get skips them, ApplyUpdate does not.)
Overwritten(u, i) ==
  \E j \in DOMAIN u.contents :
    /\ j > i
    /\ \/ u.contents[j].at = u.contents[i].at
       \/ u.contents[j].val # Map /\ IsPrefix(u.contents[j].at, u.contents[i].at)
ReadsBack ==
  \A i \in DOMAIN last.contents :
    LET path == last.path \o last.contents[i].at
    IN (\A j \in DOMAIN path : path[j] # Empty) /\ ~Overwritten(last, i)
       => Get(dm, path) = last.contents[i].val

\* Updates merge: what an update does not assign stays, unless it replaces
\* something above by a scalar.
MergesKeep ==
  [][\A q \in Paths :
       q \notin Named(last') /\ (\A p \in ScalarPaths(last') : ~IsPrefix(p, q)) => dm'[q] = dm[q]]_vars

\* Two updates can arrive in either order (they come from two requests) unless
\* one gives a scalar to a path that the other assigns or goes through.
Independent(u, v) ==
  \A p \in ScalarPaths(u), q \in Named(v) : ~IsPrefix(p, q)
UpdatesCommute ==
  \A u, v \in Updates : Independent(u, v) /\ Independent(v, u)
    => ApplyUpdate(ApplyUpdate(dm, u), v) = ApplyUpdate(ApplyUpdate(dm, v), u)
=============================================================================
