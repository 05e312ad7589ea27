---------------------------- MODULE MCDataModel ----------------------------
(***************************************************************************)
(* Updates of the root, of nested maps, through scalars, with a key given   *)
(* twice and with an empty part in the path.                                *)
(***************************************************************************)
EXTENDS DataModel

CONSTANTS k1, k2, s1, s2

Set(at, v) == [at |-> at, val |-> v]
On(path, contents) == [path |-> path, contents |-> contents]

ModelUpdates == {
  On(<<>>, <<Set(<<k1>>, s1)>>),
  On(<<>>, <<Set(<<k1>>, s1), Set(<<k2>>, s2), Set(<<k1>>, s2)>>),
  On(<<>>, <<Set(<<k1>>, Map), Set(<<k1, k2>>, s1), Set(<<k1, k1>>, Map)>>),
  On(<<k1>>, <<Set(<<k1>>, s1)>>),
  On(<<k1>>, <<Set(<<k2>>, s1), Set(<<k2>>, Map), Set(<<k2, k2>>, s2)>>),
  On(<<k1>>, <<Set(<<k2>>, Map), Set(<<k2, k1>>, s2)>>),
  On(<<k1, k2>>, <<Set(<<k2>>, s1)>>),
  On(<<k2>>, <<Set(<<k1>>, Map), Set(<<k1>>, s2)>>),
  On(<<k2, k1>>, <<Set(<<k1>>, s1), Set(<<k2>>, s2)>>),
  On(<<k2>>, <<>>),
  On(<<k1, Empty>>, <<Set(<<k1>>, s2)>>)}
=============================================================================
