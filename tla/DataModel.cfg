SPECIFICATION Spec
CONSTANTS
  k1 = k1  k2 = k2  s1 = s1  s2 = s2
  Empty = Empty
  Keys = {k1, k2, Empty}
  Scalars = {s1, s2}
  MaxDepth = 3
  Updates <- ModelUpdates
  Map = Map
  Nothing = Nothing
INVARIANTS TypeOK ReadsBack UpdatesCommute
PROPERTIES MergesKeep
