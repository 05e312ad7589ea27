SPECIFICATION Spec
CONSTANTS
  Surfaces = {1, 2}
  Workers = {w1, w2}
  Bufs = {b1, b2, b3, b4}
  c1 = c1  d1 = d1  v1 = v1  v2 = v2  r1 = r1  r2 = r2
  CompCells = {c1}
  DataCells = {d1}
  Vals = {v1}
  Roots = {r1, r2}
  Bodies <- RaceBodies
  UIFile <- RaceFiles
  Bad = Bad
  None = None
  NoPage = NoPage
  Unread = Unread
PROPERTY ReadyStays
