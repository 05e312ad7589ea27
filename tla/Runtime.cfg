SPECIFICATION FairSpec
CONSTANTS
  Surfaces = {1}
  Workers = {w1, w2}
  Bufs = {b1, b2, b3}
  c1 = c1  v1 = v1  r1 = r1
  CompCells = {c1}
  DataCells = {}
  Vals = {v1}
  Roots = {r1}
  Bodies <- RuntimeBodies
  UIFile <- RuntimeFiles
  Bad = Bad
  None = None
  NoPage = NoPage
  Unread = Unread
  Handlers = {h1}
  Capacity = 1
  MaxID = 1
  MaxRequests = 2
INVARIANTS TypeOK BrowsersCatchUp
PROPERTY RequestsFinish
