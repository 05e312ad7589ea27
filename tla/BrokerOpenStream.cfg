SPECIFICATION Spec
CONSTANTS
  Publishers = {p1, p2}
  Handlers = {h1, h2}
  Msgs = {m1, m2}
  Capacity = 1
  MaxID = 3
  None = None
PROPERTY OpenStreamsHear
