SPECIFICATION Spec
CONSTANTS
  a = a  b = b  padded = padded  c1 = c1  d1 = d1  plain = plain  table = table  r1 = r1
  IDs = {a, b, padded}
  TrimSpace <- ToolTrim
  CompCells = {c1}
  DataCells = {d1}
  Vals = {plain, table}
  RowsOf <- ToolRows
  Roots = {r1}
  Bodies <- ToolBodies
  Bad = Bad
  None = None
  NoPage = NoPage
  Blank = Blank
  Missing = Missing
INVARIANTS TypeOK CodesDeclared VerdictsAgree
PROPERTIES ImmutableToolsKeep RepeatsAreIdle AnswersHold
