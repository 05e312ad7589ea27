SPECIFICATION FairSpec
CONSTANTS
  Ids = {"p", "a", "b"}
  RawDefs <- MCRawDefs
  MaxDepth = 5
  MaxWrites = 1
  None = None
INVARIANTS TypeOK NeverFails ShowsTheDocument CyclesNeverRender RowActsAsItsButton
PROPERTY RenderingEnds
