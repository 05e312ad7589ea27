SPECIFICATION FairSpec
CONSTANTS
  Conns = {c1, c2}
  Messages <- PageMessages
  MaxSent = 2
INVARIANTS TypeOK ShutdownNotCutShort EventsInStep
PROPERTIES ShutdownOnlyDrains SignalEnds
