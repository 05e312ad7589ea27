SPECIFICATION Spec
CONSTANTS
  Messages <- PageMessages
  MaxSent = 2
INVARIANT EventsCarryTheHTML
CHECK_DEADLOCK FALSE
