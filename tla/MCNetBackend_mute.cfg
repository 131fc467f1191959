CONSTANTS
  SessionCount = 1
  Events = 1
  MaxOps = 3
SPECIFICATION Spec
CHECK_DEADLOCK FALSE
INVARIANTS
  CancelledOnlyIfAsked
