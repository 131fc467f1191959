CONSTANTS
  SessionCount = 2
  Events = 3
  MaxOps = 2
SPECIFICATION Spec
CHECK_DEADLOCK FALSE
INVARIANTS
  SocketsInStep
  OkHasItsEvents
  ReadyHasTask
  TaskReleased
