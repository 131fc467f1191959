CONSTANTS
  NodeCount = 2
  MaxTasks = 2
  NodeCapacity = 1
  MaxCalls = 6
  MaxCrashes = 1
SPECIFICATION Spec
CHECK_DEADLOCK FALSE
INVARIANTS
  RoutesMatchRegistry
  WorkIdsNameOneTask
  HeldTasksReachable
