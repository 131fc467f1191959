CONSTANTS
  Callers = {t1, t2, t3}
  Names = {0, 1}
  MaxTasks = 2
  MaxOps = 7
SPECIFICATION Spec
CHECK_DEADLOCK FALSE
SYMMETRY Symmetry
INVARIANTS
  SingleStream
  StopSignalsAreExact
  TableIsTrue
PROPERTIES
  TerminatedForGood
