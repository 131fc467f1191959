CONSTANTS
  Drivers = {d1, d2}
  Cancellers = {c1}
  TextCapacity = 1
  PcmCapacity = 2
  MinFrames = 1
  MaxCalls = 1
  MaxCancels = 1
  MaxChunks = 1
  MaxTokens = 1
  MaxSentences = 2
  MaxFrames = 2
SPECIFICATION Spec
CHECK_DEADLOCK FALSE
SYMMETRY Symmetry
INVARIANTS
  WithinBounds
  RunExclusive
  WorkersConfined
  OkRunAccountsForAll
  SinkHearsTheAnswer
  CancelHonoured
  FailedRunEndsIdle
