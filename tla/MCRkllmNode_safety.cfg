CONSTANTS
  MaxInfers = 2
  MaxTokens = 2
  Tokens = {"word", "tagged", "half"}
SPECIFICATION FairSpec
CHECK_DEADLOCK FALSE
INVARIANTS
  WorkerInsideInfer
  DoneMatchesStream
  AnswerIsFresh
PROPERTIES
  InferReturns
