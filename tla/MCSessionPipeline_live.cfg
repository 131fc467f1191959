CONSTANTS
  Drivers = {d1}
  Cancellers = {c1}
  TextCapacity = 0
  PcmCapacity = 1
  MinFrames = 2
  MaxCalls = 2
  MaxCancels = 2
  MaxChunks = 1
  MaxTokens = 1
  MaxSentences = 2
  MaxFrames = 1
SPECIFICATION FairSpec
CHECK_DEADLOCK FALSE
PROPERTIES
  RunReturns
  ImplementsContract
