CONSTANTS
  Drivers = {d1}
  Cancellers = {c1}
  TextCapacity = 1
  PcmCapacity = 1
  MinFrames = 0
  MaxCalls = 2
  MaxCancels = 1
  MaxChunks = 1
  MaxTokens = 0
  MaxSentences = 1
  MaxFrames = 1
SPECIFICATION FairSpec
CHECK_DEADLOCK FALSE
PROPERTIES
  CancellingEndsIdle
