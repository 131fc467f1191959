CONSTANTS
  MaxFrame = 2
  IntBits = 16
  MaxSize = 20
  FrameSamples = 2
  Weight <- WeightValue
  Keywords <- KeywordsValue
  Direct = 8
  Context = 4
  TopK = 2
  Files <- FilesValue
  Alphabet <- AlphabetValue
  Bound <- BoundValue
  Queries <- QueriesValue
  Failures = {{}, {"backend"}, {"alsa"}, {"dir"}, {"events"}, {"listen"}}
SPECIFICATION Spec
CHECK_DEADLOCK FALSE
INVARIANTS
  
  RetrievalIsSound
  FormatsRoundTrip
  NodesDoAsAsked
