CONSTANTS
  Clients = {c1, c2}
  WorkIds = {w1}
  Sids = {s1, s2, s3}
  Null = Null
  MaxRequests = 2
SPECIFICATION FairSpec
CHECK_DEADLOCK FALSE
INVARIANTS
  OneRunPerSession
  OneReplyEach
  ResultsStayHome
  ArmedCancelHonoured
  ClosedIsQuiet
PROPERTIES
  EveryRequestAnswered
  CloseEnds
