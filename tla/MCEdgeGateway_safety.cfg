CONSTANTS
  c1 = c1
  c2 = c2
  Clients = {c1, c2}
  Quota <- QuotaValue
  Kinds = {"line", "wide", "huge"}
  OutputMax = 1
  Room = 1
SPECIFICATION FairSpec
CHECK_DEADLOCK FALSE
INVARIANTS
  TablesAgree
  RepliesInOrder
PROPERTIES
  AnswersArrive
  QuitEnds
