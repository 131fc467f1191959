CONSTANTS
  Clients = {c1, c2}
  WorkIds = {w1}
  Sids = {s1, s2, s3}
  Null = Null
  MaxRequests = 2
SPECIFICATION Spec
CHECK_DEADLOCK FALSE
INVARIANTS
  AckedCancelHonoured
