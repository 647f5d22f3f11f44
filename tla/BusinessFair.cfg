CONSTANTS
  Parts = {"payroll", "webhooks"}
  Items = {i1, i2}
  Calls = {c1, c2, c3}
  Amounts = {1000000, 1000001}
  NoEvent = NoEvent
  Workers = {w1, w2}
  Retries = {1, 2}
  MaxReplays = 1
  Widest = 1
  Faulty = FALSE
SPECIFICATION FairSpec
CHECK_DEADLOCK FALSE
INVARIANTS
  PendingIsAttended
PROPERTIES
  ExecutionEndsUnlessRevived
  PendingIsResolved
