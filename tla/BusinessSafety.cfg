CONSTANTS
  Parts = {"payments", "payroll", "webhooks"}
  Items = {i1, i2}
  Calls = {c1, c2, c3, c4}
  Amounts = {1000000, 1000001}
  NoEvent = NoEvent
  Workers = {w1, w2}
  Retries = {0, 1, 2}
  MaxReplays = 1
  Widest = 111
  Faulty = TRUE
SPECIFICATION MCSpec
CHECK_DEADLOCK FALSE
SYMMETRY Symmetry
INVARIANTS
  TypeOK
  LevelsAreEarned
  AnsweredBatchIsWhole
  ExecutionWasValidated
  SentAsOftenAsAsked
