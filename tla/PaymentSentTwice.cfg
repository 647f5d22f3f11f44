CONSTANTS
  Parts = {"payments"}
  Items = {i1}
  Calls = {c1, c2, c3}
  Amounts = {1000000, 1000001}
  NoEvent = NoEvent
  Workers = {w1, w2}
  Retries = {1}
  MaxReplays = 2
  Widest = 1
  Faulty = TRUE
SPECIFICATION MCSpec
CHECK_DEADLOCK FALSE
SYMMETRY Symmetry
INVARIANTS
  SentOnce
