CONSTANTS
  Parts = {"points", "goods"}
  Items = {i1, i2}
  Enrollments = {n1, n2}
  NoId = NoId
  Calls = {c1, c2, c3, c4}
  MaxCalls = 3
  MaxOverlapping = 2
  Numbers = {2, 3}
  Price = 1
  Stock = 1
  Widest = 11
  Faulty = TRUE
SPECIFICATION MCSpec
CHECK_DEADLOCK FALSE
SYMMETRY Symmetry
INVARIANTS
  TypeOK
  BalanceIsSettled
  RewardsWithinStock
  OnHandIsMoved
  NeverOversold
