CONSTANTS
  Parts = {"transfers", "accounts", "logins", "codes"}
  Items = {i1, i2}
  Calls = {c1, c2, c3}
  Horizon = 1
  FewCalls = {u1, u2}
  Passwords = {p1, p2}
  NoPassword = NoPassword
  MaxFailures = 2
  MaxWrong = 3
  Codes = {k1, k2, k3, k4}
  PerList = 2
  Faulty = TRUE
SPECIFICATION MCSpec
CHECK_DEADLOCK FALSE
SYMMETRY Symmetry
INVARIANTS
  TypeOK
  ExecutedOnce
  ClosedIsDated
  FeesLostOnlyByOverlap
  LockIsEarned
  FailuresCounted
  PasswordIsLastSet
  SecretsUsedOnce
PROPERTIES
  RevivedOnlyIfModified
  CompletedOrCancelled
