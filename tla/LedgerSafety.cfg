CONSTANTS
  Accounts = {a1, a2}
  Users = {u1, u2}
  Requests = {r1, r2}
  Amounts <- MCWhole
  NoUser = NoUser
  NoAccount = NoAccount
  NoRequest = NoRequest
  Pool = 3
SPECIFICATION Spec
SYMMETRY Symmetry
INVARIANTS
  TypeOK
  FreshCopies
  HistoryExplainsBalance
  TransfersPaired
  NotifiedBeforeVisible
  AnswersTellTheTruth
PROPERTY BankSpec
