CONSTANTS
  Accounts = {a1, a2}
  Users = {u1}
  Requests = {r1, r2}
  Amounts <- MCWhole
  NoUser = NoUser
  NoAccount = NoAccount
  NoRequest = NoRequest
  Pool = 2
SPECIFICATION FairSpec
PROPERTIES
  EveryRequestAnswered
