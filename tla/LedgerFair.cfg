CONSTANTS
  Accounts = {a1, a2}
  Users = {u1}
  Requests = {r1, r2}
  Amounts <- MCSubCent
  NoUser = NoUser
  NoAccount = NoAccount
  NoRequest = NoRequest
  Pool = 3
SPECIFICATION FairSpec
PROPERTIES
  EveryRequestAnswered

  
