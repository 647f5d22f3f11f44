----------------------------- MODULE AtomicBank -----------------------------
(***************************************************************************)
(* What the customer accounts of the ledger module promise: accounts are   *)
(* opened empty, and a deposit or a transfer happens in one indivisible    *)
(* step, on active accounts only, with the balance the account has at that *)
(* very moment.  LedgerAccounts is the code that has to keep this promise. *)
(*                                                                         *)
(* Amounts are counted in half cents: request amounts may carry fractions  *)
(* of a cent, the numeric(18,2) columns cannot (account.entity.ts,         *)
(* transaction.entity.ts), and half a cent is the smallest unit at which   *)
(* their rounding shows.                                                   *)
(***************************************************************************)
EXTENDS Integers, Sequences

CONSTANTS
  Accounts,   \* account ids that may ever be given out
  Users,      \* account holders
  Requests,   \* identities of requests; a transaction carries its request's
  Amounts,    \* amounts a request may carry, in half cents
  NoUser, NoAccount, NoRequest

\* The DTOs refuse less than 0.01, which is 2 half cents.
ASSUME AmountsAssumption == Amounts \subseteq {n \in Nat : n >= 2}

ASSUME DistinctNulls ==
  NoUser \notin Users /\ NoAccount \notin Accounts /\ NoRequest \notin Requests

VARIABLES
  row,      \* the accounts table
  history   \* the transactions table: per account, in commit order

bankVars == <<row, history>>

-----------------------------------------------------------------------------
\* Only ACTIVE is ever compared with; frozen, closed and pending are one value.
Statuses == {"active", "inactive"}

\* Storing an amount in a numeric(18,2) column rounds half cents up.
Stored(x) == IF x % 2 = 0 THEN x ELSE x + 1

RowType == [owner : Users \cup {NoUser}, status : Statuses, balance : Nat]

TxType == [type : {"deposit", "transfer_out", "transfer_in"},
           amount : Nat, balanceAfter : Nat,
           party : Accounts \cup {NoAccount},
           req : Requests \cup {NoRequest}]

Tx(type, amount, after, party, r) ==
  [type |-> type, amount |-> Stored(amount), balanceAfter |-> Stored(after),
   party |-> party, req |-> r]

NoRow == [owner |-> NoUser, status |-> "inactive", balance |-> 0]

Exists(a) == row[a].owner # NoUser
Active(a) == Exists(a) /\ row[a].status = "active"

-----------------------------------------------------------------------------
\* Before the first request the database holds what earlier runs left:
\* accounts that were opened and received at most one deposit each.
OpeningRows ==
  {NoRow} \cup [owner : Users, status : {"active"},
                balance : {0} \cup {Stored(m) : m \in Amounts}]

OpeningHistory(a) ==
  IF row[a].balance = 0 THEN <<>>
  ELSE <<Tx("deposit", row[a].balance, row[a].balance, NoAccount, NoRequest)>>

Open(a, u) ==
  /\ ~Exists(a)
  /\ row' = [row EXCEPT ![a] = [owner |-> u, status |-> "active", balance |-> 0]]
  /\ UNCHANGED history

Deposit(a, m, r) ==
  LET after == row[a].balance + m IN
  /\ Active(a)
  /\ row' = [row EXCEPT ![a].balance = Stored(after)]
  /\ history' = [history EXCEPT ![a] = Append(@, Tx("deposit", m, after, NoAccount, r))]

Transfer(a, b, m, r) ==
  LET left == row[a].balance - m
      got  == row[b].balance + m IN
  /\ a # b
  /\ Active(a)
  /\ Active(b)
  /\ row[a].balance >= m
  /\ row' = [row EXCEPT ![a].balance = Stored(left), ![b].balance = Stored(got)]
  /\ history' = [history EXCEPT ![a] = Append(@, Tx("transfer_out", m, left, b, r)),
                                ![b] = Append(@, Tx("transfer_in", m, got, a, r))]

SetStatus(a, s) ==
  /\ Exists(a)
  /\ row' = [row EXCEPT ![a].status = s]
  /\ UNCHANGED history

-----------------------------------------------------------------------------
BankInit ==
  /\ row \in [Accounts -> OpeningRows]
  /\ history = [a \in Accounts |-> OpeningHistory(a)]

BankNext ==
  \/ \E a \in Accounts, u \in Users : Open(a, u)
  \/ \E a \in Accounts, m \in Amounts, r \in Requests : Deposit(a, m, r)
  \/ \E a, b \in Accounts, m \in Amounts, r \in Requests : Transfer(a, b, m, r)
  \/ \E a \in Accounts, s \in Statuses : SetStatus(a, s)

BankSpec == BankInit /\ [][BankNext]_bankVars
=============================================================================
