------------------------ MODULE LedgerAccountsProofs ------------------------
(***************************************************************************)
(* Theorems about LedgerAccounts, for any number of accounts, users,       *)
(* requests and connections: the copies that deposit and transfer compute  *)
(* on never go stale, every behaviour is one of AtomicBank, the history    *)
(* explains the balances and tells what was answered, and no money is      *)
(* lost.                                                                   *)
(***************************************************************************)
EXTENDS LedgerAccounts, SumTheorems, FiniteSetTheorems, TLAPS

\* What the program counter says about a request's arguments: which operation
\* it is, and that the accounts it is about to use are accounts.
Shape ==
  \A r \in Requests :
    /\ req[r].pc \in {"free", "insert"} => req[r].op = "create"
    /\ req[r].pc \in {"begin", "lockFrom"} => req[r].op # "create"
    /\ req[r].pc \in {"lockTo", "notifyTo"} => req[r].op = "transfer"
    /\ req[r].pc \in Inside => req[r].from \in Accounts
    /\ req[r].pc # "free" => req[r].user \in Users
    /\ req[r].op # "create" => req[r].from \in Accounts /\ req[r].amount \in Amounts
    /\ req[r].op = "transfer" => req[r].to \in Accounts

IInv == TypeOK /\ Shape /\ FreshCopies

-----------------------------------------------------------------------------
\* Storing an amount keeps it a natural number.
LEMMA StoredNat == ASSUME NEW x \in Nat PROVE Stored(x) \in Nat
  BY DEF Stored

LEMMA AmountsNat == Amounts \subseteq Nat
  BY AmountsAssumption

\* A transaction built from naturals is one the transactions table can hold.
LEMMA TxTyped ==
  ASSUME NEW type \in {"deposit", "transfer_out", "transfer_in"},
         NEW amount \in Nat, NEW after \in Nat,
         NEW party \in Accounts \cup {NoAccount},
         NEW r \in Requests \cup {NoRequest}
  PROVE  Tx(type, amount, after, party, r) \in TxType
  BY StoredNat DEF Tx, TxType

LEMMA PCsFacts ==
  /\ Waiting \subseteq PCs /\ Inside \subseteq PCs /\ Answers \subseteq PCs
  /\ "free" \in PCs
  BY DEF PCs

-----------------------------------------------------------------------------
LEMMA InitIInv == Init => IInv
<1> SUFFICES ASSUME Init PROVE IInv
  OBVIOUS
<1> USE DEF Init, BankInit
<1>1. OpeningRows \subseteq RowType
  <2>1. NoRow \in RowType
    BY DEF NoRow, RowType, Statuses
  <2>2. {0} \cup {Stored(m) : m \in Amounts} \subseteq Nat
    BY AmountsNat, StoredNat
  <2> QED
    BY <2>1, <2>2 DEF OpeningRows, RowType, Statuses
<1>2. row \in [Accounts -> RowType]
  BY <1>1
<1>3. history \in [Accounts -> Seq(TxType)]
  <2> SUFFICES ASSUME NEW a \in Accounts PROVE OpeningHistory(a) \in Seq(TxType)
    OBVIOUS
  <2>1. row[a].balance \in Nat
    BY <1>2 DEF RowType
  <2>2. Tx("deposit", row[a].balance, row[a].balance, NoAccount, NoRequest) \in TxType
    BY <2>1, TxTyped
  <2> QED
    BY <2>2 DEF OpeningHistory
<1>4. FreeRequest \in ReqType
  BY DEF FreeRequest, Asking, ReqType, PCs, Ops
<1>5. TypeOK
  BY <1>2, <1>3, <1>4 DEF TypeOK
<1>6. Shape
  BY DEF Shape, FreeRequest, Asking, Inside
<1>7. FreshCopies
  BY DEF FreshCopies, FreshCopy, HasFrom, HasTo, InTransaction, FreeRequest, Asking, Inside
<1> QED
  BY <1>5, <1>6, <1>7 DEF IInv

-----------------------------------------------------------------------------
\* A request that a step leaves alone keeps its fresh copies when the rows it
\* has locked stay locked by it and unchanged.
LEMMA FreshFrame ==
  ASSUME NEW q \in Requests, Shape, FreshCopy(q), req'[q] = req[q],
         \A a \in Accounts : rowLock[a] = q => rowLock'[a] = q /\ row'[a] = row[a]
  PROVE  FreshCopy(q)'
<1>1. HasFrom(q) => req[q].from \in Accounts
  BY DEF Shape, HasFrom, InTransaction
<1>2. HasTo(q) => req[q].to \in Accounts /\ HasFrom(q)
  BY DEF Shape, HasTo
<1>3. HasFrom(q)' = HasFrom(q) /\ HasTo(q)' = HasTo(q)
  BY DEF HasFrom, HasTo, InTransaction
<1> QED
  BY <1>1, <1>2, <1>3
     DEF FreshCopy, SourceAccepted, TargetAccepted, Active, Exists

\* What Goto does to the request, and to the others.
LEMMA GotoFacts ==
  ASSUME TypeOK, NEW r \in Requests, NEW pc \in PCs, Goto(r, pc)
  PROVE  /\ req' \in [Requests -> ReqType]
         /\ \A q \in Requests : q # r => req'[q] = req[q]
         /\ req'[r].pc = pc
         /\ req'[r].op = req[r].op /\ req'[r].user = req[r].user
         /\ req'[r].from = req[r].from /\ req'[r].to = req[r].to
         /\ req'[r].amount = req[r].amount
         /\ req'[r].fromBal = req[r].fromBal /\ req'[r].toBal = req[r].toBal
<1>1. req[r] \in ReqType /\ req' = [req EXCEPT ![r] = [req[r] EXCEPT !.pc = pc]]
  BY DEF TypeOK, Goto
<1>2. [req[r] EXCEPT !.pc = pc] \in ReqType
  BY <1>1 DEF ReqType
<1> QED
  BY <1>1, <1>2 DEF TypeOK, ReqType

\* A step that only moves a program counter: it stays inside the transaction
\* with its locks, or it is on its way out.
LEMMA MoveIInv ==
  ASSUME IInv, NEW r \in Requests, NEW pc \in PCs, Goto(r, pc),
         UNCHANGED <<row, history, rowLock>>,
         notifs' \subseteq [user : Users \cup {NoUser}, req : Requests],
         pc \notin {"free", "insert", "begin"}, req[r].pc # "free",
         pc = "lockFrom" => req[r].op # "create",
         pc # "lockTo",
         pc = "notifyTo" => req[r].op = "transfer",
         pc \in Inside => req[r].from \in Accounts,
         pc \in Inside \ {"lockFrom", "rollback"} /\ req[r].op # "create" =>
           /\ req[r].pc \in Inside \ {"lockFrom", "rollback"}
           /\ req[r].pc = "lockTo" => req[r].op # "transfer"
  PROVE  IInv'
<1> USE DEF IInv
<1>1. TypeOK'
  BY GotoFacts DEF TypeOK
<1>2. Shape'
  BY GotoFacts DEF Shape
<1>3. FreshCopy(r)'
  <2>1. HasFrom(r)' => HasFrom(r)
    BY GotoFacts DEF HasFrom, InTransaction
  <2>2. HasTo(r)' => HasTo(r)
    BY GotoFacts, <2>1 DEF HasTo, HasFrom, InTransaction
  <2>3. FreshCopy(r)
    BY DEF FreshCopies
  <2> QED
    BY GotoFacts, <2>1, <2>2, <2>3
       DEF FreshCopy, SourceAccepted, TargetAccepted, Active, Exists
<1>4. ASSUME NEW q \in Requests, q # r PROVE FreshCopy(q)'
  BY <1>4, GotoFacts, FreshFrame DEF FreshCopies
<1> QED
  BY <1>1, <1>2, <1>3, <1>4 DEF FreshCopies

-----------------------------------------------------------------------------
\* Each action of Next preserves the invariant.

LEMMA ArriveIInv == ASSUME IInv, NEW r \in Requests, Arrive(r) PROVE IInv'
<1> USE DEF IInv, Arrive
<1>0. req[r] \in ReqType /\ req[r].op = "create"
  BY DEF TypeOK, Shape
<1>1. PICK q \in ReqType :
        /\ req' = [req EXCEPT ![r] = q]
        /\ q.pc \in {"insert", "begin"}
        /\ q.pc = "insert" => q.op = "create"
        /\ q.pc = "begin" => q.op # "create"
        /\ q.user \in Users
        /\ q.op # "create" => q.from \in Accounts /\ q.amount \in Amounts
        /\ q.op = "transfer" => q.to \in Accounts
  <2>1. PICK q \in Arriving : req' = [req EXCEPT ![r] = q]
    OBVIOUS
  <2>2. /\ q \in ReqType
        /\ q.pc \in {"insert", "begin"}
        /\ q.pc = "insert" => q.op = "create"
        /\ q.pc = "begin" => q.op # "create"
        /\ q.user \in Users
        /\ q.op # "create" => q.from \in Accounts /\ q.amount \in Amounts
        /\ q.op = "transfer" => q.to \in Accounts
    <3>1. ASSUME NEW u \in Users, q = Asking("insert", "create", u, NoAccount, NoAccount, 0)
          PROVE  <2>2!:
      BY <3>1 DEF Asking, ReqType, PCs, Waiting, Ops
    <3>2. ASSUME NEW u \in Users, NEW a \in Accounts, NEW m \in Amounts,
                 q = Asking("begin", "deposit", u, a, NoAccount, m)
          PROVE  <2>2!:
      BY <3>2, AmountsNat DEF Asking, ReqType, PCs, Waiting, Ops
    <3>3. ASSUME NEW u \in Users, NEW a \in Accounts, NEW b \in Accounts, NEW m \in Amounts,
                 q = Asking("begin", "transfer", u, a, b, m)
          PROVE  <2>2!:
      BY <3>3, AmountsNat DEF Asking, ReqType, PCs, Waiting, Ops
    <3> QED
      BY <3>1, <3>2, <3>3 DEF Arriving
  <2> QED
    BY <2>1, <2>2
<1>2. TypeOK'
  BY <1>1 DEF TypeOK
<1>3. req'[r] = q /\ \A x \in Requests : x # r => req'[x] = req[x]
  BY <1>1 DEF TypeOK
<1>4. Shape'
  BY <1>1, <1>3 DEF Shape, Inside
<1>5. FreshCopy(r)'
  BY <1>1, <1>3 DEF FreshCopy, HasFrom, HasTo, InTransaction, Inside
<1>6. ASSUME NEW x \in Requests, x # r PROVE FreshCopy(x)'
  BY <1>3, <1>6, FreshFrame DEF FreshCopies
<1> QED
  BY <1>2, <1>4, <1>5, <1>6 DEF FreshCopies

LEMMA CreateAccountIInv ==
  ASSUME IInv, NEW r \in Requests, CreateAccount(r) PROVE IInv'
<1> USE DEF IInv
<1>1. PICK a \in Accounts : /\ Open(a, req[r].user)
                            /\ req' = [req EXCEPT ![r].pc = "notifyFrom", ![r].from = a]
  BY DEF CreateAccount
<1>2. UNCHANGED <<rowLock, notifs>> /\ req[r].pc = "insert" /\ req[r].op = "create"
      /\ req[r].user \in Users
  BY DEF CreateAccount, Shape
<1>3. [owner |-> req[r].user, status |-> "active", balance |-> 0] \in RowType
  BY DEF TypeOK, ReqType, RowType, Statuses
<1>4. row' \in [Accounts -> RowType] /\ \A b \in Accounts : b # a => row'[b] = row[b]
  BY <1>1, <1>3 DEF Open, TypeOK
<1>5. /\ req' \in [Requests -> ReqType]
      /\ req'[r].pc = "notifyFrom" /\ req'[r].op = "create" /\ req'[r].from = a
      /\ req'[r].user \in Users
      /\ \A x \in Requests : x # r => req'[x] = req[x]
  <2> DEFINE q == [req[r] EXCEPT !.pc = "notifyFrom"]
             p == [q EXCEPT !.from = a]
  <2>1. q \in ReqType /\ q.op = req[r].op /\ q.user = req[r].user /\ q.pc = "notifyFrom"
    BY DEF TypeOK, ReqType, PCs, Inside
  <2>2. p \in ReqType /\ p.op = q.op /\ p.user = q.user /\ p.pc = q.pc /\ p.from = a
    <3> HIDE DEF q
    <3> QED
      BY <2>1 DEF ReqType
  <2>3. req' = [[req EXCEPT ![r] = q] EXCEPT ![r] = p]
    BY <1>1 DEF TypeOK
  <2> QED
    BY <1>2, <2>1, <2>2, <2>3 DEF TypeOK
<1>6. TypeOK'
  BY <1>1, <1>2, <1>4, <1>5 DEF TypeOK, Open
<1>7. Shape'
  BY <1>5 DEF Shape
<1>8. FreshCopy(r)'
  BY <1>5 DEF FreshCopy, HasFrom, HasTo, InTransaction
<1>9. ASSUME NEW x \in Requests, x # r PROVE FreshCopy(x)'
  \* A fresh copy is one of an account that exists, so it is not of a.
  <2>1. FreshCopy(x) /\ req'[x] = req[x]
    BY <1>5, <1>9 DEF FreshCopies
  <2>2. HasFrom(x) => req[x].from \in Accounts /\ req[x].from # a
    BY <1>1, <2>1 DEF Shape, HasFrom, InTransaction, FreshCopy, SourceAccepted, Active, Open
  <2>3. HasTo(x) => req[x].to \in Accounts /\ req[x].to # a
    BY <1>1, <2>1 DEF Shape, HasTo, FreshCopy, TargetAccepted, Active, Open
  <2>4. HasFrom(x)' = HasFrom(x) /\ HasTo(x)' = HasTo(x)
    BY <2>1 DEF HasFrom, HasTo, InTransaction
  <2> QED
    BY <1>2, <1>4, <2>1, <2>2, <2>3, <2>4
       DEF FreshCopy, SourceAccepted, TargetAccepted, Active, Exists
<1> QED
  BY <1>6, <1>7, <1>8, <1>9 DEF FreshCopies

LEMMA BeginIInv == ASSUME IInv, NEW r \in Requests, Begin(r) PROVE IInv'
  BY MoveIInv, PCsFacts DEF Begin, IInv, TypeOK, Shape, Inside

\* Taking a copy of a balance and moving on.
LEMMA FromCopyFacts ==
  ASSUME TypeOK, NEW r \in Requests, NEW pc \in PCs, NEW x \in Nat,
         CopyFrom(r, x, pc)
  PROVE  /\ req' \in [Requests -> ReqType]
         /\ \A q \in Requests : q # r => req'[q] = req[q]
         /\ req'[r].pc = pc
         /\ req'[r].op = req[r].op /\ req'[r].user = req[r].user
         /\ req'[r].from = req[r].from /\ req'[r].to = req[r].to
         /\ req'[r].amount = req[r].amount
         /\ req'[r].fromBal = x /\ req'[r].toBal = req[r].toBal
<1> DEFINE q == [req[r] EXCEPT !.fromBal = x]
           p == [q EXCEPT !.pc = pc]
<1>1. /\ q \in ReqType /\ q.fromBal = x /\ q.toBal = req[r].toBal
      /\ q.op = req[r].op /\ q.user = req[r].user /\ q.from = req[r].from
      /\ q.to = req[r].to /\ q.amount = req[r].amount
  BY DEF TypeOK, ReqType
<1>2. /\ p \in ReqType /\ p.pc = pc /\ p.fromBal = q.fromBal /\ p.toBal = q.toBal
      /\ p.op = q.op /\ p.user = q.user /\ p.from = q.from
      /\ p.to = q.to /\ p.amount = q.amount
  <2> HIDE DEF q
  <2> QED
    BY <1>1 DEF ReqType
<1>3. req' = [[req EXCEPT ![r] = q] EXCEPT ![r] = p]
  BY DEF TypeOK, CopyFrom, CopyTo
<1> QED
  BY <1>1, <1>2, <1>3 DEF TypeOK

LEMMA ToCopyFacts ==
  ASSUME TypeOK, NEW r \in Requests, NEW pc \in PCs, NEW x \in Nat,
         CopyTo(r, x, pc)
  PROVE  /\ req' \in [Requests -> ReqType]
         /\ \A q \in Requests : q # r => req'[q] = req[q]
         /\ req'[r].pc = pc
         /\ req'[r].op = req[r].op /\ req'[r].user = req[r].user
         /\ req'[r].from = req[r].from /\ req'[r].to = req[r].to
         /\ req'[r].amount = req[r].amount
         /\ req'[r].toBal = x /\ req'[r].fromBal = req[r].fromBal
<1> DEFINE q == [req[r] EXCEPT !.toBal = x]
           p == [q EXCEPT !.pc = pc]
<1>1. /\ q \in ReqType /\ q.toBal = x /\ q.fromBal = req[r].fromBal
      /\ q.op = req[r].op /\ q.user = req[r].user /\ q.from = req[r].from
      /\ q.to = req[r].to /\ q.amount = req[r].amount
  BY DEF TypeOK, ReqType
<1>2. /\ p \in ReqType /\ p.pc = pc /\ p.toBal = q.toBal /\ p.fromBal = q.fromBal
      /\ p.op = q.op /\ p.user = q.user /\ p.from = q.from
      /\ p.to = q.to /\ p.amount = q.amount
  <2> HIDE DEF q
  <2> QED
    BY <1>1 DEF ReqType
<1>3. req' = [[req EXCEPT ![r] = q] EXCEPT ![r] = p]
  BY DEF TypeOK, CopyFrom, CopyTo
<1> QED
  BY <1>1, <1>2, <1>3 DEF TypeOK

\* Taking a row lock that is free takes none from another request.
LEMMA LockFacts ==
  ASSUME TypeOK, NEW r \in Requests, NEW a \in Accounts, LockFree(a, r), Lock(a, r)
  PROVE  /\ rowLock' \in [Accounts -> Requests \cup {NoRequest}]
         /\ rowLock'[a] = r
         /\ \A q \in Requests, b \in Accounts : rowLock[b] = q => rowLock'[b] = q
  BY DistinctNulls DEF TypeOK, LockFree, Lock

\* The same with a refusal: the lock is kept until the rollback.
LEMMA RefusedIInv ==
  ASSUME IInv, NEW r \in Requests, NEW a \in Accounts, LockFree(a, r), Lock(a, r),
         req[r].from \in Accounts, req[r].pc # "free",
         Goto(r, "rollback"), UNCHANGED <<row, history, notifs>>
  PROVE  IInv'
<1> USE DEF IInv
<1>1. "rollback" \in PCs
  BY DEF PCs, Inside
<1>2. TypeOK'
  BY <1>1, GotoFacts, LockFacts DEF TypeOK
<1>3. Shape'
  BY <1>1, GotoFacts DEF Shape
<1>4. FreshCopy(r)'
  BY <1>1, GotoFacts DEF FreshCopy, HasFrom, HasTo
<1>5. ASSUME NEW q \in Requests, q # r PROVE FreshCopy(q)'
  BY <1>1, <1>5, GotoFacts, LockFacts, FreshFrame DEF FreshCopies
<1> QED
  BY <1>2, <1>3, <1>4, <1>5 DEF FreshCopies

LEMMA LockFromIInv == ASSUME IInv, NEW r \in Requests, LockFrom(r) PROVE IInv'
<1> USE DEF IInv
<1> DEFINE a == req[r].from
<1>0. /\ req[r].pc = "lockFrom" /\ req[r].op # "create" /\ a \in Accounts
      /\ UNCHANGED <<row, history, notifs>>
  BY DEF LockFrom, Shape
<1>1. CASE Goto(r, "rollback") /\ UNCHANGED rowLock
  BY <1>0, <1>1, MoveIInv, PCsFacts DEF TypeOK, Inside
<1>2. CASE LockFree(a, r) /\ Lock(a, r) /\ Goto(r, "rollback")
  BY <1>0, <1>2, RefusedIInv
<1>3. CASE /\ LockFree(a, r) /\ Lock(a, r) /\ SourceAccepted(r)
           /\ CopyFrom(r, row[a].balance,
                       IF req[r].op = "deposit" THEN "notifyFrom" ELSE "lockTo")
  <2> DEFINE pc == IF req[r].op = "deposit" THEN "notifyFrom" ELSE "lockTo"
  <2>1. pc \in PCs /\ row[a].balance \in Nat
    BY <1>0 DEF PCs, Inside, TypeOK, RowType
  <2>2. /\ req' \in [Requests -> ReqType]
        /\ \A q \in Requests : q # r => req'[q] = req[q]
        /\ req'[r].pc = pc /\ req'[r].op = req[r].op /\ req'[r].user = req[r].user
        /\ req'[r].from = a /\ req'[r].to = req[r].to /\ req'[r].amount = req[r].amount
        /\ req'[r].fromBal = row[a].balance
    BY <1>3, <2>1, FromCopyFacts
  <2>3. TypeOK'
    BY <1>0, <1>3, <2>2, LockFacts DEF TypeOK
  <2>4. Shape'
    <3>1. req[r].op \in Ops
      BY DEF TypeOK, ReqType
    <3> QED
      BY <1>0, <2>2, <3>1 DEF Shape, Ops
  <2>5. FreshCopy(r)'
    <3>1. rowLock'[a] = r
      BY <1>0, <1>3, LockFacts
    <3>2. ~HasTo(r)'
      BY <2>2 DEF HasTo
    <3> QED
      BY <1>0, <1>3, <2>2, <3>1, <3>2 DEF FreshCopy, SourceAccepted, Active, Exists
  <2>6. ASSUME NEW q \in Requests, q # r PROVE FreshCopy(q)'
    BY <1>0, <1>3, <2>2, <2>6, LockFacts, FreshFrame DEF FreshCopies
  <2> QED
    BY <2>3, <2>4, <2>5, <2>6 DEF FreshCopies
<1> QED
  BY <1>0, <1>1, <1>2, <1>3 DEF LockFrom

LEMMA LockToIInv == ASSUME IInv, NEW r \in Requests, LockTo(r) PROVE IInv'
<1> USE DEF IInv
<1> DEFINE b == req[r].to
<1>0. /\ req[r].pc = "lockTo" /\ req[r].op = "transfer"
      /\ b \in Accounts /\ req[r].from \in Accounts
      /\ UNCHANGED <<row, history, notifs>>
  BY DEF LockTo, Shape
<1>1. CASE Goto(r, "rollback") /\ UNCHANGED rowLock
  BY <1>0, <1>1, MoveIInv, PCsFacts DEF TypeOK, Inside
<1>2. CASE LockFree(b, r) /\ Lock(b, r) /\ Goto(r, "rollback")
  BY <1>0, <1>2, RefusedIInv
<1>3. CASE /\ LockFree(b, r) /\ Lock(b, r) /\ TargetAccepted(r)
           /\ CopyTo(r, row[b].balance, "notifyFrom")
  <2>1. "notifyFrom" \in PCs /\ row[b].balance \in Nat
    BY <1>0 DEF PCs, Inside, TypeOK, RowType
  <2>2. /\ req' \in [Requests -> ReqType]
        /\ \A q \in Requests : q # r => req'[q] = req[q]
        /\ req'[r].pc = "notifyFrom" /\ req'[r].op = req[r].op
        /\ req'[r].user = req[r].user /\ req'[r].amount = req[r].amount
        /\ req'[r].from = req[r].from /\ req'[r].to = b
        /\ req'[r].fromBal = req[r].fromBal /\ req'[r].toBal = row[b].balance
    BY <1>3, <2>1, ToCopyFacts
  <2>3. TypeOK'
    BY <1>0, <1>3, <2>2, LockFacts DEF TypeOK
  <2>4. Shape'
    BY <1>0, <2>2 DEF Shape
  <2>5. FreshCopy(r)'
    <3>1. FreshCopy(r) /\ HasFrom(r)
      BY <1>0 DEF FreshCopies, HasFrom, InTransaction, Inside
    <3>2. rowLock'[b] = r /\ rowLock'[req[r].from] = r
      BY <1>0, <1>3, <3>1, LockFacts DEF FreshCopy
    <3> QED
      BY <1>0, <1>3, <2>2, <3>1, <3>2
         DEF FreshCopy, SourceAccepted, TargetAccepted, Active, Exists
  <2>6. ASSUME NEW q \in Requests, q # r PROVE FreshCopy(q)'
    BY <1>0, <1>3, <2>2, <2>6, LockFacts, FreshFrame DEF FreshCopies
  <2> QED
    BY <2>3, <2>4, <2>5, <2>6 DEF FreshCopies
<1> QED
  BY <1>0, <1>1, <1>2, <1>3 DEF LockTo

LEMMA NotifyIInv ==
  ASSUME IInv, NEW r \in Requests, NotifySender(r) \/ NotifyReceiver(r)
  PROVE  IInv'
<1> USE DEF IInv
<1>1. /\ req[r].pc \in {"notifyFrom", "notifyTo"} /\ req[r].from \in Accounts
      /\ req[r].pc = "notifyTo" => req[r].to \in Accounts
  BY DEF NotifySender, NotifyReceiver, Shape, Inside
<1>2. PICK u, next :
        /\ Notify(r, u, next)
        /\ u \in Users \cup {NoUser}
        /\ next \in {"publishFrom", "publishTo"}
  BY <1>1 DEF NotifySender, NotifyReceiver, TypeOK, RowType
<1>3. /\ notifs' \subseteq [user : Users \cup {NoUser}, req : Requests]
      /\ Goto(r, next) /\ UNCHANGED <<row, history, rowLock>> /\ next \in PCs
  BY <1>2 DEF Notify, TypeOK, PCs, Inside
<1> QED
  BY <1>1, <1>2, <1>3, MoveIInv DEF Inside

LEMMA PublishIInv ==
  ASSUME IInv, NEW r \in Requests, PublishSender(r) \/ PublishReceiver(r)
  PROVE  IInv'
<1> USE DEF IInv
<1>1. req[r].pc \in {"publishFrom", "publishTo"} /\ req[r].from \in Accounts
  BY DEF PublishSender, PublishReceiver, Shape, Inside
<1>2. PICK next : /\ Goto(r, next)
                  /\ next \in {"ok", "commit", "notifyTo"}
                  /\ next = "notifyTo" => req[r].op = "transfer"
  BY DEF PublishSender, PublishReceiver, AfterSender, TypeOK, ReqType, Ops
<1>3. next \in PCs /\ UNCHANGED <<row, history, rowLock, notifs>>
  BY <1>2 DEF PublishSender, PublishReceiver, PCs, Inside, Answers
<1> QED
  BY <1>1, <1>2, <1>3, MoveIInv DEF Inside, TypeOK

\* COMMIT writes rows that nobody else has locked.
LEMMA CommitFacts ==
  ASSUME IInv, NEW r \in Requests, Commit(r)
  PROVE  /\ req[r].from \in Accounts /\ req[r].amount \in Nat
         /\ SourceAccepted(r) /\ rowLock[req[r].from] = r
         /\ req[r].fromBal = row[req[r].from].balance
         /\ req[r].op \in {"deposit", "transfer"}
         /\ req[r].op = "transfer" =>
              /\ req[r].to \in Accounts /\ TargetAccepted(r)
              /\ rowLock[req[r].to] = r
              /\ req[r].toBal = row[req[r].to].balance
<1>1. req[r].pc = "commit" /\ req[r].op \in {"deposit", "transfer"}
  BY DEF Commit
<1>2. HasFrom(r) /\ (req[r].op = "transfer" => HasTo(r))
  BY <1>1 DEF HasFrom, HasTo, InTransaction, Inside
<1>3. FreshCopy(r) /\ req[r] \in ReqType
  BY DEF IInv, FreshCopies, TypeOK
<1> QED
  BY <1>1, <1>2, <1>3 DEF IInv, Shape, FreshCopy, ReqType

LEMMA CommitTyped ==
  ASSUME IInv, NEW r \in Requests, Commit(r)
  PROVE  row' \in [Accounts -> RowType] /\ history' \in [Accounts -> Seq(TxType)]
<1> DEFINE a == req[r].from
           b == req[r].to
           m == req[r].amount
           after == req[r].fromBal + m
           left == req[r].fromBal - m
           got == req[r].toBal + m
<1>1. a \in Accounts /\ m \in Nat /\ row[a] \in RowType /\ req[r].fromBal \in Nat
  BY CommitFacts DEF IInv, TypeOK, ReqType
<1>2. row \in [Accounts -> RowType] /\ history \in [Accounts -> Seq(TxType)]
  BY DEF IInv, TypeOK
<1>3. CASE BookDeposit(r)
  <2>1. after \in Nat /\ Stored(after) \in Nat
    BY <1>1, StoredNat
  <2>2. Tx("deposit", m, after, NoAccount, r) \in TxType
    BY <1>1, <2>1, TxTyped
  <2>3. [row[a] EXCEPT !.balance = Stored(after)] \in RowType
    BY <1>1, <2>1 DEF RowType
  <2>4. /\ row' = [row EXCEPT ![a] = [row[a] EXCEPT !.balance = Stored(after)]]
        /\ history' = [history EXCEPT ![a] =
                         Append(history[a], Tx("deposit", m, after, NoAccount, r))]
    BY <1>2, <1>3 DEF BookDeposit
  <2> QED
    BY <1>1, <1>2, <2>2, <2>3, <2>4
<1>4. CASE req[r].op = "transfer" /\ BookTransfer(r)
  <2>1. /\ b \in Accounts /\ a # b /\ row[b] \in RowType /\ req[r].toBal \in Nat
        /\ req[r].fromBal >= m
    BY <1>4, CommitFacts DEF IInv, TypeOK, ReqType, TargetAccepted
  <2>2. /\ left \in Nat /\ Stored(left) \in Nat
        /\ got \in Nat /\ Stored(got) \in Nat
    BY <1>1, <2>1, StoredNat
  <2>3. /\ Tx("transfer_out", m, left, b, r) \in TxType
        /\ Tx("transfer_in", m, got, a, r) \in TxType
    BY <1>1, <2>1, <2>2, TxTyped
  <2>4. /\ [row[a] EXCEPT !.balance = Stored(left)] \in RowType
        /\ [row[b] EXCEPT !.balance = Stored(got)] \in RowType
    BY <1>1, <2>1, <2>2 DEF RowType
  <2>5. /\ row' = [row EXCEPT ![a] = [row[a] EXCEPT !.balance = Stored(left)],
                             ![b] = [row[b] EXCEPT !.balance = Stored(got)]]
        /\ history' = [history EXCEPT
                         ![a] = Append(history[a], Tx("transfer_out", m, left, b, r)),
                         ![b] = Append(history[b], Tx("transfer_in", m, got, a, r))]
    BY <1>2, <1>4, <2>1 DEF BookTransfer
  <2>6. row' \in [Accounts -> RowType]
    BY <1>1, <1>2, <2>1, <2>4, <2>5
  <2>7. ASSUME NEW c \in Accounts, NEW t \in TxType
        PROVE  Append(history[c], t) \in Seq(TxType)
    BY <1>2
  <2>8. history' \in [Accounts -> Seq(TxType)]
    BY <1>1, <1>2, <2>1, <2>3, <2>5, <2>7
  <2> QED
    BY <2>6, <2>8
<1> QED
  BY <1>3, <1>4 DEF Commit

LEMMA CommitIInv == ASSUME IInv, NEW r \in Requests, Commit(r) PROVE IInv'
<1>1. PICK answer \in {"ok", "unknown"} : Goto(r, answer)
  BY DEF Commit, CommitAnswers
<1>2. answer \in PCs /\ Release(r) /\ UNCHANGED notifs /\ req[r].pc = "commit"
  BY DEF Commit, PCs, Answers
<1>3. TypeOK'
  BY <1>1, <1>2, CommitTyped, GotoFacts DEF IInv, TypeOK, Release
<1>4. Shape'
  BY <1>1, <1>2, GotoFacts DEF IInv, Shape, Inside
<1>5. FreshCopy(r)'
  BY <1>1, <1>2, GotoFacts DEF IInv, FreshCopy, HasFrom, HasTo, InTransaction, Inside
<1>6. ASSUME NEW q \in Requests, q # r PROVE FreshCopy(q)'
  <2>1. ASSUME NEW c \in Accounts, rowLock[c] = q PROVE row'[c] = row[c]
    <3>1. c # req[r].from /\ (req[r].op = "transfer" => c # req[r].to)
      BY <1>6, <2>1, CommitFacts
    <3> QED
      BY <3>1 DEF Commit, BookDeposit, BookTransfer, IInv, TypeOK
  <2>2. \A c \in Accounts : rowLock[c] = q => rowLock'[c] = q
    BY <1>2, <1>6 DEF Release
  <2> QED
    BY <1>1, <1>2, <1>6, <2>1, <2>2, GotoFacts, FreshFrame DEF IInv, FreshCopies
<1> QED
  BY <1>3, <1>4, <1>5, <1>6 DEF IInv, FreshCopies

LEMMA RollbackIInv == ASSUME IInv, NEW r \in Requests, Rollback(r) PROVE IInv'
<1> USE DEF IInv
<1>1. /\ req[r].pc = "rollback"
      /\ Goto(r, "refused") /\ "refused" \in PCs /\ Release(r)
      /\ UNCHANGED <<row, history, notifs>>
  BY DEF Rollback, PCs, Answers
<1>2. TypeOK'
  BY <1>1, GotoFacts DEF TypeOK, Release
<1>3. Shape'
  BY <1>1, GotoFacts DEF Shape, Inside
<1>4. FreshCopy(r)'
  BY <1>1, GotoFacts DEF FreshCopy, HasFrom, HasTo, InTransaction, Inside
<1>5. ASSUME NEW q \in Requests, q # r PROVE FreshCopy(q)'
  <2>1. \A c \in Accounts : rowLock[c] = q => rowLock'[c] = q
    BY <1>1, <1>5 DEF Release
  <2> QED
    BY <1>1, <1>5, <2>1, GotoFacts, FreshFrame DEF FreshCopies
<1> QED
  BY <1>2, <1>3, <1>4, <1>5 DEF FreshCopies

LEMMA AbortIInv ==
  ASSUME IInv, NEW r \in Requests, Fail(r) \/ DeadlockAbort(r) PROVE IInv'
<1> USE DEF IInv
<1>1. /\ UNCHANGED <<row, history, rowLock, notifs>>
      /\ req[r].pc # "free"
      /\ \E pc \in {"refused", "unknown", "rollback"} :
           Goto(r, pc) /\ (pc = "rollback" => req[r].from \in Accounts)
  <2>1. CASE Fail(r)
    BY <2>1 DEF Fail, InFlight, InTransaction, Waiting, Inside, Shape
  <2>2. CASE DeadlockAbort(r)
    <3>1. PICK S \in SUBSET Requests : r \in S /\ {Blocker(q) : q \in S} = S
      BY <2>2 DEF DeadlockAbort, InCycle
    <3>2. Blocker(r) \in Requests
      BY <3>1
    <3>3. Wanted(r) # NoAccount
      BY <3>2, DistinctNulls DEF Blocker
    <3>4. req[r].from \in Accounts /\ req[r].pc # "free"
      BY <3>3 DEF Wanted, Shape, Inside
    <3> QED
      BY <2>2, <3>4 DEF DeadlockAbort
  <2> QED
    BY <2>1, <2>2
<1>2. PICK pc \in {"refused", "unknown", "rollback"} :
        Goto(r, pc) /\ (pc = "rollback" => req[r].from \in Accounts)
  BY <1>1
<1>3. pc \in PCs
  BY DEF PCs, Inside, Answers
<1> QED
  BY <1>1, <1>2, <1>3, MoveIInv DEF TypeOK, Inside

LEMMA CrashIInv == ASSUME IInv, Crash PROVE IInv'
<1> USE DEF IInv
<1>1. ASSUME NEW r \in Requests
      PROVE  /\ req'[r] \in ReqType /\ req'[r].pc \notin Waiting \cup Inside
             /\ req'[r].op = req[r].op /\ req'[r].from = req[r].from
             /\ req'[r].to = req[r].to
             /\ req'[r].user = req[r].user /\ req'[r].amount = req[r].amount
             /\ req'[r].pc = "free" <=> req[r].pc = "free"
  <2>1. req[r] \in ReqType
    BY DEF TypeOK
  <2>2. CASE InFlight(r)
    <3>1. req'[r] = [req[r] EXCEPT !.pc = "unknown"]
      BY <2>2 DEF Crash
    <3> QED
      BY <2>1, <2>2, <3>1 DEF InFlight, ReqType, PCs, Answers, Waiting, Inside
  <2>3. CASE ~InFlight(r)
    BY <2>1, <2>3 DEF Crash, InFlight
  <2> QED
    BY <2>2, <2>3
<1>2. req' \in [Requests -> ReqType]
  <2>1. req' = [r \in Requests |-> req'[r]]
    BY DEF Crash
  <2> QED
    BY <1>1, <2>1
<1>3. TypeOK'
  BY <1>2 DEF Crash, TypeOK
<1>4. Shape'
  BY <1>1 DEF Shape, Waiting, Inside
<1>5. FreshCopies'
  BY <1>1 DEF FreshCopies, FreshCopy, HasFrom, HasTo, InTransaction
<1> QED
  BY <1>3, <1>4, <1>5

LEMMA ExternalSetStatusIInv ==
  ASSUME IInv, NEW a \in Accounts, NEW s \in Statuses, ExternalSetStatus(a, s)
  PROVE  IInv'
<1> USE DEF IInv
<1>1. /\ rowLock[a] = NoRequest
      /\ row' = [row EXCEPT ![a] = [row[a] EXCEPT !.status = s]]
      /\ UNCHANGED <<history, rowLock, req, notifs>>
  BY DEF ExternalSetStatus, SetStatus, TypeOK
<1>2. [row[a] EXCEPT !.status = s] \in RowType
  BY DEF TypeOK, RowType
<1>3. TypeOK'
  BY <1>1, <1>2 DEF TypeOK
<1>4. Shape'
  BY <1>1 DEF Shape
<1>5. ASSUME NEW q \in Requests PROVE FreshCopy(q)'
  <2>1. ASSUME NEW c \in Accounts, rowLock[c] = q PROVE row'[c] = row[c]
    BY <1>1, <2>1, DistinctNulls DEF TypeOK
  <2> QED
    BY <1>1, <2>1, FreshFrame DEF FreshCopies
<1> QED
  BY <1>3, <1>4, <1>5 DEF FreshCopies

-----------------------------------------------------------------------------
LEMMA StepIInv == IInv /\ [Next]_vars => IInv'
<1> SUFFICES ASSUME IInv, [Next]_vars PROVE IInv'
  OBVIOUS
<1>1. ASSUME NEW r \in Requests, Arrive(r) \/ Progress(r) \/ Fail(r) PROVE IInv'
  BY <1>1, ArriveIInv, CreateAccountIInv, BeginIInv, LockFromIInv, LockToIInv,
     NotifyIInv, PublishIInv, CommitIInv, RollbackIInv, AbortIInv DEF Progress
<1>2. CASE UNCHANGED vars
  BY <1>2 DEF vars, IInv, TypeOK, Shape, FreshCopies, FreshCopy, HasFrom, HasTo,
              InTransaction, SourceAccepted, TargetAccepted, Active, Exists
<1> QED
  BY <1>1, <1>2, CrashIInv, ExternalSetStatusIInv DEF Next, Done

\* The strengthened invariant holds in every reachable state.
THEOREM Invariance == Spec => []IInv
<1>1. Init => IInv
  BY InitIInv
<1>2. IInv /\ [Next]_vars => IInv'
  BY StepIInv
<1> QED
  BY <1>1, <1>2, PTL DEF Spec

\* The state keeps its types; in particular no balance is ever negative.
THEOREM TypeCorrect == Spec => []TypeOK
<1>1. IInv => TypeOK
  BY DEF IInv
<1> QED
  BY <1>1, Invariance, PTL

\* What deposit and transfer checked and copied under the row locks is still
\* true whenever they use it, for any number of concurrent requests.
THEOREM CopiesNeverStale == Spec => []FreshCopies
<1>1. IInv => FreshCopies
  BY DEF IInv
<1> QED
  BY <1>1, Invariance, PTL

-----------------------------------------------------------------------------
\* The moment a transaction of the code happens, seen from outside, is its
\* COMMIT: there it does what AtomicBank does in one step.
LEMMA CommitIsAtomic ==
  ASSUME IInv, NEW r \in Requests, Commit(r)
  PROVE  \/ Deposit(req[r].from, req[r].amount, r)
         \/ /\ req[r].to \in Accounts
            /\ Transfer(req[r].from, req[r].to, req[r].amount, r)
<1>1. CASE BookDeposit(r)
  BY <1>1, CommitFacts DEF BookDeposit, Deposit, SourceAccepted
<1>2. CASE req[r].op = "transfer" /\ BookTransfer(r)
  BY <1>2, CommitFacts
     DEF BookTransfer, Transfer, SourceAccepted, TargetAccepted
<1> QED
  BY <1>1, <1>2 DEF Commit

LEMMA StepRefines == IInv /\ [Next]_vars => [BankNext]_bankVars
<1> SUFFICES ASSUME IInv, [Next]_vars PROVE [BankNext]_bankVars
  OBVIOUS
<1> USE DEF bankVars
<1>1. ASSUME NEW r \in Requests, CreateAccount(r) PROVE BankNext
  BY <1>1 DEF CreateAccount, BankNext, IInv, Shape
<1>2. ASSUME NEW r \in Requests, Commit(r) PROVE BankNext
  <2>1. req[r].from \in Accounts /\ req[r].amount \in Amounts
    BY <1>2, CommitFacts DEF IInv, Shape
  <2> QED
    BY <1>2, <2>1, CommitIsAtomic DEF BankNext
<1>3. ASSUME NEW a \in Accounts, NEW s \in Statuses, ExternalSetStatus(a, s)
      PROVE  BankNext
  BY <1>3 DEF ExternalSetStatus, BankNext
<1>4. ASSUME NEW r \in Requests,
             Arrive(r) \/ Fail(r) \/ (Progress(r) /\ ~CreateAccount(r) /\ ~Commit(r))
      PROVE  UNCHANGED bankVars
  BY <1>4 DEF Arrive, Fail, Progress, Begin, LockFrom, LockTo, NotifySender,
              NotifyReceiver, Notify, PublishSender, PublishReceiver, Rollback,
              DeadlockAbort
<1>5. CASE Crash \/ UNCHANGED vars
  BY <1>5 DEF Crash, vars
<1> QED
  BY <1>1, <1>2, <1>3, <1>4, <1>5 DEF Next, Done, Progress

\* LedgerService implements AtomicBank: whatever runs, fails, deadlocks or
\* crashes concurrently, accounts change only by whole deposits and transfers
\* between active accounts, with the balances of that moment and enough funds.
THEOREM ImplementsBank == Spec => BankSpec
<1>1. Init => BankInit
  BY DEF Init
<1>2. IInv /\ [Next]_vars => [BankNext]_bankVars
  BY StepRefines
<1> QED
  BY <1>1, <1>2, Invariance, PTL DEF Spec, BankSpec

-----------------------------------------------------------------------------
\* One of the transactions h is request r's.
HasEntry(h, r) == \E i \in DOMAIN h : h[i].req = r

\* The transaction t on account a is what request q asked for, and q has
\* committed: a transfer names the account on its other side.
Asked(q, t, a) ==
  /\ q.pc \in CommitAnswers
  /\ t.amount = Stored(q.amount)
  /\ \/ t.type = "deposit" /\ q.op = "deposit" /\ q.from = a /\ t.party = NoAccount
     \/ /\ t.type = "transfer_out" /\ q.op = "transfer"
        /\ q.from = a /\ q.to = t.party /\ a # t.party
     \/ /\ t.type = "transfer_in" /\ q.op = "transfer"
        /\ q.from = t.party /\ q.to = a /\ a # t.party

\* Only accounts that were opened have transactions, and none of a request
\* that was refused or is still running.
OnlyWhatWasAsked ==
  \A a \in Accounts : \A i \in DOMAIN history[a] :
    /\ Exists(a)
    /\ history[a][i].req # NoRequest => Asked(req[history[a][i].req], history[a][i], a)

BookedOnce ==
  \A a \in Accounts : \A i, j \in DOMAIN history[a] :
    history[a][i].req # NoRequest /\ history[a][i].req = history[a][j].req => i = j

BothSides ==
  \A r \in Requests :
    req[r].op = "transfer" =>
      (HasEntry(history[req[r].from], r) <=> HasEntry(history[req[r].to], r))

\* An ok is the answer of a commit, and of an insert that is there to see.
OkIsDone ==
  \A r \in Requests :
    /\ req[r].pc = "ok" /\ req[r].op # "create" => HasEntry(history[req[r].from], r)
    /\ req[r].pc \in Inside \cup {"ok"} /\ req[r].op = "create" =>
         /\ req[r].from \in Accounts
         /\ row[req[r].from].owner = req[r].user

\* A transaction about to commit has told its sender and its receiver.
Told(r) ==
  InTransaction(r) =>
    /\ req[r].pc \in {"publishFrom", "notifyTo", "publishTo", "commit"} =>
         [user |-> row[req[r].from].owner, req |-> r] \in notifs
    /\ req[r].pc \in {"publishTo", "commit"} /\ req[r].op = "transfer" =>
         [user |-> row[req[r].to].owner, req |-> r] \in notifs

ToldFirst == \A r \in Requests : Told(r)

\* Every balance in the database is a whole number of cents.
WholeBalances == \A a \in Accounts : row[a].balance % 2 = 0

Books ==
  /\ OnlyWhatWasAsked /\ BookedOnce /\ BothSides /\ OkIsDone /\ ToldFirst
  /\ WholeBalances /\ HistoryExplainsBalance /\ NotifiedBeforeVisible


-----------------------------------------------------------------------------
LEMMA AppendFacts ==
  ASSUME NEW S, NEW s \in Seq(S), NEW t \in S
  PROVE  /\ Append(s, t) \in Seq(S)
         /\ Len(Append(s, t)) = Len(s) + 1
         /\ DOMAIN Append(s, t) = DOMAIN s \cup {Len(s) + 1}
         /\ Len(s) + 1 \notin DOMAIN s
         /\ \A i \in DOMAIN s : Append(s, t)[i] = s[i]
         /\ Append(s, t)[Len(s) + 1] = t
<1>1. DOMAIN s = 1 .. Len(s) /\ Len(s) \in Nat
  OBVIOUS
<1>2. DOMAIN Append(s, t) = 1 .. Len(s) + 1
  OBVIOUS
<1> QED
  BY <1>1, <1>2

\* The accounts a committing request books on, and what it books on each.
Parties(r) ==
  {req[r].from} \cup IF req[r].op = "transfer" THEN {req[r].to} ELSE {}

Entry(r, c) ==
  LET q == req[r] IN
  CASE q.op = "deposit" ->
         Tx("deposit", q.amount, q.fromBal + q.amount, NoAccount, r)
    [] q.op = "transfer" /\ c = q.from ->
         Tx("transfer_out", q.amount, q.fromBal - q.amount, q.to, r)
    [] OTHER ->
         Tx("transfer_in", q.amount, q.toBal + q.amount, q.from, r)

LEMMA StoredEven ==
  ASSUME NEW x \in Nat
  PROVE  Stored(x) % 2 = 0 /\ (x % 2 = 0 => Stored(x) = x)
  BY DEF Stored

\* COMMIT adds one transaction to each party, whose new balance it records.
LEMMA CommitBooks ==
  ASSUME IInv, NEW r \in Requests, Commit(r)
  PROVE  /\ Parties(r) \subseteq Accounts
         /\ \A c \in Accounts : c \notin Parties(r) =>
              history'[c] = history[c] /\ row'[c] = row[c]
         /\ \A c \in Parties(r) :
              /\ Entry(r, c) \in TxType
              /\ history'[c] = Append(history[c], Entry(r, c))
              /\ Exists(c) /\ row'[c].owner = row[c].owner
              /\ row'[c].balance = Entry(r, c).balanceAfter
<1> DEFINE a == req[r].from
           b == req[r].to
           m == req[r].amount
           left == req[r].fromBal - m
           got == req[r].toBal + m
<1>1. /\ a \in Accounts /\ m \in Nat /\ row[a] \in RowType /\ req[r].fromBal \in Nat
      /\ Active(a)
  BY CommitFacts DEF IInv, TypeOK, ReqType, SourceAccepted
<1>2. row \in [Accounts -> RowType] /\ history \in [Accounts -> Seq(TxType)]
  BY DEF IInv, TypeOK
<1>3. CASE req[r].op = "deposit" /\ BookDeposit(r)
  <2>1. Entry(r, a) = Tx("deposit", m, req[r].fromBal + m, NoAccount, r)
    BY <1>3 DEF Entry
  <2>0. req[r].fromBal + m \in Nat /\ r \in Requests \cup {NoRequest}
    BY <1>1
  <2>2. Entry(r, a) \in TxType
    <3> HIDE DEF m, a
    <3> QED
      BY <1>1, <2>0, <2>1, TxTyped
  <2>3. Parties(r) = {a}
    BY <1>3 DEF Parties
  <2>4. Entry(r, a).balanceAfter = Stored(req[r].fromBal + m)
    BY <2>1 DEF Tx
  <2>5. /\ row' = [row EXCEPT ![a] = [row[a] EXCEPT !.balance = Stored(req[r].fromBal + m)]]
        /\ history' = [history EXCEPT ![a] = Append(history[a], Entry(r, a))]
    BY <1>2, <1>3, <2>1 DEF BookDeposit
  <2>6. \A c \in Accounts : c # a => history'[c] = history[c] /\ row'[c] = row[c]
    BY <1>2, <2>5
  <2>7. /\ history'[a] = Append(history[a], Entry(r, a))
        /\ row'[a] = [row[a] EXCEPT !.balance = Stored(req[r].fromBal + m)]
    BY <1>1, <1>2, <2>5
  <2>8. row'[a].balance = Stored(req[r].fromBal + m) /\ row'[a].owner = row[a].owner
    BY <1>1, <2>7 DEF RowType
  <2> QED
    BY <1>1, <2>2, <2>3, <2>4, <2>6, <2>7, <2>8 DEF Active
<1>4. CASE req[r].op = "transfer" /\ BookTransfer(r)
  <2>1. /\ b \in Accounts /\ a # b /\ row[b] \in RowType /\ req[r].toBal \in Nat
        /\ req[r].fromBal >= m /\ Active(b)
    BY <1>4, CommitFacts DEF IInv, TypeOK, ReqType, TargetAccepted
  <2>2. left \in Nat /\ got \in Nat
    BY <1>1, <2>1
  <2>3. /\ Entry(r, a) = Tx("transfer_out", m, left, b, r)
        /\ Entry(r, b) = Tx("transfer_in", m, got, a, r)
    BY <1>4, <2>1 DEF Entry
  <2>4. Entry(r, a) \in TxType /\ Entry(r, b) \in TxType
    BY <1>1, <2>1, <2>2, <2>3, TxTyped
  <2>5. Parties(r) = {a, b}
    BY <1>4 DEF Parties
  <2>6. /\ Entry(r, a).balanceAfter = Stored(left)
        /\ Entry(r, b).balanceAfter = Stored(got)
    BY <2>3 DEF Tx
  <2>7. /\ row' = [row EXCEPT ![a] = [row[a] EXCEPT !.balance = Stored(left)],
                             ![b] = [row[b] EXCEPT !.balance = Stored(got)]]
        /\ history' = [history EXCEPT ![a] = Append(history[a], Entry(r, a)),
                                      ![b] = Append(history[b], Entry(r, b))]
    BY <1>2, <1>4, <2>1, <2>3 DEF BookTransfer
  <2>8. \A c \in Accounts : c # a /\ c # b =>
          history'[c] = history[c] /\ row'[c] = row[c]
    BY <1>2, <2>7
  <2>9. /\ history'[a] = Append(history[a], Entry(r, a))
        /\ history'[b] = Append(history[b], Entry(r, b))
    <3> HIDE DEF a, b
    <3> QED
      BY <1>1, <1>2, <2>1, <2>7
  <2>10. /\ row'[a] = [row[a] EXCEPT !.balance = Stored(left)]
         /\ row'[b] = [row[b] EXCEPT !.balance = Stored(got)]
    BY <1>1, <1>2, <2>1, <2>7
  <2>11. /\ row'[a].balance = Stored(left) /\ row'[a].owner = row[a].owner
         /\ row'[b].balance = Stored(got) /\ row'[b].owner = row[b].owner
    BY <1>1, <2>1, <2>10 DEF RowType
  <2> QED
    BY <1>1, <2>1, <2>4, <2>5, <2>6, <2>8, <2>9, <2>11 DEF Active
<1> QED
  BY <1>3, <1>4 DEF Commit

\* What the transaction says: whose it is, what it is, and what it changes.
LEMMA EntryFacts ==
  ASSUME IInv, NEW r \in Requests, Commit(r), NEW c \in Parties(r)
  PROVE  /\ Entry(r, c).req = r /\ Entry(r, c).amount = Stored(req[r].amount)
         /\ \/ /\ Entry(r, c).type = "deposit" /\ req[r].op = "deposit"
               /\ req[r].from = c /\ Entry(r, c).party = NoAccount
            \/ /\ Entry(r, c).type = "transfer_out" /\ req[r].op = "transfer"
               /\ req[r].from = c /\ req[r].to = Entry(r, c).party
               /\ c # Entry(r, c).party
            \/ /\ Entry(r, c).type = "transfer_in" /\ req[r].op = "transfer"
               /\ req[r].from = Entry(r, c).party /\ req[r].to = c
               /\ c # Entry(r, c).party
         /\ Entry(r, c).balanceAfter % 2 = 0
         /\ WholeCents /\ row[c].balance % 2 = 0 =>
              Entry(r, c).balanceAfter = row[c].balance + Delta(Entry(r, c))
<1> DEFINE a == req[r].from
           b == req[r].to
           m == req[r].amount
<1>1. /\ a \in Accounts /\ m \in Nat /\ m \in Amounts /\ req[r].fromBal \in Nat
      /\ req[r].fromBal = row[a].balance
  BY CommitFacts DEF IInv, TypeOK, ReqType, Shape
<1>2. Stored(m) \in Nat /\ (WholeCents => Stored(m) = m /\ m % 2 = 0)
  BY <1>1, StoredEven, StoredNat DEF WholeCents
<1>6. Entry(r, c).amount = Stored(m)
  BY DEF Entry, Tx
<1>3. CASE req[r].op = "deposit"
  <2> DEFINE x == row[a].balance + m
  <2>1. c = a /\ Entry(r, c) = Tx("deposit", m, x, NoAccount, r) /\ x \in Nat
    BY <1>1, <1>3 DEF Entry, Parties
  <2>2. Stored(x) % 2 = 0 /\ (x % 2 = 0 => Stored(x) = x)
    BY <2>1, StoredEven
  <2>3. Delta(Entry(r, c)) = Stored(m)
    BY <2>1 DEF Delta, Tx
  <2>4. WholeCents /\ row[a].balance % 2 = 0 => x % 2 = 0
    BY <1>1, <1>2
  <2> HIDE DEF x
  <2>5. /\ Entry(r, c).req = r /\ Entry(r, c).type = "deposit"
        /\ Entry(r, c).balanceAfter = Stored(x) /\ Entry(r, c).party = NoAccount
    BY <2>1 DEF Tx
  <2>6. x = row[a].balance + m
    BY DEF x
  <2> QED
    BY <1>2, <1>3, <1>6, <2>1, <2>2, <2>3, <2>4, <2>5, <2>6
<1>4. CASE req[r].op = "transfer" /\ c = a
  <2> DEFINE x == row[a].balance - m
  <2>1. /\ Entry(r, c) = Tx("transfer_out", m, x, b, r)
        /\ x \in Nat /\ a # b
    BY <1>1, <1>4, CommitFacts DEF Entry, TargetAccepted
  <2>2. Stored(x) % 2 = 0 /\ (x % 2 = 0 => Stored(x) = x)
    BY <2>1, StoredEven
  <2>3. Delta(Entry(r, c)) = -Stored(m)
    BY <2>1 DEF Delta, Tx
  <2>4. WholeCents /\ row[a].balance % 2 = 0 => x % 2 = 0
    BY <1>1, <1>2
  <2>6. x = row[a].balance - m /\ row[a].balance \in Nat
    BY <1>1
  <2> HIDE DEF x
  <2>5. /\ Entry(r, c).req = r /\ Entry(r, c).type = "transfer_out"
        /\ Entry(r, c).balanceAfter = Stored(x) /\ Entry(r, c).party = b
    BY <2>1 DEF Tx
  <2> QED
    BY <1>1, <1>2, <1>4, <1>6, <2>1, <2>2, <2>3, <2>4, <2>5, <2>6
<1>5. CASE req[r].op = "transfer" /\ c # a
  <2> DEFINE x == row[b].balance + m
  <2>1. /\ c = b /\ Entry(r, c) = Tx("transfer_in", m, x, a, r)
        /\ row[b].balance \in Nat /\ x \in Nat /\ a # b
    BY <1>1, <1>5, CommitFacts
       DEF Entry, Parties, TargetAccepted, IInv, TypeOK, ReqType, RowType
  <2>2. Stored(x) % 2 = 0 /\ (x % 2 = 0 => Stored(x) = x)
    BY <2>1, StoredEven
  <2>3. Delta(Entry(r, c)) = Stored(m)
    BY <2>1 DEF Delta, Tx
  <2>4. WholeCents /\ row[b].balance % 2 = 0 => x % 2 = 0
    BY <1>1, <1>2, <2>1
  <2>6. x = row[b].balance + m
    OBVIOUS
  <2> HIDE DEF x
  <2>5. /\ Entry(r, c).req = r /\ Entry(r, c).type = "transfer_in"
        /\ Entry(r, c).balanceAfter = Stored(x) /\ Entry(r, c).party = a
    BY <2>1 DEF Tx
  <2> QED
    BY <1>2, <1>5, <1>6, <2>1, <2>2, <2>3, <2>4, <2>5, <2>6
<1> QED
  BY <1>3, <1>4, <1>5, CommitFacts

LEMMA SingletonFacts ==
  ASSUME NEW t, NEW i \in DOMAIN <<t>>
  PROVE  i = 1 /\ Len(<<t>>) = 1 /\ <<t>>[i] = t /\ <<t>> # <<>>
  OBVIOUS

LEMMA InitBooks == Init => Books
<1> SUFFICES ASSUME Init PROVE Books
  OBVIOUS
<1> USE DEF Init, BankInit
<1>1. \A r \in Requests : req[r].pc = "free" /\ req[r].op = "create"
  BY DEF FreeRequest, Asking
<1>2. ASSUME NEW a \in Accounts
      PROVE  /\ row[a].balance \in Nat /\ row[a].balance % 2 = 0
             /\ row[a].balance # 0 => Exists(a)
  <2>1. CASE row[a] = NoRow
    BY <2>1 DEF NoRow
  <2>2. CASE row[a] \in [owner : Users, status : {"active"},
                         balance : {0} \cup {Stored(m) : m \in Amounts}]
    <3>1. \A m \in Amounts : Stored(m) \in Nat /\ Stored(m) % 2 = 0
      BY AmountsNat, StoredNat, StoredEven
    <3> QED
      BY <2>2, <3>1, DistinctNulls DEF Exists
  <2> QED
    BY <2>1, <2>2 DEF OpeningRows
<1>3. ASSUME NEW a \in Accounts, NEW i \in DOMAIN history[a]
      PROVE  /\ i = 1 /\ Len(history[a]) = 1 /\ history[a] # <<>> /\ Exists(a)
             /\ history[a][i].req = NoRequest
             /\ history[a][i].balanceAfter = row[a].balance
             /\ Delta(history[a][i]) = row[a].balance
  <2> DEFINE t == Tx("deposit", row[a].balance, row[a].balance, NoAccount, NoRequest)
  <2>1. row[a].balance # 0 /\ history[a] = <<t>>
    BY DEF OpeningHistory
  <2>2. Stored(row[a].balance) = row[a].balance
    BY <1>2, StoredEven
  <2>3. /\ t.req = NoRequest /\ t.balanceAfter = row[a].balance
        /\ Delta(t) = row[a].balance
    BY <2>2 DEF Tx, Delta
  <2> HIDE DEF t
  <2>4. i = 1 /\ Len(history[a]) = 1 /\ history[a][i] = t /\ history[a] # <<>>
    BY <2>1, SingletonFacts
  <2> QED
    BY <1>2, <2>1, <2>3, <2>4
<1>4. OnlyWhatWasAsked /\ BookedOnce /\ NotifiedBeforeVisible
  BY <1>3 DEF OnlyWhatWasAsked, BookedOnce, NotifiedBeforeVisible
<1>5. BothSides /\ OkIsDone /\ ToldFirst
  BY <1>1 DEF BothSides, OkIsDone, ToldFirst, Told, InTransaction, Inside
<1>6. WholeBalances
  BY <1>2 DEF WholeBalances
<1>7. HistoryExplainsBalance
  <2>1. ASSUME NEW a \in Accounts
        PROVE  row[a].balance = IF history[a] = <<>> THEN 0
                                ELSE history[a][Len(history[a])].balanceAfter
    <3>1. CASE row[a].balance = 0
      <4>1. history[a] = <<>>
        BY <3>1 DEF OpeningHistory
      <4> QED
        BY <3>1, <4>1
    <3>2. CASE row[a].balance # 0
      <4>1. 1 \in DOMAIN history[a]
        BY <3>2 DEF OpeningHistory
      <4> QED
        BY <1>3, <4>1
    <3> QED
      BY <3>1, <3>2
  <2>2. ASSUME NEW a \in Accounts, NEW i \in DOMAIN history[a]
        PROVE  history[a][i].balanceAfter =
                 (IF i = 1 THEN 0 ELSE history[a][i - 1].balanceAfter)
                   + Delta(history[a][i])
    BY <1>2, <1>3
  <2> QED
    BY <2>1, <2>2 DEF HistoryExplainsBalance
<1> QED
  BY <1>4, <1>5, <1>6, <1>7 DEF Books

-----------------------------------------------------------------------------
\* A step that books nothing: rows keep their owners and their balances, what
\* is committed stays answered as it was, and an ok is only given to a creation.
Quiet ==
  /\ UNCHANGED history
  /\ notifs \subseteq notifs'
  /\ \A a \in Accounts :
       /\ Exists(a) => row'[a].owner = row[a].owner
       /\ row'[a].balance = row[a].balance
  /\ \A q \in Requests :
       /\ req[q].pc \in CommitAnswers => req'[q] = req[q]
       /\ req'[q].pc = "ok" /\ req'[q].op # "create" => req[q].pc = "ok"
       /\ req'[q].pc \in Inside \cup {"ok"} /\ req'[q].op = "create" =>
            \/ /\ req[q].pc \in Inside \cup {"ok"} /\ req[q].op = "create"
               /\ req'[q].from = req[q].from /\ req'[q].user = req[q].user
            \/ /\ req'[q].from \in Accounts
               /\ row'[req'[q].from].owner = req'[q].user

LEMMA QuietBooks ==
  ASSUME IInv, IInv', Books, Quiet, ToldFirst' PROVE Books'
<1> USE DEF Books
<1>0. history \in [Accounts -> Seq(TxType)] /\ UNCHANGED history
  BY DEF Quiet, IInv, TypeOK
<1>1. ASSUME NEW a \in Accounts, NEW i \in DOMAIN history[a]
      PROVE  /\ Exists(a) /\ Exists(a)' /\ row'[a].owner = row[a].owner
             /\ history[a][i].req # NoRequest =>
                  /\ history[a][i].req \in Requests
                  /\ req[history[a][i].req].pc \in CommitAnswers
                  /\ req'[history[a][i].req] = req[history[a][i].req]
  <2>1. history[a][i] \in TxType
    BY <1>0
  <2>2. Exists(a) /\ (history[a][i].req # NoRequest => Asked(req[history[a][i].req], history[a][i], a))
    BY DEF OnlyWhatWasAsked
  <2> QED
    BY <2>1, <2>2 DEF TxType, Quiet, Exists, Asked
<1>2. OnlyWhatWasAsked'
  BY <1>0, <1>1 DEF OnlyWhatWasAsked, Asked
<1>3. BookedOnce'
  BY <1>0 DEF BookedOnce
<1>4. BothSides'
  <2> SUFFICES ASSUME NEW r \in Requests, req'[r].op = "transfer"
               PROVE  HasEntry(history[req'[r].from], r) <=> HasEntry(history[req'[r].to], r)
    BY <1>0 DEF BothSides, HasEntry
  <2>1. CASE req[r].pc \in CommitAnswers
    BY <2>1 DEF Quiet, BothSides
  <2>2. CASE req[r].pc \notin CommitAnswers
    <3>1. req'[r].from \in Accounts /\ req'[r].to \in Accounts
      BY DEF IInv, Shape
    <3>2. r # NoRequest
      BY DistinctNulls
    <3> QED
      BY <1>1, <2>2, <3>1, <3>2 DEF HasEntry
  <2> QED
    BY <2>1, <2>2
<1>5. OkIsDone'
  <2>1. ASSUME NEW r \in Requests, req'[r].pc = "ok", req'[r].op # "create"
        PROVE  HasEntry(history[req[r].from], r)'
    <3>1. req[r].pc = "ok" /\ req'[r] = req[r]
      BY <2>1 DEF Quiet, CommitAnswers
    <3>2. HasEntry(history[req[r].from], r)
      BY <2>1, <3>1 DEF OkIsDone
    <3> QED
      BY <1>0, <3>1, <3>2 DEF HasEntry
  <2>2. ASSUME NEW r \in Requests, req'[r].pc \in Inside \cup {"ok"},
               req'[r].op = "create"
        PROVE  /\ req'[r].from \in Accounts
               /\ row'[req'[r].from].owner = req'[r].user
    <3>1. CASE /\ req[r].pc \in Inside \cup {"ok"} /\ req[r].op = "create"
               /\ req'[r].from = req[r].from /\ req'[r].user = req[r].user
      <4>1. req[r].from \in Accounts /\ row[req[r].from].owner = req[r].user
        BY <3>1 DEF OkIsDone
      <4>2. req[r].user \in Users
        BY <3>1 DEF IInv, Shape, Inside
      <4>3. Exists(req[r].from)
        BY <4>1, <4>2, DistinctNulls DEF Exists
      <4> QED
        BY <3>1, <4>1, <4>3 DEF Quiet
    <3> QED
      BY <2>2, <3>1 DEF Quiet
  <2> QED
    BY <2>1, <2>2 DEF OkIsDone
<1>6. WholeBalances'
  BY DEF WholeBalances, Quiet
<1>7. HistoryExplainsBalance'
  BY <1>0 DEF HistoryExplainsBalance, Quiet
<1>8. NotifiedBeforeVisible'
  BY <1>0, <1>1 DEF NotifiedBeforeVisible, Quiet
<1> QED
  BY <1>2, <1>3, <1>4, <1>5, <1>6, <1>7, <1>8

\* A transaction in progress stays told when its rows keep their owners.
LEMMA ToldFrame ==
  ASSUME IInv, NEW q \in Requests, Told(q), req'[q] = req[q],
         notifs \subseteq notifs',
         \A a \in Accounts : Exists(a) => row'[a].owner = row[a].owner
  PROVE  Told(q)'
<1>1. HasFrom(q) => req[q].from \in Accounts /\ Exists(req[q].from)
  BY DEF IInv, Shape, FreshCopies, FreshCopy, SourceAccepted, Active, HasFrom,
         InTransaction
<1>2. HasTo(q) => req[q].to \in Accounts /\ Exists(req[q].to)
  BY DEF IInv, Shape, FreshCopies, FreshCopy, TargetAccepted, Active, HasTo
<1> QED
  BY <1>1, <1>2 DEF Told, HasFrom, HasTo, InTransaction

\* A request that moves its program counter, and perhaps takes a copy.
Moves(r, pc) ==
  /\ \A q \in Requests : q # r => req'[q] = req[q]
  /\ req'[r].pc = pc /\ req'[r].op = req[r].op /\ req'[r].user = req[r].user
  /\ req'[r].from = req[r].from /\ req'[r].to = req[r].to
  /\ req'[r].amount = req[r].amount

LEMMA MovesBooks ==
  ASSUME IInv, IInv', Books, NEW r \in Requests, NEW pc, Moves(r, pc),
         UNCHANGED <<row, history>>, notifs \subseteq notifs',
         req[r].pc \notin Answers,
         pc \in Inside \cup {"ok"} /\ req[r].op = "create" =>
           req[r].pc \in Inside,
         pc = "ok" => req[r].op = "create",
         Told(r)'
  PROVE  Books'
<1>1. Quiet
  BY DEF Moves, Quiet, CommitAnswers, Answers
<1>2. ToldFirst'
  <2>1. ASSUME NEW q \in Requests, q # r PROVE Told(q)'
    BY <2>1, ToldFrame DEF Moves, Books, ToldFirst
  <2> QED
    BY <2>1 DEF ToldFirst
<1> QED
  BY <1>1, <1>2, QuietBooks

LEMMA GotoMoves ==
  ASSUME TypeOK, NEW r \in Requests, NEW pc \in PCs, Goto(r, pc)
  PROVE  Moves(r, pc)
  BY GotoFacts DEF Moves

\* Nothing has been told yet, or nothing needs to be.
LEMMA NotYetTold ==
  ASSUME NEW r \in Requests,
         req'[r].pc \notin {"publishFrom", "notifyTo", "publishTo", "commit"}
  PROVE  Told(r)'
  BY DEF Told

LEMMA ArriveBooks ==
  ASSUME IInv, IInv', Books, NEW r \in Requests, Arrive(r) PROVE Books'
<1>1. PICK q \in Arriving : req' = [req EXCEPT ![r] = q]
  BY DEF Arrive
<1>2. q.pc \in {"insert", "begin"}
  BY <1>1 DEF Arriving, Asking
<1>3. req'[r].pc \in {"insert", "begin"} /\ \A x \in Requests : x # r => req'[x] = req[x]
  BY <1>1, <1>2 DEF IInv, TypeOK
<1>4. UNCHANGED <<row, history, notifs>> /\ req[r].pc = "free"
  BY DEF Arrive
<1>5. Quiet
  BY <1>3, <1>4 DEF Quiet, CommitAnswers, Inside
<1>6. ToldFirst'
  <2>1. ASSUME NEW x \in Requests, x # r PROVE Told(x)'
    BY <1>3, <1>4, <2>1, ToldFrame DEF Books, ToldFirst
  <2> QED
    BY <1>3, <2>1, NotYetTold DEF ToldFirst
<1> QED
  BY <1>5, <1>6, QuietBooks

LEMMA CreateAccountBooks ==
  ASSUME IInv, IInv', Books, NEW r \in Requests, CreateAccount(r) PROVE Books'
<1>1. PICK a \in Accounts : /\ Open(a, req[r].user)
                            /\ req' = [req EXCEPT ![r].pc = "notifyFrom", ![r].from = a]
  BY DEF CreateAccount
<1>2. /\ req[r].pc = "insert" /\ UNCHANGED <<history, notifs>>
      /\ req[r] \in ReqType
  BY DEF CreateAccount, Open, IInv, TypeOK
<1>3. /\ req'[r].pc = "notifyFrom" /\ req'[r].from = a /\ req'[r].user = req[r].user
      /\ \A x \in Requests : x # r => req'[x] = req[x]
  <2> DEFINE q == [req[r] EXCEPT !.pc = "notifyFrom"]
             p == [q EXCEPT !.from = a]
  <2>1. q.user = req[r].user /\ q.pc = "notifyFrom" /\ q \in ReqType
    BY <1>2 DEF ReqType, PCs, Inside
  <2>2. p.user = q.user /\ p.pc = q.pc /\ p.from = a
    <3> HIDE DEF q
    <3> QED
      BY <2>1 DEF ReqType
  <2>3. req' = [[req EXCEPT ![r] = q] EXCEPT ![r] = p]
    BY <1>1 DEF IInv, TypeOK
  <2> QED
    BY <2>1, <2>2, <2>3 DEF IInv, TypeOK
<1>4. ~Exists(a) /\ \A b \in Accounts : b # a => row'[b] = row[b]
  BY <1>1 DEF Open, IInv, TypeOK
<1>5. row'[a].owner = req[r].user /\ row'[a].balance = 0
  BY <1>1 DEF Open, IInv, TypeOK
<1>6. row[a].balance = 0
  <2>1. history[a] \in Seq(TxType) /\ DOMAIN history[a] = {}
    BY <1>4 DEF Books, OnlyWhatWasAsked, IInv, TypeOK
  <2>2. history[a] = <<>>
    <3> DEFINE h == history[a]
    <3>1. h \in Seq(TxType) /\ DOMAIN h = {}
      BY <2>1
    <3> HIDE DEF h
    <3>2. DOMAIN h = 1 .. Len(h) /\ Len(h) \in Nat
      BY <3>1
    <3>3. Len(h) = 0
      BY <3>1, <3>2
    <3>4. h = <<>>
      BY <3>1, <3>3
    <3> QED
      BY <3>4 DEF h
  <2> QED
    BY <2>2 DEF Books, HistoryExplainsBalance
<1>7. Quiet
  <2>1. \A b \in Accounts : /\ Exists(b) => row'[b].owner = row[b].owner
                            /\ row'[b].balance = row[b].balance
    BY <1>4, <1>5, <1>6
  <2> QED
    BY <1>2, <1>3, <1>5, <2>1 DEF Quiet, CommitAnswers, Inside
<1>8. ToldFirst'
  <2>1. ASSUME NEW x \in Requests, x # r PROVE Told(x)'
    BY <1>2, <1>3, <1>7, <2>1, ToldFrame DEF Books, ToldFirst, Quiet
  <2> QED
    BY <1>3, <2>1, NotYetTold DEF ToldFirst
<1> QED
  BY <1>7, <1>8, QuietBooks

LEMMA LockBooks ==
  ASSUME IInv, IInv', Books, NEW r \in Requests,
         Begin(r) \/ LockFrom(r) \/ LockTo(r)
  PROVE  Books'
<1>1. /\ UNCHANGED <<row, history, notifs>>
      /\ req[r].pc \in {"begin", "lockFrom", "lockTo"}
  BY DEF Begin, LockFrom, LockTo
<1>2. req[r].op # "create" /\ req[r].pc \notin Answers
  BY <1>1 DEF IInv, Shape, Answers
<1>3. PICK pc \in {"lockFrom", "rollback", "notifyFrom", "lockTo"} : Moves(r, pc)
  <2>0. {"lockFrom", "rollback", "notifyFrom", "lockTo"} \subseteq PCs
    BY DEF PCs, Inside
  <2>1. CASE \E pc \in {"lockFrom", "rollback"} : Goto(r, pc)
    BY <2>0, <2>1, GotoMoves DEF IInv
  <2>2. CASE LockFrom(r) /\ CopyFrom(r, row[req[r].from].balance,
                      IF req[r].op = "deposit" THEN "notifyFrom" ELSE "lockTo")
    <3>1. row[req[r].from].balance \in Nat
      BY <2>2 DEF LockFrom, IInv, Shape, TypeOK, RowType
    <3>2. PICK pc \in {"notifyFrom", "lockTo"} :
            CopyFrom(r, row[req[r].from].balance, pc)
      BY <2>2
    <3> QED
      BY <2>0, <3>1, <3>2, FromCopyFacts DEF Moves, IInv
  <2>3. CASE LockTo(r) /\ CopyTo(r, row[req[r].to].balance, "notifyFrom")
    <3>1. row[req[r].to].balance \in Nat
      BY <2>3 DEF LockTo, IInv, Shape, TypeOK, RowType
    <3> QED
      BY <2>0, <2>3, <3>1, ToCopyFacts DEF Moves, IInv
  <2> QED
    BY <2>1, <2>2, <2>3 DEF Begin, LockFrom, LockTo
<1>4. Told(r)'
  BY <1>3, NotYetTold DEF Moves
<1> QED
  BY <1>1, <1>2, <1>3, <1>4, MovesBooks

LEMMA NotifyBooks ==
  ASSUME IInv, IInv', Books, NEW r \in Requests,
         NotifySender(r) \/ NotifyReceiver(r)
  PROVE  Books'
<1>1. PICK next \in {"publishFrom", "publishTo"} :
        /\ Goto(r, next) /\ UNCHANGED <<row, history>>
        /\ req[r].pc \in {"notifyFrom", "notifyTo"}
        /\ next = "publishFrom" =>
             notifs' = notifs \cup {[user |-> row[req[r].from].owner, req |-> r]}
        /\ next = "publishTo" =>
             /\ req[r].pc = "notifyTo"
             /\ notifs' = notifs \cup {[user |-> row[req[r].to].owner, req |-> r]}
  BY DEF NotifySender, NotifyReceiver, Notify
<1>2. Moves(r, next)
  BY <1>1, GotoMoves DEF IInv, PCs, Inside
<1>3. Told(r)'
  BY <1>1, <1>2 DEF Moves, Told, Books, ToldFirst, InTransaction, Inside
<1> QED
  BY <1>1, <1>2, <1>3, MovesBooks DEF Answers, Inside

LEMMA PublishBooks ==
  ASSUME IInv, IInv', Books, NEW r \in Requests,
         PublishSender(r) \/ PublishReceiver(r)
  PROVE  Books'
<1>1. PICK next \in {"ok", "commit", "notifyTo"} :
        /\ Goto(r, next) /\ UNCHANGED <<row, history, notifs>>
        /\ req[r].pc \in {"publishFrom", "publishTo"}
        /\ next = "ok" <=> req[r].op = "create" /\ req[r].pc = "publishFrom"
        /\ next = "commit" /\ req[r].op = "transfer" =>
             \/ req[r].pc = "publishTo"
             \/ row[req[r].to].owner = row[req[r].from].owner
  BY DEF PublishSender, PublishReceiver, AfterSender, IInv, TypeOK, ReqType, Ops
<1>2. Moves(r, next)
  BY <1>1, GotoMoves DEF IInv, PCs, Inside, Answers
<1>3. Told(r)'
  BY <1>1, <1>2 DEF Moves, Told, Books, ToldFirst, InTransaction, Inside
<1> QED
  BY <1>1, <1>2, <1>3, MovesBooks DEF Answers, Inside

LEMMA LeaveBooks ==
  ASSUME IInv, IInv', Books, NEW r \in Requests,
         Rollback(r) \/ Fail(r) \/ DeadlockAbort(r)
  PROVE  Books'
<1>1. UNCHANGED <<row, history, notifs>>
  BY DEF Rollback, Fail, DeadlockAbort
<1>2. PICK pc \in {"refused", "unknown", "rollback"} :
        /\ Goto(r, pc)
        /\ pc = "rollback" => req[r].op # "create"
        /\ req[r].pc \notin Answers
  <2>1. CASE DeadlockAbort(r)
    <3>1. PICK S \in SUBSET Requests : r \in S /\ {Blocker(q) : q \in S} = S
      BY <2>1 DEF DeadlockAbort, InCycle
    <3>2. Wanted(r) # NoAccount
      BY <3>1, DistinctNulls DEF Blocker
    <3>3. req[r].pc \in {"lockFrom", "lockTo"}
      BY <3>2 DEF Wanted
    <3> QED
      BY <2>1, <3>3 DEF DeadlockAbort, IInv, Shape, Answers
  <2> QED
    BY <2>1 DEF Rollback, Fail, InFlight, InTransaction, Waiting, Inside, Answers
<1>3. Moves(r, pc)
  BY <1>2, GotoMoves DEF IInv, PCs, Inside, Answers
<1>4. Told(r)'
  BY <1>3, NotYetTold DEF Moves
<1> QED
  BY <1>1, <1>2, <1>3, <1>4, MovesBooks DEF Inside

LEMMA CrashBooks == ASSUME IInv, IInv', Books, Crash PROVE Books'
<1>1. ASSUME NEW r \in Requests
      PROVE  /\ req'[r].pc \notin Inside
             /\ InFlight(r) => req'[r].pc = "unknown"
             /\ ~InFlight(r) => req'[r] = req[r]
  <2>1. req[r] \in ReqType
    BY DEF IInv, TypeOK
  <2>2. CASE InFlight(r)
    <3>1. req'[r] = [req[r] EXCEPT !.pc = "unknown"]
      BY <2>2 DEF Crash
    <3> QED
      BY <2>1, <2>2, <3>1 DEF ReqType, Inside
  <2>3. CASE ~InFlight(r)
    BY <2>1, <2>3 DEF Crash, InFlight
  <2> QED
    BY <2>2, <2>3
<1>2. Quiet
  BY <1>1 DEF Quiet, Crash, InFlight, CommitAnswers, Waiting, Inside
<1>3. ToldFirst'
  BY <1>1 DEF ToldFirst, Told, InTransaction
<1> QED
  BY <1>2, <1>3, QuietBooks

LEMMA SetStatusBooks ==
  ASSUME IInv, IInv', Books, NEW a \in Accounts, NEW s \in Statuses,
         ExternalSetStatus(a, s)
  PROVE  Books'
<1>1. /\ row' = [row EXCEPT ![a] = [row[a] EXCEPT !.status = s]]
      /\ UNCHANGED <<history, req, notifs>>
  BY DEF ExternalSetStatus, SetStatus, IInv, TypeOK
<1>2. \A b \in Accounts : row'[b].owner = row[b].owner /\ row'[b].balance = row[b].balance
  BY <1>1 DEF IInv, TypeOK, RowType
<1>3. Quiet
  <2>1. \A r \in Requests : req[r].pc \in Inside => req[r].from \in Accounts
    BY DEF IInv, Shape
  <2> QED
    BY <1>1, <1>2, <2>1 DEF Quiet
<1>4. ToldFirst'
  BY <1>1, <1>2, ToldFrame DEF Books, ToldFirst
<1> QED
  BY <1>3, <1>4, QuietBooks

\* What COMMIT leaves of every account's transactions, and what it adds.
LEMMA CommitGrows ==
  ASSUME IInv, Books, NEW r \in Requests, Commit(r), NEW c \in Accounts
  PROVE  /\ \A i \in DOMAIN history[c] :
              /\ i \in DOMAIN history'[c] /\ history'[c][i] = history[c][i]
              /\ history[c][i].req # r
         /\ \A i \in DOMAIN history'[c] :
              \/ i \in DOMAIN history[c]
              \/ /\ c \in Parties(r) /\ i = Len(history[c]) + 1
                 /\ history'[c][i] = Entry(r, c)
         /\ c \in Parties(r) => Len(history[c]) + 1 \in DOMAIN history'[c]
         /\ row'[c].owner = row[c].owner
<1>1. \A i \in DOMAIN history[c] : history[c][i].req # r
  BY DistinctNulls DEF Commit, CommitAnswers, Books, OnlyWhatWasAsked, Asked
<1>2. CASE c \notin Parties(r)
  BY <1>1, <1>2, CommitBooks
<1>3. CASE c \in Parties(r)
  <2>1. /\ history[c] \in Seq(TxType) /\ Entry(r, c) \in TxType
        /\ history'[c] = Append(history[c], Entry(r, c))
        /\ row'[c].owner = row[c].owner
    BY <1>3, CommitBooks DEF IInv, TypeOK
  <2> QED
    BY <1>1, <1>3, <2>1, AppendFacts
<1> QED
  BY <1>2, <1>3

\* The transactions h explain a balance x.
Explain(h, x) ==
  /\ x = IF h = <<>> THEN 0 ELSE h[Len(h)].balanceAfter
  /\ WholeCents =>
       \A i \in DOMAIN h :
         h[i].balanceAfter = (IF i = 1 THEN 0 ELSE h[i - 1].balanceAfter) + Delta(h[i])

LEMMA ExplainDef ==
  /\ HistoryExplainsBalance
       <=> \A a \in Accounts : Explain(history[a], row[a].balance)
  /\ HistoryExplainsBalance'
       <=> \A a \in Accounts : Explain(history'[a], row'[a].balance)
<1>1. HistoryExplainsBalance <=> \A a \in Accounts : Explain(history[a], row[a].balance)
  BY DEF HistoryExplainsBalance, Explain
<1>2. HistoryExplainsBalance'
        <=> \A a \in Accounts : Explain(history'[a], row'[a].balance)
  BY DEF HistoryExplainsBalance, Explain
<1> QED
  BY <1>1, <1>2

\* COMMIT explains the balance that it writes.
LEMMA CommitExplains ==
  ASSUME IInv, Books, NEW r \in Requests, Commit(r)
  PROVE  WholeBalances' /\ HistoryExplainsBalance'
<1>1. WholeBalances'
  BY CommitBooks, EntryFacts DEF WholeBalances, Books
<1>2. ASSUME NEW c \in Accounts, c \notin Parties(r)
      PROVE  history'[c] = history[c] /\ row'[c] = row[c]
  BY <1>2, CommitBooks
<1>3. ASSUME NEW c \in Accounts, c \in Parties(r)
      PROVE  Explain(history'[c], row'[c].balance)
  <2> DEFINE s == history[c]
             h == history'[c]
             t == Entry(r, c)
             n == Len(s)
  <2>1. /\ s \in Seq(TxType) /\ t \in TxType /\ h = Append(s, t)
        /\ row'[c].balance = t.balanceAfter
    BY <1>3, CommitBooks DEF IInv, TypeOK
  <2>2. row[c].balance = IF s = <<>> THEN 0 ELSE s[n].balanceAfter
    BY ExplainDef DEF Books, Explain
  <2>3. /\ WholeCents => t.balanceAfter = row[c].balance + Delta(t)
        /\ WholeCents => \A i \in DOMAIN s :
               s[i].balanceAfter =
                 (IF i = 1 THEN 0 ELSE s[i - 1].balanceAfter) + Delta(s[i])
    <3>1. row[c].balance % 2 = 0 /\ Explain(s, row[c].balance)
      BY ExplainDef DEF Books, WholeBalances
    <3>2. WholeCents => t.balanceAfter = row[c].balance + Delta(t)
      BY <1>3, <3>1, EntryFacts
    <3> HIDE DEF s, t
    <3> QED
      BY <3>1, <3>2 DEF Explain
  <2> HIDE DEF s, h, t
  <2>4. /\ Len(h) = n + 1 /\ n \in Nat /\ DOMAIN h = 1 .. n + 1 /\ DOMAIN s = 1 .. n
        /\ h[n + 1] = t /\ \A i \in 1 .. n : h[i] = s[i]
        /\ h # <<>> /\ (s = <<>> <=> n = 0)
    BY <2>1
  <2>5. ASSUME WholeCents, NEW i \in DOMAIN h
        PROVE  h[i].balanceAfter =
                 (IF i = 1 THEN 0 ELSE h[i - 1].balanceAfter) + Delta(h[i])
    <3>1. CASE i \in 1 .. n
      <4>1. i = 1 \/ (i - 1 \in 1 .. n /\ h[i - 1] = s[i - 1])
        BY <2>4, <3>1
      <4>2. h[i] = s[i] /\ i \in DOMAIN s
        BY <2>4, <3>1
      <4> QED
        BY <2>3, <2>5, <4>1, <4>2
    <3>2. CASE i = n + 1
      <4>1. h[i] = t
        BY <2>4, <3>2
      <4>2. row[c].balance = IF i = 1 THEN 0 ELSE h[i - 1].balanceAfter
        <5>1. CASE n = 0
          BY <2>2, <2>4, <3>2, <5>1
        <5>2. CASE n # 0
          <6>1. i - 1 = n /\ i # 1 /\ n \in 1 .. n
            BY <2>4, <3>2, <5>2
          <6> QED
            BY <2>2, <2>4, <5>2, <6>1
        <5> QED
          BY <5>1, <5>2
      <4> QED
        BY <2>3, <2>5, <4>1, <4>2
    <3> QED
      BY <2>4, <3>1, <3>2
  <2> QED
    BY <2>1, <2>4, <2>5 DEF h, Explain
<1>4. HistoryExplainsBalance'
  BY <1>2, <1>3, ExplainDef DEF Books
<1> QED
  BY <1>1, <1>4

LEMMA CommitBooksHold ==
  ASSUME IInv, IInv', Books, NEW r \in Requests, Commit(r) PROVE Books'
<1>1. PICK answer \in CommitAnswers : Goto(r, answer)
  BY DEF Commit
<1>2. /\ req[r].pc = "commit" /\ UNCHANGED notifs /\ req[r].op \in {"deposit", "transfer"}
      /\ answer \in PCs /\ Parties(r) \subseteq Accounts
  BY CommitBooks DEF Commit, CommitAnswers, PCs, Answers
<1>3. Moves(r, answer)
  BY <1>1, <1>2, GotoMoves DEF IInv
<1>4. /\ req[r].from \in Parties(r)
      /\ req[r].op = "transfer" => req[r].to \in Parties(r)
  BY DEF Parties
<1>5. OnlyWhatWasAsked'
  <2>1. ASSUME NEW c \in Accounts, NEW i \in DOMAIN history'[c]
        PROVE  /\ Exists(c)'
               /\ history'[c][i].req # NoRequest => Asked(req'[history'[c][i].req], history'[c][i], c)
    <3>1. CASE i \in DOMAIN history[c]
      <4>1. /\ history'[c][i] = history[c][i] /\ history[c][i].req # r
            /\ history[c][i] \in TxType /\ row'[c].owner = row[c].owner
        BY <3>1, CommitGrows DEF IInv, TypeOK
      <4>2. Exists(c)'
        BY <3>1, <4>1 DEF Books, OnlyWhatWasAsked, Exists
      <4>3. history[c][i].req # NoRequest =>
              /\ history[c][i].req \in Requests
              /\ Asked(req[history[c][i].req], history[c][i], c)
        BY <3>1, <4>1 DEF Books, OnlyWhatWasAsked, TxType
      <4> QED
        BY <1>3, <4>1, <4>2, <4>3 DEF Moves
    <3>2. CASE c \in Parties(r) /\ history'[c][i] = Entry(r, c)
      <4>1. Exists(c)'
        BY <3>2, CommitBooks DEF Exists
      <4>2. Entry(r, c).req = r /\ Asked(req'[r], Entry(r, c), c)
        BY <1>3, <3>2, EntryFacts DEF Asked, Moves
      <4> QED
        BY <3>2, <4>1, <4>2
    <3> QED
      BY <3>1, <3>2, CommitGrows
  <2> QED
    BY <2>1 DEF OnlyWhatWasAsked
<1>6. BookedOnce'
  <2>1. ASSUME NEW c \in Accounts, NEW i \in DOMAIN history'[c],
               NEW j \in DOMAIN history'[c],
               history'[c][i].req # NoRequest,
               history'[c][i].req = history'[c][j].req
        PROVE  i = j
    <3>1. CASE i \in DOMAIN history[c] /\ j \in DOMAIN history[c]
      BY <2>1, <3>1, CommitGrows DEF Books, BookedOnce
    <3>2. CASE i \notin DOMAIN history[c] \/ j \notin DOMAIN history[c]
      BY <2>1, <3>2, CommitGrows, EntryFacts
    <3> QED
      BY <3>1, <3>2
  <2> QED
    BY <2>1 DEF BookedOnce
<1>7. \A c \in Parties(r) : HasEntry(history'[c], r)
  <2>1. ASSUME NEW c \in Parties(r) PROVE HasEntry(history'[c], r)
    <3>1. Len(history[c]) + 1 \in DOMAIN history'[c]
      BY <1>2, CommitGrows
    <3>2. history[c] \in Seq(TxType) /\ Len(history[c]) + 1 \notin DOMAIN history[c]
      BY <1>2, CommitBooks, AppendFacts DEF IInv, TypeOK
    <3> QED
      BY <1>2, <3>1, <3>2, CommitGrows, EntryFacts DEF HasEntry
  <2> QED
    BY <2>1
<1>8. ASSUME NEW q \in Requests, q # r, NEW c \in Accounts
      PROVE  HasEntry(history'[c], q) <=> HasEntry(history[c], q)
  BY <1>8, CommitGrows, EntryFacts DEF HasEntry
<1>9. BothSides'
  <2>1. ASSUME NEW q \in Requests, req'[q].op = "transfer"
        PROVE  HasEntry(history'[req'[q].from], q)
                 <=> HasEntry(history'[req'[q].to], q)
    <3>1. req'[q].from = req[q].from /\ req'[q].to = req[q].to /\ req[q].op = "transfer"
      BY <1>3, <2>1 DEF Moves
    <3>2. req[q].from \in Accounts /\ req[q].to \in Accounts
      BY <3>1 DEF IInv, Shape
    <3>3. CASE q = r
      BY <1>4, <1>7, <3>1, <3>3
    <3>4. CASE q # r
      BY <1>8, <3>1, <3>2, <3>4 DEF Books, BothSides
    <3> QED
      BY <3>3, <3>4
  <2> QED
    BY <2>1 DEF BothSides
<1>10. OkIsDone'
  <2>1. ASSUME NEW q \in Requests, req'[q].pc = "ok", req'[q].op # "create"
        PROVE  HasEntry(history'[req'[q].from], q)
    <3>1. CASE q = r
      BY <1>3, <1>4, <1>7, <3>1 DEF Moves
    <3>2. CASE q # r
      BY <1>3, <1>8, <2>1, <3>2 DEF Moves, Books, OkIsDone, IInv, Shape
    <3> QED
      BY <3>1, <3>2
  <2>2. ASSUME NEW q \in Requests, req'[q].pc \in Inside \cup {"ok"},
               req'[q].op = "create"
        PROVE  /\ req'[q].from \in Accounts
               /\ row'[req'[q].from].owner = req'[q].user
    <3>1. q # r /\ req'[q] = req[q]
      BY <1>2, <1>3, <2>2 DEF Moves
    <3> QED
      BY <2>2, <3>1, CommitGrows DEF Books, OkIsDone
  <2> QED
    BY <2>1, <2>2 DEF OkIsDone
<1>11. ToldFirst'
  <2>1. Told(r)'
    BY <1>3, NotYetTold DEF Moves, CommitAnswers
  <2>2. ASSUME NEW q \in Requests, q # r PROVE Told(q)'
    BY <1>2, <1>3, <2>2, CommitGrows, ToldFrame DEF Books, ToldFirst, Moves
  <2> QED
    BY <2>1, <2>2 DEF ToldFirst
<1>12. NotifiedBeforeVisible'
  <2>1. ASSUME NEW c \in Parties(r)
        PROVE  [user |-> row[c].owner, req |-> r] \in notifs
    BY <1>2 DEF Books, ToldFirst, Told, Parties, InTransaction, Inside
  <2>2. ASSUME NEW c \in Accounts, NEW i \in DOMAIN history'[c],
               history'[c][i].req # NoRequest
        PROVE  [user |-> row'[c].owner, req |-> history'[c][i].req] \in notifs
    <3>1. row'[c].owner = row[c].owner
      BY CommitGrows
    <3>2. CASE i \in DOMAIN history[c]
      BY <2>2, <3>1, <3>2, CommitGrows DEF Books, NotifiedBeforeVisible
    <3>3. CASE c \in Parties(r) /\ history'[c][i] = Entry(r, c)
      BY <2>1, <3>1, <3>3, EntryFacts
    <3> QED
      BY <3>2, <3>3, CommitGrows
  <2> QED
    BY <1>2, <2>2 DEF NotifiedBeforeVisible
<1> QED
  BY <1>5, <1>6, <1>9, <1>10, <1>11, <1>12, CommitExplains DEF Books

-----------------------------------------------------------------------------
LEMMA StepBooks == IInv /\ Books /\ [Next]_vars => Books'
<1> SUFFICES ASSUME IInv, Books, [Next]_vars PROVE Books'
  OBVIOUS
<1>1. IInv'
  BY StepIInv
<1>2. ASSUME NEW r \in Requests, Arrive(r) \/ Progress(r) \/ Fail(r) PROVE Books'
  BY <1>1, <1>2, ArriveBooks, CreateAccountBooks, LockBooks, NotifyBooks,
     PublishBooks, CommitBooksHold, LeaveBooks DEF Progress
<1>3. CASE UNCHANGED vars
  BY <1>3 DEF vars, Books, OnlyWhatWasAsked, Asked, BookedOnce, BothSides, HasEntry,
              OkIsDone, ToldFirst, Told, InTransaction, WholeBalances,
              HistoryExplainsBalance, NotifiedBeforeVisible, Exists
<1> QED
  BY <1>1, <1>2, <1>3, CrashBooks, SetStatusBooks DEF Next, Done

LEMMA BooksHold == Spec => []Books
<1>1. Init => Books
  BY InitBooks
<1>2. IInv /\ Books /\ [Next]_vars => Books'
  BY StepBooks
<1> QED
  BY <1>1, <1>2, Invariance, PTL DEF Spec

\* Every balance is the balanceAfter of the account's last transaction, and for
\* whole cents every balanceAfter is the one before it plus its own amount: no
\* concurrent deposit or transfer is ever lost.
THEOREM NoUpdateIsLost == Spec => []HistoryExplainsBalance
<1>1. Books => HistoryExplainsBalance
  BY DEF Books
<1> QED
  BY <1>1, BooksHold, PTL

\* A transfer is booked on both of its accounts or on neither, and once only.
THEOREM TransfersAreWhole == Spec => []TransfersPaired
<1>1. IInv /\ Books => TransfersPaired
  <2> SUFFICES ASSUME IInv, Books,
                      NEW r \in Requests, NEW a \in Accounts, NEW b \in Accounts
               PROVE  LET outs == Booked(r, a, "transfer_out")
                          ins  == Booked(r, b, "transfer_in") IN
                      /\ Cardinality(outs) <= 1 /\ Cardinality(ins) <= 1
                      /\ \A i \in outs : history[a][i].party = b => ins # {} /\ a # b
                      /\ \A i \in ins : history[b][i].party = a => outs # {}
    BY DEF TransfersPaired
  <2> DEFINE outs == Booked(r, a, "transfer_out")
             ins  == Booked(r, b, "transfer_in")
  <2>1. r # NoRequest
    BY DistinctNulls
  <2>2. ASSUME NEW S \in {outs, ins} PROVE Cardinality(S) <= 1
    <3>1. \A i, j \in S : i = j
      BY <2>1, <2>2 DEF Booked, Books, BookedOnce
    <3>2. CASE S = {}
      BY <3>2, FS_EmptySet
    <3>3. CASE S # {}
      <4>1. PICK i : S = {i}
        BY <3>1, <3>3
      <4> QED
        BY <4>1, FS_Singleton
    <3> QED
      BY <3>2, <3>3
  <2>3. ASSUME NEW i \in outs, history[a][i].party = b PROVE ins # {} /\ a # b
    <3>1. i \in DOMAIN history[a] /\ Asked(req[r], history[a][i], a) /\ history[a][i].req = r
      BY <2>1 DEF Booked, Books, OnlyWhatWasAsked
    <3>2. req[r].op = "transfer" /\ req[r].from = a /\ req[r].to = b /\ a # b
      BY <2>3, <3>1 DEF Asked, Booked
    <3>3. PICK j \in DOMAIN history[b] : history[b][j].req = r
      BY <3>1, <3>2 DEF Books, BothSides, HasEntry
    <3>4. history[b][j].type = "transfer_in"
      BY <2>1, <3>2, <3>3 DEF Books, OnlyWhatWasAsked, Asked
    <3> QED
      BY <3>2, <3>3, <3>4 DEF Booked
  <2>4. ASSUME NEW i \in ins, history[b][i].party = a PROVE outs # {}
    <3>1. i \in DOMAIN history[b] /\ Asked(req[r], history[b][i], b) /\ history[b][i].req = r
      BY <2>1 DEF Booked, Books, OnlyWhatWasAsked
    <3>2. req[r].op = "transfer" /\ req[r].from = a /\ req[r].to = b /\ a # b
      BY <2>4, <3>1 DEF Asked, Booked
    <3>3. PICK j \in DOMAIN history[a] : history[a][j].req = r
      BY <3>1, <3>2 DEF Books, BothSides, HasEntry
    <3>4. history[a][j].type = "transfer_out"
      BY <2>1, <3>2, <3>3 DEF Books, OnlyWhatWasAsked, Asked
    <3> QED
      BY <3>3, <3>4 DEF Booked
  <2> QED
    BY <2>2, <2>3, <2>4
<1> QED
  BY <1>1, BooksHold, Invariance, PTL

\* Whoever can see a transaction on an account was sent its notification.
THEOREM ToldBeforeVisible == Spec => []NotifiedBeforeVisible
<1>1. Books => NotifiedBeforeVisible
  BY DEF Books
<1> QED
  BY <1>1, BooksHold, PTL

\* What a request has booked, entry by entry.
LEMMA BookedByDef ==
  ASSUME NEW r \in Requests, NEW e
  PROVE  e \in BookedBy(r) <=>
           \E a \in Accounts : \E i \in DOMAIN history[a] :
             /\ history[a][i].req = r
             /\ e = [account |-> a, type |-> history[a][i].type,
                     amount |-> history[a][i].amount, party |-> history[a][i].party]
  BY DEF BookedBy

\* Nothing but what was asked is ever booked, and only by a commit; and where
\* a request has booked anything on its first account it has booked all of it.
LEMMA BookedIsAsked ==
  ASSUME IInv, Books, NEW r \in Requests
  PROVE  /\ req[r].pc \notin CommitAnswers => BookedBy(r) = {}
         /\ BookedBy(r) \subseteq AskedOf(r)
         /\ BookedBy(r) # {} => AskedOf(r) \subseteq BookedBy(r)
         /\ req[r].op # "create" /\ HasEntry(history[req[r].from], r) => BookedBy(r) # {}
<1>1. r # NoRequest
  BY DistinctNulls
<1>2. ASSUME NEW a \in Accounts, NEW i \in DOMAIN history[a], history[a][i].req = r
      PROVE  Asked(req[r], history[a][i], a)
  BY <1>1, <1>2 DEF Books, OnlyWhatWasAsked
<1>3. req[r].pc \notin CommitAnswers => BookedBy(r) = {}
  BY <1>2, BookedByDef DEF Asked
<1>4. BookedBy(r) \subseteq AskedOf(r)
  <2> SUFFICES ASSUME NEW e \in BookedBy(r) PROVE e \in AskedOf(r)
    OBVIOUS
  <2>1. PICK a \in Accounts : \E i \in DOMAIN history[a] :
          /\ history[a][i].req = r
          /\ e = [account |-> a, type |-> history[a][i].type,
                  amount |-> history[a][i].amount, party |-> history[a][i].party]
    BY BookedByDef
  <2>2. PICK i \in DOMAIN history[a] :
          /\ history[a][i].req = r
          /\ e = [account |-> a, type |-> history[a][i].type,
                  amount |-> history[a][i].amount, party |-> history[a][i].party]
    BY <2>1
  <2>3. Asked(req[r], history[a][i], a)
    BY <1>2, <2>2
  <2> QED
    BY <2>2, <2>3 DEF Asked, AskedOf
<1>5. req[r].op # "create" /\ HasEntry(history[req[r].from], r) => BookedBy(r) # {}
  <2> SUFFICES ASSUME req[r].op # "create", HasEntry(history[req[r].from], r)
               PROVE  BookedBy(r) # {}
    OBVIOUS
  <2>1. req[r].from \in Accounts
    BY DEF IInv, Shape
  <2>2. PICK i \in DOMAIN history[req[r].from] : history[req[r].from][i].req = r
    BY DEF HasEntry
  <2>3. LET t == history[req[r].from][i] IN
        [account |-> req[r].from, type |-> t.type, amount |-> t.amount, party |-> t.party]
          \in BookedBy(r)
    BY <2>1, <2>2, BookedByDef
  <2> QED
    BY <2>3
<1>6. BookedBy(r) # {} => AskedOf(r) \subseteq BookedBy(r)
  <2> SUFFICES ASSUME NEW e0 \in BookedBy(r) PROVE AskedOf(r) \subseteq BookedBy(r)
    OBVIOUS
  <2>1. PICK a \in Accounts : HasEntry(history[a], r)
    BY BookedByDef DEF HasEntry
  <2>2. PICK i \in DOMAIN history[a] : history[a][i].req = r
    BY <2>1 DEF HasEntry
  <2>3. Asked(req[r], history[a][i], a)
    BY <1>2, <2>2
  <2>4. CASE req[r].op = "deposit"
    <3>1. /\ a = req[r].from /\ history[a][i].type = "deposit"
          /\ history[a][i].party = NoAccount /\ history[a][i].amount = Stored(req[r].amount)
      BY <2>3, <2>4 DEF Asked
    <3>2. AskedOf(r) = {[account |-> a, type |-> history[a][i].type,
                         amount |-> history[a][i].amount, party |-> history[a][i].party]}
      BY <2>4, <3>1 DEF AskedOf
    <3> QED
      BY <2>2, <3>2, BookedByDef
  <2>5. CASE req[r].op = "transfer"
    <3>1. /\ req[r].from \in Accounts /\ req[r].to \in Accounts
          /\ req[r].from # req[r].to
          /\ a \in {req[r].from, req[r].to}
      BY <2>3, <2>5 DEF Asked, IInv, Shape
    <3>2. HasEntry(history[req[r].from], r) /\ HasEntry(history[req[r].to], r)
      BY <2>1, <2>5, <3>1 DEF Books, BothSides
    <3>3. PICK j \in DOMAIN history[req[r].from] : history[req[r].from][j].req = r
      BY <3>2 DEF HasEntry
    <3>4. PICK k \in DOMAIN history[req[r].to] : history[req[r].to][k].req = r
      BY <3>2 DEF HasEntry
    <3>5. LET t == history[req[r].from][j] IN
          t.type = "transfer_out" /\ t.party = req[r].to /\ t.amount = Stored(req[r].amount)
      BY <1>2, <2>5, <3>1, <3>3 DEF Asked
    <3>6. LET t == history[req[r].to][k] IN
          t.type = "transfer_in" /\ t.party = req[r].from /\ t.amount = Stored(req[r].amount)
      BY <1>2, <2>5, <3>1, <3>4 DEF Asked
    <3>7. AskedOf(r) = {[account |-> req[r].from, type |-> "transfer_out",
                         amount |-> Stored(req[r].amount), party |-> req[r].to],
                        [account |-> req[r].to, type |-> "transfer_in",
                         amount |-> Stored(req[r].amount), party |-> req[r].from]}
      BY <2>5 DEF AskedOf
    <3> QED
      BY <3>1, <3>3, <3>4, <3>5, <3>6, <3>7, BookedByDef
  <2> QED
    BY <2>3, <2>4, <2>5 DEF Asked
<1> QED
  BY <1>3, <1>4, <1>5, <1>6

\* A refusal left nothing behind; an ok did all that was asked, on the accounts
\* and with the amount asked for, once and nothing else; and a request whose
\* COMMIT was not answered did all of that or nothing.
THEOREM AnswersAreTrue == Spec => []AnswersTellTheTruth
<1>1. IInv /\ Books => AnswersTellTheTruth
  <2> SUFFICES ASSUME IInv, Books, NEW r \in Requests
               PROVE  /\ req[r].pc = "refused" => BookedBy(r) = {}
                      /\ req[r].pc = "ok" =>
                           /\ BookedBy(r) = AskedOf(r)
                           /\ req[r].op = "create" => row[req[r].from].owner = req[r].user
                      /\ req[r].pc = "unknown" => BookedBy(r) \in {{}, AskedOf(r)}
                      /\ \A a \in Accounts : \A i, j \in DOMAIN history[a] :
                           history[a][i].req = r /\ history[a][j].req = r => i = j
    BY DEF AnswersTellTheTruth
  <2>1. req[r].pc = "refused" => BookedBy(r) = {}
    BY BookedIsAsked DEF CommitAnswers
  <2>2. BookedBy(r) \in {{}, AskedOf(r)}
    BY BookedIsAsked
  <2>3. ASSUME req[r].pc = "ok" PROVE BookedBy(r) = AskedOf(r)
    <3>1. CASE req[r].op = "create"
      BY <2>2, <3>1 DEF AskedOf
    <3>2. CASE req[r].op # "create"
      BY <2>2, <2>3, <3>2, BookedIsAsked DEF Books, OkIsDone
    <3> QED
      BY <3>1, <3>2
  <2>4. req[r].pc = "ok" /\ req[r].op = "create" => row[req[r].from].owner = req[r].user
    BY DEF Books, OkIsDone
  <2>5. \A a \in Accounts : \A i, j \in DOMAIN history[a] :
          history[a][i].req = r /\ history[a][j].req = r => i = j
    BY DistinctNulls DEF Books, BookedOnce
  <2> QED
    BY <2>1, <2>2, <2>3, <2>4, <2>5
<1> QED
  BY <1>1, BooksHold, Invariance, PTL
-----------------------------------------------------------------------------
\* What the accounts hold, what was deposited on them and how many transfers
\* left them, as functions that MoneyAccounted sums.
Deposits(h)  == {i \in DOMAIN h : h[i].type = "deposit"}
Out(h)       == {i \in DOMAIN h : h[i].type = "transfer_out"}
AmountsOf(h) == [i \in DOMAIN h |-> h[i].amount]

Balances(rows) == [a \in Accounts |-> rows[a].balance]
Deposited(hs)  == [a \in Accounts |-> Total(AmountsOf(hs[a]), Deposits(hs[a]))]
Sent(hs)       == [a \in Accounts |-> Cardinality(Out(hs[a]))]

Accounted ==
  Total(Balances(row), Accounts) - Total(Deposited(history), Accounts)
    \in 0 .. (IF WholeCents THEN 0 ELSE 2 * Total(Sent(history), Accounts))

LEMMA SumOfBalances ==
  MapThenSumSet(LAMBDA a : row[a].balance, Accounts) = Total(Balances(row), Accounts)
<1>1. MapThenSumSet(LAMBDA a : row[a].balance, Accounts)
        = (CHOOSE g : g = [s \in SUBSET Accounts |->
             IF s = {} THEN 0 ELSE row[Chosen(s)].balance + g[s \ {Chosen(s)}]])[Accounts]
  BY DEF MapThenSumSet, MapThenFoldSet, Chosen
<1>2. \A g : g = [s \in SUBSET Accounts |->
                    IF s = {} THEN 0 ELSE row[Chosen(s)].balance + g[s \ {Chosen(s)}]]
               <=> Sums(g, Accounts, Balances(row))
  <2>1. \A s \in SUBSET Accounts : s # {} =>
          Balances(row)[Chosen(s)] = row[Chosen(s)].balance
    BY ChosenIn DEF Balances
  <2> QED
    BY <2>1 DEF Sums
<1> QED
  BY <1>1, <1>2 DEF Total

LEMMA SumOfAmounts ==
  ASSUME NEW h
  PROVE  MapThenSumSet(LAMBDA i : h[i].amount, Deposits(h))
           = Total(AmountsOf(h), Deposits(h))
<1> DEFINE D == Deposits(h)
           w == AmountsOf(h)
<1>1. MapThenSumSet(LAMBDA i : h[i].amount, D)
        = (CHOOSE g : g = [s \in SUBSET D |->
             IF s = {} THEN 0 ELSE h[Chosen(s)].amount + g[s \ {Chosen(s)}]])[D]
  BY DEF MapThenSumSet, MapThenFoldSet, Chosen
<1>2. \A g : g = [s \in SUBSET D |->
                    IF s = {} THEN 0 ELSE h[Chosen(s)].amount + g[s \ {Chosen(s)}]]
               <=> Sums(g, D, w)
  <2>1. \A s \in SUBSET D : s # {} => w[Chosen(s)] = h[Chosen(s)].amount
    BY ChosenIn DEF Deposits, AmountsOf
  <2> HIDE DEF w, D
  <2> QED
    BY <2>1 DEF Sums
<1> QED
  BY <1>1, <1>2 DEF Total

LEMMA SumOfDeposits ==
  MapThenSumSet(LAMBDA a : MapThenSumSet(LAMBDA i : history[a][i].amount,
                                         Deposits(history[a])), Accounts)
    = Total(Deposited(history), Accounts)
<1> DEFINE f(a) == MapThenSumSet(LAMBDA i : history[a][i].amount, Deposits(history[a]))
<1>1. MapThenSumSet(f, Accounts)
        = (CHOOSE g : g = [s \in SUBSET Accounts |->
             IF s = {} THEN 0 ELSE f(Chosen(s)) + g[s \ {Chosen(s)}]])[Accounts]
  BY DEF MapThenSumSet, MapThenFoldSet, Chosen
<1>2. \A g : g = [s \in SUBSET Accounts |->
                    IF s = {} THEN 0 ELSE f(Chosen(s)) + g[s \ {Chosen(s)}]]
               <=> Sums(g, Accounts, Deposited(history))
  <2>1. \A s \in SUBSET Accounts : s # {} =>
          Deposited(history)[Chosen(s)] = f(Chosen(s))
    BY ChosenIn, SumOfAmounts DEF Deposited
  <2> HIDE DEF f
  <2> QED
    BY <2>1 DEF Sums
<1> QED
  BY <1>1, <1>2 DEF Total

LEMMA SumOfSent ==
  MapThenSumSet(LAMBDA a : Cardinality(Out(history[a])), Accounts)
    = Total(Sent(history), Accounts)
<1> DEFINE f(a) == Cardinality(Out(history[a]))
<1>1. MapThenSumSet(f, Accounts)
        = (CHOOSE g : g = [s \in SUBSET Accounts |->
             IF s = {} THEN 0 ELSE f(Chosen(s)) + g[s \ {Chosen(s)}]])[Accounts]
  BY DEF MapThenSumSet, MapThenFoldSet, Chosen
<1>2. \A g : g = [s \in SUBSET Accounts |->
                    IF s = {} THEN 0 ELSE f(Chosen(s)) + g[s \ {Chosen(s)}]]
               <=> Sums(g, Accounts, Sent(history))
  <2>1. \A s \in SUBSET Accounts : s # {} => Sent(history)[Chosen(s)] = f(Chosen(s))
    BY ChosenIn DEF Sent
  <2> HIDE DEF f
  <2> QED
    BY <2>1 DEF Sums
<1> QED
  BY <1>1, <1>2 DEF Total

LEMMA AccountedDef == MoneyAccounted <=> Accounted
  BY SumOfBalances, SumOfDeposits, SumOfSent
     DEF MoneyAccounted, Accounted, Deposits, Out

-----------------------------------------------------------------------------
LEMMA EntriesFinite ==
  ASSUME NEW h \in Seq(TxType)
  PROVE  /\ IsFiniteSet(Deposits(h)) /\ IsFiniteSet(Out(h))
         /\ \A i \in DOMAIN h : AmountsOf(h)[i] \in Nat
         /\ Total(AmountsOf(h), Deposits(h)) \in Int
         /\ Cardinality(Out(h)) \in Nat
<1>1. IsFiniteSet(DOMAIN h)
  <2>1. DOMAIN h = 1 .. Len(h) /\ Len(h) \in Nat
    OBVIOUS
  <2> QED
    BY <2>1, FS_Interval
<1>2. IsFiniteSet(Deposits(h)) /\ IsFiniteSet(Out(h))
  BY <1>1, FS_Subset DEF Deposits, Out
<1>3. \A i \in DOMAIN h : AmountsOf(h)[i] \in Nat
  <2>1. \A i \in DOMAIN h : h[i] \in TxType
    OBVIOUS
  <2> QED
    BY <2>1 DEF AmountsOf, TxType
<1>4. \A i \in Deposits(h) : AmountsOf(h)[i] \in Int
  BY <1>3 DEF Deposits
<1> QED
  BY <1>2, <1>3, <1>4, TotalInt, FS_CardinalityType

\* An entry adds its amount to the deposits, or one to the transfers sent.
LEMMA AppendMoney ==
  ASSUME NEW h \in Seq(TxType), NEW t \in TxType, NEW k, k = Append(h, t)
  PROVE  /\ Total(AmountsOf(k), Deposits(k)) =
              Total(AmountsOf(h), Deposits(h))
                + (IF t.type = "deposit" THEN t.amount ELSE 0)
         /\ Cardinality(Out(k)) =
              Cardinality(Out(h)) + (IF t.type = "transfer_out" THEN 1 ELSE 0)
<1> DEFINE n == Len(h) + 1
<1>1. /\ k \in Seq(TxType) /\ DOMAIN k = DOMAIN h \cup {n} /\ n \notin DOMAIN h
      /\ k[n] = t /\ \A i \in DOMAIN h : k[i] = h[i]
  BY AppendFacts
<1> HIDE DEF n
<1>2. \A i \in DOMAIN h : AmountsOf(k)[i] = AmountsOf(h)[i]
  BY <1>1 DEF AmountsOf
<1>3. AmountsOf(k)[n] = t.amount
  BY <1>1 DEF AmountsOf
<1>4. Total(AmountsOf(k), Deposits(h)) = Total(AmountsOf(h), Deposits(h))
  BY <1>2, EntriesFinite, TotalAgree DEF Deposits
<1>5. Total(AmountsOf(k), Deposits(k)) =
        Total(AmountsOf(h), Deposits(h)) + (IF t.type = "deposit" THEN t.amount ELSE 0)
  <2>1. CASE t.type = "deposit"
    <3>1. n \in Deposits(k) /\ Deposits(k) \ {n} = Deposits(h)
      BY <1>1, <2>1 DEF Deposits
    <3>2. IsFiniteSet(Deposits(k)) /\ \A i \in DOMAIN k : AmountsOf(k)[i] \in Nat
      BY <1>1, EntriesFinite
    <3>3. \A i \in Deposits(k) : AmountsOf(k)[i] \in Int
      BY <3>2 DEF Deposits
    <3>4. Total(AmountsOf(k), Deposits(k))
            = AmountsOf(k)[n] + Total(AmountsOf(k), Deposits(k) \ {n})
      BY <3>1, <3>2, <3>3, TotalTake
    <3>5. t.amount \in Int
      BY DEF TxType
    <3>6. Total(AmountsOf(h), Deposits(h)) \in Int
      BY EntriesFinite
    <3>7. Total(AmountsOf(k), Deposits(k)) = t.amount + Total(AmountsOf(h), Deposits(h))
      BY <1>3, <1>4, <3>1, <3>4
    <3> QED
      BY <2>1, <3>5, <3>6, <3>7
  <2>2. CASE t.type # "deposit"
    <3>1. Deposits(k) = Deposits(h)
      BY <1>1, <2>2 DEF Deposits
    <3>2. Total(AmountsOf(h), Deposits(h)) \in Int
      BY EntriesFinite
    <3> QED
      BY <1>4, <2>2, <3>1, <3>2
  <2> QED
    BY <2>1, <2>2
<1>6. Cardinality(Out(k)) =
        Cardinality(Out(h)) + (IF t.type = "transfer_out" THEN 1 ELSE 0)
  <2>1. CASE t.type = "transfer_out"
    <3>1. n \notin Out(h) /\ Out(k) = Out(h) \cup {n}
      BY <1>1, <2>1 DEF Out
    <3> QED
      BY <2>1, <3>1, EntriesFinite, FS_AddElement
  <2>2. CASE t.type # "transfer_out"
    <3>1. Out(k) = Out(h)
      BY <1>1, <2>2 DEF Out
    <3>2. Cardinality(Out(h)) \in Nat
      BY EntriesFinite
    <3> QED
      BY <2>2, <3>1, <3>2
  <2> QED
    BY <2>1, <2>2
<1> QED
  BY <1>5, <1>6

\* What is summed are integers, and so are the sums.
LEMMA SumsTyped ==
  ASSUME NEW rows \in [Accounts -> RowType], NEW hs \in [Accounts -> Seq(TxType)]
  PROVE  /\ \A a \in Accounts :
              /\ Balances(rows)[a] = rows[a].balance
              /\ Balances(rows)[a] \in Int
              /\ Deposited(hs)[a] = Total(AmountsOf(hs[a]), Deposits(hs[a]))
              /\ Deposited(hs)[a] \in Int
              /\ Sent(hs)[a] = Cardinality(Out(hs[a]))
              /\ Sent(hs)[a] \in Nat
         /\ Total(Balances(rows), Accounts) \in Int
         /\ Total(Deposited(hs), Accounts) \in Int
         /\ Total(Sent(hs), Accounts) \in Int
<1>1. ASSUME NEW a \in Accounts
      PROVE  /\ Balances(rows)[a] = rows[a].balance
             /\ Balances(rows)[a] \in Int
             /\ Deposited(hs)[a] = Total(AmountsOf(hs[a]), Deposits(hs[a]))
             /\ Deposited(hs)[a] \in Int
             /\ Sent(hs)[a] = Cardinality(Out(hs[a]))
             /\ Sent(hs)[a] \in Nat
  <2>1. hs[a] \in Seq(TxType) /\ rows[a].balance \in Int
    BY DEF RowType
  <2> QED
    BY <2>1, EntriesFinite DEF Balances, Deposited, Sent
<1> QED
  BY <1>1, TotalInt, FiniteInstance

LEMMA DepositAccounted ==
  ASSUME IInv, IInv', Books, Accounted, NEW a \in Accounts, NEW m \in Amounts,
         NEW r \in Requests, Deposit(a, m, r)
  PROVE  Accounted'
<1> DEFINE x == row[a].balance + m
           t == Tx("deposit", m, x, NoAccount, r)
<1>1. m \in Nat /\ row[a].balance \in Nat /\ row[a].balance % 2 = 0
  BY AmountsNat DEF IInv, TypeOK, RowType, Books, WholeBalances
<1>2. x \in Nat /\ t.type = "deposit" /\ t.amount = Stored(m)
  BY <1>1 DEF Tx
<1>3. t \in TxType
  <2>1. "deposit" \in {"deposit", "transfer_out", "transfer_in"}
        /\ NoAccount \in Accounts \cup {NoAccount}
        /\ r \in Requests \cup {NoRequest}
    OBVIOUS
  <2> HIDE DEF x
  <2> QED
    BY <1>1, <1>2, <2>1, TxTyped
<1>4. Stored(x) = row[a].balance + Stored(m) /\ Stored(m) \in Nat
  BY <1>1, StoredNat DEF Stored
<1>5. /\ row \in [Accounts -> RowType] /\ row' \in [Accounts -> RowType]
      /\ history \in [Accounts -> Seq(TxType)] /\ history' \in [Accounts -> Seq(TxType)]
  BY DEF IInv, TypeOK
<1>6. /\ row' = [row EXCEPT ![a] = [row[a] EXCEPT !.balance = Stored(x)]]
      /\ history' = [history EXCEPT ![a] = Append(history[a], t)]
  BY <1>5 DEF Deposit
<1> HIDE DEF x, t
<1>7. /\ row'[a].balance = Stored(x) /\ history'[a] = Append(history[a], t)
      /\ \A c \in Accounts : c # a => row'[c] = row[c] /\ history'[c] = history[c]
  BY <1>5, <1>6 DEF RowType
<1>8a. \A c \in Accounts :
        /\ Balances(row)[c] = row[c].balance /\ Balances(row)[c] \in Int
        /\ Deposited(history)[c]
             = Total(AmountsOf(history[c]), Deposits(history[c]))
        /\ Deposited(history)[c] \in Int
        /\ Sent(history)[c] = Cardinality(Out(history[c]))
        /\ Sent(history)[c] \in Nat
  BY <1>5, SumsTyped
<1>8b. \A c \in Accounts :
        /\ Balances(row')[c] = row'[c].balance /\ Balances(row')[c] \in Int
        /\ Deposited(history')[c]
             = Total(AmountsOf(history'[c]), Deposits(history'[c]))
        /\ Deposited(history')[c] \in Int
        /\ Sent(history')[c] = Cardinality(Out(history'[c]))
        /\ Sent(history')[c] \in Nat
  BY <1>5, SumsTyped
<1>8. /\ Balances(row')[a] = Balances(row)[a] + Stored(m)
      /\ Deposited(history')[a] = Deposited(history)[a] + Stored(m)
      /\ Sent(history')[a] = Sent(history)[a]
  <2>1. history[a] \in Seq(TxType)
    BY <1>5
  <2>2. /\ Total(AmountsOf(history'[a]), Deposits(history'[a])) =
              Total(AmountsOf(history[a]), Deposits(history[a])) + Stored(m)
        /\ Cardinality(Out(history'[a])) = Cardinality(Out(history[a])) + 0
    BY <1>2, <1>3, <1>7, <2>1, AppendMoney
  <2>3. Balances(row')[a] = Balances(row)[a] + Stored(m)
    BY <1>4, <1>7, <1>8a, <1>8b
  <2>4. Deposited(history')[a] = Deposited(history)[a] + Stored(m)
    BY <1>8a, <1>8b, <2>2
  <2>5. Sent(history')[a] = Sent(history)[a]
    BY <1>8a, <1>8b, <2>2
  <2> QED
    BY <2>3, <2>4, <2>5
<1>9. \A c \in Accounts : c # a =>
        /\ Balances(row')[c] = Balances(row)[c]
        /\ Deposited(history')[c] = Deposited(history)[c]
        /\ Sent(history')[c] = Sent(history)[c]
  BY <1>7, <1>8a, <1>8b
<1>10. /\ Total(Balances(row'), Accounts) = Total(Balances(row), Accounts) + Stored(m)
       /\ Total(Deposited(history'), Accounts) =
            Total(Deposited(history), Accounts) + Stored(m)
       /\ Total(Sent(history'), Accounts) = Total(Sent(history), Accounts)
  <2>1. \A c \in Accounts : /\ Balances(row)[c] \in Int /\ Balances(row')[c] \in Int
                            /\ Deposited(history)[c] \in Int
                            /\ Deposited(history')[c] \in Int
                            /\ Sent(history')[c] = Sent(history)[c]
    BY <1>8, <1>8a, <1>8b, <1>9
  <2>2. Total(Balances(row'), Accounts) =
          Total(Balances(row), Accounts) + (Balances(row')[a] - Balances(row)[a])
    BY <1>9, <2>1, TotalOneMoved, FiniteInstance
  <2>3. Total(Deposited(history'), Accounts) =
          Total(Deposited(history), Accounts)
            + (Deposited(history')[a] - Deposited(history)[a])
    BY <1>9, <2>1, TotalOneMoved, FiniteInstance
  <2>4. Total(Sent(history'), Accounts) = Total(Sent(history), Accounts)
    BY <2>1, TotalAgree, FiniteInstance
  <2> QED
    BY <1>4, <1>8, <2>1, <2>2, <2>3, <2>4
<1>11. /\ Total(Balances(row), Accounts) \in Int
       /\ Total(Deposited(history), Accounts) \in Int
       /\ Total(Sent(history), Accounts) \in Int
  BY <1>5, SumsTyped
<1>12. Total(Balances(row'), Accounts) - Total(Deposited(history'), Accounts)
         = Total(Balances(row), Accounts) - Total(Deposited(history), Accounts)
  BY <1>4, <1>10, <1>11
<1> QED
  BY <1>10, <1>12 DEF Accounted

\* Rounding: from a whole balance, giving and getting the same amount round up
\* alike, by half a cent each, and by nothing when the amount is whole.
LEMMA TransferRounds ==
  ASSUME NEW x \in Nat, NEW y \in Nat, NEW m \in Nat, x % 2 = 0, y % 2 = 0, x >= m
  PROVE  \E e \in {0, 1} : /\ Stored(x - m) = x - m + e /\ Stored(y + m) = y + m + e
                           /\ m % 2 = 0 => e = 0
<1>1. CASE m % 2 = 0
  <2>1. (x - m) % 2 = 0 /\ (y + m) % 2 = 0
    BY <1>1
  <2>2. Stored(x - m) = x - m + 0 /\ Stored(y + m) = y + m + 0
    BY <2>1 DEF Stored
  <2> QED
    BY <2>2
<1>2. CASE m % 2 # 0
  <2>1. (x - m) % 2 # 0 /\ (y + m) % 2 # 0
    BY <1>2
  <2>2. Stored(x - m) = x - m + 1 /\ Stored(y + m) = y + m + 1
    BY <2>1 DEF Stored
  <2> QED
    BY <1>2, <2>2
<1> QED
  BY <1>1, <1>2

LEMMA TransferAccounted ==
  ASSUME IInv, IInv', Books, Accounted, NEW a \in Accounts, NEW b \in Accounts,
         NEW m \in Amounts, NEW r \in Requests, Transfer(a, b, m, r)
  PROVE  Accounted'
<1> DEFINE x == row[a].balance - m
           y == row[b].balance + m
           t == Tx("transfer_out", m, x, b, r)
           u == Tx("transfer_in", m, y, a, r)
<1>1. /\ m \in Nat /\ row[a].balance \in Nat /\ row[b].balance \in Nat
      /\ row[a].balance >= m /\ a # b
      /\ row[a].balance % 2 = 0 /\ row[b].balance % 2 = 0
  BY AmountsNat DEF IInv, TypeOK, RowType, Books, WholeBalances, Transfer
<1>2. PICK e \in {0, 1} : /\ Stored(x) = x + e /\ Stored(y) = y + e
                          /\ m % 2 = 0 => e = 0
  BY <1>1, TransferRounds
<1>3. t \in TxType /\ u \in TxType /\ t.type = "transfer_out" /\ u.type = "transfer_in"
  <2>1. x \in Nat /\ y \in Nat /\ r \in Requests \cup {NoRequest}
    BY <1>1
  <2>2. t.type = "transfer_out" /\ u.type = "transfer_in"
    BY DEF Tx
  <2> HIDE DEF x, y
  <2> QED
    BY <1>1, <2>1, <2>2, TxTyped
<1>4. Stored(x) = row[a].balance - m + e /\ Stored(y) = row[b].balance + m + e
  BY <1>2
<1>5. /\ row \in [Accounts -> RowType] /\ row' \in [Accounts -> RowType]
      /\ history \in [Accounts -> Seq(TxType)] /\ history' \in [Accounts -> Seq(TxType)]
  BY DEF IInv, TypeOK
<1>6. /\ row' = [row EXCEPT ![a] = [row[a] EXCEPT !.balance = Stored(x)],
                            ![b] = [row[b] EXCEPT !.balance = Stored(y)]]
      /\ history' = [history EXCEPT ![a] = Append(history[a], t),
                                    ![b] = Append(history[b], u)]
  BY <1>1, <1>5 DEF Transfer
<1> HIDE DEF x, y, t, u
<1>7. /\ row'[a].balance = Stored(x) /\ history'[a] = Append(history[a], t)
      /\ row'[b].balance = Stored(y) /\ history'[b] = Append(history[b], u)
      /\ \A c \in Accounts : c # a /\ c # b =>
           row'[c] = row[c] /\ history'[c] = history[c]
  BY <1>1, <1>5, <1>6 DEF RowType
<1>8a. \A c \in Accounts :
        /\ Balances(row)[c] = row[c].balance /\ Balances(row)[c] \in Int
        /\ Deposited(history)[c]
             = Total(AmountsOf(history[c]), Deposits(history[c]))
        /\ Deposited(history)[c] \in Int
        /\ Sent(history)[c] = Cardinality(Out(history[c]))
        /\ Sent(history)[c] \in Nat
  BY <1>5, SumsTyped
<1>8b. \A c \in Accounts :
        /\ Balances(row')[c] = row'[c].balance /\ Balances(row')[c] \in Int
        /\ Deposited(history')[c]
             = Total(AmountsOf(history'[c]), Deposits(history'[c]))
        /\ Deposited(history')[c] \in Int
        /\ Sent(history')[c] = Cardinality(Out(history'[c]))
        /\ Sent(history')[c] \in Nat
  BY <1>5, SumsTyped
<1>8. /\ Balances(row')[a] = Balances(row)[a] - m + e
      /\ Balances(row')[b] = Balances(row)[b] + m + e
      /\ Deposited(history')[a] = Deposited(history)[a]
      /\ Deposited(history')[b] = Deposited(history)[b]
      /\ Sent(history')[a] = Sent(history)[a] + 1
      /\ Sent(history')[b] = Sent(history)[b]
  <2>1. history[a] \in Seq(TxType) /\ history[b] \in Seq(TxType)
    BY <1>5
  <2>2. /\ Total(AmountsOf(history'[a]), Deposits(history'[a])) =
              Total(AmountsOf(history[a]), Deposits(history[a])) + 0
        /\ Cardinality(Out(history'[a])) = Cardinality(Out(history[a])) + 1
    BY <1>3, <1>7, <2>1, AppendMoney
  <2>3. /\ Total(AmountsOf(history'[b]), Deposits(history'[b])) =
              Total(AmountsOf(history[b]), Deposits(history[b])) + 0
        /\ Cardinality(Out(history'[b])) = Cardinality(Out(history[b])) + 0
    BY <1>3, <1>7, <2>1, AppendMoney
  <2>4. /\ Balances(row')[a] = Balances(row)[a] - m + e
        /\ Balances(row')[b] = Balances(row)[b] + m + e
    BY <1>4, <1>7, <1>8a, <1>8b
  <2>5. /\ Deposited(history')[a] = Deposited(history)[a]
        /\ Sent(history')[a] = Sent(history)[a] + 1
    BY <1>8a, <1>8b, <2>2
  <2>6. /\ Deposited(history')[b] = Deposited(history)[b]
        /\ Sent(history')[b] = Sent(history)[b]
    BY <1>8a, <1>8b, <2>3
  <2> QED
    BY <2>4, <2>5, <2>6
<1>9. \A c \in Accounts : c # a /\ c # b =>
        /\ Balances(row')[c] = Balances(row)[c]
        /\ Deposited(history')[c] = Deposited(history)[c]
        /\ Sent(history')[c] = Sent(history)[c]
  BY <1>7, <1>8a, <1>8b
<1>10. /\ Total(Balances(row'), Accounts) = Total(Balances(row), Accounts) + 2 * e
       /\ Total(Deposited(history'), Accounts) = Total(Deposited(history), Accounts)
       /\ Total(Sent(history'), Accounts) = Total(Sent(history), Accounts) + 1
  <2>1. \A c \in Accounts : /\ Balances(row)[c] \in Int /\ Balances(row')[c] \in Int
                            /\ Deposited(history')[c] = Deposited(history)[c]
                            /\ Sent(history)[c] \in Int /\ Sent(history')[c] \in Int
    BY <1>8, <1>8a, <1>8b, <1>9
  <2>2. Total(Balances(row'), Accounts) =
          Total(Balances(row), Accounts) + (Balances(row')[a] - Balances(row)[a])
            + (Balances(row')[b] - Balances(row)[b])
    <3> DEFINE w == Balances(row)
               v == Balances(row')
    <3>1. /\ \A c \in Accounts : w[c] \in Int /\ v[c] \in Int
          /\ \A c \in Accounts : c # a /\ c # b => w[c] = v[c]
      BY <1>9, <2>1
    <3> HIDE DEF w, v
    <3>2. Total(v, Accounts) = Total(w, Accounts) + (v[a] - w[a]) + (v[b] - w[b])
      BY <1>1, <3>1, TotalTwoMoved, FiniteInstance
    <3> QED
      BY <3>2 DEF w, v
  <2>3. Total(Deposited(history'), Accounts) = Total(Deposited(history), Accounts)
    BY <2>1, TotalAgree, FiniteInstance
  <2>4. Total(Sent(history'), Accounts) =
          Total(Sent(history), Accounts) + (Sent(history')[a] - Sent(history)[a])
    <3> DEFINE w == Sent(history)
               v == Sent(history')
    <3>1. /\ \A c \in Accounts : w[c] \in Int /\ v[c] \in Int
          /\ \A c \in Accounts : c # a => w[c] = v[c]
      BY <1>8, <1>9, <2>1
    <3> HIDE DEF w, v
    <3>2. Total(v, Accounts) = Total(w, Accounts) + (v[a] - w[a])
      BY <3>1, TotalOneMoved, FiniteInstance
    <3> QED
      BY <3>2 DEF w, v
  <2>5. /\ Total(Balances(row), Accounts) \in Int
        /\ Total(Sent(history), Accounts) \in Int
    BY <1>5, SumsTyped
  <2> QED
    BY <1>1, <1>8, <2>1, <2>2, <2>3, <2>4, <2>5
<1>11. /\ Total(Balances(row), Accounts) \in Int
       /\ Total(Deposited(history), Accounts) \in Int
       /\ Total(Sent(history), Accounts) \in Int
  BY <1>5, SumsTyped
<1>12. Total(Balances(row'), Accounts) - Total(Deposited(history'), Accounts)
         = (Total(Balances(row), Accounts) - Total(Deposited(history), Accounts)) + 2 * e
  BY <1>10, <1>11
<1>13. WholeCents => e = 0
  BY <1>2 DEF WholeCents
<1> QED
  BY <1>10, <1>11, <1>12, <1>13 DEF Accounted

LEMMA InitAccounted == Init => Accounted
<1> SUFFICES ASSUME Init PROVE Accounted
  OBVIOUS
<1>1. IInv
  BY InitIInv
<1>2. ASSUME NEW a \in Accounts
      PROVE  /\ Balances(row)[a] = Deposited(history)[a]
             /\ Sent(history)[a] = 0
  <2>1. /\ row[a].balance \in Nat /\ history[a] = OpeningHistory(a)
        /\ row[a].balance % 2 = 0
    BY <1>1, InitBooks DEF Init, BankInit, IInv, TypeOK, RowType, Books, WholeBalances
  <2>2. Balances(row)[a] = row[a].balance
    BY DEF Balances
  <2>3. /\ Deposited(history)[a] = Total(AmountsOf(history[a]), Deposits(history[a]))
        /\ Sent(history)[a] = Cardinality(Out(history[a]))
    BY DEF Deposited, Sent
  <2>4. CASE row[a].balance = 0
    <3>1. history[a] = <<>>
      BY <2>1, <2>4 DEF OpeningHistory
    <3>2. Deposits(history[a]) = {} /\ Out(history[a]) = {}
      BY <3>1 DEF Deposits, Out
    <3> QED
      BY <2>2, <2>3, <2>4, <3>2, TotalEmpty, FS_EmptySet
  <2>5. CASE row[a].balance # 0
    <3> DEFINE t == Tx("deposit", row[a].balance, row[a].balance, NoAccount, NoRequest)
    <3>1. history[a] = <<t>>
      BY <2>1, <2>5 DEF OpeningHistory
    <3>2. t.type = "deposit" /\ t.amount = row[a].balance
      BY <2>1, StoredEven DEF Tx
    <3>3. t \in TxType
      BY <2>1, TxTyped
    <3> HIDE DEF t
    <3>4. <<>> \in Seq(TxType) /\ <<t>> = Append(<<>>, t)
      BY <3>3
    <3>5. /\ Total(AmountsOf(<<t>>), Deposits(<<t>>)) =
                Total(AmountsOf(<<>>), Deposits(<<>>)) + row[a].balance
          /\ Cardinality(Out(<<t>>)) = Cardinality(Out(<<>>)) + 0
      BY <3>2, <3>3, <3>4, AppendMoney
    <3>6. Deposits(<<>>) = {} /\ Out(<<>>) = {}
      BY DEF Deposits, Out
    <3>7. /\ Total(AmountsOf(<<t>>), Deposits(<<t>>)) = row[a].balance
          /\ Cardinality(Out(<<t>>)) = 0
      <4>1. /\ Total(AmountsOf(<<>>), Deposits(<<>>)) = 0
            /\ Cardinality(Out(<<>>)) = 0
        BY <3>6, TotalEmpty, FS_EmptySet
      <4>2. row[a].balance \in Nat
        BY <2>1
      <4> QED
        BY <3>5, <4>1, <4>2
    <3> QED
      BY <2>2, <2>3, <3>1, <3>7
  <2> QED
    BY <2>4, <2>5
<1>3. Total(Balances(row), Accounts) = Total(Deposited(history), Accounts)
  BY <1>2, TotalAgree, FiniteInstance
<1>4. /\ Total(Balances(row), Accounts) \in Int /\ Total(Sent(history), Accounts) \in Int
      /\ \A a \in Accounts : Sent(history)[a] \in Int
  BY <1>1, SumsTyped DEF IInv, TypeOK
<1>5. Total(Sent(history), Accounts) = 0
  BY <1>2, TotalZero, FiniteInstance
<1> QED
  BY <1>3, <1>4, <1>5 DEF Accounted

LEMMA StepAccounted == IInv /\ Books /\ Accounted /\ [Next]_vars => Accounted'
<1> SUFFICES ASSUME IInv, Books, Accounted, [Next]_vars PROVE Accounted'
  OBVIOUS
<1>1. IInv' /\ Books' /\ [BankNext]_bankVars
  BY StepIInv, StepBooks, StepRefines
<1>2. ASSUME NEW a \in Accounts, NEW m \in Amounts, NEW r \in Requests, Deposit(a, m, r)
      PROVE  Accounted'
  BY <1>1, <1>2, DepositAccounted
<1>3. ASSUME NEW a \in Accounts, NEW b \in Accounts, NEW m \in Amounts,
             NEW r \in Requests, Transfer(a, b, m, r)
      PROVE  Accounted'
  BY <1>1, <1>3, TransferAccounted
<1>4. ASSUME UNCHANGED history, \A c \in Accounts : row'[c].balance = row[c].balance
      PROVE  Accounted'
  <2>1. Balances(row') = Balances(row)
    BY <1>4 DEF Balances
  <2> QED
    BY <1>4, <2>1 DEF Accounted
<1>5. ASSUME NEW a \in Accounts, NEW u \in Users, Open(a, u) PROVE Accounted'
  <2>1. history[a] = <<>> /\ history \in [Accounts -> Seq(TxType)]
    <3> DEFINE h == history[a]
    <3>1. h \in Seq(TxType) /\ DOMAIN h = {}
      BY <1>5 DEF Books, OnlyWhatWasAsked, IInv, TypeOK, Open
    <3> HIDE DEF h
    <3>2. DOMAIN h = 1 .. Len(h) /\ Len(h) \in Nat
      BY <3>1
    <3>3. h = <<>>
      BY <3>1, <3>2
    <3> QED
      BY <3>3 DEF h, IInv, TypeOK
  <2>2. row[a].balance = 0
    BY <2>1 DEF Books, HistoryExplainsBalance
  <2> QED
    BY <1>4, <1>5, <2>2 DEF Open, IInv, TypeOK
<1>6. ASSUME NEW a \in Accounts, NEW s \in Statuses, SetStatus(a, s) PROVE Accounted'
  BY <1>4, <1>6 DEF SetStatus, IInv, TypeOK, RowType
<1>7. CASE UNCHANGED bankVars
  BY <1>4, <1>7 DEF bankVars
<1> QED
  BY <1>1, <1>2, <1>3, <1>5, <1>6, <1>7 DEF BankNext

\* Together the balances are what was deposited; with fractions of a cent every
\* transfer may add one cent, and none ever destroys money.
THEOREM MoneyIsAccounted == Spec => []MoneyAccounted
<1>1. Init => Accounted
  BY InitAccounted
<1>2. IInv /\ Books /\ Accounted /\ [Next]_vars => Accounted'
  BY StepAccounted
<1>3. Accounted => MoneyAccounted
  BY AccountedDef
<1> QED
  BY <1>1, <1>2, <1>3, Invariance, BooksHold, PTL DEF Spec
=============================================================================
