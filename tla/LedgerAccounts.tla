--------------------------- MODULE LedgerAccounts ---------------------------
(***************************************************************************)
(* LedgerService: opening an account, deposits and transfers, as requests  *)
(* that run concurrently against one PostgreSQL database.                  *)
(*                                                                         *)
(* A deposit or transfer runs inside dataSource.transaction(): it holds a  *)
(* connection of the pool from Begin to COMMIT or ROLLBACK, locks account  *)
(* rows with SELECT ... FOR UPDATE, computes on the copies it read, and    *)
(* calls NotificationService.create before it commits.  That call saves    *)
(* through a repository of its own: it takes a second connection and is    *)
(* committed at once, whatever becomes of the transaction.                 *)
(*                                                                         *)
(* Every await is a step.  The rows a transaction writes are seen by       *)
(* nobody until it commits, so its writes are part of Commit.              *)
(***************************************************************************)
EXTENDS AtomicBank, FiniteSets, FiniteSetsExt

CONSTANT Pool   \* connections in the pool

ASSUME PoolAssumption == Pool \in Nat \ {0}

\* The requests that were ever made, and the accounts that were ever opened.
ASSUME FiniteInstance == IsFiniteSet(Requests) /\ IsFiniteSet(Accounts)

VARIABLES
  rowLock,   \* account -> request holding its row lock, or NoRequest
  req,       \* request -> its program counter, arguments and local copies
  notifs     \* the notifications table: who was told about which request

vars == <<row, history, rowLock, req, notifs>>

-----------------------------------------------------------------------------
Waiting   == {"insert", "begin"}
Inside    == {"lockFrom", "lockTo", "notifyFrom", "publishFrom", "notifyTo",
              "publishTo", "commit", "rollback"}
Answers   == {"ok", "refused", "unknown"}  \* unknown: an error, or no answer at all
PCs       == {"free"} \cup Waiting \cup Inside \cup Answers

Ops == {"create", "deposit", "transfer"}

ReqType == [pc : PCs, op : Ops, user : Users \cup {NoUser},
            from : Accounts \cup {NoAccount}, to : Accounts \cup {NoAccount},
            amount : Nat, fromBal : Nat, toBal : Nat]

Asking(pc, op, user, from, to, amount) ==
  [pc |-> pc, op |-> op, user |-> user, from |-> from, to |-> to,
   amount |-> amount, fromBal |-> 0, toBal |-> 0]

FreeRequest == Asking("free", "create", NoUser, NoAccount, NoAccount, 0)

Answered(r) == req[r].pc \in Answers
InFlight(r) == req[r].pc \in Waiting \cup Inside

\* createAccount uses no transaction: each of its saves borrows a connection
\* for itself.
InTransaction(r) == req[r].pc \in Inside /\ req[r].op # "create"
ConnectionFree   == Cardinality({r \in Requests : InTransaction(r)}) < Pool

Goto(r, pc) == req' = [req EXCEPT ![r].pc = pc]

CopyFrom(r, balance, pc) == req' = [req EXCEPT ![r].fromBal = balance, ![r].pc = pc]
CopyTo(r, balance, pc)   == req' = [req EXCEPT ![r].toBal = balance, ![r].pc = pc]

LockFree(a, r) == rowLock[a] \in {NoRequest, r}

\* A variant: the row is read without lock: { mode: 'pessimistic_write' }.
ReadUnlocked(a, r) == UNCHANGED rowLock

Lock(a, r) == rowLock' = [rowLock EXCEPT ![a] = r]

Release(r) ==
  rowLock' = [a \in Accounts |-> IF rowLock[a] = r THEN NoRequest ELSE rowLock[a]]

-----------------------------------------------------------------------------
\* Bound: an account is only asked for while the instance has an id left for it.
IdLeft == Cardinality({a \in Accounts : ~Exists(a)})
            > Cardinality({r \in Requests : req[r].pc = "insert"})

Arriving ==
  {Asking("insert", "create", u, NoAccount, NoAccount, 0) :
     u \in IF IdLeft THEN Users ELSE {}}
  \cup {Asking("begin", "deposit", u, a, NoAccount, m) :
          u \in Users, a \in Accounts, m \in Amounts}
  \cup {Asking("begin", "transfer", u, a, b, m) :
          u \in Users, a \in Accounts, b \in Accounts, m \in Amounts}

\* A client calls the controller; JwtAuthGuard supplies the user.  An account
\* id in the path, or the number of the destination, may be unknown.
Arrive(r) ==
  /\ req[r].pc = "free"
  /\ \E q \in Arriving : req' = [req EXCEPT ![r] = q]
  /\ UNCHANGED <<row, history, rowLock, notifs>>

\* createAccount: the insert commits on its own.
CreateAccount(r) ==
  /\ req[r].pc = "insert"
  /\ ConnectionFree
  /\ \E a \in Accounts :
       /\ Open(a, req[r].user)
       /\ req' = [req EXCEPT ![r].pc = "notifyFrom", ![r].from = a]
  /\ UNCHANGED <<rowLock, notifs>>

Begin(r) ==
  /\ req[r].pc = "begin"
  /\ ConnectionFree
  /\ Goto(r, "lockFrom")
  /\ UNCHANGED <<row, history, rowLock, notifs>>

SourceAccepted(r) ==
  Active(req[r].from) /\ row[req[r].from].owner = req[r].user

\* The first findOne of deposit and of transfer, with its checks.  An unknown
\* id locks nothing; a refusal keeps the lock until the rollback.
LockFrom(r) ==
  LET a == req[r].from IN
  /\ req[r].pc = "lockFrom"
  /\ \/ /\ ~Exists(a)
        /\ Goto(r, "rollback")
        /\ UNCHANGED rowLock
     \/ /\ Exists(a) /\ LockFree(a, r)
        /\ Lock(a, r)
        /\ \/ /\ SourceAccepted(r)
              /\ CopyFrom(r, row[a].balance,
                          IF req[r].op = "deposit" THEN "notifyFrom" ELSE "lockTo")
           \/ /\ ~SourceAccepted(r)
              /\ Goto(r, "rollback")
  /\ UNCHANGED <<row, history, notifs>>

\* Variants of the checks below, each with one of them forgotten.
TargetNotActive(r)   == req[r].from # req[r].to /\ req[r].fromBal >= req[r].amount
TargetMaybeSource(r) == Active(req[r].to) /\ req[r].fromBal >= req[r].amount
TargetNoFunds(r)     == Active(req[r].to) /\ req[r].from # req[r].to

TargetAccepted(r) ==
  /\ Active(req[r].to)
  /\ req[r].from # req[r].to
  /\ req[r].fromBal >= req[r].amount

\* The second findOne of transfer, by account number, with its checks.
LockTo(r) ==
  LET b == req[r].to IN
  /\ req[r].pc = "lockTo"
  /\ \/ /\ ~Exists(b)
        /\ Goto(r, "rollback")
        /\ UNCHANGED rowLock
     \/ /\ Exists(b) /\ LockFree(b, r)
        /\ Lock(b, r)
        /\ \/ /\ TargetAccepted(r)
              /\ CopyTo(r, row[b].balance, "notifyFrom")
           \/ /\ ~TargetAccepted(r)
              /\ Goto(r, "rollback")
  /\ UNCHANGED <<row, history, notifs>>

-----------------------------------------------------------------------------
\* NotificationService.create: an insert on a connection of its own ...
Notify(r, user, next) ==
  /\ ConnectionFree
  /\ notifs' = notifs \cup {[user |-> user, req |-> r]}
  /\ Goto(r, next)
  /\ UNCHANGED <<row, history, rowLock>>

NotifySender(r) ==
  /\ req[r].pc = "notifyFrom"
  /\ Notify(r, row[req[r].from].owner, "publishFrom")

NotifyReceiver(r) ==
  /\ req[r].pc = "notifyTo"
  /\ Notify(r, row[req[r].to].owner, "publishTo")

\* ... followed by the publication on Redis.  The receiver is told too when it
\* is another user; createAccount ends here.  (Variants: the
\* transaction is not awaited; the receiver is forgotten.)
AfterSenderUnawaited(r) == "ok"

AfterSenderOnly(r) == IF req[r].op = "create" THEN "ok" ELSE "commit"

AfterSender(r) ==
  CASE req[r].op = "create"  -> "ok"
    [] req[r].op = "deposit" -> "commit"
    [] OTHER -> IF row[req[r].to].owner # row[req[r].from].owner
                THEN "notifyTo" ELSE "commit"

PublishSender(r) ==
  /\ req[r].pc = "publishFrom"
  /\ Goto(r, AfterSender(r))
  /\ UNCHANGED <<row, history, rowLock, notifs>>

PublishReceiver(r) ==
  /\ req[r].pc = "publishTo"
  /\ Goto(r, "commit")
  /\ UNCHANGED <<row, history, rowLock, notifs>>

-----------------------------------------------------------------------------
\* The saves of deposit and of transfer write what was computed on the copies
\* taken under the lock.
BookDeposit(r) ==
  LET a == req[r].from
      m == req[r].amount
      after == req[r].fromBal + m IN
  /\ row' = [row EXCEPT ![a].balance = Stored(after)]
  /\ history' = [history EXCEPT ![a] = Append(@, Tx("deposit", m, after, NoAccount, r))]

\* A variant: the credit is booked without its transaction.
BookTransferOneSided(r) ==
  LET a == req[r].from
      b == req[r].to
      m == req[r].amount IN
  /\ row' = [row EXCEPT ![a].balance = req[r].fromBal - m, ![b].balance = req[r].toBal + m]
  /\ history' = [history EXCEPT ![a] =
                    Append(@, Tx("transfer_out", m, req[r].fromBal - m, b, r))]

BookTransfer(r) ==
  LET a == req[r].from
      b == req[r].to
      m == req[r].amount
      left == req[r].fromBal - m
      got  == req[r].toBal + m IN
  /\ row' = [row EXCEPT ![a].balance = Stored(left), ![b].balance = Stored(got)]
  /\ history' = [history EXCEPT ![a] = Append(@, Tx("transfer_out", m, left, b, r)),
                                ![b] = Append(@, Tx("transfer_in", m, got, a, r))]

CommitAnswers == {"ok", "unknown"}

\* COMMIT publishes the writes and frees the locks; its answer may be lost.
Commit(r) ==
  /\ req[r].pc = "commit"
  /\ \/ req[r].op = "deposit" /\ BookDeposit(r)
     \/ req[r].op = "transfer" /\ BookTransfer(r)
  /\ Release(r)
  /\ \E answer \in CommitAnswers : Goto(r, answer)
  /\ UNCHANGED notifs

\* A variant: the locks are not released on the way out.
RollbackKeepsLocks(r) ==
  /\ req[r].pc = "rollback"
  /\ Goto(r, "refused")
  /\ UNCHANGED <<row, history, rowLock, notifs>>

\* An exception left the callback of dataSource.transaction().
Rollback(r) ==
  /\ req[r].pc = "rollback"
  /\ Release(r)
  /\ Goto(r, "refused")
  /\ UNCHANGED <<row, history, notifs>>

-----------------------------------------------------------------------------
\* Any call to PostgreSQL or Redis may throw.  createAccount has nothing to
\* roll back: once the row is inserted its error says nothing.
Fail(r) ==
  /\ InFlight(r) /\ req[r].pc # "rollback"
  /\ \/ req[r].pc \in Waiting /\ Goto(r, "refused")
     \/ req[r].pc \in Inside /\ req[r].op = "create" /\ Goto(r, "unknown")
     \/ InTransaction(r) /\ Goto(r, "rollback")
  /\ UNCHANGED <<row, history, rowLock, notifs>>

\* The account whose row lock a transaction asks for next.
Wanted(r) ==
  CASE req[r].pc = "lockFrom" -> req[r].from
    [] req[r].pc = "lockTo"   -> req[r].to
    [] OTHER -> NoAccount

Blocker(r) ==
  IF Wanted(r) # NoAccount /\ Exists(Wanted(r)) /\ ~LockFree(Wanted(r), r)
  THEN rowLock[Wanted(r)] ELSE NoRequest

InCycle(r) ==
  \E S \in SUBSET Requests : r \in S /\ {Blocker(q) : q \in S} = S

\* PostgreSQL's deadlock detector aborts one transaction of a waiting cycle.
DeadlockAbort(r) ==
  /\ InCycle(r)
  /\ Goto(r, "rollback")
  /\ UNCHANGED <<row, history, rowLock, notifs>>

\* The process dies: PostgreSQL rolls back what was open, nobody is answered.
Crash ==
  /\ \E r \in Requests : InFlight(r)
  /\ req' = [r \in Requests |-> IF InFlight(r) THEN [req[r] EXCEPT !.pc = "unknown"]
                                               ELSE req[r]]
  /\ rowLock' = [a \in Accounts |-> NoRequest]
  /\ UNCHANGED <<row, history, notifs>>

\* No code of the repository changes an account's status after createAccount;
\* an operator freezing or reopening it in the database does.
ExternalSetStatus(a, s) ==
  /\ rowLock[a] = NoRequest
  /\ SetStatus(a, s)
  /\ UNCHANGED <<rowLock, req, notifs>>

\* All requests of the bounded instance are answered.
Done == (\A r \in Requests : Answered(r)) /\ UNCHANGED vars

-----------------------------------------------------------------------------
Init ==
  /\ BankInit
  /\ rowLock = [a \in Accounts |-> NoRequest]
  /\ req = [r \in Requests |-> FreeRequest]
  /\ notifs = {}

\* The steps the server takes by itself for a request it has accepted.
Progress(r) ==
  \/ CreateAccount(r)
  \/ Begin(r)
  \/ LockFrom(r)
  \/ LockTo(r)
  \/ NotifySender(r)
  \/ PublishSender(r)
  \/ NotifyReceiver(r)
  \/ PublishReceiver(r)
  \/ Commit(r)
  \/ Rollback(r)
  \/ DeadlockAbort(r)

Next ==
  \/ \E r \in Requests : Arrive(r) \/ Progress(r) \/ Fail(r)
  \/ \E a \in Accounts, s \in Statuses : ExternalSetStatus(a, s)
  \/ Crash
  \/ Done

Spec == Init /\ [][Next]_vars

\* Node's event loop runs every continuation and PostgreSQL serves every query
\* and lock request; nobody has to call, fail or crash.
FairSpec == Spec /\ \A r \in Requests : WF_vars(Progress(r))

-----------------------------------------------------------------------------
TypeOK ==
  /\ row \in [Accounts -> RowType]
  /\ history \in [Accounts -> Seq(TxType)]
  /\ rowLock \in [Accounts -> Requests \cup {NoRequest}]
  /\ req \in [Requests -> ReqType]
  /\ notifs \subseteq [user : Users \cup {NoUser}, req : Requests]

\* A transaction past its first, or past its second, findOne.
HasFrom(r) == InTransaction(r) /\ req[r].pc \notin {"lockFrom", "rollback"}
HasTo(r)   == HasFrom(r) /\ req[r].op = "transfer" /\ req[r].pc # "lockTo"

FreshCopy(r) ==
  /\ HasFrom(r) => /\ SourceAccepted(r)
                   /\ rowLock[req[r].from] = r
                   /\ req[r].fromBal = row[req[r].from].balance
  /\ HasTo(r)   => /\ TargetAccepted(r)
                   /\ rowLock[req[r].to] = r
                   /\ req[r].toBal = row[req[r].to].balance

\* From the moment a row was read for update until the transaction ends, the
\* copy the service computes on is the committed row, the account is still
\* active, and it is still the caller's: nothing that deposit and transfer
\* checked can have become stale when they use it, whoever else is running.
FreshCopies == \A r \in Requests : FreshCopy(r)

\* The signed effect of a transaction on its account.
Delta(t) == IF t.type = "transfer_out" THEN -t.amount ELSE t.amount

WholeCents == \A m \in Amounts : m % 2 = 0

\* An account's balance is the balanceAfter of its last transaction, and with
\* whole-cent amounts every balanceAfter is the one before it plus the
\* transaction's amount: no update is lost, whatever runs concurrently.
HistoryExplainsBalance ==
  \A a \in Accounts :
    LET h == history[a]
        before(i) == IF i = 1 THEN 0 ELSE h[i - 1].balanceAfter IN
    /\ row[a].balance = IF h = <<>> THEN 0 ELSE h[Len(h)].balanceAfter
    /\ WholeCents => \A i \in DOMAIN h : h[i].balanceAfter = before(i) + Delta(h[i])

Booked(r, a, type) == {i \in DOMAIN history[a] :
                         history[a][i].req = r /\ history[a][i].type = type}

\* A transfer is visible on both of its accounts or on neither, each side
\* naming the other account, and neither side is booked twice for a request.
TransfersPaired ==
  \A r \in Requests, a, b \in Accounts :
    LET outs == Booked(r, a, "transfer_out")
        ins  == Booked(r, b, "transfer_in") IN
    /\ Cardinality(outs) <= 1 /\ Cardinality(ins) <= 1
    /\ \A i \in outs : history[a][i].party = b => ins # {} /\ a # b
    /\ \A i \in ins : history[b][i].party = a => outs # {}

\* Together the balances are what was deposited.  With fractions of a cent
\* every transfer may create one cent, because both of the balances it writes
\* are rounded up, and none ever destroys money.
MoneyAccounted ==
  LET sumOver(f(_)) == MapThenSumSet(f, Accounts)
      txs(a, type) == {i \in DOMAIN history[a] : history[a][i].type = type}
      amounts(a) == MapThenSumSet(LAMBDA i : history[a][i].amount, txs(a, "deposit"))
      balances == sumOver(LAMBDA a : row[a].balance)
      deposits == sumOver(amounts)
      transfers == sumOver(LAMBDA a : Cardinality(txs(a, "transfer_out"))) IN
  balances - deposits \in 0 .. (IF WholeCents THEN 0 ELSE 2 * transfers)

\* Whoever can see a transaction on an account has been sent its notification:
\* the sender of a deposit or transfer, and the receiver if it is someone else.
NotifiedBeforeVisible ==
  \A a \in Accounts : \A i \in DOMAIN history[a] :
    LET t == history[a][i] IN
    t.req # NoRequest => [user |-> row[a].owner, req |-> t.req] \in notifs

\* What request r has booked on the accounts, and what it asked to be booked:
\* on which account, of which kind and amount, against which other account.
BookedBy(r) ==
  UNION {{[account |-> a, type |-> history[a][i].type, amount |-> history[a][i].amount,
           party |-> history[a][i].party] :
            i \in {j \in DOMAIN history[a] : history[a][j].req = r}} : a \in Accounts}

AskedOf(r) ==
  LET q == req[r]
      entry(a, type, party) == [account |-> a, type |-> type,
                                amount |-> Stored(q.amount), party |-> party] IN
  CASE q.op = "deposit"  -> {entry(q.from, "deposit", NoAccount)}
    [] q.op = "transfer" -> {entry(q.from, "transfer_out", q.to),
                             entry(q.to, "transfer_in", q.from)}
    [] OTHER -> {}

\* A request that was refused left nothing behind in the accounts; one that was
\* answered ok did all that was asked, on the accounts and with the amount that
\* were asked, once, and nothing else; and one whose answer was lost, in COMMIT
\* or in a crash, did all of it or nothing.
AnswersTellTheTruth ==
  \A r \in Requests :
    /\ req[r].pc = "refused" => BookedBy(r) = {}
    /\ req[r].pc = "ok" =>
         /\ BookedBy(r) = AskedOf(r)
         /\ req[r].op = "create" => row[req[r].from].owner = req[r].user
    /\ req[r].pc = "unknown" => BookedBy(r) \in {{}, AskedOf(r)}
    /\ \A a \in Accounts : \A i, j \in DOMAIN history[a] :
         history[a][i].req = r /\ history[a][j].req = r => i = j

\* Every request that reached the service is answered, whatever locks and
\* connections the others hold.
EveryRequestAnswered == \A r \in Requests : InFlight(r) ~> Answered(r)
=============================================================================
