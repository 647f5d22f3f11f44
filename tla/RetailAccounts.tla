--------------------------- MODULE RetailAccounts ---------------------------
(***************************************************************************)
(* RetailAccountService: the life cycle of retail accounts (frozen,        *)
(* dormant, closed) and the monthly fee.  Every call reads the account,    *)
(* checks its copy and saves the whole row; the dormancy check saves all   *)
(* the rows it found at once.  Calls are used once, and nothing keeps them *)
(* from overlapping.  Balances are in units of the fee.                    *)
(***************************************************************************)
EXTENDS Integers, FiniteSets

CONSTANTS
  Accounts,  \* account ids; the bound on how many are opened
  Calls      \* calls of the service

VARIABLES
  account,  \* retail_account
  call

vars == <<account, call>>

-----------------------------------------------------------------------------
Statuses == {"active", "frozen", "dormant", "closed", "restricted"}

\* idle: lastActivityAt is before the cutoff of the dormancy check.
NoRow == [status |-> "none", flag |-> FALSE, closedAt |-> FALSE, balance |-> 0, idle |-> FALSE]
NoArgs == [status |-> "none", disposition |-> FALSE]
FreeCall ==
  [op |-> "none", pc |-> "free", on |-> {}, rows |-> <<>>, args |-> NoArgs, seen |-> {}]

Exists(a) == account[a].status # "none"
Saved     == {c \in Calls : call[c].pc = "done"}

\* The call has read the accounts on, and goes on to save them.  For the properties,
\* seen keeps which calls had saved by then.
Read(c, op, on, args, accepted) ==
  /\ call[c].pc = "free"
  /\ call' = [call EXCEPT ![c] = [op |-> op, on |-> on, rows |-> [a \in on |-> account[a]],
                                  args |-> args, seen |-> Saved,
                                  pc |-> IF accepted THEN "save" ELSE "refused"]]
  /\ UNCHANGED account

-----------------------------------------------------------------------------
\* openAccount
Open ==
  /\ \E a \in Accounts :
       ~Exists(a) /\ account' = [account EXCEPT ![a] = [NoRow EXCEPT !.status = "active"]]
  /\ UNCHANGED call

\* updateStatus, as freeze, as unfreeze, or with any status.
AskStatus(c) == \E a \in Accounts, s \in Statuses :
  Exists(a) /\ Read(c, "status", {a}, [NoArgs EXCEPT !.status = s], TRUE)

\* A variant: a closed account is closed again.
MayCloseAgain(row, disposition) == row.balance = 0 \/ disposition

MayClose(row, disposition) == row.status # "closed" /\ (row.balance = 0 \/ disposition)

AskClose(c) == \E a \in Accounts, d \in BOOLEAN :
  Exists(a) /\ Read(c, "close", {a}, [NoArgs EXCEPT !.disposition = d], MayClose(account[a], d))

\* A variant: a frozen account goes dormant.
DormantAny(row) == row.status \notin {"none", "closed"} /\ ~row.flag /\ row.idle

Dormant(row) == row.status = "active" /\ ~row.flag /\ row.idle

CheckDormancy(c) == Read(c, "dormancy", {a \in Accounts : Dormant(account[a])}, NoArgs, TRUE)

AskActivity(c) == \E a \in Accounts :
  Exists(a) /\ Read(c, "activity", {a}, NoArgs, TRUE)

\* chargeMonthlyFee of an account with a fee, which is not waived.
AskFee(c) == \E a \in Accounts : Exists(a) /\ Read(c, "fee", {a}, NoArgs, TRUE)

\* configureOverdraft: the limit is left out; the copy it saves is not.
AskOverdraft(c) == \E a \in Accounts : Exists(a) /\ Read(c, "overdraft", {a}, NoArgs, TRUE)

\* Variants: closing forgets the date; closing clears the status; the fee is
\* shown, but not taken from the balance.
ChangedUndated(op, args, row) ==
  IF op \in {"close", "status"}
  THEN [row EXCEPT !.status = IF op = "close" THEN "closed" ELSE args.status]
  ELSE row

ChangedCleared(op, args, row) ==
  IF op = "close" THEN [row EXCEPT !.status = "", !.closedAt = TRUE] ELSE row

ChangedUncharged(op, args, row) == IF op = "fee" THEN row ELSE [row EXCEPT !.idle = FALSE]

Changed(op, args, row) ==
  CASE op = "status"   -> [row EXCEPT !.status = args.status,
                                      !.closedAt = @ \/ args.status = "closed"]
    [] op = "close"    -> [row EXCEPT !.status = "closed", !.closedAt = TRUE]
    [] op = "dormancy" -> [row EXCEPT !.status = "dormant", !.flag = TRUE]
    [] op = "activity" -> [row EXCEPT !.idle = FALSE, !.flag = FALSE,
                                      !.status = IF row.flag THEN "active" ELSE @]
    [] op = "overdraft" -> row
    [] op = "fee"      -> [row EXCEPT !.balance = @ - 1]

Save(c) ==
  /\ call[c].pc = "save"
  /\ account' = [a \in Accounts |->
       IF a \in call[c].on THEN Changed(call[c].op, call[c].args, call[c].rows[a])
                           ELSE account[a]]
  /\ call' = [call EXCEPT ![c].pc = "done"]

Fail(c) ==
  /\ call[c].pc = "save"
  /\ call' = [call EXCEPT ![c].pc = "failed"]
  /\ UNCHANGED account

\* An account is left unused for as long as the dormancy check looks back.
TimePasses ==
  /\ \E a \in Accounts :
       Exists(a) /\ ~account[a].idle /\ account' = [account EXCEPT ![a].idle = TRUE]
  /\ UNCHANGED call

Init ==
  /\ account = [a \in Accounts |-> NoRow]
  /\ call = [c \in Calls |-> FreeCall]

Next ==
  \/ Open \/ TimePasses
  \/ \E c \in Calls : \/ AskStatus(c) \/ AskClose(c) \/ CheckDormancy(c) \/ AskActivity(c)
                      \/ AskFee(c) \/ AskOverdraft(c) \/ Save(c) \/ Fail(c)

Spec == Init /\ [][Next]_vars

-----------------------------------------------------------------------------
TypeOK ==
  /\ account \in [Accounts -> [status : Statuses \cup {"none"}, flag : BOOLEAN,
                               closedAt : BOOLEAN, balance : Int, idle : BOOLEAN]]
  /\ \A c \in Calls : call[c].pc \in {"free", "save", "done", "refused", "failed"}

Asked(op, a) == \E c \in Calls : call[c].op = op /\ a \in call[c].on /\ call[c].pc # "refused"

\* Whatever copies are written back, a closed account has its closing date, and a
\* date is there only if a call came as far as saving that might have closed it: a
\* closing, or a change of the status, to whichever it was.
ClosedIsDated ==
  \A a \in Accounts :
    /\ account[a].status = "closed" => account[a].closedAt
    /\ account[a].closedAt => Asked("close", a) \/ Asked("status", a)

\* A frozen account is not set free by the customer's activity.
FrozenNotRevived ==
  [][\A a \in Accounts : account[a].status = "frozen" /\ account'[a].status = "active" =>
       ~\E c \in Calls : call[c].op = "activity" /\ call[c].pc = "save" /\ call'[c].pc = "done"]_vars

\* A closed account stays closed.
ClosedIsFinal ==
  [][\A a \in Accounts : account[a].status = "closed" => account'[a].status = "closed"]_vars

Charged(a) == {c \in Calls : call[c].op = "fee" /\ call[c].pc = "done" /\ call[c].on = {a}}

\* A charge and another call worked on the account at the same time: each had read it
\* before the other saved.
Overlapped(a) ==
  \E c \in Charged(a), d \in Saved :
    c # d /\ a \in call[d].on /\ c \notin call[d].seen /\ d \notin call[c].seen

\* The fees that were charged are missing from the balance.  Refuted: a stale copy
\* that is saved gives them back.
FeesAreTaken == \A a \in Accounts : account[a].balance = -Cardinality(Charged(a))

\* Whatever copies are written back, an account never misses more than the fees that
\* were charged, and it misses fewer only where a charge overlapped another call.
FeesLostOnlyByOverlap ==
  \A a \in Accounts : LET charged == Cardinality(Charged(a)) IN
    /\ account[a].balance \in -charged..0
    /\ account[a].balance # -charged => Overlapped(a)
=============================================================================
