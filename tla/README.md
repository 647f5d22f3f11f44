# Verification of the bank-chat-app server

TLA+ models of the server under `src/src/modules`, the TLC configurations that
check them, and proofs checked by TLAPS.

## 1. The system

One NestJS process serves REST controllers; a controller calls the services of
its module; services keep their state in PostgreSQL through TypeORM
repositories and publish to Redis. There is no scheduler and no queue:
everything that happens, happens because a request arrives (the only timers are
two `setTimeout`s, in the webhook and payroll services). Concurrency is the
interleaving of requests at every `await`, within one process or among replicas
of it on one database.

Four conventions of the code decide what can go wrong, and every module below
follows them:

- `repo.save(entity)` of a row that was read earlier writes every column whose
  value in memory differs from the row's current value. With another request in
  between this is an overwrite of the whole row by a stale copy: last writer wins.
- `repo.update(id, {...})` writes only the columns it names.
- Only `LedgerService.deposit/transfer` lock rows (`pessimistic_write`), and
  only those two and `JournalEntryService.create` open a transaction. All other
  services read, check and save in separate statements.
- `numeric`, `decimal` and `bigint` columns come back from the driver as
  strings; code that adds to them without `Number(...)` concatenates.

Most of the services share one shape: a row with a status (or a flag, or a date
that stands for one) and methods that read it, check it and save it. The module
`StatusRows` models that shape once, and tables say for 126 kinds of rows what
each method checks and writes.

### Components

For each part: its state, its operations, what is hard, what makes it correct.
`PROJECT.json` lists every part with its status.

| Part | State | Operations | Hard part | Correct when |
|---|---|---|---|---|
| ledger: accounts | `accounts`, `transactions` | open, deposit, transfer | row locks, pool of connections, notification inside the transaction, lost COMMIT answers | atomic transfers on fresh balances, everybody answered |
| ledger: general ledger | journal entries and lines, fiscal periods | create, post, reverse, close, reopen | check-then-act on period and status, multi-step reversal | posted entries balance, closed periods stay closed, one reversal per entry |
| ledger: accruals, sub-ledger, intercompany, reconciliation | accruals, rules, intercompany transactions, reconciliations | amortise, post, eliminate, match, certify | string arithmetic, stale overwrites | totals equal their items |
| notification | `notifications`, Redis channel | create, read, archive | committed before its cause | nobody misses one |
| payments | payment instructions, FX, bank connections | initiate, approve by levels, reject, cancel, execute | concurrent approvals, overwritten decisions | executed once, only after all approvals |
| retail-banking | transfers, accounts, alerts, overdraft | initiate, execute, cancel, recurring | execute against cancel, recurrence | a cancelled transfer stays cancelled |
| business-banking | payroll batches, sweeps, signatories | approve, execute, complete by timer | timer after the request ended, double execution | a batch is paid once |
| loyalty | points, redemptions, stock | earn, redeem, expire | read-check-save on balances and stock | no points spent twice, no oversold stock |
| smb-inventory | stock, movements, reorder, valuation | receive, issue, transfer, adjust | two rows per transfer, stale quantities | stock equals its movements |
| webhooks | endpoints, delivery logs | dispatch, deliver, retry, dead-letter | timers lost in a crash, stale log copies | every delivery ends delivered or dead-lettered |
| identity | users, sessions, MFA, passkeys, recovery | log in, refresh, revoke, recover | single-use tokens, concurrent attempts | a used or revoked credential stays so |
| branch-teller | drawers, vault, night deposits, safe boxes | open, count, transfer, close | cash moved between two rows | cash is conserved |
| cards | cards, controls, disputes, rewards, tokens | issue, activate, block, authorise | limits read before they are used | a blocked card authorises nothing |
| loans | applications, loans, collateral, collections | apply, approve, disburse, pay, charge off | amortisation, status machines | a loan is disbursed once |
| chat | conversations, messages | send, read, close | ordering | messages follow their conversation |
| change-management, data-pipeline, governance, data-governance | workflows | status machines | concurrent transitions | only legal transitions |
| compliance, privacy, regulatory, audit, soc, monitoring | cases, consents, reports, logs | status machines | concurrent transitions | only legal transitions |
| consolidation, reconciliation, correspondent, trade, tax, accounting-ai, smb, smb-budgeting, banking-crm, bancassurance, mobile-banking, wallet-payments | documents with a life cycle | create, approve, settle, match, net, compute | concurrent transitions, sums of floating-point numbers | only legal transitions, results equal a reference definition |
| storage, user, config, main | files, profiles | store, look up | input and output | nothing to check |

## 2. The modules

| Module | Models | Lines of the source |
|---|---|---|
| `AtomicBank` | what the customer accounts promise: every deposit and transfer is one step | the outcome of `LedgerService` |
| `LedgerAccounts` | `LedgerService.createAccount/deposit/transfer`, await by await, with locks, pool and notifications | `ledger/services/ledger.service.ts`, `notification.service.ts` |
| `LedgerAccountsProofs` | theorems about `LedgerAccounts`, for all constants | |
| `SumTheorems` | what the proofs need to know of sums over a finite set | |
| `GeneralLedger` | journal entries, fiscal periods, entries made of stock movements | `journal-entry`, `fiscal-period`, `inventory-journal` services |
| `GeneralLedgerProofs` | theorems about `GeneralLedger`, for all constants | |
| `PaymentApproval` | payment instructions: approval by levels, rejection, cancellation, execution, settlement batches | `payments/services/payment-instruction.service.ts`, its controller |
| `Payroll` | payroll batches and the timer that completes them | `business-banking/services/payroll.service.ts` |
| `WebhookDelivery` | subscriptions, delivery logs, timers, retries, dead letters, replays | `webhooks/services/webhook.service.ts` |
| `Business` | `PaymentApproval`, `Payroll` and `WebhookDelivery` beside each other | |
| `BusinessProofs` | theorems about `Business`, for all constants | |
| `RetailTransfers` | transfers, their modification, cancellation and recurrence | `retail-banking/services/transfer.service.ts` |
| `RetailAccounts` | freezing, dormancy, closing and the monthly fee | `retail-banking/services/retail-account.service.ts` |
| `LoyaltyPoints` | enrollments, points earned and spent, rewards with a stock | `loyalty/services/{enrollment,point-transaction,redemption}.service.ts` |
| `StockMovements` | goods received, sold, returned, adjusted, moved | `smb-inventory/services/stock-movement.service.ts` |
| `Sales` | `LoyaltyPoints` and `StockMovements` beside each other | |
| `SalesProofs` | theorems about `Sales`, for all constants | |
| `Credentials` | one phone number: registration, one-time code, login, lockout, setting and changing the password | `identity/services/identity.service.ts`, `user/user.service.ts` |
| `BackupCodes` | the backup codes of one user | `identity/services/mfa.service.ts` |
| `Retail` | `RetailTransfers`, `RetailAccounts`, `Credentials` and `BackupCodes` beside each other | |
| `RetailProofs` | theorems about the transfers and accounts of `Retail`, for all constants | |
| `SecretsProofs` | theorems about the passwords and codes of `Retail`, for all constants | |
| `StatusTables` | words for what a method asks of the row it read and what it writes | |
| `StatusRows` | calls that read, decide and save rows with a status, each query in an await of its own | what the services below have in common |
| `StatusRowsProofs` | theorems about `StatusRows`, for all tables | |
| `RegulatoryTables` | regulatory reports, calendar, stress tests, examinations, controls, training, lineage, surveillance, ethics, gifts | `regulatory` |
| `PrivacyTables` | consents, assessments, requests of data subjects, policy versions, retention schedules | `privacy` |
| `ComplianceTables` | verifications, alerts, screening, cases, policies and violations, leaks and exceptions, tax exemptions | `compliance`, `governance`, `data-governance`, `tax` |
| `OperationsTables` | tickets, queues, opportunities, conversations with customers, playbooks, vulnerabilities, matching, netting, settlement | `banking-crm`, `soc`, `reconciliation` |
| `TradeTables` | guarantees, documents, correspondents, remittances, suspense items, consolidation, insurance | `trade`, `correspondent`, `consolidation`, `bancassurance` |
| `CustomerTables` | invoices, budgets, time entries, wallets, QR codes, payments to persons, check deposits, device sessions | `smb`, `smb-budgeting`, `wallet-payments`, `mobile-banking` |
| `LendingTables` | applications, loans, installments, collections, collateral, margin calls, cards, disputes, tokens | `loans`, `cards` |
| `BranchTables` | drawers, transactions at the counter, exchanges, night deposits, safe boxes | `branch-teller` |
| `IdentityTables` | factors of authentication, roles, delegations, decentralised identifiers | `identity` |
| `PlatformTables` | chat, files, notifications, change requests, pipelines, alert rules, forensic cases | `chat`, `storage`, `notification`, `change-management`, `data-pipeline`, `monitoring`, `audit` |
| `AccountTables` | business accounts, signatories, checks, sweeps, owners, deposits, joint holders, accruals, intercompany, sub-ledgers, budgets, promotions, API keys, tenants, bank connections | `business-banking`, `retail-banking`, `ledger`, `loyalty`, `webhooks`, `payments` |
| `MCLedgerAccounts`, `MCGeneralLedger`, `MCBusiness`, `MCRetail`, `MCSales`, `MCRecords` | small instances for TLC | |

How they are built:

- A call of a service is a process with a program counter, `call[c].pc` (or
  `req[r].pc`), that names the `await` it stands at. What the handler read
  stays in the call's record until it is used: this is where stale copies live.
- A call is made once, but for `StatusRows`, `Credentials` and `BackupCodes`, whose
  calls start again when they have answered. What a call made once has done can be
  read off its record, and the properties speak of calls ("every fee that was
  charged") rather than of extra variables that the code does not have; the other
  three need variables for it, which their comments call history.
- A save is one step and writes the whole row; `update` writes the columns it
  names. A failing query is an action of its own, `Fail`. TypeORM's `save` is in truth a
  SELECT and an UPDATE of the columns that differ from what the SELECT found, so two
  stale saves that cross can leave a row with some columns of each. The model does not
  have such rows. `ClosedIsDated` and `PromisesKept`, which relate two columns of a row,
  and their theorems hold of whole-row saves only. An account that was closed and taken
  back keeps its date; if a call with a copy from before the closing now crosses a second
  closing, its UPDATE clears the date alone, and the account is closed without one.
- The variable `serial`, which never changes, serves one call at a time (per row in
  the retail modules). Nothing in the code ensures that. Such a behaviour separates
  what the checks are worth from what the missing lock costs: a property that starts
  with `serial =>` is one that overlapping requests break, and it is listed in section
  6. It speaks of sequences of calls and of the failures among them, and covers no
  overlap. `RetailAccounts` has no such variable: its properties hold however calls
  overlap. In the same way `deletes` of `WebhookDelivery` says whether the subscription may
  be deleted.
- An operator that a comment calls "a variant" is a plausible mistake in the
  operator below it. No specification uses it: a property is tried against it.

`Business`, `Retail` and `Sales` put several services side by side: a step of the
composition is a step of one service that leaves the rows of the others alone, as they
share no row and never call each other. The properties of a composition are those of its
services, and the theorems are about the composition, so that what is proved is the very
formula that is checked. An interleaving of two services that share nothing shows
nothing that the two alone do not, so `MCBusiness`, `MCRetail` and `MCSales` pick one
service for each behaviour with a variable `part`. In `StatusRows` the variable `kind`
picks the rows in the same way.

### State and actions of LedgerAccounts

| Model | Code |
|---|---|
| `row`, `history`, `notifs` | tables `accounts`, `transactions`, `notifications` (committed content) |
| `rowLock` | row locks taken by `findOne(..., lock: pessimistic_write)` |
| `req[r]` | the handler's arguments, its copies of the balances and where it waits |
| `Begin`, `Commit`, `Rollback` | `dataSource.transaction(...)` |
| `LockFrom`, `LockTo` | the two `findOne`s with the checks that follow them |
| `NotifySender`, `PublishSender`, `NotifyReceiver`, `PublishReceiver` | `NotificationService.create`, on a connection of its own |
| `Fail`, `Crash`, `DeadlockAbort` | an exception of any call, the process dying, PostgreSQL's deadlock detector |
| `ExternalSetStatus` | an operator freezing an account: no code does |

Uncommitted writes are visible to nobody, so they are part of `Commit`. Amounts
are counted in half cents because the DTOs let fractions of a cent through and
`numeric(18,2)` rounds them: `Stored` is that rounding.

### State and actions of the others

| Module | State | Actions |
|---|---|---|
| `GeneralLedger` | `period`, `entry` (with its lines), `call` | `AskX` is the request, `ReadX` and `SaveX` the awaits of `create`, `post`, `reverse`, `close`, `reopen`; `InsertPosted`, `SaveLine`, `SaveLink` those of `generateJournalFromMovement` |
| `PaymentApproval` | `instr`, `call` | `AskX` reads and checks, `Approve`, `Cancel`, `Execute` update; `Reject` reads nothing; `Settle`, `SettleNext`, `SettleEnd` are the batch |
| `Payroll` | `batch`, `call` | `Ask`, `Save`; `Fire` and `Complete` are the timer's callback |
| `WebhookDelivery` | `sub`, `log`, `timer`, `worker`, `sends`, `replays`, `deletes` | the steps of `triggerWebhook`, `deliverWebhook`, `scheduleRetry`, `replayFromDeadLetter`; `Crash` and `Die` empty the timers |
| `RetailTransfers` | `transfer`, `call`, `today`, `serial` | `Ask`, `Save`, `Finish` (the second save of an execution), `SaveFailed` (its catch), `ProcessDue` |
| `RetailAccounts` | `account`, `call` (with `seen`, a history: what had been saved when the call read) | `AskX`, `Save`, `TimePasses` |
| `LoyaltyPoints` | `enrollment`, `item`, `call`, `serial` | `Record`, `SaveEnrollment`, `SaveItem` are the three saves |
| `StockMovements` | `level`, `call`, `serial` | `Record`, then `ReadLevel` and `SaveLevel` for each warehouse |
| `Credentials` | `user`, `otp`, `credential`, `login`, `history`, `serial` | `Register`, `InsertUser`, `SendOtp`; `VerifyOtp`, `Activate`, `ForgetOtp`; `Login`, then `CountFailure`, or `ClearFailures` and `StampUser`; `SetPassword`, `InsertPassword`; `ChangePassword`, `SavePassword`; `Expire` is Redis |
| `BackupCodes` | `factor`, `verifier`, `drawn`, `handed`, `used`, `serial` | `Setup`, `Toggle`, `Generate`, `FindFactor`, `Verify`, `Save` |
| `StatusRows` | `kind`, `serial`, `row`, `call`, `made` | `Begin` and `Create` insert; `Read` reads and decides; `Find` and `PutAside` are a second row; `Save` writes; `Insert` adds a successor; `Fail` |

Of `Credentials` and `BackupCodes` the state beside the rows is history: which
password was set last, how many logins were wrong, which codes were drawn,
handed out and accepted. No action's guard or effect on a row reads it, but for
the bound `MaxWrong`, for `drawn`, which makes drawn codes new ones, and for
`SignedIn`, which stands for the token that the first verified code issues.

Some operations of these modules have no route yet, and are modelled because they are
the service's interface: `modifyTransfer` of the transfers, `checkDormancy`,
`updateActivity` and `chargeMonthlyFee` of the retail accounts, `earn` and `redeem` of
`PointTransactionService`.

### Rows with a status

A row is `[status, has]`: the value of its status column (or what its flags and
dates amount to) and the *facts* its other columns hold, such as `approvedAt`
being set. A kind of row is a `Machine`: the statuses of the column, the methods
that insert rows, the other methods, and what the statuses promise.

    Step("closeAccount", BusinessAccounts, "closed", {"closedAt"})

says that `closeAccount` takes a row in any of the statuses and saves its copy
with the status `closed` and the date set. What else a method does is said by a
word around the step:

| Word | The method |
|---|---|
| `Needing`, `Lacking` | refuses rows without the facts, or with one of them |
| `Dropping` | sets columns to null or false |
| `Same`, `Deleted` | leaves the status, deletes the row |
| `Through` | saves the row in a status before, in an await of its own |
| `ByColumns` | is a `repo.update` (or query builder) that writes columns of the row as it is |
| `WhereStill` | the same, with its condition in the WHERE |
| `OnAll` | reads every row that passes and saves one after the other |
| `Inserting` | reads its row and inserts another |
| `Unless` | looks for a row in some status first, and refuses when there is one |
| `Aside` | takes another row out of a status first |
| `ToEach` | has the status as an argument |

`Called` keeps the methods that a controller, a job or another service calls; a
method nobody calls is in the steps and not among the calls. A `Promise(in, given,
has, made)` is what anybody who sees the status relies on: a row in one of `in`
with the facts `given` has the facts `has`, and the methods `made` were accepted
on it. The promises are those that each method keeps if it has the table to
itself: TLC evaluates that (`KeepsPromises`), so a promise that a single method
breaks is an error of the table, and the runs and the proof say what becomes of
the others when copies are stale. It evaluates two more things of each method alone:
that none leaves a final status (`KeepsFinal`), and that a method that brings a row into a
status that is to be unique takes one row only and looks for another one first, to refuse
or to put it elsewhere (`KeepsOne`). `Ending` names the statuses that no method
leaves; `OneIn` the statuses that one row at most should be in, because a method
looks for such a row before it makes one.

Facts are kept only where a promise, a check or a later method reads them. A
refused call changes nothing and is left out. Request bodies typed `any` or
`Partial<...>` are taken to name neither an id nor a column that the service
sets itself.

## 3. What the runs check

| Run | Instance | What it shows |
|---|---|---|
| `ledger_safety` | 2 accounts, 2 users, 2 requests, pool of 3, whole cents, failures, deadlocks, crashes | nothing `deposit` and `transfer` checked goes stale; no update is lost; transfers have both sides; whoever sees a movement was notified; answers are true; `LedgerAccounts` implements `AtomicBank` |
| `ledger_fair` | the same with 1 user, amounts of a cent and a half, fairness | every request is answered, deadlocks included, with more connections than requests; rounding creates at most a cent per transfer and loses none |
| `ledger_pool` | pool of 2 | two transfers hold both connections and wait for a third: `EveryRequestAnswered` is violated |
| `journal_safety` | 1 period, 4 entries, 3 calls, lines of a cent and a half, of two half cents, and lines that do not balance | reversals mirror their originals, whatever is called reversed has its reversal, rounding puts an entry out of balance by half a cent a line and a reversal not at all, and only entries made of stock movements are ever half written |
| `journal_reversed_twice` | 3 entries, 2 calls | two reversals of one entry both go through: `ReversedOnce` is violated |
| `business_safety` | payments and payroll: 2 rows, 4 calls; webhooks: 2 events, 2 workers, up to 2 retries, 1 replay, with and without deletion; failures and crashes | approval levels are earned, an answered batch is whole, executions were validated, an event is never sent more often than asked |
| `business_fair` | 3 payroll calls; webhooks whose subscription stays or is deleted; no failures, fairness | executions end but for a stale save; a pending event has a timer or a worker unless it was replayed after the deletion; with a subscription that stays pending events are resolved, also after the statistics overflow |
| `payment_sent_twice` | 2 instructions, 3 calls | `SentOnce` is violated |
| `retail_safety` | transfers: 2 rows, 3 calls; accounts, passwords and codes: 2 rows, 2 calls, 2 passwords, up to 3 wrong ones, 4 backup codes; overlapping and not, failures | overlapping: a closed account is dated, a fee is lost only where its charge overlapped another call, an executed or cancelled transfer is executed again only after a modification, a credential is locked only after that many wrong passwords; serial: one execution, completed or cancelled but not both, wrong passwords are counted, the last password is the one that logs in, one-time and backup codes work once |
| `codes_revived` | the backup codes of `retail_safety`, overlapping | a verification beside a regeneration stores the old list again: `OldCodesAreInvalid` is violated |
| `sales_safety` | points: 2 customers, 2 enrollments, 4 calls, one reward; goods: 2 warehouses, 2 overlapping calls or 3 in turn; failures | overlapping: no balance of points is negative; serial: balances are what the transactions settled, rewards stay within their stock, levels are what was moved, nothing is oversold |
| `records_safety` | each of the 126 kinds: 2 calls, 1 row, or 2 where a limit or a successor is in play, overlapping and not, failures | overlapping: every status keeps its promises; serial: final statuses are final, one row at most in a status that is to be unique |

Deadlock is checked for the ledger, where an answered request stays answered
(`Done`). The other specifications stop when all calls are used up, so their
cfgs say `CHECK_DEADLOCK FALSE`.

### Why the bounds are enough

- A lost update, a double execution and a stale check take two calls on one row;
  a third call lets what they leave behind be used, a fourth lets somebody make
  the row it needs (an enrollment and its points before two redemptions). Two
  rows are needed where a call works on two of them (a transfer of money or of
  goods, a settlement or a dormancy check) or where one row must not disturb the
  other. For retail accounts two calls are enough: that two stale copies, or a stale
  copy after any history, do no harm to closing dates is proved for any number.
- Amounts: one whole cent and one of a cent and a half tell apart all the outcomes of
  rounding; two debits of half a cent against a credit of one are the shortest lines
  that balance when they arrive and not once they are stored; 1000000 and 1000001 are
  the last amount of two levels and the first of three. A reward costs one point and
  there is one of it. Quantities 2 and 3 let a sale be one short.
- `MaxFailures` is 2 for the code's 5 and `PerList` 2 for its 8: one failure before
  the last one, and one code that stays when another is spent. `MaxWrong` is one
  more than it takes to lock. `Codes` lets a list be regenerated once.
- In `records_safety` a row that no other can disturb is alone. Where a method
  counts or replaces rows two are created (`Rooms`). A call is followed by any
  number of others, so two calls at a time are two stale copies at a time, after
  any history; for more than two there is the proof. `Tables` and `Machines` are
  constants because TLC evaluates the value of a constant once.
- `Widest` stands for the largest number a `bigint` or `numeric(18,2)` column
  holds. It is small so that concatenated totals overflow within the bound.
- `Retries` up to 2 and one replay reach every branch of the retry bookkeeping;
  a second replay repeats the first one.
- Ids are never reused: an exhausted set of ids only means that nothing more is
  created.
- Symmetry permutes ids that are only compared for equality (rows, calls; not
  passwords and codes, whose number is small). Runs with liveness use none.

### Fairness

`LedgerAccounts!FairSpec` asks weak fairness of every request's `Progress`: the
event loop runs the continuation of a query that has answered, PostgreSQL serves
a query whose lock is free, the pool hands out a free connection, and the
deadlock detector ends a cycle. It asks nothing of `Arrive`, `Fail` and
`Crash`. `Payroll!Fairness` and `WebhookDelivery!Fairness` ask that the database
answers the query a call waits for, and that the event loop runs due timers
(`setTimeout` in `payroll.service.ts` line 77 and `webhook.service.ts` line 87).
These hold for a process that lives and a database that answers, so the fair
runs have neither failures nor crashes: a crash does lose timers for good.

## 4. What is proved

Every safety invariant and every action property that a passing run checks is proved,
for every value of the constants that the named assumptions admit: any number of rows,
requests and calls, in any order, with and without failures. The runs show the same
formulas on small instances. Those of the serial properties whose proof adds little to
what serving one call at a time gives are lemmas, the rest are theorems. The theorems
and their invariants, module by module:

### The accounts: `LedgerAccountsProofs`

- `TypeCorrect` (`TypeOK`). A balance is a natural number, so no interleaving overdraws
  an account.
- `CopiesNeverStale` (`FreshCopies`). From its `findOne` to its COMMIT a transaction's
  copies of balances, and what it checked of status and owner, are those of the table.
- `ImplementsBank`: `Spec => BankSpec`. The service implements `AtomicBank`; the
  refinement mapping is the identity on the two tables.
- `NoUpdateIsLost` (`HistoryExplainsBalance`), `TransfersAreWhole` (`TransfersPaired`),
  `ToldBeforeVisible` (`NotifiedBeforeVisible`), `AnswersAreTrue`
  (`AnswersTellTheTruth`), `MoneyIsAccounted` (`MoneyAccounted`).

Three invariants stand on each other. `IInv == TypeOK /\ Shape /\ FreshCopies`:
`FreshCopies` is not inductive alone, as that `Commit` finds the accounts it writes under
its own locks needs to know which operation stands at which program counter, and this is
`Shape`. Most actions touch one request or one lock, so their lemmas rest on
`FreshFrame`: what request `q` knows stays true in a step that changes neither `q` nor
the rows `q` has locked. For `ImplementsBank`, `Commit` is the only step that is not a
stutter or an `Open` or a `SetStatus`; with the copies fresh it is a `Deposit` or a
`Transfer` on the balances of that moment.

`Books` says what a row of the history tells: whose request it is and what that asked
for (`OnlyWhatWasAsked`), that a request is booked once per account and on both accounts
or on none, that an ok is the answer of a commit and a refusal that of none, and that a
transaction that is about to commit has told its sender and its receiver (`Told`).
`Accounted` adds up: the balances less the deposits are what rounding added. It uses the
refinement: a step appends nothing, one deposit, or the two sides of one transfer, and
each of the three sums moves by what its one or two accounts moved (`TotalOneMoved`,
`TotalTwoMoved`).

Assumptions: amounts are at least one cent (`AmountsAssumption`, the DTOs' minimum), the
null values are no ids, the pool has a connection, and finitely many requests were made
and accounts opened (`FiniteInstance`; a sum needs it). They are named where the
constants are declared and evaluated by every run of the ledger.

### Sums: `SumTheorems`

`MoneyAccounted`, `BalanceIsSettled`, `OnHandIsMoved` and `NeverOversold` sum over sets
with `MapThenSumSet`, a fold that takes one element after the other by `CHOOSE`. What
such a sum is cannot be shown by an induction theorem of the library, whose predicate no
installed prover can instantiate. `SumTheorems` argues by a smallest counterexample
instead: if a fact fails for some finite subset, it fails for one all of whose proper
subsets satisfy it (`SmallestSubset`), and the fold takes one element off that one. So it
is shown that a sum exists and is an integer, does not depend on the order
(`SumsTake`), agrees for weights that agree, and moves by what one or two of its weights
move.

### The journal: `GeneralLedgerProofs`

- `ReversedHasReversal` (`ReversedIsBacked`), `ReversalIsMirror` (`ReversalsMirror`),
  `JournalTypeCorrect` (`TypeOK`), for any lines of natural numbers.
- `RoundingIsBounded` (`RoundingDoesNotCompound`), `UnbalancedIsHalfWritten`
  (`HalfWrittenOnlyByInventory`), for lines of any amounts, in fractions of a cent.

The first two are not inductive: what `reverse()` saves in the end depends on what it
read and made many steps before. `CallSound` says what each call knows where it waits:
before the insertion the lines of a reversal are those of its original, swapped, and in
`saveOriginal` the reversal is there, names the original and is no draft. It stays true
because nothing takes it back: `Grows` says what a step does to no entry (take it away,
change its lines or what it reverses, make it a draft again), every action is shown to
be such a step, and `CallStays` and `RowStays` carry over what was known. That a mirror
survives the rounding of `numeric(18,2)` rests on two facts about lines: rounding twice
is rounding once, and it commutes with swapping (`StoredType`, `SwappedType`).

For the other two the invariant is `BalanceIInv`. An entry of a client is out of balance
by half a cent a line at most, and a reversal by nothing: `reverse()` reads lines that are
in cents, and rounds nothing that it has compared. An entry of a stock movement that does
not balance has a call that still writes its lines, or gave up doing so; that call is the
only one that writes them, and what is stored with what it has still to store balances
(`CarriesBalance`), so the last line restores the balance. `Debits` and `Credits` are
folds over sequences, which take the lines from the last one (`FromTheLast`); how they
move when a line is appended or rounded, and that they swap places in a reversal, is shown
by a smallest counterexample as well. That entries balance to the cent once they are
stored is false, as section 6 says of `StoredLinesBalance`.

### Business customers: `BusinessProofs`

- `LevelsEarned` (`LevelsAreEarned`), `BatchIsWhole` (`AnsweredBatchIsWhole`),
  `NothingExecutedUnvalidated` (`ExecutionWasValidated`), `SentAsAsked`
  (`SentAsOftenAsAsked`), `NothingPendsUnattended` (`PendingIsAttended`),
  `BusinessTypeCorrect` (`TypeOK`).

Payments: with `N(i)` the number of approvals of `i` that went through, a row's level is
at most `N(i) + 1` and an approved row had enough of them (`PayEarned`); the same holds of
the level in every copy. Approvals only become more (`ApprovalsGrow`), and the one that
saves a copy adds one (`ApprovalCounts`), so a copy that is too old by any number of
approvals writes back a level that was earned. For batches `PayShape` keeps that what was
found is what was sent, what is still to be sent and what is being sent.

Payroll: every save writes a copy that may be old, so `RollIInv` says of the copies what
it says of the rows (`AllEarned`): a row, wherever it is, that tells of a validation or
an execution tells of one that was made. What was made stays made (`MadeStays`), so an
old copy is still true about the past, and this is why the property survives the stale
saves of section 6 that break `CompletedIsValidated`.

Webhooks: `SentAsOftenAsAsked` is nearly inductive; what it lacks is that an event
without a log has not been sent, and has no timer (`Located`). Each action passes a
license to send from a worker to a timer or to the endpoint and makes none up
(`Bounded`). For `PendingIsAttended` the same license is followed the other way: an
event that is pending has it somewhere, unless the worker that would have passed it on
found no subscription, which takes a deletion and a replay (`Care`). What a worker knows
of its event where it waits (`WorkerCare`) is carried past the steps of the other
workers: a worker that writes the log after a delivery finds an event that is not
pending or was replayed; and as long as nothing is deleted a replay takes a dead letter,
which takes a subscription of one attempt (`EventCare`), where no worker saves an older
attempt over the replay. The workers and the calls of the payments are finitely many, as
they are counted.

### Retail customers: `RetailProofs` and `SecretsProofs`

- `RevivalNeedsModification` (`RevivedOnlyIfModified`), `ClosingIsDated`
  (`ClosedIsDated`), `FeesAreLostByOverlap` (`FeesLostOnlyByOverlap`) and
  `LocksAreEarned` (`LockIsEarned`), however calls overlap, and `RetailTypeCorrect`
  (`TypeOK`).
- `FailuresAreCounted` (`FailuresCounted`) and `SecretsAreUsedOnce` (`SecretsUsedOnce`),
  for calls that wait for each other; likewise the lemmas `TransfersExecutedOnce`
  (`ExecutedOnce`), `CompletedOrCancelledHolds` (`CompletedOrCancelled`) and
  `LastPasswordLogsIn` (`PasswordIsLastSet`).

Transfers: a transfer that was executed or cancelled is pending only when a modification
that ended says so (`PendingEarned`), and a call that is not free has read its transfer
when it was there. With calls in turn the copy of the working call is the row, and no row
that was executed is pending (`OneAtATime`).

Accounts: rows and copies alike are closed only with their date, and dated only if a call
that may close them was accepted; what was asked for stays asked for. For fees the
invariant bounds every balance, the row's and each copy's (`Accounted`): it misses at most
one unit for each charge it can know of, and exactly one for each unless two calls
overlapped. A copy knows of what its call had `seen`; when it is saved, either that is
everything that was saved since, and the copy's account is the row's, or something was
saved in between, and the two overlap.

Passwords: rows and copies count no more failures than there were wrong passwords, and a
call that is about to count one more has it counted in the history already
(`SigningIInv`): stale saves lose failures, but never make one up. With calls in turn
(`LoginsInTurn`) what a call holds is up to date but for what it is about to write.

Codes: with calls in turn the codes in a list, and those in the copy of a call less the
one it is spending, were handed out and not used (`CodesInTurn`).

### Points and goods: `SalesProofs`

- `SalesTypeCorrect` (`TypeOK`), however calls overlap: a balance is a natural number, as
  the copy that a call settles covers what is taken from it. A race may give points back
  but never takes more than the copy had.
- `BalancesAreSettled` (`BalanceIsSettled`), `RewardsStayWithinStock`
  (`RewardsWithinStock`), `GoodsAreMoved` (`OnHandIsMoved`) and `NothingIsOversold`
  (`NeverOversold`), for calls that wait for each other.

For rewards, what was handed out and what the row has left are the stock
(`RewardsCounted`). For points and goods the invariants sum a gain over all calls, the
calls that brought nothing included (`BalancesSettled`, `LevelsExplained`), so that a step
of one call changes one term. That nothing is oversold needs more than the levels of now:
what is on hand must also cover what the call under way has still to take, and a transfer
takes from one warehouse before it gives to the other, so its changes are for two
warehouses (`Short`).

### Rows with a status: `StatusRowsProofs`

- `StatusKeepsPromises` (`PromisesKept`), `TypeCorrect` (`TypeOK`), however calls overlap.
- The lemmas `FinalStaysFinal` (`FinalWhenSerial`) and `OneAtATime` (`OneWhenSerial`), for
  calls that wait for each other: they carry what `MachinesAssumption` says of one method
  over to sequences of calls with failures.

`MachinesAssumption` is about one method and one row at a time, so TLC decides it for
the 126 kinds when it starts. The theorems carry it over to any number of rows and of
overlapping calls. The argument is that of the payroll made general: promises speak of
the row and of `made`, which only grows, so a copy that kept them when it was read keeps
them for good (`KeptGrows`), and writing it back, stale as it is, leaves a row that keeps
them (`MethodKeeps`, `AsideKeeps`). The inductive invariant `IInv` says so of rows
(`RowsSound`) and of the copies of calls (`CallsSound`): a call's method still accepts
its copies (`Ready`), also between two saves of one method (`NextReady`), and its
acceptance is noted. Updates of columns are the exception, as they meet a row that
nobody checked: for them the assumption demands the promises on every row.

For final statuses the invariant grows by `SerialInv`: when calls wait for each other, at
most one is busy, and what it has not saved yet is still what it read. For unique ones it
grows by `OneInv`: once the only call has looked, the rows in such a status are among
those it holds, of which there is one that it saves and one that it puts aside first
(`Alone`). `KeepsOne` of the assumption says that the methods do look.

### What is only model-checked

- Liveness (`EveryRequestAnswered`, `ExecutionEndsUnlessRevived`, `PendingIsResolved`): it
  rests on fairness and `ENABLED`, which the prover does not handle.
- The properties that TLC refutes (section 6) have counterexamples instead.
- That the tables satisfy `MachinesAssumption`: TLC evaluates it for each of the 126 kinds.

## 5. What is not modelled

`PROJECT.json` gives the status and the reason of each component. In short:

- Parts that insert and query, and compute figures from what they were given: the
  reports, dashboards, scores, forecasts, capital and liquidity ratios, currency
  translation, valuations, the data catalogue, quality rules and masking, tax
  calculation, the forensic record, exchange rates. Nothing in them depends on what
  another call did.
- Sums of floating-point numbers: amortisation, interest, escrow, projected cash. What
  interest accrual and charge-off do to statuses is in `LendingTables`.
- Rows that nothing can insert, so that no method on them is ever accepted: vault
  movements (`movement_number` is required and never set), tax declarations, privacy
  breaches, access reviews and recovery tickets (their uuid columns get other text),
  sessions and device trust in `identity`, incidents and alerts in `soc`, the
  suggestions and recurring entries of `accounting-ai`.
- Rows whose status promises nothing, because any value may be assigned at any time
  and nothing looks at it: letters of credit (`amend`), projects, the controls,
  rewards and products of cards, feature flags, segments of a catalogue, warehouses
  and items, profiles, passkeys.
- Stubs: the end of day of a branch, the developer portal.

Abstracted in what is modelled: in the rows with a status every column but those that
a promise, a check or a later method reads; everywhere texts, references, metadata and
who did it; time, except where a date decides (`today`, `idle`, `date`); costs of
goods; accounts and segments of journal lines; lists and lookups, which change no
state. Amounts and quantities are the positive ones; the DTOs of points and goods
would also let negative ones through, which would turn an earning into a spending.

## 6. Where the code departs

Each of these is a property stated in a module that TLC refutes, and that no
listed run checks for that reason (where a run does check it, the run serves one
call at a time). Two entries that name a method and no property say what no property
covers. A cfg of the module with that one property reproduces it: two or
three calls on one row suffice.

- `StoredLinesBalance` (ledger/services/journal-entry.service.ts:32): create() compares
  the sums of the lines as they arrive and stores them in numeric(18,2) columns, each
  rounded on its own: two debits of 0.005 against a credit of 0.01 pass and are stored
  as 0.02 against 0.01. The message at
  src/src/modules/ledger/services/journal-entry.service.ts:34 calls that a 'Double-entry
  violation'.
- post() (ledger/services/journal-entry.service.ts:137) saves the entry it read as a
  draft: one that was posted and reversed meanwhile is posted again, and has a reversal
  all the same. `ReversedIsBacked` speaks only of what is called reversed.
- `PostedBalances` (ledger/services/inventory-journal.service.ts:131): the entry is
  saved with status POSTED and 'is_balanced: true'
  (src/src/modules/ledger/services/inventory-journal.service.ts:123) before its lines,
  which are saved one by one without a transaction: after the first line, and for ever
  if the second save fails, the posted entry is unbalanced.
- `EveryReversalMirrors` (ledger/services/journal-entry.service.ts:146): reverse() reads
  the lines of a POSTED entry that generateJournalFromMovement has not written yet; an
  empty list balances, so an empty reversal is created and posted and the original
  called reversed. The test at
  src/src/modules/ledger/services/journal-entry.service.spec.ts:180 says 'should create
  reversal entry with swapped debit/credit'.
- `LockedTakesNone` (ledger/services/journal-entry.service.ts:38): create() reads the
  period before its transaction and never again; close() may run in between, and the
  entry is inserted although 'Period ... is locked'
  (src/src/modules/ledger/services/journal-entry.service.ts:43).
- `PermanentIsFinal` (ledger/services/fiscal-period.service.ts:64): close() saves the
  row it read: a close that read OPEN overwrites a permanent close made meanwhile, and
  the period can then be reopened although it 'is permanently closed and cannot be
  reopened' (src/src/modules/ledger/services/fiscal-period.service.ts:73).
- `AllLevelsApproved` (payments/services/payment-instruction.service.ts:67): the level
  starts at 1 and approve() compares the incremented level with the total, so n levels
  need only n-1 approvals: the first approval of a payment over 100000 already approves
  it, although the test
  src/src/modules/payments/services/payment-instruction.service.spec.ts:52 says 'should
  set 2 approval levels for amounts > 100000'.
- `ExecutionNotCancelled` (payments/services/payment-instruction.service.ts:89):
  cancel() checks its copy of the status; an execution in between is overwritten,
  although 'Cannot cancel instruction already in execution'
  (src/src/modules/payments/services/payment-instruction.service.ts:90).
- `ApprovalAppends` (payments/services/payment-instruction.service.ts:75): approve()
  writes the history of its copy with one entry more, so it erases what other calls
  appended since, although the test
  src/src/modules/payments/services/payment-instruction.service.spec.ts:142 says 'should
  append to statusHistory'.
- `PendingIsResolved` (webhooks/services/webhook.service.ts:168): the comment says
  'Reset to pending and retry'
  (src/src/modules/webhooks/services/webhook.service.ts:168), but the subscription is
  looked up after the reset: if it was deleted no delivery is started, and the event
  stays PENDING, out of the dead letter queue, for ever.
- `StatsCount` (webhooks/services/webhook.service.ts:115): totalDeliveries is a bigint
  column (src/src/modules/webhooks/entities/webhook-subscription.entity.ts:42), which
  the driver returns as a string, so += 1 appends the digit 1: the comment at
  src/src/modules/webhooks/services/webhook.service.ts:112 says 'Update subscription
  stats', and the count goes 1, 11, 111.
- `DeliveredIsFinal` (webhooks/services/webhook.service.ts:118): the statistics are
  saved inside the try of the delivery; after twenty deliveries the concatenated counter
  does not fit its bigint column, the save throws, and an event whose 'status:
  DELIVERED' is already saved becomes FAILED and possibly DEAD_LETTER, although the
  catch is for the simulated HTTP request ('Simulate HTTP request',
  src/src/modules/webhooks/services/webhook.service.ts:99).
- `DeletedIsGone` (webhooks/services/webhook.service.ts:118): save() of a subscription
  read before its deletion inserts the row again, active:
  src/src/modules/webhooks/controllers/webhook.controller.ts:39 says 'Delete webhook
  subscription'.
- `ExecutionEnds` (business-banking/services/payroll.service.ts:60): validateBatch()
  saves the whole row it read: if that was in execution and has been completed since,
  the batch is in execution again and no timer is left to complete it, although the
  execution is simulated as one that succeeds ('Para demo, simulamos ejecución exitosa',
  src/src/modules/business-banking/services/payroll.service.ts:76).
- `CompletedNotCancelled` (business-banking/services/payroll.service.ts:107):
  cancelBatch() checks the copy it read and saves later; a batch the timer completed in
  between becomes failed, although 'Cannot cancel completed batch'
  (src/src/modules/business-banking/services/payroll.service.ts:108).
- `CancelledNotCompleted` (business-banking/services/payroll.service.ts:80): the timer
  completes the batch whatever its status: a batch cancelled within the second becomes
  completed, although
  src/src/modules/business-banking/controllers/payroll.controller.ts:42 says 'Cancelar
  batch'.
- `CompletedIsValidated` (business-banking/services/payroll.service.ts:112): a
  cancellation that read the batch before its validation saves it as not validated after
  its execution started; the timer then completes a batch that is not validated,
  although 'Batch must be validated before execution'
  (src/src/modules/business-banking/services/payroll.service.ts:69).
- `ValidatedIsAhead` (business-banking/services/payroll.service.ts:53): effectiveDate is
  a date column, which TypeORM returns as a string; a string compared with a Date is NaN
  against a number, so the check never refuses, although 'Effective date must be in the
  future' (src/src/modules/business-banking/services/payroll.service.ts:54).
- `ExecutedOnce` (retail-banking/services/transfer.service.ts:45): executeTransfer()
  checks the status of its copy and saves later: two calls that both read 'pending' both
  complete the transfer, although 'Transfer ${id} is not pending'
  (src/src/modules/retail-banking/services/transfer.service.ts:46).
- `CompletedOrCancelled` (retail-banking/services/transfer.service.ts:72):
  cancelTransfer() saves a copy that may be stale, and executeTransfer() completes its
  copy whatever was saved since it announced the execution: a transfer completed
  meanwhile is cancelled, or one cancelled meanwhile completed, although 'Cannot cancel
  completed transfer' (src/src/modules/retail-banking/services/transfer.service.ts:73).
- `DueIsExecuted` (retail-banking/services/transfer.service.ts:118): nextExecutionDate
  is a date column, which TypeORM returns as a string; compared with a Date it is never
  the smaller, so the batch executes nothing, although
  src/src/modules/retail-banking/controllers/transfer.controller.ts:69 says 'Procesar
  recurrentes vencidas (cron)'. Past that comparison executeTransfer() would refuse it,
  for it is completed and not pending.
- `FrozenNotRevived` (retail-banking/services/retail-account.service.ts:110):
  freezeAccount() leaves dormancyFlag set, and updateActivity() sets every account with
  the flag to ACTIVE: a dormant account frozen for a 'Compliance hold'
  (src/src/modules/retail-banking/services/retail-account.service.ts:85) is released by
  the next activity of the customer.
- `ClosedIsFinal` (retail-banking/services/retail-account.service.ts:60): updateStatus()
  (and unfreezeAccount() through it) takes a closed account back to any status without a
  check, and a stale copy saved by any call does the same, although closeAccount()
  treats closing as final: 'Account ${accountId} is already closed'
  (src/src/modules/retail-banking/services/retail-account.service.ts:72).
- closeAccount() (retail-banking/services/retail-account.service.ts:71) checks the copy
  that it saves: two overlapping closings both pass and the later date stays, although
  'Account ${accountId} is already closed' (line 72).
- `FeesAreTaken` (retail-banking/services/retail-account.service.ts:138):
  chargeMonthlyFee() subtracts the fee from its copy of the balance and saves the row:
  of two overlapping charges one is lost, and any other call that saves an older copy
  takes one back, although both answer 'fee: waived ? 0 :
  Number(account.monthlyFee)'
  (src/src/modules/retail-banking/services/retail-account.service.ts:142).
- `LifetimeIsSum` (loyalty/services/redemption.service.ts:77): pointsRequired is a
  numeric column
  (src/src/modules/loyalty/entities/loyalty-redemption-catalog.entity.ts:32), which the
  driver returns as a string, so + appends its digits to the lifetime total; redeem() of
  PointTransactionService, which has a number, adds.
- `RecordedIsSettled` (loyalty/services/redemption.service.ts:78): once the appended
  total no longer fits numeric(18,2) the enrollment cannot be saved: the transaction is
  on record and the balance is not reduced, although the comment says 'Actualizar
  balance de puntos' (src/src/modules/loyalty/services/redemption.service.ts:75).
- `EnrolledOnce` (loyalty/services/enrollment.service.ts:21): enroll() looks for an
  enrollment and inserts one later, without a unique index: two overlapping calls enrol
  a customer twice, although 'Customer already enrolled'
  (src/src/modules/loyalty/services/enrollment.service.ts:26).
- `BalanceIsSettled` (loyalty/services/redemption.service.ts:76): a balance is saved
  from a copy: of two overlapping redemptions one is not taken from it, and points are
  spent twice, although 'Puntos insuficientes'
  (src/src/modules/loyalty/services/redemption.service.ts:58).
- `RewardsWithinStock` (loyalty/services/redemption.service.ts:84): the stock is checked
  on the copy that is saved at the end: two overlapping redemptions both hand out the
  last reward, although 'Agotado'
  (src/src/modules/loyalty/services/redemption.service.ts:49).
- `OnHandIsMoved` (smb-inventory/services/stock-movement.service.ts:206):
  updateStockLevel() saves the level it read: of two overlapping movements one is lost
  on the level while both are on record. Two first movements of an item both insert its
  level (`:168`): the second violates the unique index after its movement was recorded.
- `NeverOversold` (smb-inventory/services/stock-movement.service.ts:82): the level is
  checked in one statement and reduced in a later one, from a fresh copy: two
  overlapping sales of the last piece leave less than nothing on hand, although
  'Insufficient stock for sale'
  (src/src/modules/smb-inventory/services/stock-movement.service.ts:83).

The runs `ledger_pool`, `journal_reversed_twice`, `payment_sent_twice` and
`codes_revived` show four more, which `PROJECT.json` lists as findings.

For passwords, the one-time code and backup codes `retail_safety` checks one call at a
time what overlapping calls break:

- `FailuresCounted`, `PasswordIsLastSet` (identity/services/identity.service.ts): two
  wrong logins that overlap count as one; a login that read its credentials before a
  change of the password saves them with the user and brings the old password back.
  `lockedUntil` is written and never read, and a right login does not clear it. Two
  overlapping `setPassword` calls insert two passwords, of which a login takes any.
- `SecretsUsedOnce`: two overlapping `verifyOtp` calls both issue tokens, and two
  overlapping verifications accept one backup code twice. After a crash between the
  saved user and the code in Redis the phone number is taken and no code arrives.
- A disabled factor still accepts backup codes, and `setupMfaFactor` with the type
  BACKUP_CODE inserts a second factor; the codes then depend on which row is found.

While the tables were written the following showed in the code. No run is devoted to
them: many are the effect of one method alone, and the tables take them as they are (a
promise that the method breaks is not in its table).

*Stale copies undo a decision.* A row is saved after somebody else moved it, which takes
it out of a final status as well (`FinalWhenSerial` without `serial`):
correspondents (`correspondent-compliance.service.ts:16`: `screenCorrespondent`
re-activates a deactivated one), collected premiums (`premium.service.ts:44`),
deactivated sub-ledger rules (`sub-ledger.service.ts:133`), posted sub-ledger entries
(`:207`), sweep rules (`sweep.service.ts:51`), owners whose match is wiped by
`verifyKyc` (`ubo.service.ts:50`), charge-offs undone by an accrual, retention
schedules (`retention.service.ts:96` against `:106`), deleted chat messages
(`chat.service.ts:319`), the kill switch (`change-management.service.ts:316`) against
a rollout, closed drawers, suspended tenants, deleted retail alerts that are inserted
again, netting cancelled while it is posted (`netting.service.ts:67`).

*Look, then insert.* Two of what should be one (`OneWhenSerial` without `serial`):
published versions (`policy-version.service.ts:66`), granted consents, open drawers,
direct conversations, active signatories when the row that is found is a removed one.

*A status that is not looked at.* `disburseLoan` (`loan.service.ts:24`) takes an
application in any status and as often as it is called; a claim that was paid can be
assigned and paid again; a voided check can be paid and a paid one paid again
(`positive-pay.service.ts:45`); a dispute is resolved twice; `unblockCard`
(`card.service.ts:86`) activates a card that never was, and revives a lost or closed
one; `renewCard` (`:114`) leaves a card renewed without a successor; a withdrawn
deposit can be renewed, and `renewCd` (`deposit-product.service.ts:82`) leaves the old
certificate active beside the new one; a teller's confirmation completes voided and
reversed transactions; `send` (`smb-invoice.service.ts:49`) issues a paid invoice
again; a closed business account is opened by `updateStatus` and `unfreezeAccount`; a
cancelled insurance policy is revived by its renewal; eliminated entries can be
matched (`elimination-engine.service.ts:131`); `activateToken` of a wallet
(`wallet.service.ts:55`) revives a revoked token; `reviewDpia` (`dpia.service.ts:133`)
approves a high risk without the officer's opinion; `reverseStressTest`
(`stress-test.service.ts:96`) moves a test of any status to reviewed; a margin call
can be resolved before it is acknowledged; scanning a QR code overwrites that it
expired; `flagGiftsAboveThreshold` (`ethics.service.ts:209`) overwrites approvals;
UBOs with a sanctions match are verified; exemptions from tax are verified and
activated in any status; a fulfilled encumbrance is cancelled.

*One step of several.* A stress test whose run fails stays running; a list whose
synchronisation dies stays syncing; an insurance policy, its schedule and its
commission are three saves; `createInvoiceWithItems`
(`smb-inventory-invoice.service.ts:33`) moves stock item by item; a charge-off saves
the loan, then its installments one by one; `implementChange` and `rollbackChange`
switch the flag before the change request says so; a file's object is removed before
its row; a conversation is saved before its participants; `rollback` of a governance
policy archives the old one and then fails on the unique name.

*Calls that never succeed, columns that never change.* The enum of governance policies
lacks the statuses that `activate`, `deactivate` and `canaryRollout` write;
`registerAccess` (`safe-deposit.service.ts:58`) stores a uuid in a `timestamptz`; a
field set to `undefined` is not saved, so a returned safe box keeps its customer and a
night deposit its date; a removed participant cannot be added again, nor a revoked
role assigned; `replaceCard` (`card.service.ts:135`) succeeds once; sub-ledger entries
whose debit and credit differ never post, as their texts are compared;
`processPayment` of a loan (`loan.service.ts:111`) throws on a date that arrives as a
string.

*Texts added as numbers.* Extra payments of loans (`loan.service.ts:131`), points of
cards (`rewards.service.ts:39`), sweeps, amortised periods
(`accruals.service.ts:101`), encumbrances and payments of invoices concatenate: an
encumbrance is fulfilled only when its amount is nothing.

## 7. Plan

Modelled so far: money and documents with a life of their own first (customer accounts,
general ledger, payments, payroll, webhooks, retail banking, points, goods), then the
rows with a status, then passwords and codes. What is left, in the order of what it
would show:

1. Amounts beside statuses, where a total in one row is the sum of others: invoices and
   their payments, loans and their installments, cash between a drawer and its
   transactions, budgets and their encumbrances.
2. Pure algorithms against reference definitions: netting and matching, valuation of
   stock (first in first out, average), tax rates by date, the schedule of a loan in
   integers.
3. Methods that work on rows of two kinds (the flag and the change request, the policy
   and its commission), with the state between the two saves as in `GeneralLedger`.

Abstract specifications worth stating: an atomic status machine that `StatusRows`
implements when calls do not overlap, with `serial` telling what they lose; cash as one
total that drawers and vault implement; a lock that opens again only by itself, for the
attempts of a login.

Theorems worth proving: the refinement of the atomic status machine by the serial calls of
`StatusRows`, and of an atomic counter by the serial movements of `StockMovements`; what
does survive of the goods and the points when calls overlap (a level misses at most what
the overlapping movements brought), as `FeesLostOnlyByOverlap` says of fees.
