------------------------------ MODULE Business ------------------------------
(***************************************************************************)
(* What a business customer uses: outgoing payments (PaymentApproval), the *)
(* payroll (Payroll) and the delivery of webhooks (WebhookDelivery).  The  *)
(* three services run in one process beside each other; they share no row  *)
(* and never call each other.                                              *)
(***************************************************************************)
EXTENDS Integers, FiniteSets

CONSTANTS
  Items,          \* the ids of the rows: instructions, batches or events
  Calls, Amounts, \* calls of the payments and of the payroll
  NoEvent, Workers, Retries, MaxReplays, Widest,
  Faulty          \* may queries fail and the process die?

ASSUME FiniteCallsAssumption == IsFiniteSet(Calls)
ASSUME WebhookAssumption ==
  IsFiniteSet(Workers) /\ NoEvent \notin Items /\ Retries \subseteq Nat /\ Widest \in Nat

VARIABLES instr, payCall, batch, rollCall, sub, log, timer, worker, sends, replays, deletes

payVars     == <<instr, payCall>>
payrollVars == <<batch, rollCall>>
hookVars    == <<sub, log, timer, worker, sends, replays, deletes>>
vars        == <<payVars, payrollVars, hookVars>>

Pay   == INSTANCE PaymentApproval WITH Instructions <- Items, call <- payCall
Roll  == INSTANCE Payroll WITH Batches <- Items, call <- rollCall
Hooks == INSTANCE WebhookDelivery WITH Events <- Items, Crashing <- Faulty

Init == Pay!Init /\ Roll!Init /\ Hooks!Init

PaymentStep == Pay!Next /\ UNCHANGED <<payrollVars, hookVars>>
PayrollStep == Roll!Next /\ UNCHANGED <<payVars, hookVars>>
WebhookStep == Hooks!Next /\ UNCHANGED <<payVars, payrollVars>>

Next == PaymentStep \/ PayrollStep \/ WebhookStep

Spec == Init /\ [][Next]_vars

-----------------------------------------------------------------------------
\* Every service keeps the types of its rows, calls and timers.
TypeOK == Pay!TypeOK /\ Roll!TypeOK /\ Hooks!TypeOK

\* approve(): see PaymentApproval.
LevelsAreEarned == Pay!LevelsAreEarned

\* approve() and the three levels of large payments: see PaymentApproval.
LargeNeedsTwoApprovals == Pay!LargeNeedsTwoApprovals

\* processBatch() of the payments: see PaymentApproval.
AnsweredBatchIsWhole == Pay!AnsweredBatchIsWhole

\* execute(): see PaymentApproval.
SentOnce == Pay!SentOnce

\* executeBatch(): see Payroll.
ExecutionWasValidated == Roll!ExecutionWasValidated

\* The timer of executeBatch(): see Payroll.
ExecutionEndsUnlessRevived == Roll!ExecutionEndsUnlessRevived

\* deliverWebhook() and replayFromDeadLetter(): see WebhookDelivery.
SentAsOftenAsAsked == Hooks!SentAsOftenAsAsked

\* The timers against the logs they were set for: see WebhookDelivery.
PendingIsAttended == Hooks!PendingIsAttended

\* The timers of triggerWebhook() and the replay: see WebhookDelivery.
PendingIsResolved == Hooks!PendingIsResolved
=============================================================================
