------------------------------- MODULE Payroll ------------------------------
(***************************************************************************)
(* PayrollService: payroll batches that are validated, executed and        *)
(* cancelled.  Every call reads the batch, decides, and saves the whole    *)
(* row from its copy.  An execution goes on after its answer: a timer      *)
(* reads the batch again and completes it.  Calls are used once; amounts   *)
(* and employees are those the validation accepts.                         *)
(***************************************************************************)
EXTENDS Integers

CONSTANTS
  Batches,   \* batch ids; the bound on how many are created
  Calls,     \* calls of the service
  Faulty     \* may queries fail and the process die?

VARIABLES
  batch,   \* business_payroll_batch: validation, execution and effective date
  call

vars == <<batch, call>>

-----------------------------------------------------------------------------
Dates == {"past", "future"}
Ops   == {"validate", "execute", "cancel"}
NoRow == [validation |-> "none", execution |-> "none", date |-> "future"]
FreeCall == [op |-> "none", pc |-> "free", on |-> {}, row |-> NoRow]

Exists(b) == batch[b] # NoRow
Goto(c, pc) == call' = [call EXCEPT ![c].pc = pc]
Ended(c) == call[c].pc \in {"done", "refused", "failed"}

\* createBatch: the statuses are set whatever the client sends.
Create ==
  /\ \E b \in Batches, d \in Dates :
       /\ ~Exists(b)
       /\ batch' = [batch EXCEPT ![b] =
            [validation |-> "pending", execution |-> "pending", date |-> d]]
  /\ UNCHANGED call

\* A variant: the execution forgets its check.
AcceptedUnchecked(op, row) == op = "cancel" => row.execution # "completed"

\* What a call demands of the row it read.  The effective date is compared as
\* a string with a Date, which is never true: a date in the past passes.
Accepted(op, row) ==
  CASE op = "validate" -> TRUE
    [] op = "execute"  -> row.validation = "validated"
    [] op = "cancel"   -> row.execution # "completed"

Ask(c) ==
  /\ call[c].pc = "free"
  /\ \E b \in Batches, op \in Ops :
       /\ Exists(b)
       /\ call' = [call EXCEPT ![c] =
            [op |-> op, on |-> {b}, row |-> batch[b],
             pc |-> IF Accepted(op, batch[b]) THEN "save" ELSE "refused"]]
  /\ UNCHANGED batch

\* A variant: a cancelled batch is called what the request is called.
ChangedRaw(op, row) == [row EXCEPT !.execution = op]

Changed(op, row) ==
  CASE op = "validate" -> [row EXCEPT !.validation = "validated"]
    [] op = "execute"  -> [row EXCEPT !.execution = "executing"]
    [] op = "cancel"   -> [row EXCEPT !.execution = "failed"]

\* A variant: the timer is not set.
AfterSaveOnly(op) == "done"

AfterSave(op) == IF op = "execute" THEN "timer" ELSE "done"

Save(c) ==
  /\ call[c].pc = "save"
  /\ \E b \in call[c].on :
       batch' = [batch EXCEPT ![b] = Changed(call[c].op, call[c].row)]
  /\ Goto(c, AfterSave(call[c].op))

\* The timer's callback.
Fire(c) ==
  /\ call[c].pc = "timer"
  /\ \E b \in call[c].on :
       call' = [call EXCEPT ![c] =
         [op |-> "execute", on |-> {b}, row |-> batch[b], pc |-> "complete"]]
  /\ UNCHANGED batch

Complete(c) ==
  /\ call[c].pc = "complete"
  /\ \E b \in call[c].on :
       batch' = [batch EXCEPT ![b] = [call[c].row EXCEPT !.execution = "completed"]]
  /\ Goto(c, "done")

\* A query of a request fails.
Fail(c) ==
  /\ Faulty /\ call[c].pc = "save"
  /\ Goto(c, "failed")
  /\ UNCHANGED batch

\* The process dies, or a query of a callback fails, which nobody catches: every
\* call and timer is gone.
Crash ==
  /\ Faulty
  /\ call' = [c \in Calls |->
                IF Ended(c) \/ call[c].pc = "free" THEN call[c]
                ELSE [call[c] EXCEPT !.pc = "failed"]]
  /\ UNCHANGED batch

Init ==
  /\ batch = [b \in Batches |-> NoRow]
  /\ call = [c \in Calls |-> FreeCall]

Next ==
  \/ Create \/ Crash
  \/ \E c \in Calls : Ask(c) \/ Save(c) \/ Fire(c) \/ Complete(c) \/ Fail(c)

Spec == Init /\ [][Next]_vars

\* The database answers, and the event loop runs the timers.
Fairness == \A c \in Calls : WF_vars(Save(c) \/ Fire(c) \/ Complete(c))

-----------------------------------------------------------------------------
TypeOK ==
  /\ batch \in [Batches -> [validation : {"none", "pending", "validated"},
                            execution : {"none", "pending", "executing", "completed", "failed"},
                            date : Dates]]
  /\ \A c \in Calls : call[c].pc \in
       {"free", "save", "timer", "complete", "done", "refused", "failed"}

\* Some call of op on b got past its check.
Made(b, op) == \E c \in Calls : /\ call[c].op = op /\ b \in call[c].on
                                /\ call[c].pc \in {"timer", "complete", "done", "failed"}
\* A batch is only ever in execution or completed if somebody validated it and
\* somebody executed it, whatever copies are saved in between.
ExecutionWasValidated ==
  \A b \in Batches : batch[b].execution \in {"executing", "completed"} =>
    Made(b, "validate") /\ Made(b, "execute")

\* With a process that lives, a batch in execution is completed or cancelled in
\* the end, unless a validation wrote back the execution it had read.
ExecutionEndsUnlessRevived ==
  \A b \in Batches : batch[b].execution = "executing" ~>
    \/ batch[b].execution # "executing"
    \/ \E c \in Calls : /\ b \in call[c].on /\ call[c].op = "validate"
                        /\ call[c].row.execution = "executing"

\* A batch in execution does not stay so.
ExecutionEnds ==
  \A b \in Batches : batch[b].execution = "executing" ~> batch[b].execution # "executing"

\* A completed batch is not cancelled any more.
CompletedNotCancelled ==
  [][\A b \in Batches :
       batch[b].execution = "completed" => batch'[b].execution # "failed"]_vars

\* A cancelled batch is not completed.
CancelledNotCompleted ==
  [][\A b \in Batches :
       batch[b].execution = "failed" => batch'[b].execution # "completed"]_vars

\* What is completed is validated.
CompletedIsValidated ==
  \A b \in Batches : batch[b].execution = "completed" => batch[b].validation = "validated"

\* Nothing is validated whose effective date has passed.
ValidatedIsAhead ==
  \A b \in Batches : batch[b].validation = "validated" => batch[b].date = "future"
=============================================================================
