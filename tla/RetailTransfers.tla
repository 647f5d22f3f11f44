--------------------------- MODULE RetailTransfers --------------------------
(***************************************************************************)
(* TransferService of retail banking: transfers that are executed,         *)
(* modified, cancelled, and meant to be repeated.                          *)
(*                                                                         *)
(* Every call reads the transfer, checks its copy, and saves the copy; an  *)
(* execution saves it twice.  Calls are used once.  Where serial is TRUE a *)
(* transfer is in the hands of one call at a time, which nothing in the    *)
(* code ensures: it tells what the checks are worth from what the missing  *)
(* lock costs.  Amounts and parties are left out; a modification changes   *)
(* only columns that are left out.                                         *)
(***************************************************************************)
EXTENDS Integers, FiniteSets

CONSTANTS
  Transfers,  \* transfer ids; the bound on how many are created
  Calls,      \* calls of the service
  Horizon,    \* bound: the last day
  Faulty      \* may a query fail?

VARIABLES
  transfer,  \* retail_transfer_instruction
  call,
  today,
  serial     \* do calls on one transfer wait for each other?

vars == <<transfer, call, today, serial>>

-----------------------------------------------------------------------------
Never == -1   \* a date that is null

NoRow == [status |-> "none", recurring |-> FALSE, count |-> 0, next |-> Never, ended |-> FALSE]
FreeCall == [op |-> "none", pc |-> "free", on |-> {}, row |-> NoRow]

Exists(t) == transfer[t].status # "none"
Ended(c)  == call[c].pc \in {"done", "refused", "failed"}
Busy(t)   == \E c \in Calls : t \in call[c].on /\ ~Ended(c)
Goto(c, pc) == call' = [call EXCEPT ![c].pc = pc]
Put(c, row) == \E t \in call[c].on : transfer' = [transfer EXCEPT ![t] = row]

\* createTransfer
Create ==
  /\ \E t \in Transfers, recurring \in BOOLEAN, next \in {Never, today} :
       /\ ~Exists(t)
       /\ transfer' = [transfer EXCEPT ![t] =
            [NoRow EXCEPT !.status = "pending", !.recurring = recurring, !.next = next]]
  /\ UNCHANGED <<call, today>>

-----------------------------------------------------------------------------
Ops == {"execute", "modify", "cancel", "cancelRecurring"}

\* Variants: an execution, or a cancellation, does not look at the status.
AcceptedExecuting(op, row) == op = "cancel" => row.status # "completed"
AcceptedCancelling(op, row) ==
  CASE op \in {"execute", "modify"} -> row.status = "pending"
    [] op = "cancel"          -> TRUE
    [] op = "cancelRecurring" -> row.recurring

Accepted(op, row) ==
  CASE op \in {"execute", "modify"} -> row.status = "pending"
    [] op = "cancel"          -> row.status # "completed"
    [] op = "cancelRecurring" -> row.recurring

Ask(c) ==
  /\ call[c].pc = "free"
  /\ \E t \in Transfers, op \in Ops :
       /\ Exists(t)
       /\ serial => ~Busy(t)
       /\ call' = [call EXCEPT ![c] =
            [op |-> op, on |-> {t}, row |-> transfer[t],
             pc |-> IF Accepted(op, transfer[t]) THEN "save" ELSE "refused"]]
  /\ UNCHANGED <<transfer, today>>

\* A variant: the request's word for it is stored.
ChangedRaw(op, row) == [row EXCEPT !.status = op]

Changed(op, row) ==
  CASE op = "execute" -> [row EXCEPT !.status = "executing"]
    [] op = "modify"  -> row
    [] op = "cancel"  -> [row EXCEPT !.status = "cancelled"]
    [] op = "cancelRecurring" -> [row EXCEPT !.status = "cancelled", !.ended = TRUE]

Save(c) ==
  LET row == Changed(call[c].op, call[c].row) IN
  /\ call[c].pc = "save"
  /\ Put(c, row)
  /\ call' = [call EXCEPT ![c].row = row,
                          ![c].pc = IF call[c].op = "execute" THEN "finish" ELSE "done"]
  /\ UNCHANGED today

\* calculateNextExecution: a period after the last date, or after today.
NextExecution(row) == (IF row.next = Never THEN today ELSE row.next) + 1

Completed(row) ==
  [row EXCEPT !.status = "completed", !.count = @ + 1,
              !.next = IF row.recurring THEN NextExecution(row) ELSE @]

Finish(c) ==
  /\ call[c].pc = "finish"
  /\ Put(c, Completed(call[c].row))
  /\ Goto(c, "done")
  /\ UNCHANGED today

\* The catch of executeTransfer: the copy, already counted, is saved as failed.
SaveFailed(c) ==
  /\ call[c].pc = "catch"
  /\ Put(c, [Completed(call[c].row) EXCEPT !.status = "failed"])
  /\ Goto(c, "done")
  /\ UNCHANGED today

\* The recurring transfers processDueRecurring finds, and those whose date has
\* come.  The code compares nextExecutionDate, a date column that is read as a
\* string, with a Date, and that is never true: the batch executes none.
Found    == {t \in Transfers : transfer[t].recurring /\ transfer[t].status = "completed"}
Due      == {t \in Found : transfer[t].next # Never /\ transfer[t].next <= today}
Executed == {t \in Due : FALSE}

\* processDueRecurring; on keeps what was due when it was called.
ProcessDue(c) ==
  /\ call[c].pc = "free"
  /\ Executed = {}
  /\ call' = [call EXCEPT ![c].op = "batch", ![c].pc = "done", ![c].on = Due]
  /\ UNCHANGED <<transfer, today>>

\* A query throws: inside executeTransfer's try it leads to the catch.
Fail(c) ==
  /\ Faulty
  /\ \/ call[c].pc \in {"save", "catch"} /\ Goto(c, "failed")
     \/ call[c].pc = "finish" /\ Goto(c, "catch")
  /\ UNCHANGED <<transfer, today>>

NextDay ==
  /\ today < Horizon
  /\ today' = today + 1
  /\ UNCHANGED <<transfer, call>>

Init ==
  /\ transfer = [t \in Transfers |-> NoRow]
  /\ call = [c \in Calls |-> FreeCall]
  /\ today = 0
  /\ serial \in BOOLEAN

Next ==
  /\ \/ Create \/ NextDay
     \/ \E c \in Calls :
          Ask(c) \/ Save(c) \/ Finish(c) \/ SaveFailed(c) \/ ProcessDue(c) \/ Fail(c)
  /\ UNCHANGED serial

Spec == Init /\ [][Next]_vars

-----------------------------------------------------------------------------
TypeOK ==
  /\ DOMAIN transfer = Transfers
  /\ \A t \in Transfers :
       /\ transfer[t].status \in
            {"none", "pending", "executing", "completed", "failed", "cancelled"}
       /\ transfer[t].count \in Nat
       /\ transfer[t].next \in -1..(Horizon + Cardinality(Calls))
  /\ \A c \in Calls : call[c].pc \in
       {"free", "save", "finish", "catch", "done", "refused", "failed"}

Completions(t) == {c \in Calls : call[c].op = "execute" /\ call[c].pc = "done" /\ t \in call[c].on}

\* No transfer is counted as executed more than once: nothing but a modification
\* makes it pending again, and that forgets the count.
CountedOnce == \A t \in Transfers : transfer[t].count <= 1

Settled(t) ==
  {c \in Calls : call[c].op \in {"execute", "cancel", "cancelRecurring"} /\ call[c].pc = "done"
                   /\ t \in call[c].on}

\* What was executed or cancelled is admitted to an execution only when a modification
\* that had read it pending wrote that back.
RevivedOnlyIfModified ==
  [][\A c \in Calls, t \in Transfers :
       call[c].pc = "free" /\ call'[c].pc = "save" /\ call'[c].op = "execute"
         /\ t \in call'[c].on /\ Settled(t) # {} =>
       \E d \in Calls : call[d].op = "modify" /\ call[d].pc = "done" /\ t \in call[d].on]_vars

\* One call at a time, a transfer is executed at most once.
ExecutedOnce == serial => \A t \in Transfers : Cardinality(Completions(t)) <= 1

\* One call at a time, a cancelled transfer is not completed, and a completed one not
\* cancelled by an ordinary cancellation.
CompletedOrCancelledStep ==
  serial => \A t \in Transfers :
    /\ transfer[t].status = "cancelled" => transfer'[t].status # "completed"
    /\ transfer[t].status = "completed" /\ transfer'[t].status = "cancelled"
         => transfer'[t].ended

\* A batch that has answered has executed what was due when it was called.
DueIsExecuted ==
  \A c \in Calls : call[c].op = "batch" =>
    \A t \in call[c].on : transfer[t].status # "completed" \/ transfer[t].count > 1
=============================================================================
