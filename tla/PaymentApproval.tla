-------------------------- MODULE PaymentApproval --------------------------
(***************************************************************************)
(* PaymentInstructionService: outgoing payments that are approved level by *)
(* level, rejected, cancelled, executed one by one or settled in a batch.  *)
(*                                                                         *)
(* Each call reads the instruction, decides, and updates named columns of  *)
(* the row from the copy it read; reject alone reads nothing.  A call is   *)
(* used once, so what a call has done can be read off it.  Who approves,   *)
(* the bank reference and the payment's other columns are left out.        *)
(***************************************************************************)
EXTENDS Integers, Sequences, FiniteSets, FiniteSetsExt, SequencesExt

CONSTANTS
  Instructions,  \* instruction ids; the bound on how many are created
  Calls,         \* calls of the service
  Amounts        \* amounts of new instructions

VARIABLES
  instr,   \* pay_instruction: status, approval levels and statusHistory
  call     \* call -> where it is, the row it read and what it has sent

vars == <<instr, call>>

-----------------------------------------------------------------------------
\* A variant: a fourth level.
determineApprovalLevelsFour(amount) ==
  CASE amount > 1000000 -> 4 [] amount > 100000 -> 2 [] OTHER -> 1

determineApprovalLevels(amount) ==
  CASE amount > 1000000 -> 3 [] amount > 100000 -> 2 [] OTHER -> 1

NoRow == [status |-> "none", amount |-> 0, level |-> 0, total |-> 0, history |-> <<>>]

Exists(i) == instr[i].status # "none"

\* A call: target is the instruction it works on; found, todo and sent are those
\* a batch found, has still to execute, and has handed to the bank.
FreeCall == [op |-> "none", pc |-> "free", row |-> NoRow, target |-> {},
             found |-> {}, todo |-> {}, sent |-> {}]

End(c, pc) == call' = [call EXCEPT ![c].pc = pc]

\* A call of op on i that has read the row: it goes on to its update, or throws.
Read(c, op, i, accepted) ==
  /\ call[c].pc = "free"
  /\ Exists(i)
  /\ call' = [call EXCEPT ![c] = [FreeCall EXCEPT
       !.op = op, !.target = {i}, !.row = instr[i],
       !.pc = IF accepted THEN op ELSE "refused"]]
  /\ UNCHANGED instr

\* repo.update: the named columns, and a history made from the copy.
Update(i, row, status, level, entry) ==
  instr' = [instr EXCEPT ![i].status = status, ![i].level = level,
                         ![i].history = Append(row.history, entry)]

-----------------------------------------------------------------------------
\* create(): one insertion.
Create ==
  /\ \E i \in Instructions, amount \in Amounts :
       /\ ~Exists(i)
       /\ instr' = [instr EXCEPT ![i] =
            [status |-> "pending", amount |-> amount, level |-> 1,
             total |-> determineApprovalLevels(amount), history |-> <<"created">>]]
  /\ UNCHANGED call

AskApprove(c) == \E i \in Instructions : Read(c, "approve", i, TRUE)

AskCancel(c) == \E i \in Instructions :
  Read(c, "cancel", i, instr[i].status \notin {"executing", "completed"})

\* A variant: any instruction may be executed.
ExecutableAlways(i) == TRUE

Executable(i) == instr[i].status = "approved"

AskExecute(c) == \E i \in Instructions : Read(c, "execute", i, Executable(i))

\* A variant: each approval counts twice.
NextLevelTwo(row) == row.level + 2

NextLevel(row) == row.level + 1

Approve(c) ==
  LET row == call[c].row
      next == NextLevel(row) IN
  /\ call[c].pc = "approve"
  /\ \A i \in call[c].target :
       Update(i, row, IF next >= row.total THEN "approved" ELSE "approving", next, next)
  /\ End(c, "done")

\* reject() neither looks at the instruction nor keeps its history.
Reject(c) ==
  /\ call[c].pc = "free"
  /\ \E i \in Instructions :
       /\ Exists(i)
       /\ Update(i, NoRow, "rejected", instr[i].level, "rejected")
       /\ call' = [call EXCEPT ![c].op = "reject", ![c].target = {i}, ![c].pc = "done"]

Cancel(c) ==
  /\ call[c].pc = "cancel"
  /\ \A i \in call[c].target :
       Update(i, call[c].row, "cancelled", instr[i].level, "cancelled")
  /\ End(c, "done")

Execute(c) ==
  /\ call[c].pc = "execute"
  /\ \A i \in call[c].target :
       Update(i, call[c].row, "executing", instr[i].level, "executing")
  /\ call' = [call EXCEPT ![c].sent = @ \cup call[c].target,
                          ![c].pc = IF call[c].op = "settle" THEN "next" ELSE "done"]

-----------------------------------------------------------------------------
\* settlement/process-batch: finds the approved instructions, then executes them
\* one after the other; the first that is refused ends the batch.
Settle(c) ==
  /\ call[c].pc = "free"
  /\ LET found == {i \in Instructions : instr[i].status = "approved"} IN
       call' = [call EXCEPT ![c] = [FreeCall EXCEPT
         !.op = "settle", !.pc = "next", !.found = found, !.todo = found]]
  /\ UNCHANGED instr

\* A variant: the batch skips what it cannot execute.
AfterFoundSkip(i) == IF Executable(i) THEN "execute" ELSE "next"

AfterFound(i) == IF Executable(i) THEN "execute" ELSE "refused"

SettleNext(c) ==
  /\ call[c].pc = "next"
  /\ \E i \in call[c].todo :
       call' = [call EXCEPT ![c].todo = @ \ {i}, ![c].target = {i}, ![c].row = instr[i],
                            ![c].pc = AfterFound(i)]
  /\ UNCHANGED instr

SettleEnd(c) ==
  /\ call[c].pc = "next" /\ call[c].todo = {}
  /\ End(c, "done")
  /\ UNCHANGED instr

Ended(c) == call[c].pc \in {"done", "refused", "failed"}

\* A query throws or the process dies: what was updated before stays.
Fail(c) ==
  /\ ~Ended(c) /\ call[c].pc # "free"
  /\ End(c, "failed")
  /\ UNCHANGED instr

Done == (\A c \in Calls : Ended(c)) /\ UNCHANGED vars

Init ==
  /\ instr = [i \in Instructions |-> NoRow]
  /\ call = [c \in Calls |-> FreeCall]

Next ==
  \/ Create
  \/ \E c \in Calls :
       \/ AskApprove(c) \/ AskCancel(c) \/ AskExecute(c) \/ Approve(c)
       \/ Reject(c) \/ Cancel(c) \/ Execute(c)
       \/ Settle(c) \/ SettleNext(c) \/ SettleEnd(c) \/ Fail(c)
  \/ Done

Spec == Init /\ [][Next]_vars

-----------------------------------------------------------------------------
Statuses == {"none", "pending", "approving", "approved", "rejected", "cancelled",
             "executing"}

TypeOK ==
  /\ DOMAIN instr = Instructions
  /\ \A i \in Instructions :
       /\ instr[i].status \in Statuses
       /\ instr[i].level \in 0..(Cardinality(Calls) + 1)
       /\ instr[i].total \in 0..3
  /\ \A c \in Calls :
       /\ call[c].pc \in {"free", "approve", "cancel", "execute", "next",
                          "done", "refused", "failed"}
       /\ call[c].todo \cup call[c].sent \cup call[c].target \subseteq Instructions

\* The approvals of i that went through, and the calls that sent it to the bank.
Approvals(i) == {c \in Calls : call[c].op = "approve" /\ call[c].pc = "done"
                               /\ i \in call[c].target}
Senders(i) == {c \in Calls : i \in call[c].sent}

\* No interleaving of approvals raises the level further than there were
\* approvals, and nothing is approved with fewer than one below its levels.
LevelsAreEarned ==
  \A i \in Instructions :
    /\ Exists(i) => instr[i].level <= 1 + Cardinality(Approvals(i))
    /\ instr[i].status = "approved" =>
         Cardinality(Approvals(i)) >= Max({1, instr[i].total - 1})

\* A payment above a million is never sent after a single approval, however
\* approvals, cancellations, executions and batches race.
LargeNeedsTwoApprovals ==
  \A i \in Instructions : Senders(i) # {} /\ instr[i].amount > 1000000 =>
    Cardinality(Approvals(i)) >= 2

\* A batch that answers has sent everything it found, as "processed" says; one
\* refused instruction keeps it from answering at all.
AnsweredBatchIsWhole ==
  \A c \in Calls : call[c].op = "settle" /\ call[c].pc = "done" =>
    call[c].sent = call[c].found

\* A payment of n levels is executed after n approvals, as the tests read.
AllLevelsApproved ==
  \A i \in Instructions : instr[i].status = "approved" =>
    Cardinality(Approvals(i)) >= instr[i].total

\* An instruction is sent to the bank once.
SentOnce == \A i \in Instructions : Cardinality(Senders(i)) <= 1

\* What is in execution is not cancelled any more.
ExecutionNotCancelled ==
  [][\A i \in Instructions :
       instr[i].status = "executing" => instr'[i].status # "cancelled"]_vars

\* An approval appends to the status history, and so keeps what others wrote.
ApprovalAppends ==
  [][\A c \in Calls : call[c].pc = "approve" /\ call'[c].pc = "done" =>
       \A i \in call[c].target : Front(instr'[i].history) = instr[i].history]_vars
=============================================================================
