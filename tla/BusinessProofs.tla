--------------------------- MODULE BusinessProofs ---------------------------
(***************************************************************************)
(* Theorems about the payments, the payroll and the webhooks of Business,  *)
(* for any number of rows and calls, with failures.  Approvals that        *)
(* overlap may be lost, but no level is reached without them; a batch of   *)
(* payments that answers is whole; however stale the copies are that the   *)
(* payroll saves, nothing is executed that nobody validated; and an event  *)
(* is neither sent more often than asked for nor given up early.           *)
(***************************************************************************)
EXTENDS Business, Sequences, FiniteSets, FiniteSetTheorems, TLAPS

PayPCs == {"free", "approve", "cancel", "execute", "next", "done", "refused", "failed"}
PayOps == {"none", "approve", "cancel", "execute", "reject", "settle"}

\* Where a call has read a row that it is about to update.
Updating == {"approve", "cancel", "execute"}

Entries == Nat \cup {"created", "rejected", "cancelled", "executing"}

PayRowType == [status : Pay!Statuses, amount : Amounts \cup {0}, level : Nat, total : 0..3,
            history : Seq(Entries)]

PayCallType == [op : PayOps, pc : PayPCs, row : PayRowType, target : SUBSET Items,
             found : SUBSET Items, todo : SUBSET Items,
             sent : SUBSET Items]

-----------------------------------------------------------------------------
\* The inductive invariant.

Approved(i) == Cardinality(Pay!Approvals(i))

\* What n approvals justify.
PayEarned(r, n) == r.level <= n + 1 /\ (r.status = "approved" => 1 <= n /\ r.total <= n + 1)

\* A batch has sent or has still to send what it found.
PayShape(q) ==
  /\ q.pc \in {"approve", "cancel"} => q.op = q.pc
  /\ q.pc = "free" => q.op = "none"
  /\ q.pc = "next" => q.op = "settle"
  /\ q.pc = "execute" => q.op \in {"execute", "settle"}
  /\ q.pc \in Updating => \E i \in Items : q.target = {i}
  /\ q.op = "settle" /\ q.pc = "next" => q.found = q.sent \cup q.todo
  /\ q.op = "settle" /\ q.pc = "execute" => q.found = q.sent \cup q.todo \cup q.target
  /\ q.op = "settle" /\ q.pc = "done" => q.sent = q.found

PayIInv ==
  /\ instr \in [Items -> PayRowType] /\ payCall \in [Calls -> PayCallType]
  /\ \A c \in Calls : PayShape(payCall[c])
  /\ \A i \in Items : PayEarned(instr[i], Approved(i))
  /\ \A c \in Calls : payCall[c].pc \in Updating => \A i \in payCall[c].target :
       /\ instr[i].status # "none" /\ payCall[c].row.total = instr[i].total
       /\ payCall[c].row.level <= Approved(i) + 1

-----------------------------------------------------------------------------
\* The step is one of c, and if c has approved it stays so.
GoesOn(c) ==
  /\ payCall' \in [Calls -> PayCallType]
  /\ \A d \in Calls : d # c => payCall'[d] = payCall[d]
  /\ payCall[c].op = "approve" /\ payCall[c].pc = "done" => payCall'[c] = payCall[c]

LEMMA CountIsNatural ==
  ASSUME PayIInv, NEW i PROVE IsFiniteSet(Pay!Approvals(i)) /\ Approved(i) \in Nat
<1>1. Pay!Approvals(i) \subseteq Calls
  BY DEF Pay!Approvals
<1> QED BY <1>1, FiniteCallsAssumption, FS_Subset, FS_CardinalityType DEF Approved

\* Approvals are not taken back.
LEMMA ApprovalsGrow ==
  ASSUME PayIInv, NEW c \in Calls, GoesOn(c), NEW i
  PROVE  Approved(i) <= Approved(i)' /\ Approved(i)' \in Nat
<1>1. Pay!Approvals(i) \subseteq Pay!Approvals(i)' /\ Pay!Approvals(i)' \subseteq Calls
  BY DEF Pay!Approvals, GoesOn
<1>2. IsFiniteSet(Pay!Approvals(i)')
  BY <1>1, FiniteCallsAssumption, FS_Subset
<1>3. Cardinality(Pay!Approvals(i)) <= Cardinality(Pay!Approvals(i)')
      /\ Cardinality(Pay!Approvals(i)') \in Nat
  BY <1>1, <1>2, FS_Subset, FS_CardinalityType
<1> QED BY <1>3 DEF Approved

\* An approval that goes through counts.
LEMMA ApprovalCounts ==
  ASSUME PayIInv, NEW c \in Calls, GoesOn(c), NEW i, payCall[c].pc # "done",
         payCall'[c].op = "approve", payCall'[c].pc = "done", i \in payCall'[c].target
  PROVE  Approved(i)' = Approved(i) + 1
<1>1. Pay!Approvals(i)' = Pay!Approvals(i) \cup {c} /\ c \notin Pay!Approvals(i)
  BY DEF Pay!Approvals, GoesOn
<1>2. Cardinality(Pay!Approvals(i)') = Cardinality(Pay!Approvals(i)) + 1
  BY <1>1, CountIsNatural, FS_AddElement
<1> QED BY <1>2 DEF Approved

\* A step in which c alone moves.
LEMMA CallMoves ==
  ASSUME PayIInv, NEW c \in Calls, GoesOn(c), PayShape(payCall'[c]),
         instr' \in [Items -> PayRowType],
         \A i \in Items : instr[i].status # "none" =>
           instr'[i].status # "none" /\ instr'[i].total = instr[i].total,
         \A i \in Items : instr'[i] = instr[i] \/ PayEarned(instr'[i], Approved(i)'),
         payCall'[c].pc \in Updating => \A i \in payCall'[c].target :
           /\ instr'[i].status # "none" /\ payCall'[c].row.total = instr'[i].total
           /\ payCall'[c].row.level <= Approved(i)' + 1
  PROVE  PayIInv'
<1>1. \A i \in Items : Approved(i) <= Approved(i)' /\ Approved(i) \in Nat /\ Approved(i)' \in Nat
  BY ApprovalsGrow, CountIsNatural
<1>2. ASSUME NEW i \in Items PROVE PayEarned(instr'[i], Approved(i)')
  <2>1. CASE instr'[i] = instr[i]
    <3>1. instr[i] \in PayRowType /\ PayEarned(instr[i], Approved(i))
      BY DEF PayIInv
    <3>2. instr[i].level \in Nat /\ instr[i].total \in 0..3
      BY <3>1 DEF PayRowType
    <3> QED BY <2>1, <3>1, <3>2, <1>1 DEF PayEarned
  <2> QED BY <2>1
<1>3. ASSUME NEW d \in Calls, payCall'[d].pc \in Updating, NEW i \in payCall'[d].target
      PROVE  /\ instr'[i].status # "none" /\ payCall'[d].row.total = instr'[i].total
             /\ payCall'[d].row.level <= Approved(i)' + 1
  <2>1. CASE d # c
    <3>1. payCall'[d] = payCall[d] /\ i \in Items /\ payCall[d].row.level \in Nat
      BY <2>1, <1>3 DEF GoesOn, PayIInv, PayCallType, PayRowType
    <3>2. /\ instr[i].status # "none" /\ payCall[d].row.total = instr[i].total
          /\ payCall[d].row.level <= Approved(i) + 1
      BY <3>1, <1>3 DEF PayIInv
    <3> QED BY <3>1, <3>2, <1>1
  <2> QED BY <2>1, <1>3
<1>4. \A d \in Calls : PayShape(payCall'[d])
  BY DEF PayIInv, GoesOn
<1>5. PayIInv' <=>
        /\ instr' \in [Items -> PayRowType] /\ payCall' \in [Calls -> PayCallType]
        /\ \A d \in Calls : PayShape(payCall'[d])
        /\ \A i \in Items : PayEarned(instr'[i], Approved(i)')
        /\ \A d \in Calls : payCall'[d].pc \in Updating => \A i \in payCall'[d].target :
             /\ instr'[i].status # "none" /\ payCall'[d].row.total = instr'[i].total
             /\ payCall'[d].row.level <= Approved(i)' + 1
  BY DEF PayIInv, PayShape, PayEarned
<1> QED BY <1>2, <1>3, <1>4, <1>5 DEF PayIInv, GoesOn

-----------------------------------------------------------------------------
\* The update of the columns.
LEMMA UpdateFacts ==
  ASSUME PayIInv, NEW i \in Items, NEW row, row.history \in Seq(Entries),
         NEW status \in Pay!Statuses, NEW level \in Nat, NEW entry \in Entries,
         Pay!Update(i, row, status, level, entry)
  PROVE  /\ instr' \in [Items -> PayRowType]
         /\ \A j \in Items : j # i => instr'[j] = instr[j]
         /\ instr'[i].status = status /\ instr'[i].level = level
         /\ instr'[i].total = instr[i].total
<1> DEFINE h == Append(row.history, entry)
<1>1. instr' = [instr EXCEPT ![i] = [instr[i] EXCEPT !.status = status, !.level = level,
                                                     !.history = h]]
  BY DEF Pay!Update
<1>2. h \in Seq(Entries)
  OBVIOUS
<1> HIDE DEF h
<1>3. instr \in [Items -> PayRowType] /\ instr[i] \in PayRowType
  BY DEF PayIInv
<1> DEFINE r == [instr[i] EXCEPT !.status = status, !.level = level, !.history = h]
<1>4. /\ r \in PayRowType /\ r.status = status /\ r.level = level
      /\ r.total = instr[i].total
  BY <1>2, <1>3 DEF PayRowType
<1>5. instr' = [instr EXCEPT ![i] = r]
  BY <1>1
<1> HIDE DEF r
<1> QED BY <1>3, <1>4, <1>5

LEMMA CreateKeeps == ASSUME PayIInv, Pay!Create PROVE PayIInv'
<1>1. PICK i \in Items, amount \in Amounts :
        /\ instr[i].status = "none"
        /\ instr' = [instr EXCEPT ![i] =
             [status |-> "pending", amount |-> amount, level |-> 1,
              total |-> Pay!determineApprovalLevels(amount), history |-> <<"created">>]]
  BY DEF Pay!Create, Pay!Exists
<1>2. Pay!determineApprovalLevels(amount) \in 0..3 /\ <<"created">> \in Seq(Entries)
  BY DEF Pay!determineApprovalLevels, Entries
<1> DEFINE r == [status |-> "pending", amount |-> amount, level |-> 1,
                 total |-> Pay!determineApprovalLevels(amount), history |-> <<"created">>]
<1>3. r \in PayRowType /\ r.status = "pending" /\ r.level = 1
  BY <1>2 DEF PayRowType, Pay!Statuses
<1>4. instr' = [instr EXCEPT ![i] = r]
  BY <1>1
<1> HIDE DEF r
<1>5. instr' \in [Items -> PayRowType]
      /\ \A j \in Items : instr[j].status # "none" => instr'[j] = instr[j]
  BY <1>1, <1>3, <1>4 DEF PayIInv
<1>6. payCall' = payCall /\ \A j \in Items : Approved(j)' = Approved(j)
  BY DEF Pay!Create, Approved, Pay!Approvals
<1>7. \A j \in Items : PayEarned(instr'[j], Approved(j))
  <2>1. PayEarned(r, Approved(i))
    BY <1>3, CountIsNatural DEF PayEarned
  <2> QED BY <1>4, <2>1 DEF PayIInv
<1>8. ASSUME NEW c \in Calls, payCall[c].pc \in Updating, NEW j \in payCall[c].target
      PROVE  /\ instr'[j].status # "none" /\ payCall[c].row.total = instr'[j].total
             /\ payCall[c].row.level <= Approved(j) + 1
  <2>1. j \in Items
    BY <1>8 DEF PayIInv, PayCallType
  <2> QED BY <2>1, <1>5, <1>8 DEF PayIInv
<1>9. \A c \in Calls : payCall[c].target \subseteq Items
  BY DEF PayIInv, PayCallType
<1>10. PayIInv' <=>
        /\ instr' \in [Items -> PayRowType] /\ payCall' \in [Calls -> PayCallType]
        /\ \A d \in Calls : PayShape(payCall'[d])
        /\ \A j \in Items : PayEarned(instr'[j], Approved(j)')
        /\ \A d \in Calls : payCall'[d].pc \in Updating => \A j \in payCall'[d].target :
             /\ instr'[j].status # "none" /\ payCall'[d].row.total = instr'[j].total
             /\ payCall'[d].row.level <= Approved(j)' + 1
  BY DEF PayIInv, PayShape, PayEarned
<1> QED BY <1>5, <1>6, <1>7, <1>8, <1>9, <1>10 DEF PayIInv

\* A call that was not made.
LEMMA FreeCallFacts ==
  Pay!FreeCall \in PayCallType /\ Pay!FreeCall.pc = "free" /\ Pay!FreeCall.op = "none"
  /\ Pay!FreeCall.sent = {}
<1>1. Pay!NoRow \in PayRowType
  BY DEF Pay!NoRow, PayRowType, Pay!Statuses
<1> QED BY <1>1 DEF Pay!FreeCall, PayCallType, PayOps, PayPCs

\* A call of the service reads its instruction.
LEMMA ReadKeeps ==
  ASSUME PayIInv, NEW c \in Calls, NEW op \in Updating, NEW i \in Items,
         NEW ok \in BOOLEAN, Pay!Read(c, op, i, ok)
  PROVE  PayIInv'
<1> DEFINE q == [Pay!FreeCall EXCEPT !.op = op, !.target = {i}, !.row = instr[i],
                                 !.pc = IF ok THEN op ELSE "refused"]
<1>1. /\ payCall[c].pc = "free" /\ instr[i].status # "none"
      /\ payCall' = [payCall EXCEPT ![c] = q] /\ instr' = instr
  BY DEF Pay!Read, Pay!Exists
<1>2. instr[i] \in PayRowType
  BY DEF PayIInv
<1>4. /\ q \in PayCallType /\ q.op = op /\ q.target = {i} /\ q.row = instr[i]
      /\ q.pc \in {op, "refused"}
  BY <1>2, FreeCallFacts DEF PayCallType, PayOps, PayPCs, Updating
<1> HIDE DEF q
<1>5. GoesOn(c) /\ payCall'[c] = q
  BY <1>1, <1>4 DEF PayIInv, GoesOn
<1>6. PayShape(q)
  BY <1>4 DEF PayShape, Updating
<1>7. instr[i].level <= Approved(i)' + 1
  <2>1. instr[i].level <= Approved(i) + 1 /\ instr[i].level \in Nat
    BY <1>2 DEF PayIInv, PayEarned, PayRowType
  <2> QED BY <2>1, <1>5, ApprovalsGrow, CountIsNatural
<1>8. \A j \in q.target : j = i
  BY <1>4
<1> QED BY <1>1, <1>4, <1>5, <1>6, <1>7, <1>8, CallMoves DEF PayIInv

\* What changes when a call ends.
LEMMA EndFacts ==
  ASSUME PayIInv, NEW c \in Calls, NEW pc \in PayPCs, Pay!End(c, pc)
  PROVE  /\ payCall' \in [Calls -> PayCallType]
         /\ \A d \in Calls : d # c => payCall'[d] = payCall[d]
         /\ payCall'[c].pc = pc /\ payCall'[c].op = payCall[c].op
         /\ payCall'[c].target = payCall[c].target
         /\ payCall'[c].sent = payCall[c].sent /\ payCall'[c].found = payCall[c].found
  BY DEF PayIInv, Pay!End, PayCallType

LEMMA ApproveKeeps == ASSUME PayIInv, NEW c \in Calls, Pay!Approve(c) PROVE PayIInv'
<1> DEFINE row == payCall[c].row
           next == Pay!NextLevel(row)
           status == IF next >= row.total THEN "approved" ELSE "approving"
<1>1. /\ payCall[c].pc = "approve" /\ Pay!End(c, "done")
      /\ \A i \in payCall[c].target : Pay!Update(i, row, status, next, next)
  BY DEF Pay!Approve
<1>2. PICK i \in Items : payCall[c].target = {i} /\ payCall[c].op = "approve"
  BY <1>1 DEF PayIInv, PayShape, Updating
<1>3. /\ row \in PayRowType /\ row.level \in Nat /\ row.total \in Nat
      /\ row.history \in Seq(Entries) /\ next = row.level + 1 /\ next \in Nat
  BY DEF PayIInv, PayCallType, PayRowType, Pay!NextLevel
<1>4. status \in Pay!Statuses /\ next \in Entries
  BY <1>3 DEF Pay!Statuses, Entries
<1>5. /\ instr[i].status # "none" /\ row.total = instr[i].total
      /\ row.level <= Approved(i) + 1
  BY <1>1, <1>2 DEF PayIInv, Updating
<1>6. Pay!Update(i, row, status, next, next)
  BY <1>1, <1>2
<1> HIDE DEF status, next
<1>7. /\ instr' \in [Items -> PayRowType]
      /\ \A j \in Items : j # i => instr'[j] = instr[j]
      /\ instr'[i].status = status /\ instr'[i].level = next
      /\ instr'[i].total = instr[i].total
  BY <1>3, <1>4, <1>6, UpdateFacts
<1>8. /\ payCall' \in [Calls -> PayCallType]
      /\ \A d \in Calls : d # c => payCall'[d] = payCall[d]
      /\ payCall'[c].pc = "done" /\ payCall'[c].op = "approve" /\ payCall'[c].target = {i}
  BY <1>1, <1>2, EndFacts DEF PayPCs
<1>9. GoesOn(c) /\ PayShape(payCall'[c])
  BY <1>1, <1>8 DEF GoesOn, PayShape, Updating
<1>10. Approved(i)' = Approved(i) + 1 /\ Approved(i) \in Nat
  BY <1>1, <1>8, <1>9, ApprovalCounts, CountIsNatural
<1>11. PayEarned(instr'[i], Approved(i)')
  BY <1>3, <1>5, <1>7, <1>10 DEF PayEarned, status
<1>12. status # "none"
  BY DEF status
<1> QED BY <1>5, <1>7, <1>8, <1>9, <1>11, <1>12, CallMoves DEF Updating

\* An update that neither approves nor raises a level.
LEMMA OtherUpdateKeeps ==
  ASSUME PayIInv, NEW c \in Calls, GoesOn(c), PayShape(payCall'[c]), payCall'[c].pc \notin Updating,
         NEW i \in Items, instr[i].status # "none",
         NEW status \in Pay!Statuses \ {"none", "approved"}, NEW entry \in Entries,
         NEW row, row.history \in Seq(Entries),
         Pay!Update(i, row, status, instr[i].level, entry)
  PROVE  PayIInv'
<1>1. instr[i].level \in Nat /\ instr[i].level <= Approved(i) + 1
  BY DEF PayIInv, PayRowType, PayEarned
<1>2. /\ instr' \in [Items -> PayRowType]
      /\ \A j \in Items : j # i => instr'[j] = instr[j]
      /\ instr'[i].status = status /\ instr'[i].level = instr[i].level
      /\ instr'[i].total = instr[i].total
  BY <1>1, UpdateFacts
<1>3. PayEarned(instr'[i], Approved(i)')
  BY <1>1, <1>2, ApprovalsGrow, CountIsNatural DEF PayEarned
<1> QED BY <1>2, <1>3, CallMoves

LEMMA RejectKeeps == ASSUME PayIInv, NEW c \in Calls, Pay!Reject(c) PROVE PayIInv'
<1>1. PICK i \in Items :
        /\ payCall[c].pc = "free" /\ instr[i].status # "none"
        /\ Pay!Update(i, Pay!NoRow, "rejected", instr[i].level, "rejected")
        /\ payCall' = [payCall EXCEPT ![c].op = "reject", ![c].target = {i}, ![c].pc = "done"]
  BY DEF Pay!Reject, Pay!Exists
<1>2. /\ payCall' \in [Calls -> PayCallType]
      /\ \A d \in Calls : d # c => payCall'[d] = payCall[d]
      /\ payCall'[c].pc = "done" /\ payCall'[c].op = "reject"
  BY <1>1 DEF PayIInv, PayCallType, PayOps, PayPCs
<1>3. GoesOn(c) /\ PayShape(payCall'[c]) /\ payCall'[c].pc \notin Updating
  BY <1>1, <1>2 DEF GoesOn, PayShape, Updating
<1>4. Pay!NoRow.history \in Seq(Entries)
  BY DEF Pay!NoRow
<1>5. "rejected" \in Pay!Statuses \ {"none", "approved"} /\ "rejected" \in Entries
  BY DEF Pay!Statuses, Entries
<1> QED BY <1>1, <1>3, <1>4, <1>5, OtherUpdateKeeps

LEMMA CancelKeeps == ASSUME PayIInv, NEW c \in Calls, Pay!Cancel(c) PROVE PayIInv'
<1>1. payCall[c].pc = "cancel" /\ Pay!End(c, "done")
  BY DEF Pay!Cancel
<1>2. PICK i \in Items : payCall[c].target = {i} /\ payCall[c].op = "cancel"
  BY <1>1 DEF PayIInv, PayShape, Updating
<1>3. Pay!Update(i, payCall[c].row, "cancelled", instr[i].level, "cancelled")
  BY <1>2 DEF Pay!Cancel
<1>4. instr[i].status # "none" /\ payCall[c].row.history \in Seq(Entries)
  BY <1>1, <1>2 DEF PayIInv, Updating, PayCallType, PayRowType
<1>5. GoesOn(c) /\ PayShape(payCall'[c]) /\ payCall'[c].pc \notin Updating
  BY <1>1, <1>2, EndFacts DEF GoesOn, PayShape, Updating, PayPCs
<1>6. "cancelled" \in Pay!Statuses \ {"none", "approved"} /\ "cancelled" \in Entries
  BY DEF Pay!Statuses, Entries
<1> QED BY <1>3, <1>4, <1>5, <1>6, OtherUpdateKeeps

LEMMA ExecuteKeeps == ASSUME PayIInv, NEW c \in Calls, Pay!Execute(c) PROVE PayIInv'
<1> DEFINE q == payCall[c]
           pc == IF q.op = "settle" THEN "next" ELSE "done"
<1>1. /\ q.pc = "execute"
      /\ payCall' = [payCall EXCEPT ![c] = [q EXCEPT !.sent = q.sent \cup q.target, !.pc = pc]]
  BY DEF Pay!Execute
<1>2. PICK i \in Items : q.target = {i} /\ q.op \in {"execute", "settle"}
  BY <1>1 DEF PayIInv, PayShape, Updating
<1>3. Pay!Update(i, q.row, "executing", instr[i].level, "executing")
  BY <1>2 DEF Pay!Execute
<1>4. instr[i].status # "none" /\ q.row.history \in Seq(Entries)
  BY <1>1, <1>2 DEF PayIInv, Updating, PayCallType, PayRowType
<1>5. /\ payCall' \in [Calls -> PayCallType]
      /\ \A d \in Calls : d # c => payCall'[d] = payCall[d]
      /\ payCall'[c].pc = pc /\ payCall'[c].op = q.op /\ payCall'[c].found = q.found
      /\ payCall'[c].todo = q.todo /\ payCall'[c].sent = q.sent \cup q.target
  <2>1. q \in PayCallType /\ payCall \in [Calls -> PayCallType] /\ pc \in PayPCs
    BY DEF PayIInv, PayPCs
  <2> HIDE DEF q, pc
  <2>2. [q EXCEPT !.sent = q.sent \cup q.target, !.pc = pc] \in PayCallType
    BY <2>1 DEF PayCallType
  <2>3. payCall'[c] = [q EXCEPT !.sent = q.sent \cup q.target, !.pc = pc]
    BY <2>1, <1>1
  <2> QED BY <2>1, <2>2, <2>3, <1>1 DEF PayCallType
<1>6. PayShape(q)
  BY DEF PayIInv
<1>7. GoesOn(c) /\ PayShape(payCall'[c]) /\ payCall'[c].pc \notin Updating
  BY <1>1, <1>2, <1>5, <1>6 DEF GoesOn, PayShape, Updating
<1>8. "executing" \in Pay!Statuses \ {"none", "approved"} /\ "executing" \in Entries
  BY DEF Pay!Statuses, Entries
<1> QED BY <1>3, <1>4, <1>7, <1>8, OtherUpdateKeeps

\* Steps that leave the instructions alone.
LEMMA ReadOnlyKeeps ==
  ASSUME PayIInv, NEW c \in Calls, GoesOn(c), PayShape(payCall'[c]), UNCHANGED instr,
         payCall'[c].pc \in Updating => \A i \in payCall'[c].target :
           instr[i].status # "none" /\ payCall'[c].row = instr[i] /\ i \in Items
  PROVE  PayIInv'
<1>1. ASSUME NEW i \in Items PROVE instr[i].level <= Approved(i)' + 1
  <2>1. instr[i].level <= Approved(i) + 1 /\ instr[i].level \in Nat
    BY DEF PayIInv, PayEarned, PayRowType
  <2> QED BY <2>1, ApprovalsGrow, CountIsNatural
<1> QED BY <1>1, CallMoves DEF PayIInv

LEMMA SettleKeeps == ASSUME PayIInv, NEW c \in Calls, Pay!Settle(c) PROVE PayIInv'
<1> DEFINE found == {i \in Items : instr[i].status = "approved"}
           q == [Pay!FreeCall EXCEPT !.op = "settle", !.pc = "next", !.found = found,
                                 !.todo = found]
<1>1. payCall[c].pc = "free" /\ payCall' = [payCall EXCEPT ![c] = q] /\ instr' = instr
  BY DEF Pay!Settle
<1>2. found \in SUBSET Items
  OBVIOUS
<1> HIDE DEF found
<1>3. q \in PayCallType /\ q.op = "settle" /\ q.pc = "next" /\ q.found = q.sent \cup q.todo
  BY <1>2, FreeCallFacts DEF PayCallType, PayOps, PayPCs
<1> HIDE DEF q
<1>4. GoesOn(c) /\ payCall'[c] = q
  BY <1>1, <1>3 DEF PayIInv, GoesOn
<1>5. PayShape(q) /\ q.pc \notin Updating
  BY <1>3 DEF PayShape, Updating
<1> QED BY <1>1, <1>4, <1>5, ReadOnlyKeeps

LEMMA SettleNextKeeps == ASSUME PayIInv, NEW c \in Calls, Pay!SettleNext(c) PROVE PayIInv'
<1> DEFINE q == payCall[c]
<1>1. PICK i \in q.todo :
        payCall' = [payCall EXCEPT ![c] = [q EXCEPT !.todo = q.todo \ {i}, !.target = {i},
                                              !.row = instr[i], !.pc = Pay!AfterFound(i)]]
  BY DEF Pay!SettleNext
<1>2. q.pc = "next" /\ instr' = instr
  BY DEF Pay!SettleNext
<1>3. i \in Items /\ q \in PayCallType /\ instr[i] \in PayRowType
  BY DEF PayIInv, PayCallType
<1>4. q.op = "settle" /\ q.found = q.sent \cup q.todo
  BY <1>2 DEF PayIInv, PayShape
<1>5. Pay!AfterFound(i) \in {"execute", "refused"}
      /\ (Pay!AfterFound(i) = "execute" => instr[i].status # "none")
  BY DEF Pay!AfterFound, Pay!Executable
<1>6. /\ payCall' \in [Calls -> PayCallType]
      /\ \A d \in Calls : d # c => payCall'[d] = payCall[d]
      /\ payCall'[c].pc = Pay!AfterFound(i) /\ payCall'[c].op = "settle"
      /\ payCall'[c].target = {i}
      /\ payCall'[c].row = instr[i] /\ payCall'[c].found = q.found
      /\ payCall'[c].sent = q.sent
      /\ payCall'[c].todo = q.todo \ {i}
  BY <1>1, <1>3, <1>4, <1>5 DEF PayIInv, PayCallType, PayPCs
<1>7. GoesOn(c) /\ PayShape(payCall'[c])
  BY <1>2, <1>3, <1>4, <1>5, <1>6 DEF GoesOn, PayShape, Updating
<1> QED BY <1>2, <1>3, <1>5, <1>6, <1>7, ReadOnlyKeeps DEF Updating

\* The batch answers, or a call fails.
LEMMA EndKeeps == ASSUME PayIInv, NEW c \in Calls, Pay!SettleEnd(c) \/ Pay!Fail(c) PROVE PayIInv'
<1>1. CASE Pay!SettleEnd(c)
  <2>1. /\ payCall[c].pc = "next" /\ payCall[c].todo = {} /\ Pay!End(c, "done")
        /\ instr' = instr
    BY <1>1 DEF Pay!SettleEnd
  <2>2. payCall[c].op = "settle" /\ payCall[c].found = payCall[c].sent
    BY <2>1 DEF PayIInv, PayShape
  <2>3. GoesOn(c) /\ PayShape(payCall'[c]) /\ payCall'[c].pc \notin Updating
    BY <2>1, <2>2, EndFacts DEF GoesOn, PayShape, Updating, PayPCs
  <2> QED BY <2>1, <2>3, ReadOnlyKeeps
<1>2. CASE Pay!Fail(c)
  <2>1. /\ payCall[c].pc # "done" /\ Pay!End(c, "failed") /\ instr' = instr
    BY <1>2 DEF Pay!Fail, Pay!Ended
  <2>2. GoesOn(c) /\ PayShape(payCall'[c]) /\ payCall'[c].pc \notin Updating
    BY <2>1, EndFacts DEF GoesOn, PayShape, Updating, PayPCs
  <2> QED BY <2>1, <2>2, ReadOnlyKeeps
<1> QED BY <1>1, <1>2

-----------------------------------------------------------------------------
LEMMA PayInitSound == Pay!Init => PayIInv
<1> SUFFICES ASSUME Pay!Init PROVE PayIInv
  OBVIOUS
<1>1. Pay!NoRow \in PayRowType /\ Pay!NoRow.level = 0 /\ Pay!NoRow.status = "none"
  BY DEF Pay!NoRow, PayRowType, Pay!Statuses
<1>2. Pay!FreeCall \in PayCallType /\ Pay!FreeCall.pc = "free" /\ Pay!FreeCall.op = "none"
  BY FreeCallFacts
<1>3. instr \in [Items -> PayRowType] /\ payCall \in [Calls -> PayCallType]
  BY <1>1, <1>2 DEF Pay!Init
<1>4. \A c \in Calls : PayShape(payCall[c]) /\ payCall[c].pc \notin Updating
  BY <1>2 DEF Pay!Init, PayShape, Updating
<1>5. ASSUME NEW i \in Items PROVE PayEarned(instr[i], Approved(i))
  <2>1. Pay!Approvals(i) = {}
    BY <1>2 DEF Pay!Init, Pay!Approvals
  <2>2. Approved(i) = 0
    BY <2>1, FS_EmptySet DEF Approved
  <2> QED BY <1>1, <2>2 DEF Pay!Init, PayEarned
<1> QED BY <1>3, <1>4, <1>5 DEF PayIInv

LEMMA PayNextSound == PayIInv /\ [Pay!Next]_(Pay!vars) => PayIInv'
<1> SUFFICES ASSUME PayIInv, [Pay!Next]_(Pay!vars) PROVE PayIInv'
  OBVIOUS
<1>1. ASSUME NEW c \in Calls, Pay!AskApprove(c) \/ Pay!AskCancel(c) \/ Pay!AskExecute(c) PROVE PayIInv'
  <2>1. PICK op \in Updating, i \in Items, ok \in BOOLEAN : Pay!Read(c, op, i, ok)
    BY <1>1 DEF Pay!AskApprove, Pay!AskCancel, Pay!AskExecute, Updating, Pay!Executable
  <2> QED BY <2>1, ReadKeeps
<1>2. ASSUME NEW c \in Calls, Pay!Approve(c) \/ Pay!Reject(c) \/ Pay!Cancel(c) \/ Pay!Execute(c) PROVE PayIInv'
  BY <1>2, ApproveKeeps, RejectKeeps, CancelKeeps, ExecuteKeeps
<1>3. ASSUME NEW c \in Calls, Pay!Settle(c) \/ Pay!SettleNext(c) \/ Pay!SettleEnd(c) \/ Pay!Fail(c)
      PROVE  PayIInv'
  BY <1>3, SettleKeeps, SettleNextKeeps, EndKeeps
<1>4. CASE UNCHANGED Pay!vars
  BY <1>4 DEF PayIInv, Pay!vars, PayShape, PayEarned, Approved, Pay!Approvals
<1> QED BY <1>1, <1>2, <1>3, <1>4, CreateKeeps DEF Pay!Next, Pay!Done

LEMMA PayInductive == Spec => []PayIInv
<1>1. PayIInv /\ [Next]_vars => PayIInv'
  BY PayNextSound DEF Next, PaymentStep, PayrollStep, WebhookStep, vars, payVars, Pay!vars
<1> QED BY <1>1, PayInitSound, PTL DEF Spec, Init

\* The counting of PaymentApproval and of the library.
LEMMA CountsAgree == \A S : Pay!Cardinality(S) = Cardinality(S)
  BY DEF Pay!Cardinality, Cardinality, Pay!IsFiniteSet, IsFiniteSet

\* The larger of two numbers.
LEMMA MaxOfTwo ==
  ASSUME NEW x \in Int, NEW y \in Int
  PROVE  Pay!Max({x, y}) = IF x >= y THEN x ELSE y
  BY DEF Pay!Max

\* approve(): no order of approvals, executions and cancellations lets a level be reached
\* or an instruction be approved without the approvals for it.
THEOREM LevelsEarned == Spec => []LevelsAreEarned
<1>1. ASSUME PayIInv, NEW i \in Items
      PROVE  /\ Pay!Exists(i) => instr[i].level <= 1 + Cardinality(Pay!Approvals(i))
             /\ instr[i].status = "approved" =>
                  Cardinality(Pay!Approvals(i)) >= Pay!Max({1, instr[i].total - 1})
  <2>1. instr[i] \in PayRowType /\ PayEarned(instr[i], Approved(i)) /\ Approved(i) \in Nat
    BY <1>1, CountIsNatural DEF PayIInv
  <2>2. instr[i].level \in Nat /\ instr[i].total \in 0..3
    BY <2>1 DEF PayRowType
  <2>3. Pay!Max({1, instr[i].total - 1}) = IF 1 >= instr[i].total - 1 THEN 1
                                       ELSE instr[i].total - 1
    BY <2>2, MaxOfTwo
  <2> QED BY <2>1, <2>3, <2>2 DEF PayEarned, Approved
<1>2. PayIInv => Pay!LevelsAreEarned
  BY <1>1, CountsAgree DEF Pay!LevelsAreEarned
<1> QED BY <1>2, PayInductive, PTL DEF LevelsAreEarned

\* processBatch(): a batch that answers has executed everything it found, whatever else
\* happened to it meanwhile.
THEOREM BatchIsWhole == Spec => []AnsweredBatchIsWhole
<1>1. PayIInv => Pay!AnsweredBatchIsWhole
  BY DEF PayIInv, PayShape, Pay!AnsweredBatchIsWhole
<1> QED BY <1>1, PayInductive, PTL DEF AnsweredBatchIsWhole

\* No level is ever more than one above the number of calls, and no instruction needs
\* more than three.
LEMMA PaymentsTypeCorrect == Spec => []Pay!TypeOK
<1>1. ASSUME PayIInv, NEW i \in Items PROVE instr[i].level \in 0..(Cardinality(Calls) + 1)
  <2>1. Pay!Approvals(i) \subseteq Calls
    BY DEF Pay!Approvals
  <2>2. Approved(i) <= Cardinality(Calls) /\ Approved(i) \in Nat /\ Cardinality(Calls) \in Nat
    BY <2>1, FiniteCallsAssumption, FS_Subset, FS_CardinalityType DEF Approved
  <2>3. instr[i].level \in Nat /\ instr[i].level <= Approved(i) + 1
    BY <1>1 DEF PayIInv, PayEarned, PayRowType
  <2> QED BY <2>2, <2>3
<1>2. PayIInv => Pay!TypeOK
  BY <1>1, CountsAgree DEF PayIInv, Pay!TypeOK, PayRowType, PayCallType, PayPCs
<1> QED BY <1>2, PayInductive, PTL

-----------------------------------------------------------------------------
RollRowType == [validation : {"none", "pending", "validated"},
            execution : {"none", "pending", "executing", "completed", "failed"},
            date : Roll!Dates]

RollPCs == {"free", "save", "timer", "complete", "done", "refused", "failed"}

RollCallType == [op : Roll!Ops \cup {"none"}, pc : RollPCs, on : SUBSET Items, row : RollRowType]

Running == {"save", "timer", "complete"}

\* What the program counter says of a call: it is on one batch, and only executions
\* have a timer.
RollShape ==
  /\ rollCall \in [Calls -> RollCallType]
  /\ \A c \in Calls : \A a, b \in rollCall[c].on : a = b
  /\ \A c \in Calls : /\ rollCall[c].pc \in {"timer", "complete"} => rollCall[c].op = "execute"
                      /\ rollCall[c].pc \in Running => rollCall[c].op \in Roll!Ops

\* A row, in the table or in a copy, that tells of a validation or of an execution
\* of b tells the truth: somebody made it.
RollEarned(r, b) ==
  /\ r.validation = "validated" => Roll!Made(b, "validate")
  /\ r.execution \in {"executing", "completed"} => Roll!Made(b, "validate") /\ Roll!Made(b, "execute")

\* Every row and every copy that may still be saved is earned, and so is an
\* execution that has been accepted.
AllEarned ==
  /\ \A b \in Items : RollEarned(batch[b], b)
  /\ \A c \in Calls, b \in Items : b \in rollCall[c].on /\ rollCall[c].pc \in Running =>
       /\ RollEarned(rollCall[c].row, b)
       /\ rollCall[c].op = "execute" => Roll!Made(b, "validate")

RollIInv == Roll!TypeOK /\ RollShape /\ AllEarned

-----------------------------------------------------------------------------
\* What was made stays made.
LEMMA MadeStays ==
  ASSUME NEW b \in Items, NEW op \in Roll!Ops, Roll!Made(b, op),
         \A c \in Calls :
           rollCall[c].pc \in {"timer", "complete", "done", "failed"} =>
             /\ rollCall'[c].pc \in {"timer", "complete", "done", "failed"}
             /\ rollCall'[c].op = rollCall[c].op /\ rollCall'[c].on = rollCall[c].on
  PROVE  Roll!Made(b, op)'
  BY DEF Roll!Made

LEMMA GotoFacts ==
  ASSUME RollShape, NEW c \in Calls, NEW pc \in RollPCs, Roll!Goto(c, pc)
  PROVE  /\ rollCall' \in [Calls -> RollCallType]
         /\ \A d \in Calls : d # c => rollCall'[d] = rollCall[d]
         /\ rollCall'[c].pc = pc /\ rollCall'[c].op = rollCall[c].op
         /\ rollCall'[c].on = rollCall[c].on /\ rollCall'[c].row = rollCall[c].row
  BY DEF RollShape, Roll!Goto, RollCallType

LEMMA InitIInv == Roll!Init => RollIInv
  BY DEF Roll!Init, RollIInv, Roll!TypeOK, RollShape, AllEarned, RollEarned, Roll!NoRow, Roll!FreeCall, RollCallType, RollRowType,
         RollPCs, Running, Roll!Dates

-----------------------------------------------------------------------------
\* Each action of Next preserves the invariant.


\* A step in which c alone moves.  It leaves the table and the copies earned if they
\* were before the step or became so with it.
LEMMA MoveIInv ==
  ASSUME RollIInv, NEW c \in Calls, rollCall' \in [Calls -> RollCallType],
         batch' \in [Items -> RollRowType],
         \A d \in Calls : d # c => rollCall'[d] = rollCall[d],
         rollCall[c].pc \in Running =>
           rollCall'[c].op = rollCall[c].op /\ rollCall'[c].on = rollCall[c].on,
         rollCall[c].pc \in Running \cup {"free"},
         rollCall[c].pc \in {"timer", "complete"} => rollCall'[c].pc \in {"complete", "done"},
         \A a, b \in rollCall'[c].on : a = b,
         rollCall'[c].pc \in Running => rollCall'[c].op \in Roll!Ops,
         rollCall'[c].pc \in {"timer", "complete"} => rollCall'[c].op = "execute",
         \A b \in Items : b \in rollCall'[c].on /\ rollCall'[c].pc \in Running =>
           /\ \/ RollEarned(rollCall'[c].row, b)
              \/ rollCall'[c].row = rollCall[c].row /\ rollCall[c].pc \in Running
           /\ rollCall'[c].op = "execute" => Roll!Made(b, "validate"),
         \A b \in Items : RollEarned(batch[b], b)' \/ batch'[b] = batch[b]
  PROVE  RollIInv'
<1>1. RollShape'
  BY DEF RollIInv, RollShape
<1>2. Roll!TypeOK'
  BY DEF RollRowType, RollCallType, RollPCs, Roll!TypeOK
<1>3. ASSUME NEW b \in Items, NEW op \in Roll!Ops, Roll!Made(b, op) PROVE Roll!Made(b, op)'
  <2>1. ASSUME NEW d \in Calls, rollCall[d].pc \in {"timer", "complete", "done", "failed"}
        PROVE  /\ rollCall'[d].pc \in {"timer", "complete", "done", "failed"}
               /\ rollCall'[d].op = rollCall[d].op /\ rollCall'[d].on = rollCall[d].on
    <3>1. CASE d = c
      BY <2>1, <3>1 DEF Running
    <3>2. CASE d # c
      BY <2>1, <3>2
    <3> QED
      BY <3>1, <3>2
  <2> QED
    BY <1>3, <2>1, MadeStays
<1>4. ASSUME NEW d \in Calls, NEW b \in Items, b \in rollCall'[d].on, rollCall'[d].pc \in Running
      PROVE  /\ RollEarned(rollCall[d].row, b)'
             /\ rollCall'[d].op = "execute" => Roll!Made(b, "validate")'
  <2>1. RollEarned(rollCall'[d].row, b) /\ (rollCall'[d].op = "execute" => Roll!Made(b, "validate"))
    <3>1. CASE d = c
      BY <1>4, <3>1 DEF RollIInv, AllEarned
    <3>2. CASE d # c
      BY <1>4, <3>2 DEF RollIInv, AllEarned
    <3> QED
      BY <3>1, <3>2
  <2> QED
    BY <2>1, <1>3 DEF RollEarned, Roll!Ops
<1>5. ASSUME NEW b \in Items PROVE RollEarned(batch[b], b)'
  <2>1. CASE batch'[b] = batch[b]
    <3>1. RollEarned(batch[b], b)
      BY DEF RollIInv, AllEarned
    <3> QED
      BY <2>1, <3>1, <1>3 DEF RollEarned, Roll!Ops
  <2> QED
    BY <2>1
<1> QED
  BY <1>1, <1>2, <1>4, <1>5 DEF RollIInv, AllEarned

LEMMA CreateIInv == RollIInv /\ Roll!Create => RollIInv'
<1> SUFFICES ASSUME RollIInv, Roll!Create PROVE RollIInv'
  OBVIOUS
<1>1. rollCall' = rollCall
  BY DEF Roll!Create
<1>2. PICK a \in Items, dt \in Roll!Dates :
        batch' = [batch EXCEPT ![a] =
          [validation |-> "pending", execution |-> "pending", date |-> dt]]
  BY DEF Roll!Create
<1>3. batch' \in [Items -> RollRowType]
  BY <1>2 DEF RollIInv, Roll!TypeOK, RollRowType
<1>4. \A b \in Items, op \in Roll!Ops : Roll!Made(b, op)' <=> Roll!Made(b, op)
  BY <1>1 DEF Roll!Made
<1>5. \A b \in Items : RollEarned(batch[b], b)'
  BY <1>2, <1>4 DEF RollIInv, Roll!TypeOK, AllEarned, RollEarned, Roll!Ops
<1>6. \A c \in Calls, b \in Items : b \in rollCall'[c].on /\ rollCall'[c].pc \in Running =>
        /\ RollEarned(rollCall[c].row, b)'
        /\ rollCall'[c].op = "execute" => Roll!Made(b, "validate")'
  BY <1>1, <1>4 DEF RollIInv, AllEarned, RollEarned, Roll!Ops
<1> QED
  BY <1>1, <1>3, <1>5, <1>6 DEF RollIInv, Roll!TypeOK, RollRowType, RollShape, AllEarned

LEMMA AskIInv == ASSUME RollIInv, NEW c \in Calls, Roll!Ask(c) PROVE RollIInv'
<1>1. PICK b \in Items, op \in Roll!Ops :
        rollCall' = [rollCall EXCEPT ![c] =
            [op |-> op, on |-> {b}, row |-> batch[b],
             pc |-> IF Roll!Accepted(op, batch[b]) THEN "save" ELSE "refused"]]
  BY DEF Roll!Ask
<1>2. batch' = batch /\ rollCall[c].pc = "free"
  BY DEF Roll!Ask
<1>3. batch \in [Items -> RollRowType] /\ rollCall \in [Calls -> RollCallType]
  BY DEF RollIInv, Roll!TypeOK, RollRowType, RollShape
<1>4. rollCall'[c] = [op |-> op, on |-> {b}, row |-> batch[b],
                  pc |-> IF Roll!Accepted(op, batch[b]) THEN "save" ELSE "refused"]
  BY <1>1, <1>3
<1>5. rollCall' \in [Calls -> RollCallType] /\ \A d \in Calls : d # c => rollCall'[d] = rollCall[d]
  BY <1>1, <1>3 DEF RollCallType, RollPCs
<1>6. RollEarned(batch[b], b)
  BY DEF RollIInv, AllEarned
<1>7. rollCall'[c].pc \in Running => Roll!Accepted(op, batch[b])
  BY <1>4 DEF Running
<1>8. rollCall'[c].pc \in Running /\ op = "execute" => Roll!Made(b, "validate")
  BY <1>6, <1>7 DEF Roll!Accepted, RollEarned
<1>9. /\ rollCall'[c].pc \in {"save", "refused"} /\ rollCall'[c].op = op
      /\ rollCall'[c].on = {b} /\ rollCall'[c].row = batch[b]
  BY <1>4
<1>a. \A a \in Items : a \in rollCall'[c].on /\ rollCall'[c].pc \in Running =>
           /\ RollEarned(rollCall'[c].row, a)
           /\ rollCall'[c].op = "execute" => Roll!Made(a, "validate")
  BY <1>6, <1>8, <1>9
<1> HIDE <1>1, <1>4
<1> QED
  BY <1>2, <1>3, <1>5, <1>9, <1>a, MoveIInv DEF Running

LEMMA SaveIInv == ASSUME RollIInv, NEW c \in Calls, Roll!Save(c) PROVE RollIInv'
<1>1. PICK b \in rollCall[c].on :
        batch' = [batch EXCEPT ![b] = Roll!Changed(rollCall[c].op, rollCall[c].row)]
  BY DEF Roll!Save
<1> DEFINE r == rollCall[c].row
           op == rollCall[c].op
<1>2. rollCall[c].pc = "save" /\ Roll!Goto(c, Roll!AfterSave(op))
  BY DEF Roll!Save
<1>3. /\ batch \in [Items -> RollRowType] /\ rollCall[c] \in RollCallType
      /\ op \in Roll!Ops /\ r \in RollRowType /\ b \in Items /\ RollShape
  BY <1>2 DEF RollIInv, Roll!TypeOK, RollRowType, RollShape, RollCallType, Running
<1>4. Roll!AfterSave(op) \in {"timer", "done"} /\ (Roll!AfterSave(op) = "timer" <=> op = "execute")
  BY DEF Roll!AfterSave
<1>5. /\ rollCall' \in [Calls -> RollCallType]
      /\ \A d \in Calls : d # c => rollCall'[d] = rollCall[d]
      /\ rollCall'[c].pc = Roll!AfterSave(op) /\ rollCall'[c].op = op
      /\ rollCall'[c].on = rollCall[c].on /\ rollCall'[c].row = r
  BY <1>2, <1>3, <1>4, GotoFacts DEF RollPCs
<1>6. RollEarned(r, b) /\ (op = "execute" => Roll!Made(b, "validate"))
  BY <1>2, <1>3 DEF RollIInv, AllEarned, Running
<1>7. \A o \in Roll!Ops : o = op => Roll!Made(b, o)'
  BY <1>4, <1>5 DEF Roll!Made
<1>8. \A o \in Roll!Ops : Roll!Made(b, o) => Roll!Made(b, o)'
  <2>1. \A d \in Calls : rollCall[d].pc \in {"timer", "complete", "done", "failed"} =>
          rollCall'[d].pc = rollCall[d].pc /\ rollCall'[d].op = rollCall[d].op /\ rollCall'[d].on = rollCall[d].on
    BY <1>2, <1>5
  <2> QED
    BY <2>1, <1>3, MadeStays
<1>9. Roll!Changed(op, r) \in RollRowType
  BY <1>3 DEF Roll!Changed, RollRowType, Roll!Ops
<1>a. batch' \in [Items -> RollRowType] /\ batch'[b] = Roll!Changed(op, r)
  BY <1>1, <1>3, <1>9
<1>b. /\ Roll!Changed(op, r).validation = "validated" => Roll!Made(b, "validate")'
      /\ Roll!Changed(op, r).execution \in {"executing", "completed"} =>
           Roll!Made(b, "validate")' /\ Roll!Made(b, "execute")'
  <2>1. CASE op = "validate"
    <3>1. Roll!Changed(op, r).validation = "validated" /\ Roll!Changed(op, r).execution = r.execution
      BY <2>1, <1>3 DEF Roll!Changed, RollRowType
    <3> QED
      BY <2>1, <3>1, <1>6, <1>7, <1>8 DEF RollEarned, Roll!Ops
  <2>2. CASE op = "execute"
    <3>1. Roll!Made(b, "validate")' /\ Roll!Made(b, "execute")'
      BY <2>2, <1>6, <1>7, <1>8 DEF Roll!Ops
    <3> QED
      BY <3>1
  <2>3. CASE op = "cancel"
    <3>1. Roll!Changed(op, r).validation = r.validation /\ Roll!Changed(op, r).execution = "failed"
      BY <2>3, <1>3 DEF Roll!Changed, RollRowType
    <3> QED
      BY <3>1, <1>6, <1>8 DEF RollEarned, Roll!Ops
  <2> QED
    BY <1>3, <2>1, <2>2, <2>3 DEF Roll!Ops
<1>c. \A a \in Items : RollEarned(batch[a], a)' \/ batch'[a] = batch[a]
  <2>1. RollEarned(batch[b], b)'
    BY <1>a, <1>b DEF RollEarned
  <2> QED
    BY <2>1, <1>1, <1>3
<1>d. \A a \in rollCall[c].on : a = b
  BY <1>3 DEF RollShape
<1>e. \A a \in Items : a \in rollCall'[c].on /\ rollCall'[c].pc \in Running =>
        /\ rollCall'[c].row = rollCall[c].row /\ rollCall[c].pc \in Running
        /\ rollCall'[c].op = "execute" => Roll!Made(a, "validate")
  BY <1>2, <1>5, <1>6, <1>d DEF Running
<1> QED
  BY <1>2, <1>3, <1>4, <1>5, <1>a, <1>c, <1>d, <1>e, MoveIInv DEF Running

LEMMA FireIInv == ASSUME RollIInv, NEW c \in Calls, Roll!Fire(c) PROVE RollIInv'
<1>1. PICK b \in rollCall[c].on :
        rollCall' = [rollCall EXCEPT ![c] =
          [op |-> "execute", on |-> {b}, row |-> batch[b], pc |-> "complete"]]
  BY DEF Roll!Fire
<1>2. batch' = batch /\ rollCall[c].pc = "timer"
  BY DEF Roll!Fire
<1>3. /\ batch \in [Items -> RollRowType] /\ rollCall \in [Calls -> RollCallType]
      /\ rollCall[c].op = "execute" /\ b \in Items /\ RollShape
  BY <1>2 DEF RollIInv, Roll!TypeOK, RollRowType, RollShape, RollCallType
<1>4. /\ rollCall' \in [Calls -> RollCallType]
      /\ \A d \in Calls : d # c => rollCall'[d] = rollCall[d]
      /\ rollCall'[c].pc = "complete" /\ rollCall'[c].op = "execute"
      /\ rollCall'[c].on = {b} /\ rollCall'[c].row = batch[b]
  BY <1>1, <1>3 DEF RollCallType, RollPCs, Roll!Ops
<1>5. RollEarned(batch[b], b) /\ Roll!Made(b, "validate")
  BY <1>2, <1>3 DEF RollIInv, AllEarned, Running
<1>6. rollCall[c].on = {b}
  BY <1>3 DEF RollShape
<1>7. \A a \in Items : a \in rollCall'[c].on /\ rollCall'[c].pc \in Running =>
        /\ RollEarned(rollCall'[c].row, a)
        /\ rollCall'[c].op = "execute" => Roll!Made(a, "validate")
  BY <1>4, <1>5
<1> HIDE <1>1
<1> QED
  BY <1>2, <1>3, <1>4, <1>6, <1>7, MoveIInv DEF Running, Roll!Ops

LEMMA CompleteIInv == ASSUME RollIInv, NEW c \in Calls, Roll!Complete(c) PROVE RollIInv'
<1>1. PICK b \in rollCall[c].on :
        batch' = [batch EXCEPT ![b] = [rollCall[c].row EXCEPT !.execution = "completed"]]
  BY DEF Roll!Complete
<1> DEFINE r == [rollCall[c].row EXCEPT !.execution = "completed"]
<1>2. rollCall[c].pc = "complete" /\ Roll!Goto(c, "done")
  BY DEF Roll!Complete
<1>3. /\ batch \in [Items -> RollRowType] /\ rollCall[c] \in RollCallType
      /\ rollCall[c].op = "execute" /\ b \in Items /\ RollShape
  BY <1>2 DEF RollIInv, Roll!TypeOK, RollRowType, RollShape, RollCallType
<1>4. /\ rollCall' \in [Calls -> RollCallType]
      /\ \A d \in Calls : d # c => rollCall'[d] = rollCall[d]
      /\ rollCall'[c].pc = "done" /\ rollCall'[c].op = rollCall[c].op
      /\ rollCall'[c].on = rollCall[c].on
  BY <1>2, <1>3, GotoFacts DEF RollPCs
<1>5. Roll!Made(b, "validate") /\ Roll!Made(b, "execute")
  BY <1>2, <1>3 DEF RollIInv, AllEarned, Running, Roll!Made
<1>6. Roll!Made(b, "validate")' /\ Roll!Made(b, "execute")'
  <2>1. \A d \in Calls : rollCall[d].pc \in {"timer", "complete", "done", "failed"} =>
          /\ rollCall'[d].pc \in {"timer", "complete", "done", "failed"}
          /\ rollCall'[d].op = rollCall[d].op /\ rollCall'[d].on = rollCall[d].on
    BY <1>4
  <2> QED
    BY <2>1, <1>3, <1>5, MadeStays DEF Roll!Ops
<1>7. batch' \in [Items -> RollRowType]
  BY <1>1, <1>3 DEF RollCallType, RollRowType
<1>8. \A a \in Items : RollEarned(batch[a], a)' \/ batch'[a] = batch[a]
  <2>1. RollEarned(batch[b], b)'
    BY <1>6 DEF RollEarned
  <2> QED
    BY <2>1, <1>1, <1>3
<1>9. \A x, y \in rollCall'[c].on : x = y
  BY <1>3, <1>4 DEF RollShape
<1> QED
  BY <1>2, <1>4, <1>7, <1>8, <1>9, MoveIInv DEF Running

LEMMA FailIInv == ASSUME RollIInv, NEW c \in Calls, Roll!Fail(c) PROVE RollIInv'
<1>1. rollCall[c].pc = "save" /\ Roll!Goto(c, "failed") /\ batch' = batch
  BY DEF Roll!Fail
<1>2. batch \in [Items -> RollRowType] /\ RollShape
  BY DEF RollIInv, Roll!TypeOK, RollRowType
<1>3. /\ rollCall' \in [Calls -> RollCallType]
      /\ \A d \in Calls : d # c => rollCall'[d] = rollCall[d]
      /\ rollCall'[c].pc = "failed" /\ rollCall'[c].op = rollCall[c].op
      /\ rollCall'[c].on = rollCall[c].on
  BY <1>1, <1>2, GotoFacts DEF RollPCs
<1>4. \A x, y \in rollCall'[c].on : x = y
  BY <1>2, <1>3 DEF RollShape
<1> QED
  BY <1>1, <1>2, <1>3, <1>4, MoveIInv DEF Running

LEMMA CrashIInv == RollIInv /\ Roll!Crash => RollIInv'
<1> SUFFICES ASSUME RollIInv, Roll!Crash PROVE RollIInv'
  OBVIOUS
<1>1. batch' = batch /\ RollShape /\ rollCall \in [Calls -> RollCallType]
  BY DEF Roll!Crash, RollIInv, RollShape
<1>2. ASSUME NEW c \in Calls
      PROVE  /\ rollCall'[c] \in RollCallType /\ rollCall'[c].pc \notin Running
             /\ rollCall'[c].op = rollCall[c].op /\ rollCall'[c].on = rollCall[c].on
             /\ rollCall[c].pc \in {"timer", "complete", "done", "failed"} =>
                  rollCall'[c].pc \in {"done", "failed"}
  <2>1. CASE Roll!Ended(c) \/ rollCall[c].pc = "free"
    <3>1. rollCall'[c] = rollCall[c]
      BY <2>1 DEF Roll!Crash
    <3> QED
      BY <2>1, <3>1, <1>1 DEF Roll!Ended, Running
  <2>2. CASE ~(Roll!Ended(c) \/ rollCall[c].pc = "free")
    <3>1. rollCall'[c] = [rollCall[c] EXCEPT !.pc = "failed"]
      BY <2>2 DEF Roll!Crash
    <3>2. rollCall[c] \in RollCallType
      BY <1>1
    <3> QED
      BY <3>1, <3>2 DEF RollCallType, RollPCs, Running
  <2> QED
    BY <2>1, <2>2
<1>3. rollCall' \in [Calls -> RollCallType]
  <2>1. rollCall' = [c \in Calls |-> rollCall'[c]]
    BY DEF Roll!Crash
  <2> QED
    BY <2>1, <1>2
<1>4. \A b \in Items, op \in Roll!Ops : Roll!Made(b, op) => Roll!Made(b, op)'
  BY <1>2, MadeStays
<1>5. RollShape'
  BY <1>1, <1>2, <1>3 DEF RollShape, Running
<1>6. Roll!TypeOK'
  BY <1>1, <1>2, <1>3 DEF RollIInv, Roll!TypeOK, RollCallType, RollPCs
<1>7. AllEarned'
  BY <1>1, <1>2, <1>4 DEF RollIInv, AllEarned, RollEarned, Roll!Ops
<1> QED
  BY <1>5, <1>6, <1>7 DEF RollIInv

LEMMA StutterIInv == RollIInv /\ UNCHANGED Roll!vars => RollIInv'
  BY DEF Roll!vars, RollIInv, Roll!TypeOK, RollShape, AllEarned, RollEarned, Roll!Made

-----------------------------------------------------------------------------
\* The invariant is inductive.
LEMMA PayrollInvariance == Spec => []RollIInv
<1>1. RollIInv /\ [Roll!Next]_(Roll!vars) => RollIInv'
  BY CreateIInv, CrashIInv, AskIInv, SaveIInv, FireIInv, CompleteIInv, FailIInv,
     StutterIInv DEF Roll!Next
<1>2. RollIInv /\ [Next]_vars => RollIInv'
  BY <1>1 DEF Next, PaymentStep, PayrollStep, WebhookStep, vars, payrollVars, Roll!vars
<1> QED
  BY <1>2, InitIInv, PTL DEF Spec, Init

\* Rows and calls keep their types.
LEMMA PayrollTypeCorrect == Spec => []Roll!TypeOK
<1>1. RollIInv => Roll!TypeOK
  BY DEF RollIInv
<1> QED
  BY <1>1, PayrollInvariance, PTL

\* No batch is in execution or completed unless calls of validateBatch and of
\* executeBatch got past their checks on it, whatever stale rows were saved.
THEOREM NothingExecutedUnvalidated == Spec => []ExecutionWasValidated
<1>1. RollIInv => Roll!ExecutionWasValidated
  BY DEF RollIInv, AllEarned, RollEarned, Roll!ExecutionWasValidated
<1> QED
  BY <1>1, PayrollInvariance, PTL DEF ExecutionWasValidated
-----------------------------------------------------------------------------
(***************************************************************************)
(* The webhooks of Business, for any number of events and workers,         *)
(* whatever fails: the endpoint is not asked more often than somebody      *)
(* asked for it; and the types of all three services.                      *)
(***************************************************************************)
HookPCs == {"idle", "insertLog", "send", "readStats", "saveStats", "saveFailed", "decide",
            "readAgain", "saveAttempt", "saveDead", "savePending", "readEndpoint"}

HookRowType == [status : Hooks!Statuses, attempt : Nat]

WorkerType == [pc : HookPCs, event : Items \cup {NoEvent}, row : HookRowType, total : 0..Widest]

SubType == [state : {"none", "active", "deleted"}, maxRetries : Nat, total : 0..Widest]

-----------------------------------------------------------------------------
\* The inductive invariant.

HookTypes ==
  /\ sub \in SubType /\ log \in [Items -> HookRowType]
  /\ timer \in [Items -> Nat] /\ sends \in [Items -> Nat] /\ replays \in [Items -> Nat]
  /\ worker \in [Workers -> WorkerType]

\* A worker that does something does it for an event, and what it is about to save
\* as the next attempt is a log.
HookShape(q) ==
  /\ IF q.pc = "idle" THEN q = Hooks!FreeWorker ELSE q.event \in Items
  /\ q.pc = "saveAttempt" => q.row.status # "none"

\* Nothing happened to an event that has no log, but that it may be triggered.
Untriggered(e) ==
  /\ timer[e] = 0 /\ sends[e] = 0 /\ replays[e] = 0
  /\ \A w \in Workers : worker[w].event = e => worker[w].pc = "insertLog"

Located ==
  /\ \A w \in Workers : HookShape(worker[w])
  /\ \A e \in Items : log[e].status = "none" => Untriggered(e)

\* The workers that will ask the endpoint for e, or set the timer to.
Asks(q, e) == q.event = e /\ q.pc \in {"send", "insertLog", "readEndpoint"}

Asking(e) == Cardinality({w \in Workers : Asks(worker[w], e)})

Bounded == \A e \in Items : sends[e] + timer[e] + Asking(e) <= 1 + replays[e]

\* Nothing happens before the subscription is there, and unless a client deletes it,
\* it stays.
Subscribed ==
  ~deletes =>
    /\ sub.state # "deleted"
    /\ sub.state = "none" => /\ \A e \in Items : log[e].status = "none"
                             /\ \A w \in Workers : worker[w].pc = "idle"

HookIInv == HookTypes /\ Located /\ Bounded /\ Subscribed

-----------------------------------------------------------------------------
\* Counting the workers that ask.
LEMMA AskingIsNatural ==
  ASSUME NEW e
  PROVE  IsFiniteSet({w \in Workers : Asks(worker[w], e)}) /\ Asking(e) \in Nat
<1>1. {w \in Workers : Asks(worker[w], e)} \subseteq Workers
  OBVIOUS
<1> QED BY <1>1, WebhookAssumption, FS_Subset, FS_CardinalityType DEF Asking

\* One worker moves: it counts, no longer counts, or counts as before.
LEMMA AskingMoves ==
  ASSUME HookTypes, NEW w \in Workers, NEW q \in WorkerType, NEW e \in Items,
         worker' = [worker EXCEPT ![w] = q]
  PROVE  /\ Asking(e)' \in Nat
         /\ Asks(q, e) /\ ~Asks(worker[w], e) => Asking(e)' = Asking(e) + 1
         /\ ~Asks(q, e) /\ Asks(worker[w], e) => Asking(e) = Asking(e)' + 1
         /\ (Asks(q, e) <=> Asks(worker[w], e)) => Asking(e)' = Asking(e)
<1> DEFINE A == {v \in Workers : Asks(worker[v], e)}
           B == {v \in Workers : Asks(worker'[v], e)}
<1>1. worker'[w] = q /\ \A v \in Workers : v # w => worker'[v] = worker[v]
  BY DEF HookTypes
<1>2. IsFiniteSet(A) /\ IsFiniteSet(B)
  BY WebhookAssumption, FS_Subset
<1>3. Asking(e) = Cardinality(A) /\ Asking(e)' = Cardinality(B)
  BY DEF Asking, Asks
<1>4. Cardinality(A) \in Nat /\ Cardinality(B) \in Nat
  BY <1>2, FS_CardinalityType
<1>5. CASE Asks(q, e) /\ ~Asks(worker[w], e)
  <2>1. B = A \cup {w} /\ w \notin A
    BY <1>1, <1>5
  <2>2. Cardinality(B) = Cardinality(A) + 1
    BY <2>1, <1>2, FS_AddElement
  <2> QED BY <2>2, <1>3, <1>4, <1>5
<1>6. CASE ~Asks(q, e) /\ Asks(worker[w], e)
  <2>1. A = B \cup {w} /\ w \notin B
    BY <1>1, <1>6
  <2>2. Cardinality(A) = Cardinality(B) + 1
    BY <2>1, <1>2, FS_AddElement
  <2> QED BY <2>2, <1>3, <1>4, <1>6
<1>7. CASE Asks(q, e) <=> Asks(worker[w], e)
  <2>1. A = B
    BY <1>1, <1>7
  <2> QED BY <2>1, <1>3, <1>4, <1>7
<1> QED BY <1>5, <1>6, <1>7

\* A step in which the worker w alone moves, to q, and works on e alone.
Moves(w, q, e) ==
  /\ worker' = [worker EXCEPT ![w] = q] /\ q \in WorkerType /\ HookShape(q)
  /\ q.event \in {e, NoEvent} /\ worker[w].event \in {e, NoEvent}
  /\ log' \in [Items -> HookRowType] /\ timer' \in [Items -> Nat]
  /\ sends' \in [Items -> Nat] /\ replays' \in [Items -> Nat]
  /\ \A f \in Items : f # e =>
       log'[f] = log[f] /\ timer'[f] = timer[f] /\ sends'[f] = sends[f] /\ replays'[f] = replays[f]
  /\ sub' \in SubType /\ sub'.maxRetries = sub.maxRetries /\ deletes' = deletes

\* What such a step owes to the invariant: what it says of e and of w.
LEMMA MovesKeep ==
  ASSUME HookIInv, NEW w \in Workers, NEW q, NEW e \in Items, Moves(w, q, e),
         log'[e].status = "none" => Untriggered(e)',
         sends'[e] + timer'[e] + Asking(e)' <= 1 + replays'[e],
         ~deletes => sub'.state = "active"
  PROVE  HookIInv'
<1>1. /\ worker'[w] = q /\ q \in WorkerType /\ \A v \in Workers : v # w => worker'[v] = worker[v]
      /\ worker' \in [Workers -> WorkerType]
  BY DEF HookIInv, HookTypes, Moves
<1>2. HookTypes'
  BY <1>1 DEF HookTypes, Moves
<1>3. \A f \in Items : f # NoEvent
  BY WebhookAssumption
<1>4. ASSUME NEW f \in Items, log'[f].status = "none" PROVE Untriggered(f)'
  <2>1. CASE f # e
    <3>1. Untriggered(f) /\ timer'[f] = timer[f] /\ sends'[f] = sends[f] /\ replays'[f] = replays[f]
      BY <1>4, <2>1 DEF HookIInv, Located, Moves
    <3>2. \A v \in Workers : worker'[v].event = f => v # w
      BY <1>1, <1>3, <2>1 DEF Moves
    <3> QED BY <3>1, <3>2, <1>1 DEF Untriggered
  <2> QED BY <1>4, <2>1
<1>5. Located'
  <2>1. \A v \in Workers : HookShape(worker'[v])
    BY <1>1 DEF HookIInv, Located, Moves
  <2> QED BY <2>1, <1>4 DEF Located, HookShape
<1>6. ASSUME NEW f \in Items PROVE sends'[f] + timer'[f] + Asking(f)' <= 1 + replays'[f]
  <2>1. CASE f # e
    <3>1. ~Asks(q, f) /\ ~Asks(worker[w], f)
      BY <1>3, <2>1 DEF Moves, Asks
    <3>2. HookTypes /\ worker' = [worker EXCEPT ![w] = q]
      BY DEF HookIInv, Moves
    <3>3. Asking(f)' = Asking(f)
      BY <3>1, <3>2, <1>1, AskingMoves
    <3>4. sends[f] + timer[f] + Asking(f) <= 1 + replays[f]
      BY DEF HookIInv, Bounded
    <3> QED BY <3>3, <3>4, <2>1 DEF Moves
  <2> QED BY <1>6, <2>1
<1>7. Bounded'
  BY <1>6 DEF Bounded
<1>8. Subscribed'
  BY DEF Subscribed, Moves
<1> QED BY <1>2, <1>5, <1>7, <1>8 DEF HookIInv

-----------------------------------------------------------------------------
\* What the invariant says of a worker and of the event it works on.
LEMMA FreeFacts ==
  /\ Hooks!FreeWorker \in WorkerType /\ HookShape(Hooks!FreeWorker)
  /\ Hooks!FreeWorker.pc = "idle" /\ Hooks!FreeWorker.event = NoEvent
  /\ \A e : ~Asks(Hooks!FreeWorker, e)
<1>1. Hooks!NoLog \in HookRowType
  BY DEF Hooks!NoLog, HookRowType, Hooks!Statuses
<1>2. 0 \in 0..Widest
  BY WebhookAssumption
<1> QED BY <1>1, <1>2 DEF Hooks!FreeWorker, WorkerType, HookPCs, HookShape, Asks

LEMMA BusyFacts ==
  ASSUME HookIInv, NEW w \in Workers, worker[w].pc # "idle", NEW e, e = worker[w].event
  PROVE  /\ e \in Items /\ worker[w] \in WorkerType /\ log[e] \in HookRowType
         /\ timer[e] \in Nat /\ sends[e] \in Nat /\ replays[e] \in Nat
         /\ sends[e] + timer[e] + Asking(e) <= 1 + replays[e]
         /\ worker[w].pc # "insertLog" => log[e].status # "none"
         /\ ~deletes => sub.state = "active"
<1>1. e \in Items /\ worker[w] \in WorkerType
  BY DEF HookIInv, HookTypes, Located, HookShape
<1>2. worker[w].pc # "insertLog" => log[e].status # "none"
  BY <1>1 DEF HookIInv, Located, Untriggered
<1>3. ~deletes => sub.state = "active"
  BY DEF HookIInv, Subscribed, HookTypes, SubType
<1> QED BY <1>1, <1>2, <1>3 DEF HookIInv, HookTypes, Bounded

LEMMA IdleFacts ==
  ASSUME HookIInv, NEW w \in Workers, worker[w].pc = "idle"
  PROVE  worker[w] = Hooks!FreeWorker
  BY DEF HookIInv, Located, HookShape

\* A free worker starts with an event that is there.
LEMMA StartFacts ==
  ASSUME HookIInv, NEW w \in Workers, NEW pc \in HookPCs \ {"idle", "saveAttempt"},
         NEW e \in Items, NEW row \in HookRowType, Hooks!Start(w, pc, e, row)
  PROVE  \E q \in WorkerType :
           /\ worker' = [worker EXCEPT ![w] = q] /\ HookShape(q)
           /\ q.pc = pc /\ q.event = e /\ q.row = row
           /\ worker[w].event = NoEvent /\ ~Asks(worker[w], e)
<1> DEFINE q == [Hooks!FreeWorker EXCEPT !.pc = pc, !.event = e, !.row = row]
<1>1. worker[w] = Hooks!FreeWorker /\ worker' = [worker EXCEPT ![w] = q]
  BY IdleFacts DEF Hooks!Start, Hooks!At
<1>2. q \in WorkerType /\ q.pc = pc /\ q.event = e /\ q.row = row
  BY FreeFacts DEF WorkerType
<1> HIDE DEF q
<1>3. HookShape(q)
  BY <1>2 DEF HookShape
<1> QED BY <1>1, <1>2, <1>3, FreeFacts

\* A log of e is written.
LEMMA LogWritten ==
  ASSUME HookIInv, NEW e \in Items, NEW row \in HookRowType, log' = [log EXCEPT ![e] = row]
  PROVE  /\ log' \in [Items -> HookRowType] /\ log'[e] = row
         /\ \A f \in Items : f # e => log'[f] = log[f]
  BY DEF HookIInv, HookTypes

-----------------------------------------------------------------------------
\* Each action keeps the invariant.

LEMMA RegisterKeeps == ASSUME HookIInv, Hooks!Register, UNCHANGED deletes PROVE HookIInv'
<1>1. PICK n \in Retries :
        sub' = [state |-> "active", maxRetries |-> IF n = 0 THEN 3 ELSE n, total |-> 0]
  BY DEF Hooks!Register
<1>2. /\ sub.state = "none"
      /\ UNCHANGED <<log, timer, worker, sends, replays, deletes>>
  BY DEF Hooks!Register
<1>3. n \in Nat /\ 0 \in 0..Widest
  BY WebhookAssumption
<1>4. (IF n = 0 THEN 3 ELSE n) \in Nat
  BY <1>3
<1>5. sub' \in SubType /\ sub'.state = "active"
  BY <1>1, <1>3, <1>4 DEF SubType
<1>6. HookTypes'
  BY <1>2, <1>5 DEF HookIInv, HookTypes
<1>7. Located' /\ Bounded'
  BY <1>2 DEF HookIInv, Located, Untriggered, HookShape, Bounded, Asking, Asks
<1>8. Subscribed'
  BY <1>5 DEF Subscribed
<1> QED BY <1>6, <1>7, <1>8 DEF HookIInv

LEMMA DeleteKeeps == ASSUME HookIInv, Hooks!Delete, UNCHANGED deletes PROVE HookIInv'
<1>1. /\ deletes /\ sub' = [sub EXCEPT !.state = "deleted"]
      /\ UNCHANGED <<log, timer, worker, sends, replays, deletes>>
  BY DEF Hooks!Delete
<1>2. HookTypes'
  BY <1>1 DEF HookIInv, HookTypes, SubType
<1>3. Located' /\ Bounded'
  BY <1>1 DEF HookIInv, Located, Untriggered, HookShape, Bounded, Asking, Asks
<1> QED BY <1>1, <1>2, <1>3 DEF HookIInv, Subscribed

\* Whoever triggers an event is the first to work on it.
LEMMA TriggerKeeps ==
  ASSUME HookIInv, NEW w \in Workers, Hooks!Trigger(w), UNCHANGED deletes PROVE HookIInv'
<1>1. PICK e \in Items : /\ log[e] = Hooks!NoLog /\ \A v \in Workers : worker[v].event # e
                         /\ Hooks!Start(w, "insertLog", e, Hooks!NoLog)
  BY DEF Hooks!Trigger
<1>2. sub.state = "active" /\ UNCHANGED <<sub, log, timer, sends, replays, deletes>>
  BY DEF Hooks!Trigger
<1>3. log[e].status = "none" /\ Hooks!NoLog \in HookRowType
  BY <1>1 DEF Hooks!NoLog, HookRowType, Hooks!Statuses
<1>4. PICK q \in WorkerType :
        /\ worker' = [worker EXCEPT ![w] = q] /\ HookShape(q)
        /\ q.pc = "insertLog" /\ q.event = e /\ worker[w].event = NoEvent
        /\ ~Asks(worker[w], e)
  BY <1>1, <1>3, StartFacts DEF HookPCs
<1>5. Untriggered(e) /\ HookTypes
  BY <1>3 DEF HookIInv, Located
<1>6. Asking(e)' = 1
  <2>1. {v \in Workers : Asks(worker[v], e)} = {}
    BY <1>1 DEF Asks
  <2>2. Asking(e) = 0
    BY <2>1, FS_EmptySet DEF Asking
  <2>3. Asks(q, e)
    BY <1>4 DEF Asks
  <2>4. Asking(e)' = Asking(e) + 1
    BY <2>3, <1>4, <1>5, AskingMoves
  <2> QED BY <2>2, <2>4
<1>7. Untriggered(e)'
  <2>1. \A v \in Workers : worker'[v].event = e => worker'[v].pc = "insertLog"
    BY <1>1, <1>4, <1>5 DEF HookTypes
  <2> QED BY <2>1, <1>2, <1>5 DEF Untriggered
<1>8. sends'[e] + timer'[e] + Asking(e)' <= 1 + replays'[e]
  BY <1>2, <1>5, <1>6 DEF Untriggered
<1>9. Moves(w, q, e)
  BY <1>2, <1>4, <1>5 DEF Moves, HookTypes
<1>10. ~deletes => sub'.state = "active"
  BY <1>2
<1> QED BY <1>4, <1>7, <1>8, <1>9, <1>10, MovesKeep

\* The log is there from now on, and the timer asks in the worker's place.
LEMMA InsertLogKeeps ==
  ASSUME HookIInv, NEW w \in Workers, Hooks!InsertLog(w), UNCHANGED deletes PROVE HookIInv'
<1> PICK e : e = worker[w].event
  OBVIOUS
<1>1. /\ worker[w].pc = "insertLog" /\ log' = [log EXCEPT ![e] = Hooks!NewLog]
      /\ timer' = [timer EXCEPT ![e] = @ + 1]
      /\ worker' = [worker EXCEPT ![w] = Hooks!FreeWorker]
      /\ UNCHANGED <<sub, sends, replays, deletes>>
  BY DEF Hooks!InsertLog, Hooks!At, Hooks!Finish
<1>2. /\ e \in Items /\ timer[e] \in Nat /\ sends[e] \in Nat /\ replays[e] \in Nat
      /\ sends[e] + timer[e] + Asking(e) <= 1 + replays[e]
      /\ ~deletes => sub.state = "active"
  BY <1>1, BusyFacts
<1>3. Hooks!NewLog \in HookRowType /\ Hooks!NewLog.status = "PENDING"
  BY DEF Hooks!NewLog, HookRowType, Hooks!Statuses
<1>4. Asks(worker[w], e)
  BY <1>1 DEF Asks
<1>5. HookTypes
  BY DEF HookIInv
<1>6. /\ timer' \in [Items -> Nat] /\ timer'[e] = timer[e] + 1
      /\ \A f \in Items : f # e => timer'[f] = timer[f]
  BY <1>1, <1>2, <1>5 DEF HookTypes
<1>7. /\ log' \in [Items -> HookRowType] /\ log'[e] = Hooks!NewLog
      /\ \A f \in Items : f # e => log'[f] = log[f]
  BY <1>1, <1>2, <1>3, LogWritten
<1>8. Asking(e) = Asking(e)' + 1 /\ Asking(e)' \in Nat
  <2>1. Hooks!FreeWorker \in WorkerType /\ ~Asks(Hooks!FreeWorker, e) /\ e \in Items
    BY <1>2, FreeFacts
  <2>2. worker' = [worker EXCEPT ![w] = Hooks!FreeWorker]
    BY <1>1
  <2> QED BY <2>1, <2>2, <1>4, <1>5, AskingMoves
<1>9. sends'[e] + timer'[e] + Asking(e)' <= 1 + replays'[e]
  BY <1>1, <1>2, <1>6, <1>8
<1>10. Moves(w, Hooks!FreeWorker, e)
  BY <1>1, <1>5, <1>6, <1>7, FreeFacts DEF Moves, HookTypes
<1>11. ~deletes => sub'.state = "active"
  BY <1>1, <1>2
<1>12. log'[e].status # "none" /\ Hooks!FreeWorker.pc = "idle" /\ e \in Items
  BY <1>2, <1>3, <1>7, FreeFacts
<1> QED BY <1>9, <1>10, <1>11, <1>12, MovesKeep

\* The callback asks in the timer's place.
LEMMA FireKeeps ==
  ASSUME HookIInv, NEW w \in Workers, Hooks!Fire(w), UNCHANGED deletes PROVE HookIInv'
<1>1. PICK e \in Items : /\ timer[e] > 0 /\ timer' = [timer EXCEPT ![e] = @ - 1]
                         /\ Hooks!Start(w, "send", e, log[e])
  BY DEF Hooks!Fire
<1>2. UNCHANGED <<sub, log, sends, replays, deletes>> /\ HookTypes
  BY DEF Hooks!Fire, HookIInv
<1>3. /\ log[e] \in HookRowType /\ timer[e] \in Nat /\ sends[e] \in Nat /\ replays[e] \in Nat
      /\ sends[e] + timer[e] + Asking(e) <= 1 + replays[e] /\ Asking(e) \in Nat
  BY AskingIsNatural DEF HookIInv, HookTypes, Bounded
<1>4. PICK q \in WorkerType :
        /\ worker' = [worker EXCEPT ![w] = q] /\ HookShape(q)
        /\ q.pc = "send" /\ q.event = e /\ worker[w].event = NoEvent /\ ~Asks(worker[w], e)
  <2>1. log[e] \in HookRowType /\ "send" \in HookPCs \ {"idle", "saveAttempt"}
    BY <1>3 DEF HookPCs
  <2>2. Hooks!Start(w, "send", e, log[e])
    BY <1>1
  <2> QED BY <2>1, <2>2, StartFacts
<1>5. Asking(e)' = Asking(e) + 1
  <2>1. Asks(q, e)
    BY <1>4 DEF Asks
  <2> QED BY <2>1, <1>2, <1>4, AskingMoves
<1>6. /\ timer' \in [Items -> Nat] /\ timer'[e] = timer[e] - 1
      /\ \A f \in Items : f # e => timer'[f] = timer[f]
  BY <1>1, <1>2, <1>3 DEF HookTypes
<1>7. log[e].status # "none"
  BY <1>1, <1>3 DEF HookIInv, Located, Untriggered
<1>8. sends'[e] + timer'[e] + Asking(e)' <= 1 + replays'[e]
  BY <1>2, <1>3, <1>5, <1>6
<1>9. Moves(w, q, e)
  BY <1>2, <1>4, <1>6 DEF Moves, HookTypes
<1>10. ~deletes => sub'.state = "active"
  BY <1>2, <1>7 DEF HookIInv, Subscribed, HookTypes, SubType
<1> QED BY <1>2, <1>4, <1>7, <1>8, <1>9, <1>10, MovesKeep

\* What a worker does for its event after the endpoint was asked, or instead of it.
LEMMA BookkeepingKeeps ==
  ASSUME HookIInv, NEW w \in Workers, worker[w].pc # "idle", NEW e, e = worker[w].event,
         NEW q \in WorkerType, worker' = [worker EXCEPT ![w] = q], HookShape(q), ~Asks(q, e),
         q.event = NoEvent \/ (q.event = e /\ worker[w].pc # "insertLog"),
         \/ log' = log
         \/ /\ worker[w].pc # "insertLog"
            /\ \E row \in HookRowType :
                 row.status # "none" /\ log' = [log EXCEPT ![e] = row],
         UNCHANGED <<timer, sends, replays, deletes>>,
         sub' \in SubType, sub'.maxRetries = sub.maxRetries, sub'.state \in {sub.state, "active"}
  PROVE  HookIInv'
<1>1. /\ e \in Items /\ timer[e] \in Nat /\ sends[e] \in Nat /\ replays[e] \in Nat
      /\ sends[e] + timer[e] + Asking(e) <= 1 + replays[e]
      /\ worker[w].pc # "insertLog" => log[e].status # "none"
      /\ ~deletes => sub.state = "active"
  BY BusyFacts
<1>2. HookTypes /\ \A f \in Items : f # NoEvent
  BY WebhookAssumption DEF HookIInv
<1>3. /\ log' \in [Items -> HookRowType]
      /\ \A f \in Items : f # e => log'[f] = log[f]
      /\ log'[e].status = "none" => log' = log
  <2>1. CASE log' = log
    BY <2>1, <1>2 DEF HookTypes
  <2>2. CASE \E row \in HookRowType : row.status # "none" /\ log' = [log EXCEPT ![e] = row]
    <3>1. PICK row \in HookRowType : row.status # "none" /\ log' = [log EXCEPT ![e] = row]
      BY <2>2
    <3> QED BY <3>1, <1>1, LogWritten
  <2> QED BY <2>1, <2>2
<1>4. Asking(e)' \in Nat /\ Asking(e) \in Nat /\ Asking(e)' <= Asking(e)
  <2>1. e \in Items
    BY <1>1
  <2>2. /\ Asking(e)' \in Nat
        /\ Asks(worker[w], e) => Asking(e) = Asking(e)' + 1
        /\ ~Asks(worker[w], e) => Asking(e)' = Asking(e)
    BY <2>1, <1>2, AskingMoves
  <2> QED BY <2>2, AskingIsNatural
<1>5. sends'[e] + timer'[e] + Asking(e)' <= 1 + replays'[e]
  BY <1>1, <1>4
<1>6. Moves(w, q, e)
  BY <1>2, <1>3 DEF Moves, HookTypes
<1>7. log'[e].status = "none" => Untriggered(e)'
  <2> SUFFICES ASSUME log'[e].status = "none" PROVE Untriggered(e)'
    OBVIOUS
  <2>1. log' = log /\ worker[w].pc = "insertLog"
    BY <1>1, <1>3
  <2>2. Untriggered(e) /\ q.event = NoEvent
    BY <1>1, <2>1 DEF HookIInv, Located
  <2>3. \A v \in Workers : worker'[v] = IF v = w THEN q ELSE worker[v]
    BY <1>2 DEF HookTypes
  <2> QED BY <2>2, <2>3, <1>1, <1>2 DEF Untriggered
<1>8. ~deletes => sub'.state = "active"
  BY <1>1
<1> QED BY <1>1, <1>5, <1>6, <1>7, <1>8, MovesKeep

\* The statistics are read and saved with the log as it was.
LEMMA StatsFacts ==
  ASSUME HookIInv, NEW w \in Workers, Hooks!ReadStats(w) \/ Hooks!SaveStats(w),
         NEW e, e = worker[w].event
  PROVE  /\ worker[w].pc \in {"readStats", "saveStats"} /\ UNCHANGED <<log, timer, sends, replays>>
         /\ sub' \in SubType /\ sub'.maxRetries = sub.maxRetries
         /\ sub'.state \in {sub.state, "active"}
         /\ \E q \in WorkerType :
              /\ worker' = [worker EXCEPT ![w] = q] /\ HookShape(q) /\ ~Asks(q, e)
              /\ (q.event = NoEvent \/ (q.event = e /\ q.row = worker[w].row))
              /\ q.pc \in {"idle", "saveStats", "saveFailed"}
<1>1. worker[w].pc \in {"readStats", "saveStats"} /\ UNCHANGED <<log, timer, sends, replays>>
  BY DEF Hooks!ReadStats, Hooks!SaveStats, Hooks!At
<1>2. /\ e \in Items /\ worker[w] \in WorkerType /\ log[e] \in HookRowType /\ sub \in SubType
  BY <1>1, BusyFacts DEF HookIInv, HookTypes
<1>4. \/ worker' = [worker EXCEPT ![w] = Hooks!FreeWorker]
      \/ \E pc \in {"saveStats", "saveFailed"}, total \in 0..Widest :
           worker' = [worker EXCEPT ![w] = [worker[w] EXCEPT !.total = total, !.pc = pc]]
  <2>1. CASE Hooks!ReadStats(w)
    <3>1. sub.total \in 0..Widest
      BY <1>2 DEF SubType
    <3> QED BY <2>1, <3>1 DEF Hooks!ReadStats, Hooks!Finish
  <2>2. CASE Hooks!SaveStats(w)
    <3>1. worker[w].total \in 0..Widest
      BY <1>2 DEF WorkerType
    <3>2. [worker[w] EXCEPT !.pc = "saveFailed"]
            = [worker[w] EXCEPT !.total = worker[w].total, !.pc = "saveFailed"]
      BY <1>2 DEF WorkerType
    <3> QED BY <2>2, <3>1, <3>2 DEF Hooks!SaveStats, Hooks!Finish, Hooks!Goto
  <2> QED BY <2>1, <2>2
<1>5. /\ sub' \in SubType /\ sub'.maxRetries = sub.maxRetries
      /\ sub'.state \in {sub.state, "active"}
  <2>1. CASE Hooks!ReadStats(w)
    BY <2>1, <1>2 DEF Hooks!ReadStats
  <2>2. CASE Hooks!SaveStats(w)
    <3>1. worker[w].total \in Nat
      BY <1>2 DEF WorkerType
    <3> DEFINE total == Hooks!PlusOne(worker[w].total)
    <3>2. total \in Nat
      BY <3>1 DEF Hooks!PlusOne
    <3>3. sub' = sub \/ (total <= Widest /\ sub' = [sub EXCEPT !.state = "active", !.total = total])
      BY <2>2 DEF Hooks!SaveStats
    <3> HIDE DEF total
    <3>4. total <= Widest => total \in 0..Widest
      BY <3>2, WebhookAssumption
    <3> QED BY <3>3, <3>4, <1>2 DEF SubType
  <2> QED BY <2>1, <2>2
<1>6. \E q \in WorkerType :
        /\ worker' = [worker EXCEPT ![w] = q] /\ HookShape(q) /\ ~Asks(q, e)
        /\ (q.event = NoEvent \/ (q.event = e /\ q.row = worker[w].row))
        /\ q.pc \in {"idle", "saveStats", "saveFailed"}
  <2>1. CASE worker' = [worker EXCEPT ![w] = Hooks!FreeWorker]
    BY <2>1, FreeFacts
  <2>2. CASE worker' # [worker EXCEPT ![w] = Hooks!FreeWorker]
    <3>1. PICK pc \in {"saveStats", "saveFailed"}, total \in 0..Widest :
            worker' = [worker EXCEPT ![w] = [worker[w] EXCEPT !.total = total, !.pc = pc]]
      BY <1>4, <2>2
    <3> DEFINE q == [worker[w] EXCEPT !.total = total, !.pc = pc]
    <3>2. q \in WorkerType /\ q.pc = pc /\ q.event = e /\ q.row = worker[w].row
      BY <1>2 DEF WorkerType, HookPCs
    <3>3. worker' = [worker EXCEPT ![w] = q]
      BY <3>1
    <3> HIDE DEF q
    <3> QED BY <3>2, <3>3, <1>2 DEF HookShape, Asks
  <2> QED BY <2>1, <2>2
<1> QED BY <1>1, <1>5, <1>6

LEMMA StatsKeep ==
  ASSUME HookIInv, NEW w \in Workers, Hooks!ReadStats(w) \/ Hooks!SaveStats(w),
         UNCHANGED deletes
  PROVE  HookIInv'
<1> PICK e : e = worker[w].event
  OBVIOUS
<1> QED BY StatsFacts, BookkeepingKeeps

\* The steps of the catch block, but for the retry.
LEMMA GivingUpKeeps ==
  ASSUME HookIInv, NEW w \in Workers,
         Hooks!SaveFailed(w) \/ Hooks!Decide(w) \/ Hooks!SaveDead(w), UNCHANGED deletes
  PROVE  HookIInv'
<1> PICK e : e = worker[w].event
  OBVIOUS
<1>1. /\ worker[w].pc \in {"saveFailed", "decide", "saveDead"}
      /\ UNCHANGED <<sub, timer, sends, replays>>
  BY DEF Hooks!SaveFailed, Hooks!Decide, Hooks!SaveDead, Hooks!At
<1>2. /\ e \in Items /\ worker[w] \in WorkerType /\ log[e] \in HookRowType /\ sub \in SubType
      /\ ~deletes => sub.state = "active"
  BY <1>1, BusyFacts DEF HookIInv, HookTypes
<1>3. worker[w].row \in HookRowType
  BY <1>2 DEF WorkerType
<1>4. CASE Hooks!SaveFailed(w)
  <2> DEFINE row == [worker[w].row EXCEPT !.status = "FAILED"]
             q == [worker[w] EXCEPT !.row = row, !.pc = "decide"]
  <2>1. log' = [log EXCEPT ![e] = row] /\ worker' = [worker EXCEPT ![w] = q]
    BY <1>4 DEF Hooks!SaveFailed
  <2>2. row \in HookRowType /\ row.status = "FAILED"
    BY <1>3 DEF HookRowType, Hooks!Statuses
  <2> HIDE DEF row
  <2>3. q \in WorkerType /\ q.pc = "decide" /\ q.event = e
    BY <1>2, <2>2 DEF WorkerType, HookPCs
  <2> HIDE DEF q
  <2>4. HookShape(q) /\ ~Asks(q, e) /\ log'[e] = row
    BY <1>2, <2>1, <2>2, <2>3, LogWritten DEF HookShape, Asks
  <2> QED BY <1>1, <1>2, <2>1, <2>2, <2>3, <2>4, BookkeepingKeeps
<1>5. CASE Hooks!Decide(w)
  <2> DEFINE pc == IF Hooks!Retryable(worker[w].row) THEN "readAgain" ELSE "saveDead"
             q == [worker[w] EXCEPT !.pc = pc]
  <2>1. log' = log /\ worker' = [worker EXCEPT ![w] = q]
    BY <1>5 DEF Hooks!Decide, Hooks!Goto
  <2>2. pc \in {"readAgain", "saveDead"}
    OBVIOUS
  <2> HIDE DEF pc
  <2>3. q \in WorkerType /\ q.pc = pc /\ q.event = e /\ q.row = worker[w].row
    BY <1>2, <2>2 DEF WorkerType, HookPCs
  <2> HIDE DEF q
  <2>4. HookShape(q) /\ ~Asks(q, e)
    BY <1>2, <2>2, <2>3 DEF HookShape, Asks
  <2> QED BY <1>1, <1>2, <2>1, <2>3, <2>4, BookkeepingKeeps
<1>6. CASE Hooks!SaveDead(w)
  <2> DEFINE row == [worker[w].row EXCEPT !.status = "DEAD_LETTER"]
  <2>1. /\ worker[w].pc = "saveDead" /\ log' = [log EXCEPT ![e] = row]
        /\ worker' = [worker EXCEPT ![w] = Hooks!FreeWorker]
    BY <1>6 DEF Hooks!SaveDead, Hooks!At, Hooks!Finish
  <2>2. row \in HookRowType /\ row.status = "DEAD_LETTER" /\ row.attempt = worker[w].row.attempt
    BY <1>3 DEF HookRowType, Hooks!Statuses
  <2> HIDE DEF row
  <2>4. log'[e] = row
    BY <1>2, <2>1, <2>2, LogWritten
  <2>5. /\ Hooks!FreeWorker \in WorkerType /\ HookShape(Hooks!FreeWorker)
        /\ ~Asks(Hooks!FreeWorker, e) /\ Hooks!FreeWorker.event = NoEvent
        /\ Hooks!FreeWorker.pc = "idle"
    BY FreeFacts
  <2> QED BY <1>1, <1>2, <2>1, <2>2, <2>4, <2>5, BookkeepingKeeps
<1> QED BY <1>4, <1>5, <1>6

\* scheduleRetry: what it saves is what it read, with one attempt more.
LEMMA RetryKeeps ==
  ASSUME HookIInv, NEW w \in Workers, Hooks!ReadAgain(w) \/ Hooks!SaveAttempt(w),
         UNCHANGED deletes
  PROVE  HookIInv'
<1> PICK e : e = worker[w].event
  OBVIOUS
<1>1. /\ worker[w].pc \in {"readAgain", "saveAttempt"}
      /\ UNCHANGED <<sub, timer, sends, replays>>
  BY DEF Hooks!ReadAgain, Hooks!SaveAttempt, Hooks!At
<1>2. /\ e \in Items /\ worker[w] \in WorkerType /\ log[e] \in HookRowType /\ sub \in SubType
      /\ log[e].status # "none"
  BY <1>1, BusyFacts DEF HookIInv, HookTypes
<1>3. worker[w].row \in HookRowType
  BY <1>2 DEF WorkerType
<1>4. CASE Hooks!ReadAgain(w)
  <2> DEFINE q == [worker[w] EXCEPT !.row = log[e], !.pc = "saveAttempt"]
  <2>1. log' = log /\ worker' = [worker EXCEPT ![w] = q]
    BY <1>4 DEF Hooks!ReadAgain
  <2>2. q \in WorkerType /\ q.pc = "saveAttempt" /\ q.event = e /\ q.row = log[e]
    BY <1>2 DEF WorkerType, HookPCs
  <2> HIDE DEF q
  <2>3. HookShape(q) /\ ~Asks(q, e)
    BY <1>2, <2>2 DEF HookShape, Asks
  <2> QED BY <1>1, <1>2, <2>1, <2>2, <2>3, BookkeepingKeeps
<1>5. CASE Hooks!SaveAttempt(w)
  <2> DEFINE row == [worker[w].row EXCEPT !.attempt = @ + 1]
  <2>1. /\ worker[w].pc = "saveAttempt" /\ log' = [log EXCEPT ![e] = row]
        /\ worker' = [worker EXCEPT ![w] = Hooks!FreeWorker]
    BY <1>5 DEF Hooks!SaveAttempt, Hooks!At, Hooks!Finish
  <2>2. /\ row \in HookRowType /\ row.status = worker[w].row.status
        /\ row.attempt = worker[w].row.attempt + 1
    BY <1>3 DEF HookRowType
  <2> HIDE DEF row
  <2>3. row.status # "none"
    BY <2>1, <2>2 DEF HookIInv, Located, HookShape
  <2>5. log'[e] = row
    BY <1>2, <2>1, <2>2, LogWritten
  <2>6. /\ Hooks!FreeWorker \in WorkerType /\ HookShape(Hooks!FreeWorker)
        /\ ~Asks(Hooks!FreeWorker, e) /\ Hooks!FreeWorker.event = NoEvent
        /\ Hooks!FreeWorker.pc = "idle"
    BY FreeFacts
  <2> QED BY <1>1, <1>2, <2>1, <2>2, <2>3, <2>5, <2>6, BookkeepingKeeps
<1> QED BY <1>4, <1>5

\* A query fails: a request ends, a delivery goes to its catch block.
LEMMA FailKeeps ==
  ASSUME HookIInv, NEW w \in Workers, Hooks!Fail(w), UNCHANGED deletes PROVE HookIInv'
<1> PICK e : e = worker[w].event
  OBVIOUS
<1>1. UNCHANGED <<sub, log, timer, sends, replays>> /\ worker[w].pc # "idle"
  BY DEF Hooks!Fail, Hooks!Requests, Hooks!InTry
<1>2. e \in Items /\ worker[w] \in WorkerType /\ log[e] \in HookRowType /\ sub \in SubType
  BY <1>1, BusyFacts DEF HookIInv, HookTypes
<1>4. CASE worker[w].pc \in Hooks!Requests /\ Hooks!Finish(w)
  <2>1. worker' = [worker EXCEPT ![w] = Hooks!FreeWorker]
    BY <1>4 DEF Hooks!Finish
  <2>2. /\ Hooks!FreeWorker \in WorkerType /\ HookShape(Hooks!FreeWorker)
        /\ ~Asks(Hooks!FreeWorker, e) /\ Hooks!FreeWorker.event = NoEvent
        /\ Hooks!FreeWorker.pc = "idle"
    BY FreeFacts
  <2> QED BY <1>1, <1>2, <2>1, <2>2, BookkeepingKeeps
<1>5. CASE worker[w].pc \in Hooks!InTry /\ Hooks!Goto(w, "saveFailed")
  <2> DEFINE q == [worker[w] EXCEPT !.pc = "saveFailed"]
  <2>1. worker' = [worker EXCEPT ![w] = q] /\ worker[w].pc # "insertLog"
    BY <1>5 DEF Hooks!Goto, Hooks!InTry
  <2>2. q \in WorkerType /\ q.pc = "saveFailed" /\ q.event = e
    BY <1>2 DEF WorkerType, HookPCs
  <2> HIDE DEF q
  <2>3. HookShape(q) /\ ~Asks(q, e)
    BY <1>2, <2>2 DEF HookShape, Asks
  <2> QED BY <1>1, <1>2, <2>1, <2>2, <2>3, BookkeepingKeeps
<1> QED BY <1>4, <1>5 DEF Hooks!Fail

\* The endpoint is asked by one who was counted.
LEMMA SaveDeliveredKeeps ==
  ASSUME HookIInv, NEW w \in Workers, Hooks!SaveDelivered(w), UNCHANGED deletes PROVE HookIInv'
<1> PICK e : e = worker[w].event
  OBVIOUS
<1> DEFINE row == [worker[w].row EXCEPT !.status = "DELIVERED"]
           q == [worker[w] EXCEPT !.row.status = "DELIVERED", !.pc = "readStats"]
<1>1. /\ worker[w].pc = "send" /\ log' = [log EXCEPT ![e] = row]
      /\ sends' = [sends EXCEPT ![e] = @ + 1] /\ worker' = [worker EXCEPT ![w] = q]
      /\ UNCHANGED <<sub, timer, replays>>
  BY DEF Hooks!SaveDelivered, Hooks!At
<1>2. /\ e \in Items /\ worker[w] \in WorkerType
      /\ timer[e] \in Nat /\ sends[e] \in Nat /\ replays[e] \in Nat
      /\ sends[e] + timer[e] + Asking(e) <= 1 + replays[e]
      /\ ~deletes => sub.state = "active"
  BY <1>1, BusyFacts
<1>3. worker[w].row \in HookRowType
  BY <1>2 DEF WorkerType
<1>4. row \in HookRowType /\ row.status = "DELIVERED"
  BY <1>3 DEF HookRowType, Hooks!Statuses
<1>5. q \in WorkerType /\ q.pc = "readStats" /\ q.event = e
  BY <1>2, <1>3 DEF WorkerType, HookPCs, HookRowType, Hooks!Statuses
<1> HIDE DEF row, q
<1>6. HookShape(q) /\ ~Asks(q, e) /\ Asks(worker[w], e)
  BY <1>1, <1>2, <1>5 DEF HookShape, Asks
<1>7. /\ log' \in [Items -> HookRowType] /\ log'[e] = row
      /\ \A f \in Items : f # e => log'[f] = log[f]
  BY <1>1, <1>2, <1>4, LogWritten
<1>8. HookTypes
  BY DEF HookIInv
<1>9. /\ sends' \in [Items -> Nat] /\ sends'[e] = sends[e] + 1
      /\ \A f \in Items : f # e => sends'[f] = sends[f]
  BY <1>1, <1>2, <1>8 DEF HookTypes
<1>10. Asking(e) = Asking(e)' + 1 /\ Asking(e)' \in Nat
  BY <1>1, <1>2, <1>5, <1>6, <1>8, AskingMoves
<1>11. sends'[e] + timer'[e] + Asking(e)' <= 1 + replays'[e]
  BY <1>1, <1>2, <1>9, <1>10
<1>12. Moves(w, q, e)
  BY <1>1, <1>5, <1>6, <1>7, <1>8, <1>9 DEF Moves, HookTypes
<1>13. ~deletes => sub'.state = "active"
  BY <1>1, <1>2
<1>14. log'[e].status # "none"
  BY <1>4, <1>7
<1> QED BY <1>2, <1>5, <1>11, <1>12, <1>13, <1>14, MovesKeep

LEMMA ReplayKeeps ==
  ASSUME HookIInv, NEW w \in Workers, Hooks!Replay(w), UNCHANGED deletes PROVE HookIInv'
<1>1. PICK e \in Items : /\ log[e].status = "DEAD_LETTER"
                         /\ Hooks!Start(w, "savePending", e, Hooks!NewLog)
  BY DEF Hooks!Replay, Hooks!Replayable
<1>2. UNCHANGED <<sub, log, timer, sends, replays, deletes>> /\ HookTypes
  BY DEF Hooks!Replay, HookIInv
<1>3. /\ timer[e] \in Nat /\ sends[e] \in Nat /\ replays[e] \in Nat
      /\ sends[e] + timer[e] + Asking(e) <= 1 + replays[e] /\ Asking(e) \in Nat
  BY AskingIsNatural DEF HookIInv, HookTypes, Bounded
<1>4. PICK q \in WorkerType :
        /\ worker' = [worker EXCEPT ![w] = q] /\ HookShape(q)
        /\ q.pc = "savePending" /\ q.event = e /\ worker[w].event = NoEvent
        /\ ~Asks(worker[w], e)
  <2>1. Hooks!NewLog \in HookRowType /\ "savePending" \in HookPCs \ {"idle", "saveAttempt"}
    BY DEF HookPCs, HookRowType, Hooks!NewLog, Hooks!Statuses
  <2>2. Hooks!Start(w, "savePending", e, Hooks!NewLog)
    BY <1>1
  <2> QED BY <2>1, <2>2, StartFacts
<1>5. Asking(e)' = Asking(e)
  <2>1. ~Asks(q, e)
    BY <1>4 DEF Asks
  <2> QED BY <2>1, <1>2, <1>4, AskingMoves
<1>6. sends'[e] + timer'[e] + Asking(e)' <= 1 + replays'[e]
  BY <1>2, <1>3, <1>5
<1>7. Moves(w, q, e)
  BY <1>2, <1>4 DEF Moves, HookTypes
<1>8. log'[e].status # "none"
  BY <1>1, <1>2
<1>9. ~deletes => sub'.state = "active"
  BY <1>1, <1>2 DEF HookIInv, Subscribed, HookTypes, SubType
<1> QED BY <1>4, <1>6, <1>7, <1>8, <1>9, MovesKeep

\* A replay that is counted may ask the endpoint once.
LEMMA SavePendingKeeps ==
  ASSUME HookIInv, NEW w \in Workers, Hooks!SavePending(w), UNCHANGED deletes PROVE HookIInv'
<1> PICK e : e = worker[w].event
  OBVIOUS
<1> DEFINE q == [worker[w] EXCEPT !.pc = "readEndpoint"]
<1>1. /\ worker[w].pc = "savePending" /\ log' = [log EXCEPT ![e] = Hooks!NewLog]
      /\ replays' = [replays EXCEPT ![e] = @ + 1] /\ worker' = [worker EXCEPT ![w] = q]
      /\ UNCHANGED <<sub, timer, sends>>
  BY DEF Hooks!SavePending, Hooks!At, Hooks!Goto
<1>2. /\ e \in Items /\ worker[w] \in WorkerType
      /\ timer[e] \in Nat /\ sends[e] \in Nat /\ replays[e] \in Nat
      /\ sends[e] + timer[e] + Asking(e) <= 1 + replays[e]
      /\ ~deletes => sub.state = "active"
  BY <1>1, BusyFacts
<1>3. Hooks!NewLog \in HookRowType /\ Hooks!NewLog.status = "PENDING"
  BY DEF Hooks!NewLog, HookRowType, Hooks!Statuses
<1>4. q \in WorkerType /\ q.pc = "readEndpoint" /\ q.event = e
  BY <1>2 DEF WorkerType, HookPCs
<1> HIDE DEF q
<1>5. HookShape(q) /\ Asks(q, e) /\ ~Asks(worker[w], e)
  BY <1>1, <1>2, <1>4 DEF HookShape, Asks
<1>6. /\ log' \in [Items -> HookRowType] /\ log'[e] = Hooks!NewLog
      /\ \A f \in Items : f # e => log'[f] = log[f]
  BY <1>1, <1>2, <1>3, LogWritten
<1>7. HookTypes
  BY DEF HookIInv
<1>8. /\ replays' \in [Items -> Nat] /\ replays'[e] = replays[e] + 1
      /\ \A f \in Items : f # e => replays'[f] = replays[f]
  BY <1>1, <1>2, <1>7 DEF HookTypes
<1>9. Asking(e)' = Asking(e) + 1 /\ Asking(e) \in Nat
  BY <1>1, <1>2, <1>4, <1>5, <1>7, AskingMoves, AskingIsNatural
<1>10. sends'[e] + timer'[e] + Asking(e)' <= 1 + replays'[e]
  BY <1>1, <1>2, <1>8, <1>9
<1>11. Moves(w, q, e)
  BY <1>1, <1>4, <1>5, <1>6, <1>7, <1>8 DEF Moves, HookTypes
<1>12. ~deletes => sub'.state = "active"
  BY <1>1, <1>2
<1>13. log'[e].status # "none"
  BY <1>3, <1>6
<1> QED BY <1>2, <1>4, <1>10, <1>11, <1>12, <1>13, MovesKeep

\* The timer asks in the worker's place, if it is set at all.
LEMMA ReadEndpointKeeps ==
  ASSUME HookIInv, NEW w \in Workers, Hooks!ReadEndpoint(w), UNCHANGED deletes PROVE HookIInv'
<1> PICK e : e = worker[w].event
  OBVIOUS
<1> PICK n \in {0, 1} : n = IF sub.state = "active" THEN 1 ELSE 0
  OBVIOUS
<1>1. /\ worker[w].pc = "readEndpoint" /\ timer' = [timer EXCEPT ![e] = @ + n]
      /\ worker' = [worker EXCEPT ![w] = Hooks!FreeWorker]
      /\ UNCHANGED <<sub, log, sends, replays>>
  BY DEF Hooks!ReadEndpoint, Hooks!At, Hooks!Finish
<1>2. /\ e \in Items /\ timer[e] \in Nat /\ sends[e] \in Nat /\ replays[e] \in Nat
      /\ sends[e] + timer[e] + Asking(e) <= 1 + replays[e] /\ log[e].status # "none"
      /\ ~deletes => sub.state = "active"
  BY <1>1, BusyFacts
<1>3. HookTypes
  BY DEF HookIInv
<1>4. /\ timer' \in [Items -> Nat] /\ timer'[e] = timer[e] + n
      /\ \A f \in Items : f # e => timer'[f] = timer[f]
  BY <1>1, <1>2, <1>3 DEF HookTypes
<1>5. /\ Hooks!FreeWorker \in WorkerType /\ HookShape(Hooks!FreeWorker)
      /\ ~Asks(Hooks!FreeWorker, e) /\ Hooks!FreeWorker.event = NoEvent
      /\ Hooks!FreeWorker.pc = "idle"
  BY FreeFacts
<1>6. Asking(e) = Asking(e)' + 1 /\ Asking(e)' \in Nat
  <2>1. Asks(worker[w], e)
    BY <1>1 DEF Asks
  <2> QED BY <2>1, <1>1, <1>2, <1>3, <1>5, AskingMoves
<1>7. sends'[e] + timer'[e] + Asking(e)' <= 1 + replays'[e]
  BY <1>1, <1>2, <1>4, <1>6
<1>8. Moves(w, Hooks!FreeWorker, e)
  BY <1>1, <1>3, <1>4, <1>5 DEF Moves, HookTypes
<1>9. ~deletes => sub'.state = "active"
  BY <1>1, <1>2 DEF HookIInv, Subscribed
<1> QED BY <1>1, <1>2, <1>5, <1>7, <1>8, <1>9, MovesKeep

\* When the process dies, so does everything that would have asked the endpoint.
LEMMA DieKeeps == ASSUME HookIInv, Hooks!Crash, UNCHANGED deletes PROVE HookIInv'
<1>1. /\ worker' = [w \in Workers |-> Hooks!FreeWorker] /\ timer' = [e \in Items |-> 0]
      /\ UNCHANGED <<sub, log, sends, replays, deletes>>
  BY DEF Hooks!Crash, Hooks!Die
<1>2. \A w \in Workers : worker'[w] = Hooks!FreeWorker
  BY <1>1
<1>3. HookTypes' /\ HookTypes
  BY <1>1, FreeFacts DEF HookIInv, HookTypes
<1>4. Located'
  <2>1. \A e \in Items : e # NoEvent /\ timer'[e] = 0
    BY <1>1, WebhookAssumption
  <2>2. \A e \in Items : log'[e].status = "none" => Untriggered(e)'
    BY <2>1, <1>1, <1>2, FreeFacts DEF HookIInv, Located, Untriggered
  <2>3. \A w \in Workers : HookShape(worker'[w])
    BY <1>2, FreeFacts
  <2> QED BY <2>2, <2>3 DEF Located, HookShape
<1>5. ASSUME NEW e \in Items PROVE sends'[e] + timer'[e] + Asking(e)' <= 1 + replays'[e]
  <2>1. {w \in Workers : Asks(worker'[w], e)} = {}
    BY <1>2, FreeFacts
  <2>2. Asking(e)' = 0
    BY <2>1, FS_EmptySet DEF Asking, Asks
  <2>3. sends[e] \in Nat /\ timer[e] \in Nat /\ Asking(e) \in Nat /\ replays[e] \in Nat
    BY <1>3, AskingIsNatural DEF HookTypes
  <2>4. sends[e] + timer[e] + Asking(e) <= 1 + replays[e]
    BY DEF HookIInv, Bounded
  <2>5. timer'[e] = 0
    BY <1>1
  <2> QED BY <2>2, <2>3, <2>4, <2>5, <1>1
<1>6. Subscribed'
  BY <1>1, <1>2, FreeFacts DEF HookIInv, Subscribed
<1> QED BY <1>3, <1>4, <1>5, <1>6 DEF HookIInv, Bounded

-----------------------------------------------------------------------------
LEMMA HookInitSound == Hooks!Init => HookIInv
<1> SUFFICES ASSUME Hooks!Init PROVE HookIInv
  OBVIOUS
<1>1. /\ Hooks!NoLog \in HookRowType /\ Hooks!NoLog.status = "none"
      /\ Hooks!NoSub \in SubType /\ Hooks!NoSub.state = "none"
  BY WebhookAssumption
     DEF Hooks!NoLog, HookRowType, Hooks!Statuses, Hooks!NoSub, SubType
<1>2. HookTypes
  BY <1>1, FreeFacts DEF Hooks!Init, HookTypes
<1>3. Located
  BY <1>1, WebhookAssumption, FreeFacts DEF Hooks!Init, Located, Untriggered
<1>4. ASSUME NEW e \in Items PROVE sends[e] + timer[e] + Asking(e) <= 1 + replays[e]
  <2>1. {w \in Workers : Asks(worker[w], e)} = {}
    BY FreeFacts DEF Hooks!Init
  <2>2. Asking(e) = 0
    BY <2>1, FS_EmptySet DEF Asking
  <2>3. sends[e] = 0 /\ timer[e] = 0 /\ replays[e] = 0
    BY DEF Hooks!Init
  <2> QED BY <2>2, <2>3
<1>5. Subscribed
  BY <1>1, FreeFacts DEF Hooks!Init, Subscribed
<1> QED BY <1>2, <1>3, <1>4, <1>5 DEF HookIInv, Bounded

LEMMA HookNextSound == HookIInv /\ [Hooks!Next]_(Hooks!vars) => HookIInv'
<1> SUFFICES ASSUME HookIInv, [Hooks!Next]_(Hooks!vars) PROVE HookIInv'
  OBVIOUS
<1>1. ASSUME NEW w \in Workers, UNCHANGED deletes,
             Hooks!Trigger(w) \/ Hooks!Fire(w) \/ Hooks!Replay(w) \/ Hooks!Fail(w)
      PROVE  HookIInv'
  BY <1>1, TriggerKeeps, FireKeeps, ReplayKeeps, FailKeeps
<1>2. ASSUME NEW w \in Workers, UNCHANGED deletes, Hooks!Step(w) PROVE HookIInv'
  BY <1>2, InsertLogKeeps, SaveDeliveredKeeps, StatsKeep, GivingUpKeeps, RetryKeeps,
     SavePendingKeeps, ReadEndpointKeeps DEF Hooks!Step
<1>3. CASE UNCHANGED Hooks!vars
  BY <1>3 DEF Hooks!vars, HookIInv, HookTypes, Located, HookShape, Untriggered, Bounded,
              Asking, Asks, Subscribed
<1> QED BY <1>1, <1>2, <1>3, RegisterKeeps, DeleteKeeps, DieKeeps DEF Hooks!Next

LEMMA HookInductive == Spec => []HookIInv
<1>1. HookIInv /\ [Next]_vars => HookIInv'
  BY HookNextSound DEF Next, PaymentStep, PayrollStep, WebhookStep, vars, hookVars, Hooks!vars
<1> QED BY <1>1, HookInitSound, PTL DEF Spec, Init

\* deliverWebhook() and replayFromDeadLetter(): however deliveries, failures, crashes and
\* replays follow each other, the endpoint is asked at most once for the trigger and once
\* for every replay.
THEOREM SentAsAsked == Spec => []SentAsOftenAsAsked
<1>1. ASSUME NEW e PROVE Hooks!Delivering(e) = {w \in Workers : Asks(worker[w], e)}
  BY DEF Hooks!Delivering, Asks
<1>2. \A S : Hooks!Cardinality(S) = Cardinality(S)
  BY DEF Hooks!Cardinality, Cardinality, Hooks!IsFiniteSet, IsFiniteSet
<1>3. HookIInv => Hooks!SentAsOftenAsAsked
  BY <1>1, <1>2 DEF HookIInv, Bounded, Asking, Hooks!SentAsOftenAsAsked
<1> QED BY <1>3, HookInductive, PTL DEF SentAsOftenAsAsked

-----------------------------------------------------------------------------
(***************************************************************************)
(* What is pending is attended to.  The danger is a copy: a delivery that  *)
(* failed saves a log it read, and would put back a PENDING that another   *)
(* has dealt with.  An event that was never replayed has only the one      *)
(* delivery; and as long as nobody deletes the subscription, only a        *)
(* subscription with a single attempt has dead letters to replay, and then *)
(* nothing is retried.                                                     *)
(***************************************************************************)

\* The pcs of a worker that holds the log as the timer's callback read it, and of one
\* that asked the endpoint before.
Delivers == {"send", "readStats", "saveStats", "saveFailed", "decide", "readAgain", "saveDead"}
After    == {"readStats", "saveStats", "saveFailed", "decide", "readAgain", "saveAttempt", "saveDead"}

\* What a worker q knows of its event, whose log is l, which was sent s times and
\* replayed r times.
WorkerCare(q, l, s, r) ==
  /\ q.pc = "insertLog" => l.status = "none"
  /\ q.pc = "readEndpoint" => r > 0 /\ (~deletes => l.attempt = 1)
  /\ q.pc \in {"decide", "readAgain"} => r > 0 \/ l.status # "PENDING"
  /\ q.pc = "saveAttempt" => r > 0 \/ q.row.status # "PENDING"
  /\ q.pc \in After => s > 0
  /\ ~deletes => /\ q.pc \in Delivers => q.row.attempt = 1
                 /\ q.pc \in {"readAgain", "saveAttempt"} => sub.maxRetries > 1
                 /\ q.pc = "saveAttempt" => q.row.status # "DEAD_LETTER"
                 /\ q.pc \in {"saveDead", "savePending"} => sub.maxRetries <= 1

\* What is known of an event with log l, t timers and r replays.
EventCare(l, t, r) ==
  ~deletes => /\ l.status = "DEAD_LETTER" \/ r > 0 => sub.maxRetries <= 1
              /\ t > 0 => l.attempt = 1

\* Until it has its log, an event is its trigger's alone.
Alone(w) ==
  worker[w].pc = "insertLog" => \A v \in Workers : v # w => worker[v].event # worker[w].event

Care ==
  /\ \A w \in Workers :
       /\ Alone(w)
       /\ worker[w].event \in Items =>
            LET e == worker[w].event IN WorkerCare(worker[w], log[e], sends[e], replays[e])
  /\ \A e \in Items :
       /\ EventCare(log[e], timer[e], replays[e])
       /\ log[e].status = "PENDING" /\ (deletes => replays[e] = 0) => Hooks!Attended(e)

CareIInv == HookIInv /\ Care

\* A worker's knowledge lasts when its event is sent or replayed, and when another
\* writes the log without putting it back.
LEMMA CareLasts ==
  ASSUME NEW p, NEW l, NEW m, NEW s \in Nat, NEW t \in Nat, NEW r \in Nat, NEW n \in Nat,
         WorkerCare(p, l, s, r), s <= t, r <= n,
         \/ m = l
         \/ /\ p.pc # "insertLog" /\ (n > 0 \/ m.status # "PENDING")
            /\ ~deletes /\ p.pc = "readEndpoint" => m.attempt = 1
  PROVE  WorkerCare(p, m, t, n)
<1>1. (s > 0 => t > 0) /\ (r > 0 => n > 0)
  OBVIOUS
<1> QED BY <1>1 DEF WorkerCare

\* What a step of w, for e, owes to Care.
LEMMA CareMoves ==
  ASSUME CareIInv, NEW w \in Workers, NEW q, NEW e \in Items, Moves(w, q, e),
         \A v \in Workers : v # w /\ worker[v].event = e =>
           WorkerCare(worker[v], log'[e], sends'[e], replays'[e]),
         q.event = e => WorkerCare(q, log'[e], sends'[e], replays'[e]),
         q.event = e =>
           \A v \in Workers : v # w /\ worker[v].event = e =>
             q.pc # "insertLog" /\ worker[v].pc # "insertLog",
         EventCare(log'[e], timer'[e], replays'[e]),
         log'[e].status = "PENDING" /\ (deletes => replays'[e] = 0) => Hooks!Attended(e)'
  PROVE  Care'
<1>1. /\ worker'[w] = q /\ q.event \in {e, NoEvent} /\ worker[w].event \in {e, NoEvent}
      /\ \A v \in Workers : v # w => worker'[v] = worker[v]
      /\ \A f \in Items : f # e =>
           log'[f] = log[f] /\ timer'[f] = timer[f] /\ sends'[f] = sends[f] /\ replays'[f] = replays[f]
      /\ sub'.maxRetries = sub.maxRetries /\ deletes' = deletes
  BY DEF Moves, CareIInv, HookIInv, HookTypes
<1>2. \A f \in Items : f # NoEvent
  BY WebhookAssumption
<1>4. ASSUME NEW v \in Workers PROVE Alone(v)'
  <2>1. ASSUME NEW u \in Workers, u # v, worker'[v].pc = "insertLog", worker'[u].event = worker'[v].event
        PROVE  FALSE
    <3>1. worker'[v].event \in Items
      <4>1. v # w => worker[v].event \in Items
        BY <1>1, <2>1 DEF CareIInv, HookIInv, Located, HookShape
      <4>2. v = w => q.event \in Items
        BY <1>1, <2>1 DEF Moves, HookShape
      <4> QED BY <4>1, <4>2, <1>1
    <3>2. CASE u # w /\ v # w
      BY <3>2, <2>1, <1>1 DEF CareIInv, Care, Alone
    <3>3. CASE v = w
      BY <3>1, <3>3, <2>1, <1>1, <1>2
    <3>4. CASE u = w
      BY <3>1, <3>4, <2>1, <1>1, <1>2
    <3> QED BY <3>2, <3>3, <3>4
  <2> QED BY <2>1 DEF Alone
<1>5. ASSUME NEW v \in Workers, NEW f, f = worker'[v].event, f \in Items
      PROVE  WorkerCare(worker'[v], log'[f], sends'[f], replays'[f])
  <2>1. CASE f = e
    BY <1>1, <1>5, <2>1
  <2>2. CASE f # e
    <3>1. v # w /\ worker'[v] = worker[v]
      BY <1>1, <1>2, <1>5, <2>2
    <3>2. WorkerCare(worker[v], log[f], sends[f], replays[f])
      BY <1>5, <3>1 DEF CareIInv, Care
    <3> QED BY <1>1, <3>1, <3>2, <2>2, <1>5
  <2> QED BY <2>1, <2>2
<1>6. ASSUME NEW f \in Items PROVE EventCare(log'[f], timer'[f], replays'[f])
  BY <1>1, <1>6 DEF CareIInv, Care
<1>7. ASSUME NEW f \in Items, log'[f].status = "PENDING", deletes => replays'[f] = 0
      PROVE  Hooks!Attended(f)'
  <2>1. CASE f # e
    <3>1. Hooks!Attended(f)
      BY <1>1, <1>7, <2>1 DEF CareIInv, Care
    <3> QED BY <3>1, <1>1, <1>2, <2>1 DEF Hooks!Attended
  <2> QED BY <1>7, <2>1
<1>8. (\A v \in Workers : worker[v].event \in Items =>
         LET f == worker[v].event IN WorkerCare(worker[v], log[f], sends[f], replays[f]))'
  BY <1>1, <1>5 DEF WorkerCare
<1>9. \A f \in Items : EventCare(log[f], timer[f], replays[f])'
  BY <1>1, <1>6 DEF EventCare
<1> QED BY <1>1, <1>4, <1>7, <1>8, <1>9 DEF Care

-----------------------------------------------------------------------------
\* What is known of a worker and its event.
LEMMA CareFacts ==
  ASSUME CareIInv, NEW w \in Workers, worker[w].pc # "idle", NEW e, e = worker[w].event
  PROVE  /\ WorkerCare(worker[w], log[e], sends[e], replays[e])
         /\ EventCare(log[e], timer[e], replays[e])
         /\ \A v \in Workers : v # w /\ worker[v].event = e =>
              /\ WorkerCare(worker[v], log[e], sends[e], replays[e])
              /\ worker[v].pc # "insertLog" /\ worker[w].pc # "insertLog"
  BY BusyFacts DEF CareIInv, Care, Alone

\* A log that may be written for e without putting back what others dealt with.
SafeToWrite(row, e) ==
  /\ row.status # "PENDING" \/ (deletes /\ replays[e] > 0)
  /\ ~deletes => /\ row.status = "DEAD_LETTER" => sub.maxRetries <= 1
                 /\ row.attempt = 1 \/ (timer[e] = 0 /\ replays[e] = 0)

\* A worker that keeps its event, or lets go of it, and writes at most the log.
LEMMA CareBookkeeping ==
  ASSUME CareIInv, NEW w \in Workers, worker[w].pc \notin {"idle", "insertLog"},
         NEW e, e = worker[w].event,
         NEW q \in WorkerType, worker' = [worker EXCEPT ![w] = q], HookShape(q),
         \/ q.event = NoEvent
         \/ /\ q.event = e /\ q.pc # "insertLog"
            /\ WorkerCare(q, log'[e], sends[e], replays[e]),
         \/ /\ log' = log
            /\ log[e].status = "PENDING" /\ (deletes => replays[e] = 0) => Hooks!Attended(e)'
         \/ \E row \in HookRowType : log' = [log EXCEPT ![e] = row] /\ SafeToWrite(row, e),
         UNCHANGED <<timer, sends, replays, deletes>>,
         sub' \in SubType, sub'.maxRetries = sub.maxRetries
  PROVE  Care'
<1>1. /\ e \in Items /\ timer[e] \in Nat /\ sends[e] \in Nat /\ replays[e] \in Nat
      /\ EventCare(log[e], timer[e], replays[e])
      /\ \A v \in Workers : v # w /\ worker[v].event = e =>
           WorkerCare(worker[v], log[e], sends[e], replays[e]) /\ worker[v].pc # "insertLog"
  BY BusyFacts, CareFacts DEF CareIInv
<1>2. log' \in [Items -> HookRowType] /\ \A f \in Items : f # e => log'[f] = log[f]
  BY <1>1, LogWritten DEF CareIInv, HookIInv, HookTypes
<1>3. Moves(w, q, e) /\ e # NoEvent
  BY <1>1, <1>2, WebhookAssumption DEF Moves, CareIInv, HookIInv, HookTypes
<1>4. \/ /\ log' = log
         /\ log[e].status = "PENDING" /\ (deletes => replays[e] = 0) => Hooks!Attended(e)'
      \/ /\ (log'[e].status # "PENDING" \/ (deletes /\ replays[e] > 0))
         /\ ~deletes => /\ log'[e].status = "DEAD_LETTER" => sub.maxRetries <= 1
                        /\ (log'[e].attempt = 1 \/ (timer[e] = 0 /\ replays[e] = 0))
  <2>1. ASSUME NEW row \in HookRowType, log' = [log EXCEPT ![e] = row] PROVE log'[e] = row
    BY <1>1, <2>1, LogWritten DEF CareIInv
  <2> QED BY <2>1 DEF SafeToWrite
<1>5. ASSUME NEW v \in Workers, v # w, worker[v].event = e
      PROVE  WorkerCare(worker[v], log'[e], sends'[e], replays'[e])
  <2> DEFINE p == worker[v]
  <2>1. /\ WorkerCare(p, log[e], sends[e], replays[e]) /\ p.pc # "insertLog"
        /\ p.pc = "readEndpoint" => replays[e] > 0
    BY <1>1, <1>5 DEF WorkerCare
  <2>2. \/ log'[e] = log[e]
        \/ /\ p.pc # "insertLog" /\ (replays[e] > 0 \/ log'[e].status # "PENDING")
           /\ ~deletes /\ p.pc = "readEndpoint" => log'[e].attempt = 1
    BY <2>1, <1>1, <1>4
  <2> HIDE DEF p
  <2>3. WorkerCare(p, log'[e], sends[e], replays[e])
    BY <2>1, <2>2, <1>1, CareLasts
  <2> QED BY <2>3 DEF p
<1>6. EventCare(log'[e], timer'[e], replays'[e])
  BY <1>1, <1>4 DEF EventCare
<1>7. log'[e].status = "PENDING" /\ (deletes => replays'[e] = 0) => Hooks!Attended(e)'
  BY <1>1, <1>4
<1> QED BY <1>1, <1>3, <1>5, <1>6, <1>7, CareMoves

\* Whoever does not attend to its event is not missed.
LEMMA StillAttended ==
  ASSUME CareIInv, NEW w \in Workers, NEW e \in Items, NEW q \in WorkerType,
         worker' = [worker EXCEPT ![w] = q], timer' = timer,
         \/ worker[w].pc \notin {"send", "saveFailed", "readEndpoint"}
         \/ worker[w].event # e,
         Hooks!Attended(e)
  PROVE  Hooks!Attended(e)'
<1>1. \A v \in Workers : v # w => worker'[v] = worker[v]
  BY DEF CareIInv, HookIInv, HookTypes
<1> QED BY <1>1 DEF Hooks!Attended

-----------------------------------------------------------------------------
\* Each action keeps Care.

LEMMA TriggerCares ==
  ASSUME CareIInv, NEW w \in Workers, Hooks!Trigger(w), UNCHANGED deletes PROVE Care'
<1>1. PICK e \in Items : /\ log[e] = Hooks!NoLog /\ \A v \in Workers : worker[v].event # e
                         /\ Hooks!Start(w, "insertLog", e, Hooks!NoLog)
  BY DEF Hooks!Trigger
<1>2. UNCHANGED <<sub, log, timer, sends, replays, deletes>> /\ HookIInv
  BY DEF Hooks!Trigger, CareIInv
<1>3. log[e].status = "none" /\ Hooks!NoLog \in HookRowType
  BY <1>1 DEF Hooks!NoLog, HookRowType, Hooks!Statuses
<1>4. PICK q \in WorkerType :
        /\ worker' = [worker EXCEPT ![w] = q] /\ HookShape(q)
        /\ q.pc = "insertLog" /\ q.event = e /\ worker[w].event = NoEvent
  BY <1>1, <1>2, <1>3, StartFacts DEF HookPCs
<1>5. Moves(w, q, e)
  BY <1>2, <1>4 DEF Moves, HookIInv, HookTypes
<1>6. WorkerCare(q, log'[e], sends'[e], replays'[e])
  BY <1>2, <1>3, <1>4 DEF WorkerCare, After, Delivers
<1>7. EventCare(log'[e], timer'[e], replays'[e])
  BY <1>2 DEF CareIInv, Care
<1>8. log'[e].status # "PENDING"
  BY <1>2, <1>3
<1> QED BY <1>1, <1>5, <1>6, <1>7, <1>8, CareMoves

LEMMA InsertLogCares ==
  ASSUME CareIInv, NEW w \in Workers, Hooks!InsertLog(w), UNCHANGED deletes PROVE Care'
<1> PICK e : e = worker[w].event
  OBVIOUS
<1>1. /\ worker[w].pc = "insertLog" /\ log' = [log EXCEPT ![e] = Hooks!NewLog]
      /\ timer' = [timer EXCEPT ![e] = @ + 1]
      /\ worker' = [worker EXCEPT ![w] = Hooks!FreeWorker]
      /\ UNCHANGED <<sub, sends, replays, deletes>>
  BY DEF Hooks!InsertLog, Hooks!At, Hooks!Finish
<1>2. e \in Items /\ timer[e] \in Nat /\ HookIInv /\ e # NoEvent
  BY <1>1, BusyFacts, WebhookAssumption DEF CareIInv
<1>3. /\ Hooks!NewLog \in HookRowType
      /\ Hooks!NewLog.status = "PENDING" /\ Hooks!NewLog.attempt = 1
  BY DEF Hooks!NewLog, HookRowType, Hooks!Statuses
<1>4. log[e].status = "none" /\ \A v \in Workers : v # w => worker[v].event # e
  BY <1>1, <1>2 DEF CareIInv, Care, WorkerCare, Alone
<1>5. replays[e] = 0
  BY <1>2, <1>4 DEF HookIInv, Located, Untriggered
<1>6. /\ timer' \in [Items -> Nat] /\ timer'[e] = timer[e] + 1
      /\ \A f \in Items : f # e => timer'[f] = timer[f]
  BY <1>1, <1>2 DEF HookIInv, HookTypes
<1>7. /\ log' \in [Items -> HookRowType] /\ log'[e] = Hooks!NewLog
      /\ \A f \in Items : f # e => log'[f] = log[f]
  BY <1>1, <1>2, <1>3, LogWritten
<1>8. Moves(w, Hooks!FreeWorker, e) /\ Hooks!FreeWorker.event # e
  BY <1>1, <1>2, <1>6, <1>7, FreeFacts DEF Moves, HookIInv, HookTypes
<1>9. EventCare(log'[e], timer'[e], replays'[e])
  BY <1>1, <1>3, <1>5, <1>7 DEF EventCare
<1>10. Hooks!Attended(e)'
  BY <1>2, <1>6 DEF Hooks!Attended
<1> QED BY <1>2, <1>4, <1>8, <1>9, <1>10, CareMoves

LEMMA FireCares ==
  ASSUME CareIInv, NEW w \in Workers, Hooks!Fire(w), UNCHANGED deletes PROVE Care'
<1>1. PICK e \in Items : /\ timer[e] > 0 /\ timer' = [timer EXCEPT ![e] = @ - 1]
                         /\ Hooks!Start(w, "send", e, log[e])
  BY DEF Hooks!Fire
<1>2. UNCHANGED <<sub, log, sends, replays, deletes>> /\ HookIInv
  BY DEF Hooks!Fire, CareIInv
<1>3. log[e] \in HookRowType /\ timer[e] \in Nat
  BY <1>2 DEF HookIInv, HookTypes
<1>4. PICK q \in WorkerType :
        /\ worker' = [worker EXCEPT ![w] = q] /\ HookShape(q)
        /\ q.pc = "send" /\ q.event = e /\ q.row = log[e] /\ worker[w].event = NoEvent
  <2>1. "send" \in HookPCs \ {"idle", "saveAttempt"}
    BY DEF HookPCs
  <2> QED BY <1>1, <1>2, <1>3, <2>1, StartFacts
<1>5. /\ timer' \in [Items -> Nat] /\ timer'[e] = timer[e] - 1
      /\ \A f \in Items : f # e => timer'[f] = timer[f]
  BY <1>1, <1>2, <1>3 DEF HookIInv, HookTypes
<1>6. Moves(w, q, e)
  BY <1>2, <1>4, <1>5 DEF Moves, HookIInv, HookTypes
<1>7. EventCare(log[e], timer[e], replays[e])
  BY DEF CareIInv, Care
<1>8. ~deletes => log[e].attempt = 1
  BY <1>1, <1>7 DEF EventCare
<1>9. WorkerCare(q, log'[e], sends'[e], replays'[e])
  BY <1>2, <1>4, <1>8 DEF WorkerCare, After, Delivers
<1>10. log[e].status # "none"
  BY <1>1, <1>2, <1>3 DEF HookIInv, Located, Untriggered
<1>11. ASSUME NEW v \in Workers, v # w, worker[v].event = e
       PROVE  WorkerCare(worker[v], log'[e], sends'[e], replays'[e]) /\ worker[v].pc # "insertLog"
  <2>1. WorkerCare(worker[v], log[e], sends[e], replays[e])
    BY <1>11 DEF CareIInv, Care
  <2> QED BY <2>1, <1>2, <1>10 DEF WorkerCare
<1>12. EventCare(log'[e], timer'[e], replays'[e])
  BY <1>1, <1>2, <1>7 DEF EventCare
<1>13. Hooks!Attended(e)'
  <2>1. worker'[w] = q
    BY <1>2, <1>4 DEF HookIInv, HookTypes
  <2> QED BY <1>4, <2>1 DEF Hooks!Attended
<1> QED BY <1>4, <1>6, <1>9, <1>11, <1>12, <1>13, CareMoves

LEMMA ReplayCares ==
  ASSUME CareIInv, NEW w \in Workers, Hooks!Replay(w), UNCHANGED deletes PROVE Care'
<1>1. PICK e \in Items : /\ log[e].status = "DEAD_LETTER"
                         /\ Hooks!Start(w, "savePending", e, Hooks!NewLog)
  BY DEF Hooks!Replay, Hooks!Replayable
<1>2. UNCHANGED <<sub, log, timer, sends, replays, deletes>> /\ HookIInv
  BY DEF Hooks!Replay, CareIInv
<1>3. PICK q \in WorkerType :
        /\ worker' = [worker EXCEPT ![w] = q] /\ HookShape(q)
        /\ q.pc = "savePending" /\ q.event = e /\ worker[w].event = NoEvent
  <2>1. Hooks!NewLog \in HookRowType /\ "savePending" \in HookPCs \ {"idle", "saveAttempt"}
    BY DEF HookPCs, HookRowType, Hooks!NewLog, Hooks!Statuses
  <2> QED BY <1>1, <1>2, <2>1, StartFacts
<1>4. Moves(w, q, e)
  BY <1>2, <1>3 DEF Moves, HookIInv, HookTypes
<1>5. EventCare(log[e], timer[e], replays[e])
  BY DEF CareIInv, Care
<1>6. WorkerCare(q, log'[e], sends'[e], replays'[e])
  BY <1>1, <1>2, <1>3, <1>5 DEF WorkerCare, After, Delivers, EventCare
<1>7. ASSUME NEW v \in Workers, v # w, worker[v].event = e
      PROVE  WorkerCare(worker[v], log'[e], sends'[e], replays'[e]) /\ worker[v].pc # "insertLog"
  <2>1. WorkerCare(worker[v], log[e], sends[e], replays[e])
    BY <1>7 DEF CareIInv, Care
  <2> QED BY <2>1, <1>1, <1>2 DEF WorkerCare
<1> QED BY <1>1, <1>2, <1>3, <1>4, <1>5, <1>6, <1>7, CareMoves

LEMMA SavePendingCares ==
  ASSUME CareIInv, NEW w \in Workers, Hooks!SavePending(w), UNCHANGED deletes PROVE Care'
<1> PICK e : e = worker[w].event
  OBVIOUS
<1> DEFINE q == [worker[w] EXCEPT !.pc = "readEndpoint"]
<1>1. /\ worker[w].pc = "savePending" /\ log' = [log EXCEPT ![e] = Hooks!NewLog]
      /\ replays' = [replays EXCEPT ![e] = @ + 1] /\ worker' = [worker EXCEPT ![w] = q]
      /\ UNCHANGED <<sub, timer, sends>>
  BY DEF Hooks!SavePending, Hooks!At, Hooks!Goto
<1>2. /\ e \in Items /\ worker[w] \in WorkerType /\ HookIInv
      /\ sends[e] \in Nat /\ replays[e] \in Nat
  BY <1>1, BusyFacts DEF CareIInv
<1>3. /\ Hooks!NewLog \in HookRowType
      /\ Hooks!NewLog.status = "PENDING" /\ Hooks!NewLog.attempt = 1
  BY DEF Hooks!NewLog, HookRowType, Hooks!Statuses
<1>4. q \in WorkerType /\ q.pc = "readEndpoint" /\ q.event = e
  BY <1>2 DEF WorkerType, HookPCs
<1> HIDE DEF q
<1>5. /\ log' \in [Items -> HookRowType] /\ log'[e] = Hooks!NewLog
      /\ \A f \in Items : f # e => log'[f] = log[f]
  BY <1>1, <1>2, <1>3, LogWritten
<1>6. /\ replays' \in [Items -> Nat] /\ replays'[e] = replays[e] + 1
      /\ \A f \in Items : f # e => replays'[f] = replays[f]
  BY <1>1, <1>2 DEF HookIInv, HookTypes
<1>7. Moves(w, q, e)
  BY <1>1, <1>2, <1>4, <1>5, <1>6 DEF Moves, HookShape, HookIInv, HookTypes
<1>8. WorkerCare(worker[w], log[e], sends[e], replays[e])
  BY <1>1, CareFacts
<1>9. WorkerCare(q, log'[e], sends'[e], replays'[e])
  BY <1>2, <1>3, <1>4, <1>5, <1>6 DEF WorkerCare, After, Delivers
<1>10. EventCare(log'[e], timer'[e], replays'[e])
  BY <1>1, <1>3, <1>5, <1>8 DEF EventCare, WorkerCare
<1>11. ASSUME NEW v \in Workers, v # w, worker[v].event = e
       PROVE  WorkerCare(worker[v], log'[e], sends'[e], replays'[e]) /\ worker[v].pc # "insertLog"
  <2> DEFINE p == worker[v]
  <2>1. WorkerCare(p, log[e], sends[e], replays[e]) /\ p.pc # "insertLog"
    BY <1>1, <1>11, CareFacts
  <2> HIDE DEF p
  <2>2. replays[e] + 1 \in Nat /\ replays[e] <= replays[e] + 1 /\ replays[e] + 1 > 0
    BY <1>2
  <2>3. WorkerCare(p, Hooks!NewLog, sends[e], replays[e] + 1)
    BY <2>1, <2>2, <1>2, <1>3, CareLasts
  <2> QED BY <2>1, <2>3, <1>1, <1>5, <1>6 DEF p
<1>12. Hooks!Attended(e)'
  <2>1. worker'[w] = q
    BY <1>1, <1>2 DEF HookIInv, HookTypes
  <2> QED BY <1>4, <2>1 DEF Hooks!Attended
<1> QED BY <1>2, <1>4, <1>7, <1>9, <1>10, <1>11, <1>12, CareMoves

LEMMA ReadEndpointCares ==
  ASSUME CareIInv, NEW w \in Workers, Hooks!ReadEndpoint(w), UNCHANGED deletes PROVE Care'
<1> PICK e : e = worker[w].event
  OBVIOUS
<1> PICK n \in {0, 1} : n = IF sub.state = "active" THEN 1 ELSE 0
  OBVIOUS
<1>1. /\ worker[w].pc = "readEndpoint" /\ timer' = [timer EXCEPT ![e] = @ + n]
      /\ worker' = [worker EXCEPT ![w] = Hooks!FreeWorker]
      /\ UNCHANGED <<sub, log, sends, replays>>
  BY DEF Hooks!ReadEndpoint, Hooks!At, Hooks!Finish
<1>2. /\ e \in Items /\ e # NoEvent /\ timer[e] \in Nat /\ replays[e] \in Nat /\ HookIInv
      /\ ~deletes => sub.state = "active"
  BY <1>1, BusyFacts, WebhookAssumption DEF CareIInv
<1>3. /\ timer' \in [Items -> Nat] /\ timer'[e] = timer[e] + n
      /\ \A f \in Items : f # e => timer'[f] = timer[f]
  BY <1>1, <1>2 DEF HookIInv, HookTypes
<1>4. Moves(w, Hooks!FreeWorker, e) /\ Hooks!FreeWorker.event # e
  BY <1>1, <1>2, <1>3, FreeFacts DEF Moves, HookIInv, HookTypes
<1>5. /\ replays[e] > 0 /\ (~deletes => log[e].attempt = 1)
      /\ EventCare(log[e], timer[e], replays[e])
      /\ \A v \in Workers : v # w /\ worker[v].event = e =>
           WorkerCare(worker[v], log[e], sends[e], replays[e])
  BY <1>1, CareFacts DEF WorkerCare
<1>6. EventCare(log'[e], timer'[e], replays'[e])
  BY <1>1, <1>5 DEF EventCare
<1>7. (deletes => replays'[e] = 0) => Hooks!Attended(e)'
  BY <1>1, <1>2, <1>3, <1>5 DEF Hooks!Attended
<1> QED BY <1>1, <1>2, <1>4, <1>5, <1>6, <1>7, CareMoves

LEMMA SaveDeliveredCares ==
  ASSUME CareIInv, NEW w \in Workers, Hooks!SaveDelivered(w), UNCHANGED deletes PROVE Care'
<1> PICK e : e = worker[w].event
  OBVIOUS
<1> DEFINE row == [worker[w].row EXCEPT !.status = "DELIVERED"]
           q == [worker[w] EXCEPT !.row.status = "DELIVERED", !.pc = "readStats"]
<1>1. /\ worker[w].pc = "send" /\ log' = [log EXCEPT ![e] = row]
      /\ sends' = [sends EXCEPT ![e] = @ + 1] /\ worker' = [worker EXCEPT ![w] = q]
      /\ UNCHANGED <<sub, timer, replays>>
  BY DEF Hooks!SaveDelivered, Hooks!At
<1>2. /\ e \in Items /\ worker[w] \in WorkerType /\ HookIInv
      /\ timer[e] \in Nat /\ sends[e] \in Nat /\ replays[e] \in Nat
  BY <1>1, BusyFacts DEF CareIInv
<1>3. worker[w].row \in HookRowType
  BY <1>2 DEF WorkerType
<1>4. row \in HookRowType /\ row.status = "DELIVERED" /\ row.attempt = worker[w].row.attempt
  BY <1>3 DEF HookRowType, Hooks!Statuses
<1>5. /\ q \in WorkerType /\ q.pc = "readStats" /\ q.event = e
      /\ q.row.attempt = worker[w].row.attempt
  BY <1>2, <1>3 DEF WorkerType, HookPCs, HookRowType, Hooks!Statuses
<1> HIDE DEF row, q
<1>6. /\ log' \in [Items -> HookRowType] /\ log'[e] = row
      /\ \A f \in Items : f # e => log'[f] = log[f]
  BY <1>1, <1>2, <1>4, LogWritten
<1>7. /\ sends' \in [Items -> Nat] /\ sends'[e] = sends[e] + 1
      /\ \A f \in Items : f # e => sends'[f] = sends[f]
  BY <1>1, <1>2 DEF HookIInv, HookTypes
<1>8. Moves(w, q, e)
  BY <1>1, <1>2, <1>5, <1>6, <1>7 DEF Moves, HookShape, HookIInv, HookTypes
<1>9. /\ EventCare(log[e], timer[e], replays[e])
      /\ ~deletes => worker[w].row.attempt = 1
  BY <1>1, CareFacts DEF WorkerCare, Delivers
<1>10. WorkerCare(q, log'[e], sends'[e], replays'[e])
  BY <1>2, <1>5, <1>7, <1>9 DEF WorkerCare, After, Delivers
<1>11. EventCare(log'[e], timer'[e], replays'[e])
  BY <1>1, <1>4, <1>6, <1>9 DEF EventCare
<1>12. ASSUME NEW v \in Workers, v # w, worker[v].event = e
       PROVE  WorkerCare(worker[v], log'[e], sends'[e], replays'[e]) /\ worker[v].pc # "insertLog"
  <2> DEFINE p == worker[v]
  <2>1. WorkerCare(p, log[e], sends[e], replays[e]) /\ p.pc # "insertLog"
    BY <1>1, <1>12, CareFacts
  <2> HIDE DEF p
  <2>2. sends[e] + 1 \in Nat /\ sends[e] <= sends[e] + 1
    BY <1>2
  <2>3. row.status # "PENDING" /\ (~deletes => row.attempt = 1)
    BY <1>4, <1>9
  <2>4. WorkerCare(p, row, sends[e] + 1, replays[e])
    BY <2>1, <2>2, <2>3, <1>2, CareLasts
  <2> QED BY <2>1, <2>4, <1>1, <1>6, <1>7 DEF p
<1>13. log'[e].status # "PENDING"
  BY <1>4, <1>6
<1> QED BY <1>2, <1>5, <1>8, <1>10, <1>11, <1>12, <1>13, CareMoves

LEMMA StatsCare ==
  ASSUME CareIInv, NEW w \in Workers, Hooks!ReadStats(w) \/ Hooks!SaveStats(w), UNCHANGED deletes
  PROVE  Care'
<1> PICK e : e = worker[w].event
  OBVIOUS
<1>1. HookIInv /\ worker[w].pc \in {"readStats", "saveStats"}
  BY StatsFacts DEF CareIInv
<1>2. /\ UNCHANGED <<log, timer, sends, replays>>
      /\ sub' \in SubType /\ sub'.maxRetries = sub.maxRetries
  BY <1>1, StatsFacts
<1>3. PICK q \in WorkerType :
        /\ worker' = [worker EXCEPT ![w] = q] /\ HookShape(q)
        /\ (q.event = NoEvent \/ (q.event = e /\ q.row = worker[w].row))
        /\ q.pc \in {"idle", "saveStats", "saveFailed"}
  BY <1>1, StatsFacts
<1>4. /\ e \in Items /\ sends[e] > 0 /\ (~deletes => worker[w].row.attempt = 1)
  BY <1>1, BusyFacts, CareFacts DEF WorkerCare, After, Delivers
<1>5. log[e].status = "PENDING" /\ (deletes => replays[e] = 0) => Hooks!Attended(e)'
  BY <1>1, <1>2, <1>3, <1>4, StillAttended DEF CareIInv, Care
<1>6. \/ q.event = NoEvent
      \/ /\ q.event = e /\ q.pc # "insertLog"
         /\ WorkerCare(q, log'[e], sends[e], replays[e])
  BY <1>3, <1>4 DEF WorkerCare, After, Delivers
<1> QED BY <1>1, <1>2, <1>3, <1>5, <1>6, CareBookkeeping

LEMMA GivingUpCares ==
  ASSUME CareIInv, NEW w \in Workers,
         Hooks!SaveFailed(w) \/ Hooks!Decide(w) \/ Hooks!SaveDead(w), UNCHANGED deletes
  PROVE  Care'
<1> PICK e : e = worker[w].event
  OBVIOUS
<1>1. /\ worker[w].pc \in {"saveFailed", "decide", "saveDead"} /\ HookIInv
      /\ UNCHANGED <<sub, timer, sends, replays>>
  BY DEF Hooks!SaveFailed, Hooks!Decide, Hooks!SaveDead, Hooks!At, CareIInv
<1>2. /\ e \in Items /\ worker[w] \in WorkerType /\ sub \in SubType
      /\ ~deletes => sub.state = "active"
  BY <1>1, BusyFacts DEF HookIInv, HookTypes
<1>3. worker[w].row \in HookRowType
  BY <1>2 DEF WorkerType
<1>4. /\ WorkerCare(worker[w], log[e], sends[e], replays[e])
      /\ ~deletes => worker[w].row.attempt = 1
  BY <1>1, CareFacts DEF WorkerCare, Delivers
<1>5. CASE Hooks!SaveFailed(w)
  <2> DEFINE row == [worker[w].row EXCEPT !.status = "FAILED"]
             q == [worker[w] EXCEPT !.row = row, !.pc = "decide"]
  <2>1. /\ log' = [log EXCEPT ![e] = row] /\ worker' = [worker EXCEPT ![w] = q]
        /\ worker[w].pc = "saveFailed"
    BY <1>5 DEF Hooks!SaveFailed, Hooks!At
  <2>2. row \in HookRowType /\ row.status = "FAILED" /\ row.attempt = worker[w].row.attempt
    BY <1>3 DEF HookRowType, Hooks!Statuses
  <2> HIDE DEF row
  <2>3. q \in WorkerType /\ q.pc = "decide" /\ q.event = e /\ q.row = row
    BY <1>2, <2>2 DEF WorkerType, HookPCs
  <2> HIDE DEF q
  <2>4. HookShape(q) /\ log'[e] = row
    BY <1>1, <1>2, <2>1, <2>2, <2>3, LogWritten DEF HookShape
  <2>5. WorkerCare(q, log'[e], sends[e], replays[e])
    BY <1>4, <2>1, <2>2, <2>3, <2>4 DEF WorkerCare, After, Delivers
  <2>6. \E r \in HookRowType : log' = [log EXCEPT ![e] = r] /\ SafeToWrite(r, e)
    BY <1>4, <2>1, <2>2 DEF SafeToWrite
  <2> QED BY <1>1, <1>2, <2>1, <2>3, <2>4, <2>5, <2>6, CareBookkeeping
<1>6. CASE Hooks!Decide(w)
  <2> DEFINE pc == IF Hooks!Retryable(worker[w].row) THEN "readAgain" ELSE "saveDead"
             q == [worker[w] EXCEPT !.pc = pc]
  <2>1. log' = log /\ worker' = [worker EXCEPT ![w] = q] /\ worker[w].pc = "decide"
    BY <1>6 DEF Hooks!Decide, Hooks!Goto, Hooks!At
  <2>2. /\ pc \in {"readAgain", "saveDead"}
        /\ ~deletes => IF pc = "readAgain" THEN sub.maxRetries > 1 ELSE sub.maxRetries <= 1
    <3>1. worker[w].row.attempt \in Nat /\ sub.maxRetries \in Nat
      BY <1>2, <1>3 DEF HookRowType, SubType
    <3> QED BY <3>1, <1>2, <1>4 DEF Hooks!Retryable
  <2> HIDE DEF pc
  <2>3. q \in WorkerType /\ q.pc = pc /\ q.event = e /\ q.row = worker[w].row
    BY <1>2, <2>2 DEF WorkerType, HookPCs
  <2> HIDE DEF q
  <2>4. HookShape(q)
    BY <1>2, <2>2, <2>3 DEF HookShape
  <2>5. WorkerCare(q, log'[e], sends[e], replays[e])
    BY <1>4, <2>1, <2>2, <2>3 DEF WorkerCare, After, Delivers
  <2>6. log[e].status = "PENDING" /\ (deletes => replays[e] = 0) => Hooks!Attended(e)'
    BY <1>1, <1>2, <2>1, <2>3, StillAttended DEF CareIInv, Care
  <2> QED BY <1>1, <1>2, <2>1, <2>2, <2>3, <2>4, <2>5, <2>6, CareBookkeeping
<1>7. CASE Hooks!SaveDead(w)
  <2> DEFINE row == [worker[w].row EXCEPT !.status = "DEAD_LETTER"]
  <2>1. /\ worker[w].pc = "saveDead" /\ log' = [log EXCEPT ![e] = row]
        /\ worker' = [worker EXCEPT ![w] = Hooks!FreeWorker]
    BY <1>7 DEF Hooks!SaveDead, Hooks!At, Hooks!Finish
  <2>2. row \in HookRowType /\ row.status = "DEAD_LETTER" /\ row.attempt = worker[w].row.attempt
    BY <1>3 DEF HookRowType, Hooks!Statuses
  <2> HIDE DEF row
  <2>3. ~deletes => sub.maxRetries <= 1
    BY <1>4, <2>1 DEF WorkerCare
  <2>4. \E r \in HookRowType : log' = [log EXCEPT ![e] = r] /\ SafeToWrite(r, e)
    BY <1>4, <2>1, <2>2, <2>3 DEF SafeToWrite
  <2>5. PICK q \in WorkerType : /\ worker' = [worker EXCEPT ![w] = q] /\ HookShape(q)
                               /\ q.event = NoEvent
    BY <2>1, FreeFacts
  <2>8. /\ worker[w].pc \notin {"idle", "insertLog"}
        /\ timer' = timer /\ sends' = sends /\ replays' = replays /\ deletes' = deletes
        /\ sub' \in SubType /\ sub'.maxRetries = sub.maxRetries
    BY <1>1, <1>2, <2>1
  <2> QED BY <2>4, <2>5, <2>8, CareBookkeeping
<1> QED BY <1>5, <1>6, <1>7

LEMMA RetryCares ==
  ASSUME CareIInv, NEW w \in Workers, Hooks!ReadAgain(w) \/ Hooks!SaveAttempt(w),
         UNCHANGED deletes
  PROVE  Care'
<1> PICK e : e = worker[w].event
  OBVIOUS
<1>1. /\ worker[w].pc \in {"readAgain", "saveAttempt"} /\ HookIInv
      /\ UNCHANGED <<sub, timer, sends, replays>>
  BY DEF Hooks!ReadAgain, Hooks!SaveAttempt, Hooks!At, CareIInv
<1>2. /\ e \in Items /\ worker[w] \in WorkerType /\ log[e] \in HookRowType /\ sub \in SubType
      /\ timer[e] \in Nat /\ sends[e] \in Nat /\ replays[e] \in Nat
      /\ sends[e] + timer[e] + Asking(e) <= 1 + replays[e]
      /\ Asking(e) \in Nat /\ log[e].status # "none"
  BY <1>1, BusyFacts, AskingIsNatural DEF HookIInv, HookTypes
<1>3. /\ WorkerCare(worker[w], log[e], sends[e], replays[e])
      /\ EventCare(log[e], timer[e], replays[e])
  BY <1>1, CareFacts
<1>4. sub.maxRetries \in Nat /\ worker[w].row \in HookRowType
  BY <1>2 DEF SubType, WorkerType
<1>5. /\ sends[e] > 0
      /\ ~deletes => sub.maxRetries > 1 /\ replays[e] = 0 /\ log[e].status # "DEAD_LETTER"
  BY <1>1, <1>2, <1>3, <1>4 DEF WorkerCare, EventCare, After
<1>6. CASE Hooks!ReadAgain(w)
  <2> DEFINE q == [worker[w] EXCEPT !.row = log[e], !.pc = "saveAttempt"]
  <2>1. log' = log /\ worker' = [worker EXCEPT ![w] = q] /\ worker[w].pc = "readAgain"
    BY <1>6 DEF Hooks!ReadAgain, Hooks!At
  <2>2. q \in WorkerType /\ q.pc = "saveAttempt" /\ q.event = e /\ q.row = log[e]
    BY <1>2 DEF WorkerType, HookPCs
  <2> HIDE DEF q
  <2>3. HookShape(q)
    BY <1>2, <2>2 DEF HookShape
  <2>4. WorkerCare(q, log'[e], sends[e], replays[e])
    BY <1>3, <1>5, <2>1, <2>2 DEF WorkerCare, After, Delivers
  <2>5. log[e].status = "PENDING" /\ (deletes => replays[e] = 0) => Hooks!Attended(e)'
    BY <1>1, <1>2, <2>1, <2>2, StillAttended DEF CareIInv, Care
  <2> QED BY <1>1, <1>2, <2>1, <2>2, <2>3, <2>4, <2>5, CareBookkeeping
<1>7. CASE Hooks!SaveAttempt(w)
  <2> DEFINE row == [worker[w].row EXCEPT !.attempt = @ + 1]
  <2>1. /\ worker[w].pc = "saveAttempt" /\ log' = [log EXCEPT ![e] = row]
        /\ worker' = [worker EXCEPT ![w] = Hooks!FreeWorker]
    BY <1>7 DEF Hooks!SaveAttempt, Hooks!At, Hooks!Finish
  <2>2. row \in HookRowType /\ row.status = worker[w].row.status
    BY <1>4 DEF HookRowType
  <2> HIDE DEF row
  <2>3. ~deletes => replays[e] = 0 /\ timer[e] = 0
    BY <1>2, <1>5
  <2>4. row.status # "PENDING" \/ (deletes /\ replays[e] > 0)
    BY <1>2, <1>3, <1>5, <2>1, <2>2 DEF WorkerCare
  <2>5. ~deletes => row.status # "DEAD_LETTER"
    BY <1>3, <2>1, <2>2 DEF WorkerCare
  <2>6. \E r \in HookRowType : log' = [log EXCEPT ![e] = r] /\ SafeToWrite(r, e)
    BY <2>1, <2>2, <2>3, <2>4, <2>5 DEF SafeToWrite
  <2>7. PICK q \in WorkerType : /\ worker' = [worker EXCEPT ![w] = q] /\ HookShape(q)
                               /\ q.event = NoEvent
    BY <2>1, FreeFacts
  <2>8. /\ worker[w].pc \notin {"idle", "insertLog"}
        /\ timer' = timer /\ sends' = sends /\ replays' = replays /\ deletes' = deletes
        /\ sub' \in SubType /\ sub'.maxRetries = sub.maxRetries
    BY <1>1, <1>2, <2>1
  <2> QED BY <2>6, <2>7, <2>8, CareBookkeeping
<1> QED BY <1>6, <1>7

\* Before the subscription is there, nothing happens; afterwards its retries are fixed.
LEMMA SubscriptionCares ==
  ASSUME CareIInv, Hooks!Register \/ Hooks!Delete, UNCHANGED deletes PROVE Care'
<1>1. UNCHANGED <<log, timer, worker, sends, replays, deletes>>
  BY DEF Hooks!Register, Hooks!Delete
<1>2. \/ deletes
      \/ /\ \A e \in Items : log[e].status = "none" /\ timer[e] = 0 /\ replays[e] = 0
         /\ \A w \in Workers : worker[w].event \notin Items
  <2> SUFFICES ASSUME ~deletes
               PROVE  /\ \A e \in Items : log[e].status = "none" /\ timer[e] = 0 /\ replays[e] = 0
                      /\ \A w \in Workers : worker[w].event \notin Items
    OBVIOUS
  <2>1. sub.state = "none"
    BY DEF Hooks!Register, Hooks!Delete
  <2>2. /\ \A e \in Items : log[e].status = "none" /\ Untriggered(e)
        /\ \A w \in Workers : worker[w] = Hooks!FreeWorker
    BY <2>1, IdleFacts DEF CareIInv, HookIInv, Subscribed, Located
  <2> QED BY <2>2, FreeFacts, WebhookAssumption DEF Untriggered
<1>3. CASE deletes
  BY <1>1, <1>3 DEF CareIInv, Care, Alone, WorkerCare, EventCare, Hooks!Attended
<1>4. CASE /\ \A e \in Items : log[e].status = "none" /\ timer[e] = 0 /\ replays[e] = 0
           /\ \A w \in Workers : worker[w].event \notin Items
  BY <1>1, <1>4 DEF CareIInv, Care, Alone, EventCare
<1> QED BY <1>2, <1>3, <1>4

LEMMA CareInitSound == Hooks!Init => Care
<1> SUFFICES ASSUME Hooks!Init PROVE Care
  OBVIOUS
<1>1. /\ \A e \in Items : log[e] = Hooks!NoLog /\ timer[e] = 0 /\ replays[e] = 0
      /\ \A w \in Workers : worker[w] = Hooks!FreeWorker
  BY DEF Hooks!Init
<1> QED BY <1>1, FreeFacts, WebhookAssumption DEF Care, Alone, EventCare, Hooks!NoLog

LEMMA CareNextSound ==
  ASSUME ~Faulty, CareIInv, [Hooks!Next]_(Hooks!vars) PROVE CareIInv'
<1>1. HookIInv'
  BY HookNextSound DEF CareIInv
<1>2. ASSUME NEW w \in Workers, UNCHANGED deletes,
             Hooks!Trigger(w) \/ Hooks!Fire(w) \/ Hooks!Replay(w)
      PROVE  Care'
  BY <1>2, TriggerCares, FireCares, ReplayCares
<1>3. ASSUME NEW w \in Workers, UNCHANGED deletes, Hooks!Step(w) PROVE Care'
  BY <1>3, InsertLogCares, SaveDeliveredCares, StatsCare, GivingUpCares, RetryCares,
     SavePendingCares, ReadEndpointCares DEF Hooks!Step
<1>4. ASSUME UNCHANGED Hooks!vars PROVE Care'
  <2>1. /\ sub' = sub /\ log' = log /\ timer' = timer /\ worker' = worker
        /\ sends' = sends /\ replays' = replays /\ deletes' = deletes
    BY <1>4 DEF Hooks!vars
  <2>2. Care
    BY DEF CareIInv
  <2> QED BY <2>1, <2>2 DEF Care, Alone, WorkerCare, EventCare, Hooks!Attended
<1>5. ~Hooks!Crash /\ \A w \in Workers : ~Hooks!Fail(w)
  BY DEF Hooks!Crash, Hooks!Fail
<1>6. Care'
  BY <1>2, <1>3, <1>4, <1>5, SubscriptionCares DEF Hooks!Next
<1> QED BY <1>1, <1>6 DEF CareIInv

\* triggerWebhook(), deliverWebhook() and replayFromDeadLetter(): as long as no query fails
\* and the process lives, a pending event is attended to, however deliveries, replays and
\* the deletion of the subscription overlap; only a replayed event of a deleted
\* subscription is left behind.
THEOREM NothingPendsUnattended == Spec => []PendingIsAttended
<1>1. CASE Faulty
  <2>1. PendingIsAttended
    BY <1>1 DEF PendingIsAttended, Hooks!PendingIsAttended
  <2> QED BY <2>1, PTL
<1>2. CASE ~Faulty
  <2>1. CareIInv /\ [Next]_vars => CareIInv'
    BY <1>2, CareNextSound
       DEF Next, PaymentStep, PayrollStep, WebhookStep, vars, hookVars, Hooks!vars
  <2>2. Init => CareIInv
    BY HookInitSound, CareInitSound DEF Init, CareIInv
  <2>3. CareIInv => PendingIsAttended
    BY DEF CareIInv, Care, PendingIsAttended, Hooks!PendingIsAttended
  <2> QED BY <2>1, <2>2, <2>3, PTL DEF Spec
<1> QED BY <1>1, <1>2

\* The rows, calls, timers and workers of the three services keep their types.
THEOREM BusinessTypeCorrect == Spec => []TypeOK
<1>1. HookIInv => Hooks!TypeOK
  BY DEF HookIInv, HookTypes, HookRowType, SubType, WorkerType, Hooks!TypeOK
<1> QED BY <1>1, HookInductive, PaymentsTypeCorrect, PayrollTypeCorrect, PTL DEF TypeOK
=============================================================================
