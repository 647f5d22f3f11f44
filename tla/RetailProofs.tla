------------------------------ MODULE RetailProofs --------------------------
(***************************************************************************)
(* Theorems about the transfers and the accounts of Retail, for any number *)
(* of rows and calls, with failing queries: what holds however calls       *)
(* overlap, and what holds of calls on a row served in turn.               *)
(***************************************************************************)
EXTENDS Retail, FiniteSetTheorems, TLAPS

MovingPCs == {"free", "save", "finish", "catch", "done", "refused", "failed"}

MovingStatuses == {"none", "pending", "executing", "completed", "failed", "cancelled"}

TransferRow == [status : MovingStatuses, recurring : BOOLEAN, count : Nat, next : Int,
                ended : BOOLEAN]

TransferCall == [op : Moving!Ops \cup {"none", "batch"}, pc : MovingPCs,
                 on : SUBSET Items, row : TransferRow]

-----------------------------------------------------------------------------
\* The inductive invariant of the transfers.

\* Where a call stands, it has read a transfer and found it fit.
MovingShape(q) ==
  /\ q.pc = "free" => q.on = {}
  /\ q.pc \in {"save", "finish", "catch"} => \E t \in Items : q.on = {t}
  /\ q.pc = "save" => q.op \in Moving!Ops /\ Moving!Accepted(q.op, q.row) /\ q.row.status # "none"
  /\ q.pc \in {"finish", "catch"} => q.op = "execute" /\ q.row.status = "executing"

MovingTypes ==
  /\ today \in 0..Horizon /\ serial \in BOOLEAN
  /\ transfer \in [Items -> TransferRow] /\ transferCall \in [Calls -> TransferCall]
  /\ \A c \in Calls : MovingShape(transferCall[c])

\* Every execution that ended may have moved a date by one day.
Endings == {c \in Calls : transferCall[c].op = "execute" /\ transferCall[c].pc = "done"}
Latest  == today + Cardinality(Endings)

Near(row, day) == -1 <= row.next /\ row.next <= day

DatesNear ==
  /\ \A t \in Items : Near(transfer[t], Latest)
  /\ \A c \in Calls : Near(transferCall[c].row, Latest)

\* A transfer that was executed or cancelled is pending only when a modification says so.
Modified(t) ==
  \E d \in Calls :
    transferCall[d].op = "modify" /\ transferCall[d].pc = "done" /\ t \in transferCall[d].on

PendingEarned ==
  \A t \in Items :
    /\ transfer[t].status = "none" => \A c \in Calls : t \notin transferCall[c].on
    /\ transfer[t].status = "pending" /\ Moving!Settled(t) # {} => Modified(t)

\* With one call at a time on a transfer, its copy is the row, and an execution that ended
\* was the only one.
Works(q, t)   == t \in q.on /\ q.pc \notin {"done", "refused", "failed"}
Working(c, t) == Works(transferCall[c], t)

OneAtATime ==
  serial => \A t \in Items :
    /\ \A c \in Calls : Working(c, t) => transferCall[c].row = transfer[t]
    /\ \A c, d \in Calls : Working(c, t) /\ Working(d, t) => c = d
    /\ \A c \in Moving!Completions(t) : transfer[t].status \in {"completed", "failed", "cancelled"}
    /\ \A c, d \in Moving!Completions(t) : c = d

MovingIInv == MovingTypes /\ DatesNear /\ PendingEarned /\ OneAtATime

-----------------------------------------------------------------------------
\* The steps of a call: it goes on as q, and may write r on the transfer t.
Goes(c, q) == transferCall' = [transferCall EXCEPT ![c] = q] /\ q \in TransferCall /\ MovingShape(q)
Writes(t, r) == transfer' = [transfer EXCEPT ![t] = r] /\ r \in TransferRow

\* A call that starts has read t, or a batch what was due.
LEMMA AskFacts ==
  ASSUME MovingTypes, NEW c \in Calls, Moving!Ask(c)
  PROVE  \E t \in Items, q \in TransferCall :
           /\ Goes(c, q) /\ q.on = {t} /\ q.row = transfer[t] /\ q.op \in Moving!Ops
           /\ q.pc \in {"save", "refused"} /\ transferCall[c].pc = "free"
           /\ transfer[t].status # "none" /\ (serial => \A d \in Calls : ~Working(d, t))
           /\ transfer' = transfer /\ today' = today
<1>1. PICK t \in Items, op \in Moving!Ops :
        /\ transfer[t].status # "none" /\ (serial => ~Moving!Busy(t))
        /\ transferCall' = [transferCall EXCEPT ![c] =
             [op |-> op, on |-> {t}, row |-> transfer[t],
              pc |-> IF Moving!Accepted(op, transfer[t]) THEN "save" ELSE "refused"]]
  BY DEF Moving!Ask, Moving!Exists
<1>2. PICK pc \in {"save", "refused"} :
        pc = IF Moving!Accepted(op, transfer[t]) THEN "save" ELSE "refused"
  OBVIOUS
<1> DEFINE q == [op |-> op, on |-> {t}, row |-> transfer[t], pc |-> pc]
<1>3. q \in TransferCall /\ q.on = {t} /\ q.row = transfer[t] /\ q.op = op /\ q.pc = pc
  BY DEF MovingTypes, TransferCall, MovingPCs
<1>4. transferCall' = [transferCall EXCEPT ![c] = q]
  BY <1>1, <1>2
<1> HIDE DEF q
<1>5. pc = "save" => Moving!Accepted(op, transfer[t])
  BY <1>2
<1>6. MovingShape(q)
  BY <1>1, <1>3, <1>5 DEF MovingShape
<1>7. serial => \A d \in Calls : ~Working(d, t)
  BY <1>1 DEF Moving!Busy, Moving!Ended, Working, Works
<1>8. transferCall[c].pc = "free" /\ transfer' = transfer /\ today' = today
  BY DEF Moving!Ask
<1>9. Goes(c, q)
  BY <1>3, <1>4, <1>6 DEF Goes
<1> QED BY <1>1, <1>3, <1>7, <1>8, <1>9

LEMMA DueFacts ==
  ASSUME MovingTypes, NEW c \in Calls, Moving!ProcessDue(c)
  PROVE  \E q \in TransferCall :
           /\ Goes(c, q) /\ q.row = transferCall[c].row /\ q.op = "batch" /\ q.pc = "done"
           /\ transferCall[c].pc = "free"
           /\ \A t \in q.on : transfer[t].status # "none"
           /\ transfer' = transfer /\ today' = today
<1> DEFINE q == [transferCall[c] EXCEPT !.op = "batch", !.pc = "done", !.on = Moving!Due]
<1>1. Moving!Due \subseteq Items /\ \A t \in Moving!Due : transfer[t].status # "none"
  BY DEF Moving!Due, Moving!Found
<1>2. transferCall[c] \in TransferCall
  BY DEF MovingTypes
<1>3. /\ q \in TransferCall /\ q.row = transferCall[c].row /\ q.op = "batch"
      /\ q.pc = "done"
      /\ q.on = Moving!Due
  BY <1>1, <1>2 DEF TransferCall, MovingPCs
<1>4. /\ transferCall' = [transferCall EXCEPT ![c] = q] /\ transferCall[c].pc = "free"
      /\ transfer' = transfer /\ today' = today
  BY DEF Moving!ProcessDue, MovingTypes
<1> HIDE DEF q
<1>5. Goes(c, q)
  BY <1>3, <1>4 DEF Goes, MovingShape
<1> QED BY <1>1, <1>3, <1>4, <1>5

\* A query that fails leaves everything but the program counter.
LEMMA MovingFailFacts ==
  ASSUME MovingTypes, NEW c \in Calls, Moving!Fail(c)
  PROVE  \E q \in TransferCall :
           /\ Goes(c, q) /\ q.row = transferCall[c].row /\ q.op = transferCall[c].op
           /\ q.on = transferCall[c].on
           /\ transferCall[c].pc \in {"save", "catch", "finish"}
           /\ q.pc \in {"failed", "catch"}
           /\ transfer' = transfer /\ today' = today
<1>1. PICK pc \in {"failed", "catch"} :
        /\ transferCall' = [transferCall EXCEPT ![c].pc = pc]
        /\ transferCall[c].pc \in {"save", "catch", "finish"}
        /\ pc = "catch" => transferCall[c].pc = "finish"
  BY DEF Moving!Fail, Moving!Goto
<1> DEFINE q == [transferCall[c] EXCEPT !.pc = pc]
<1>2. transferCall[c] \in TransferCall /\ MovingShape(transferCall[c])
  BY DEF MovingTypes
<1>3. /\ q \in TransferCall /\ q.row = transferCall[c].row /\ q.op = transferCall[c].op
      /\ q.on = transferCall[c].on /\ q.pc = pc
  BY <1>2 DEF TransferCall, MovingPCs
<1>4. transferCall' = [transferCall EXCEPT ![c] = q]
  BY <1>1 DEF MovingTypes
<1> HIDE DEF q
<1>5. MovingShape(q)
  BY <1>1, <1>2, <1>3 DEF MovingShape
<1> QED BY <1>1, <1>3, <1>4, <1>5 DEF Goes, Moving!Fail

\* What a save writes, by the operation.
LEMMA ChangedTransfer ==
  ASSUME NEW op \in Moving!Ops, NEW row \in TransferRow, Moving!Accepted(op, row)
  PROVE  LET r == Moving!Changed(op, row) IN
         /\ r \in TransferRow /\ r.next = row.next
         /\ op = "execute" => r.status = "executing" /\ row.status = "pending"
         /\ op = "modify" => r = row /\ row.status = "pending"
         /\ op = "cancel" => r.status = "cancelled" /\ row.status # "completed"
         /\ op = "cancelRecurring" => r.status = "cancelled" /\ r.ended
<1> DEFINE r == Moving!Changed(op, row)
<1> USE DEF TransferRow, MovingStatuses
<1>1. CASE op = "execute"
  <2>1. r = [row EXCEPT !.status = "executing"] /\ row.status = "pending"
    BY <1>1 DEF Moving!Changed, Moving!Accepted
  <2> QED BY <1>1, <2>1
<1>2. CASE op = "modify"
  <2>1. r = row /\ row.status = "pending"
    BY <1>2 DEF Moving!Changed, Moving!Accepted
  <2> QED BY <1>2, <2>1
<1>3. CASE op = "cancel"
  <2>1. r = [row EXCEPT !.status = "cancelled"] /\ row.status # "completed"
    BY <1>3 DEF Moving!Changed, Moving!Accepted
  <2> QED BY <1>3, <2>1
<1>4. CASE op = "cancelRecurring"
  <2>1. r = [row EXCEPT !.status = "cancelled", !.ended = TRUE]
    BY <1>4 DEF Moving!Changed
  <2> QED BY <1>4, <2>1
<1> HIDE DEF r
<1> QED BY <1>1, <1>2, <1>3, <1>4 DEF Moving!Ops, r

LEMMA MovingSaveFacts ==
  ASSUME MovingTypes, NEW c \in Calls, Moving!Save(c)
  PROVE  \E t \in Items, r \in TransferRow, q \in TransferCall :
           /\ Goes(c, q) /\ Writes(t, r) /\ today' = today
           /\ q.on = {t} /\ q.row = r /\ q.op = transferCall[c].op
           /\ transferCall[c].pc = "save" /\ transferCall[c].on = {t} /\ q.op \in Moving!Ops
           /\ q.pc = IF q.op = "execute" THEN "finish" ELSE "done"
           /\ r.next = transferCall[c].row.next
           /\ q.op = "execute" => r.status = "executing" /\ transferCall[c].row.status = "pending"
           /\ q.op = "modify" => r = transferCall[c].row /\ r.status = "pending"
           /\ q.op = "cancel" =>
                   r.status = "cancelled" /\ transferCall[c].row.status # "completed"
           /\ q.op = "cancelRecurring" => r.status = "cancelled" /\ r.ended
<1> DEFINE p == transferCall[c]
           r == Moving!Changed(p.op, p.row)
<1>1. /\ p.pc = "save" /\ p \in TransferCall /\ p.row \in TransferRow /\ p.op \in Moving!Ops
      /\ Moving!Accepted(p.op, p.row)
  BY DEF Moving!Save, MovingTypes, MovingShape, TransferCall
<1>2. PICK t \in Items : p.on = {t}
  BY <1>1 DEF MovingTypes, MovingShape
<1>3. /\ r \in TransferRow /\ r.next = p.row.next
      /\ p.op = "execute" => r.status = "executing" /\ p.row.status = "pending"
      /\ p.op = "modify" => r = p.row /\ p.row.status = "pending"
      /\ p.op = "cancel" => r.status = "cancelled" /\ p.row.status # "completed"
      /\ p.op = "cancelRecurring" => r.status = "cancelled" /\ r.ended
  BY <1>1, ChangedTransfer
<1>4. PICK pc \in {"finish", "done"} : pc = IF p.op = "execute" THEN "finish" ELSE "done"
  OBVIOUS
<1> DEFINE q == [p EXCEPT !.row = r, !.pc = pc]
<1>5. /\ transfer' = [transfer EXCEPT ![t] = r] /\ today' = today
      /\ transferCall' = [transferCall EXCEPT ![c] = q]
  BY <1>2, <1>4 DEF Moving!Save, Moving!Put, MovingTypes
<1> HIDE DEF r
<1>6. q \in TransferCall /\ q.row = r /\ q.pc = pc /\ q.op = p.op /\ q.on = p.on
  BY <1>1, <1>3 DEF TransferCall, MovingPCs
<1> HIDE DEF q
<1>7. MovingShape(q)
  BY <1>1, <1>2, <1>3, <1>4, <1>6 DEF MovingShape
<1>8. Goes(c, q) /\ Writes(t, r)
  BY <1>3, <1>5, <1>6, <1>7 DEF Goes, Writes
<1> QED BY <1>1, <1>2, <1>3, <1>4, <1>5, <1>6, <1>8

\* The end of an execution, as completed or as failed.
LEMMA CompletedTransfer ==
  ASSUME NEW row \in TransferRow, today \in Nat
  PROVE  LET r == Moving!Completed(row) IN
         /\ r \in TransferRow /\ r.status = "completed"
         /\ r.next \in {row.next, row.next + 1, today + 1}
<1>1. PICK n \in Int : n = IF row.recurring THEN Moving!NextExecution(row) ELSE row.next
  BY DEF TransferRow, Moving!NextExecution
<1>2. n \in {row.next, row.next + 1, today + 1}
  BY <1>1 DEF Moving!NextExecution, TransferRow
<1>3. PICK k \in Nat : k = row.count + 1
  BY DEF TransferRow
<1> DEFINE s == [row EXCEPT !.status = "completed", !.count = k, !.next = n]
<1>4. Moving!Completed(row) = s
  BY <1>1, <1>3 DEF Moving!Completed
<1>5. s \in TransferRow /\ s.status = "completed" /\ s.next = n
  BY DEF TransferRow, MovingStatuses
<1> QED BY <1>2, <1>4, <1>5

LEMMA EndFacts ==
  ASSUME MovingTypes, NEW c \in Calls, Moving!Finish(c) \/ Moving!SaveFailed(c)
  PROVE  \E t \in Items, r \in TransferRow, q \in TransferCall :
           /\ Goes(c, q) /\ Writes(t, r) /\ today' = today
           /\ q.on = {t} /\ q.row = transferCall[c].row /\ q.op = "execute" /\ q.pc = "done"
           /\ transferCall[c].pc \in {"finish", "catch"} /\ transferCall[c].on = {t}
           /\ transferCall[c].op = "execute" /\ transferCall[c].row.status = "executing"
           /\ r.status \in {"completed", "failed"}
           /\ r.next \in {transferCall[c].row.next, transferCall[c].row.next + 1, today + 1}
<1> DEFINE p == transferCall[c]
           q == [p EXCEPT !.pc = "done"]
<1>1. /\ p.pc \in {"finish", "catch"} /\ p \in TransferCall /\ p.row \in TransferRow
      /\ p.op = "execute" /\ p.row.status = "executing"
  BY DEF Moving!Finish, Moving!SaveFailed, MovingTypes, MovingShape, TransferCall
<1>2. PICK t \in Items : p.on = {t}
  BY <1>1 DEF MovingTypes, MovingShape
<1>3. today \in Nat
  BY RetailBoundsAssumption DEF MovingTypes
<1> DEFINE s == Moving!Completed(p.row)
<1>4. /\ s \in TransferRow /\ s.status = "completed"
      /\ s.next \in {p.row.next, p.row.next + 1, today + 1}
  BY <1>1, <1>3, CompletedTransfer
<1> HIDE DEF s
<1>5. PICK r \in {s, [s EXCEPT !.status = "failed"]} : transfer' = [transfer EXCEPT ![t] = r]
  BY <1>2 DEF Moving!Finish, Moving!SaveFailed, Moving!Put, s
<1>6. r \in TransferRow /\ r.status \in {"completed", "failed"} /\ r.next = s.next
  BY <1>4, <1>5 DEF TransferRow, MovingStatuses
<1>7. transferCall' = [transferCall EXCEPT ![c] = q] /\ today' = today
  BY DEF Moving!Finish, Moving!SaveFailed, Moving!Goto, MovingTypes
<1>8. q \in TransferCall /\ q.pc = "done" /\ q.op = p.op /\ q.on = p.on /\ q.row = p.row
  BY <1>1 DEF TransferCall, MovingPCs
<1> HIDE DEF q
<1>9. MovingShape(q)
  BY <1>8 DEF MovingShape
<1> QED BY <1>1, <1>2, <1>4, <1>5, <1>6, <1>7, <1>8, <1>9 DEF Goes, Writes

\* A transfer that is created is pending, and due today or on no day.
LEMMA CreateFacts ==
  ASSUME MovingTypes, Moving!Create
  PROVE  \E t \in Items, r \in TransferRow :
           /\ Writes(t, r) /\ r.status = "pending" /\ r.next \in {-1, today}
           /\ transfer[t].status = "none" /\ transferCall' = transferCall /\ today' = today
<1>1. PICK t \in Items, recurring \in BOOLEAN, next \in {-1, today} :
        /\ transfer[t].status = "none"
        /\ transfer' = [transfer EXCEPT ![t] =
             [Moving!NoRow EXCEPT !.status = "pending", !.recurring = recurring, !.next = next]]
  BY DEF Moving!Create, Moving!Exists, Moving!Never
<1> DEFINE r == [Moving!NoRow EXCEPT !.status = "pending", !.recurring = recurring, !.next = next]
<1>2. Moving!NoRow \in TransferRow
  BY DEF Moving!NoRow, Moving!Never, TransferRow, MovingStatuses
<1>3. next \in Int
  BY <1>1 DEF MovingTypes
<1> HIDE DEF Moving!NoRow
<1>4. r \in TransferRow /\ r.status = "pending" /\ r.next = next
  BY <1>2, <1>3 DEF TransferRow, MovingStatuses
<1> QED BY <1>1, <1>4 DEF Writes, Moving!Create

-----------------------------------------------------------------------------
\* What was done stays done; an execution that ends adds itself.
LEMMA DoneStays ==
  ASSUME MovingTypes, NEW c \in Calls, NEW q, Goes(c, q), transferCall[c].pc # "done"
  PROVE  /\ transferCall'[c] = q
         /\ \A d \in Calls : d # c => transferCall'[d] = transferCall[d]
         /\ \A t : Modified(t) => Modified(t)'
         /\ \A t : q.op = "execute" /\ q.pc = "done" /\ t \in q.on =>
              Moving!Completions(t)' = Moving!Completions(t) \cup {c}
         /\ \A t : ~(q.op = "execute" /\ q.pc = "done" /\ t \in q.on) =>
              Moving!Completions(t)' = Moving!Completions(t)
         /\ \A t : c \notin Moving!Completions(t)
         /\ \A t : ~(q.pc = "done" /\ q.op # "batch" /\ t \in q.on) =>
              Moving!Settled(t)' = Moving!Settled(t)
<1>1. transferCall'[c] = q /\ \A d \in Calls : d # c => transferCall'[d] = transferCall[d]
  BY DEF MovingTypes, Goes
<1>2. ASSUME NEW t, Modified(t) PROVE Modified(t)'
  BY <1>1, <1>2 DEF Modified
<1>3. \A t : c \notin Moving!Completions(t)
  BY DEF Moving!Completions
<1>4. \A t : ~(q.pc = "done" /\ q.op # "batch" /\ t \in q.on) =>
         Moving!Settled(t)' = Moving!Settled(t)
  BY <1>1 DEF Moving!Settled
<1> QED BY <1>1, <1>2, <1>3, <1>4 DEF Moving!Completions

\* The last day a date can have: with every ending a day later.
LEMMA LatestGrows ==
  ASSUME MovingTypes, NEW c \in Calls, NEW q, Goes(c, q), transferCall[c].pc # "done",
         today' = today
  PROVE  /\ Latest \in Nat /\ Latest' \in Nat /\ today <= Latest /\ Latest <= Latest'
         /\ q.op = "execute" /\ q.pc = "done" => Latest' = Latest + 1
<1>1. transferCall'[c] = q /\ \A d \in Calls : d # c => transferCall'[d] = transferCall[d]
  BY DEF MovingTypes, Goes
<1>2. IsFiniteSet(Endings) /\ Cardinality(Endings) \in Nat /\ today \in Nat
  <2>1. Endings \subseteq Calls
    BY DEF Endings
  <2> QED BY <2>1, RetailCallsAssumption, RetailBoundsAssumption, FS_Subset, FS_CardinalityType
          DEF MovingTypes
<1>3. CASE q.op = "execute" /\ q.pc = "done"
  <2>1. Endings' = Endings \cup {c} /\ c \notin Endings
    BY <1>1, <1>3 DEF Endings
  <2>2. Cardinality(Endings') = Cardinality(Endings) + 1
    BY <2>1, <1>2, FS_AddElement
  <2> QED BY <2>2, <1>2 DEF Latest
<1>4. CASE ~(q.op = "execute" /\ q.pc = "done")
  <2>1. Endings' = Endings
    BY <1>1, <1>4 DEF Endings
  <2> QED BY <2>1, <1>2, <1>4 DEF Latest
<1> QED BY <1>3, <1>4

\* What a step in which c goes on as q owes to the invariant, for the transfer t.
Owes(c, q, t) ==
  /\ Near(transfer'[t], Latest')
  /\ transfer'[t].status = "none" => transfer[t].status = "none" /\ t \notin q.on
  /\ transfer'[t].status = "pending" /\ Moving!Settled(t)' # {} => Modified(t)'
  /\ serial =>
       /\ Works(q, t) => q.row = transfer'[t] /\ \A d \in Calls : d # c => ~Working(d, t)
       /\ transfer'[t] # transfer[t] => \A d \in Calls : d # c => ~Working(d, t)
       /\ Moving!Completions(t)' # {} =>
            transfer'[t].status \in {"completed", "failed", "cancelled"}
       /\ c \in Moving!Completions(t)' => Moving!Completions(t) = {}

LEMMA TransferKept ==
  ASSUME MovingIInv, NEW c \in Calls, NEW q, Goes(c, q), transferCall[c].pc # "done",
         today' = today, serial' = serial, transfer' \in [Items -> TransferRow],
         Near(q.row, Latest'), \A t \in Items : Owes(c, q, t)
  PROVE  MovingIInv'
<1>1. /\ transferCall'[c] = q
      /\ \A d \in Calls : d # c => transferCall'[d] = transferCall[d]
      /\ \A t : Moving!Completions(t)' \in {Moving!Completions(t), Moving!Completions(t) \cup {c}}
      /\ Latest \in Nat /\ Latest' \in Nat /\ Latest <= Latest'
  BY DoneStays, LatestGrows DEF MovingIInv
<1>2. MovingTypes'
  <2>1. transferCall' \in [Calls -> TransferCall] /\ \A d \in Calls : MovingShape(transferCall'[d])
    BY <1>1 DEF MovingIInv, MovingTypes, Goes
  <2> QED BY <2>1 DEF MovingIInv, MovingTypes, MovingShape
<1>3. DatesNear'
  <2>1. \A d \in Calls : Near(transferCall'[d].row, Latest')
    <3> SUFFICES ASSUME NEW d \in Calls, d # c PROVE Near(transferCall'[d].row, Latest')
      BY <1>1
    <3>1. transferCall'[d] = transferCall[d] /\ Near(transferCall[d].row, Latest)
      BY <1>1 DEF MovingIInv, DatesNear
    <3>2. transferCall[d].row.next \in Int
      BY DEF MovingIInv, MovingTypes, TransferCall, TransferRow
    <3> QED BY <3>1, <3>2, <1>1 DEF Near
  <2>2. \A t \in Items : Near(transfer'[t], Latest')
    BY DEF Owes
  <2> QED BY <2>1, <2>2 DEF DatesNear, Near
<1>4. PendingEarned'
  <2> SUFFICES ASSUME NEW t \in Items
      PROVE  /\ transfer'[t].status = "none" => \A d \in Calls : t \notin transferCall'[d].on
             /\ transfer'[t].status = "pending" /\ Moving!Settled(t)' # {} => Modified(t)'
    BY DEF PendingEarned
  <2>1. ASSUME transfer'[t].status = "none", NEW d \in Calls PROVE t \notin transferCall'[d].on
    BY <2>1, <1>1 DEF Owes, MovingIInv, PendingEarned
  <2> QED BY <2>1 DEF Owes
<1>5. OneAtATime'
  <2> SUFFICES ASSUME serial, NEW t \in Items
      PROVE  /\ \A d \in Calls : Working(d, t)' => transferCall'[d].row = transfer'[t]
             /\ \A d, e \in Calls : Working(d, t)' /\ Working(e, t)' => d = e
             /\ \A d \in Moving!Completions(t)' :
                  transfer'[t].status \in {"completed", "failed", "cancelled"}
             /\ \A d, e \in Moving!Completions(t)' : d = e
    BY DEF OneAtATime
  <2>1. /\ \A d \in Calls : Working(d, t) => transferCall[d].row = transfer[t]
        /\ \A d, e \in Calls : Working(d, t) /\ Working(e, t) => d = e
        /\ \A d, e \in Moving!Completions(t) : d = e
    BY DEF MovingIInv, OneAtATime
  <2>2. /\ Working(c, t)' <=> Works(q, t)
        /\ \A d \in Calls : d # c => (Working(d, t)' <=> Working(d, t))
    BY <1>1 DEF Working, Works
  <2>3. ASSUME NEW d \in Calls, Working(d, t)' PROVE transferCall'[d].row = transfer'[t]
    BY <2>1, <2>2, <2>3, <1>1 DEF Owes
  <2>4. ASSUME NEW d \in Calls, NEW e \in Calls, Working(d, t)', Working(e, t)' PROVE d = e
    BY <2>1, <2>2, <2>4 DEF Owes
  <2>5. \A d, e \in Moving!Completions(t)' : d = e
    BY <2>1, <1>1 DEF Owes
  <2> QED BY <2>3, <2>4, <2>5 DEF Owes
<1> QED BY <1>2, <1>3, <1>4, <1>5 DEF MovingIInv

\* A transfer that the step does not touch.
LEMMA Untouched ==
  ASSUME MovingIInv, NEW c \in Calls, NEW q, Goes(c, q), transferCall[c].pc # "done",
         today' = today, NEW t \in Items, transfer'[t] = transfer[t],
         transfer[t].status = "none" => t \notin q.on,
         ~(q.pc = "done" /\ q.op # "batch" /\ t \in q.on),
         serial /\ Works(q, t) => q.row = transfer[t] /\ \A d \in Calls : d # c => ~Working(d, t)
  PROVE  Owes(c, q, t)
<1>1. /\ Moving!Completions(t)' = Moving!Completions(t) /\ c \notin Moving!Completions(t)
      /\ Moving!Settled(t)' = Moving!Settled(t)
      /\ Modified(t) => Modified(t)'
      /\ Latest \in Nat /\ Latest' \in Nat /\ Latest <= Latest'
  BY DoneStays, LatestGrows DEF MovingIInv
<1>2. Near(transfer'[t], Latest')
  <2>1. Near(transfer[t], Latest) /\ transfer[t].next \in Int
    BY DEF MovingIInv, DatesNear, MovingTypes, TransferRow
  <2> QED BY <2>1, <1>1 DEF Near
<1>3. transfer[t].status = "pending" /\ Moving!Settled(t) # {} => Modified(t)
  BY DEF MovingIInv, PendingEarned
<1>4. serial /\ Moving!Completions(t) # {} =>
        transfer[t].status \in {"completed", "failed", "cancelled"}
  BY DEF MovingIInv, OneAtATime
<1> QED BY <1>1, <1>2, <1>3, <1>4 DEF Owes

\* The call c and its copy, before the step.
LEMMA CallFacts ==
  ASSUME MovingIInv, NEW c \in Calls
  PROVE  /\ Near(transferCall[c].row, Latest) /\ transferCall[c].row.next \in Int
         /\ \A t \in transferCall[c].on : t \in Items /\ transfer[t].status # "none"
         /\ \A t \in Items : serial /\ Working(c, t) =>
              transferCall[c].row = transfer[t] /\ \A d \in Calls : d # c => ~Working(d, t)
<1>1. Near(transferCall[c].row, Latest) /\ transferCall[c].row.next \in Int
  BY DEF MovingIInv, DatesNear, MovingTypes, TransferCall, TransferRow
<1>2. \A t \in transferCall[c].on : t \in Items /\ transfer[t].status # "none"
  BY DEF MovingIInv, PendingEarned, MovingTypes, TransferCall
<1> QED BY <1>1, <1>2 DEF MovingIInv, OneAtATime

-----------------------------------------------------------------------------
\* The actions.

LEMMA MovingAskKeeps ==
  ASSUME MovingIInv, serial' = serial, NEW c \in Calls, Moving!Ask(c) PROVE MovingIInv'
<1>1. PICK t \in Items, q \in TransferCall :
        /\ Goes(c, q) /\ q.on = {t} /\ q.row = transfer[t] /\ q.op \in Moving!Ops
        /\ q.pc \in {"save", "refused"} /\ transferCall[c].pc = "free"
        /\ transfer[t].status # "none" /\ (serial => \A d \in Calls : ~Working(d, t))
        /\ transfer' = transfer /\ today' = today
  BY AskFacts DEF MovingIInv
<1>2. \A u \in Items : Owes(c, q, u)
  <2> SUFFICES ASSUME NEW u \in Items PROVE Owes(c, q, u)
    OBVIOUS
  <2>1. serial /\ Works(q, u) => q.row = transfer[u] /\ \A d \in Calls : d # c => ~Working(d, u)
    BY <1>1 DEF Works
  <2>2. /\ transfer[u].status = "none" => u \notin q.on
        /\ ~(q.pc = "done" /\ q.op # "batch" /\ u \in q.on)
    BY <1>1
  <2> QED BY <1>1, <2>1, <2>2, Untouched
<1>3. Near(q.row, Latest')
  <2>1. Near(transfer[t], Latest) /\ transfer[t].next \in Int
    BY DEF MovingIInv, DatesNear, MovingTypes, TransferRow
  <2>2. Latest \in Nat /\ Latest' \in Nat /\ Latest <= Latest'
    BY <1>1, LatestGrows DEF MovingIInv
  <2> QED BY <1>1, <2>1, <2>2 DEF Near
<1>4. transfer' \in [Items -> TransferRow]
  BY <1>1 DEF MovingIInv, MovingTypes
<1> QED BY <1>1, <1>2, <1>3, <1>4, TransferKept

LEMMA DueKeeps ==
  ASSUME MovingIInv, serial' = serial, NEW c \in Calls, Moving!ProcessDue(c) PROVE MovingIInv'
<1>1. PICK q \in TransferCall :
        /\ Goes(c, q) /\ q.row = transferCall[c].row /\ q.op = "batch" /\ q.pc = "done"
        /\ transferCall[c].pc = "free"
        /\ \A t \in q.on : transfer[t].status # "none"
        /\ transfer' = transfer /\ today' = today
  BY DueFacts DEF MovingIInv
<1>2. \A u \in Items : Owes(c, q, u)
  <2> SUFFICES ASSUME NEW u \in Items PROVE Owes(c, q, u)
    OBVIOUS
  <2>1. ~Works(q, u)
    BY <1>1 DEF Works
  <2>2. /\ transfer[u].status = "none" => u \notin q.on
        /\ ~(q.pc = "done" /\ q.op # "batch" /\ u \in q.on)
    BY <1>1
  <2> QED BY <1>1, <2>1, <2>2, Untouched
<1>3. Near(q.row, Latest')
  <2>1. Latest \in Nat /\ Latest' \in Nat /\ Latest <= Latest'
    BY <1>1, LatestGrows DEF MovingIInv
  <2> QED BY <1>1, <2>1, CallFacts DEF Near
<1>4. transfer' \in [Items -> TransferRow]
  BY <1>1 DEF MovingIInv, MovingTypes
<1> QED BY <1>1, <1>2, <1>3, <1>4, TransferKept

LEMMA MovingFailKeeps ==
  ASSUME MovingIInv, serial' = serial, NEW c \in Calls, Moving!Fail(c) PROVE MovingIInv'
<1>1. PICK q \in TransferCall :
        /\ Goes(c, q) /\ q.row = transferCall[c].row /\ q.op = transferCall[c].op
        /\ q.on = transferCall[c].on
        /\ transferCall[c].pc \in {"save", "catch", "finish"}
        /\ q.pc \in {"failed", "catch"}
        /\ transfer' = transfer /\ today' = today
  BY MovingFailFacts DEF MovingIInv
<1>2. \A u \in Items : Owes(c, q, u)
  <2> SUFFICES ASSUME NEW u \in Items PROVE Owes(c, q, u)
    OBVIOUS
  <2>1. Works(q, u) => Working(c, u)
    BY <1>1 DEF Works, Working
  <2>2. serial /\ Works(q, u) => q.row = transfer[u] /\ \A d \in Calls : d # c => ~Working(d, u)
    BY <1>1, <2>1, CallFacts
  <2>3. /\ transfer[u].status = "none" => u \notin q.on
        /\ ~(q.pc = "done" /\ q.op # "batch" /\ u \in q.on)
    BY <1>1, CallFacts
  <2> QED BY <1>1, <2>2, <2>3, Untouched
<1>3. Near(q.row, Latest')
  <2>1. Latest \in Nat /\ Latest' \in Nat /\ Latest <= Latest'
    BY <1>1, LatestGrows DEF MovingIInv
  <2> QED BY <1>1, <2>1, CallFacts DEF Near
<1>4. transfer' \in [Items -> TransferRow]
  BY <1>1 DEF MovingIInv, MovingTypes
<1> QED BY <1>1, <1>2, <1>3, <1>4, TransferKept

LEMMA MovingSaveKeeps ==
  ASSUME MovingIInv, serial' = serial, NEW c \in Calls, Moving!Save(c) PROVE MovingIInv'
<1>1. PICK t \in Items, r \in TransferRow, q \in TransferCall :
        /\ Goes(c, q) /\ Writes(t, r) /\ today' = today
        /\ q.on = {t} /\ q.row = r /\ q.op = transferCall[c].op
        /\ transferCall[c].pc = "save" /\ transferCall[c].on = {t} /\ q.op \in Moving!Ops
        /\ q.pc = IF q.op = "execute" THEN "finish" ELSE "done"
        /\ r.next = transferCall[c].row.next
        /\ q.op = "execute" => r.status = "executing" /\ transferCall[c].row.status = "pending"
        /\ q.op = "modify" => r = transferCall[c].row /\ r.status = "pending"
        /\ q.op = "cancel" =>
                   r.status = "cancelled" /\ transferCall[c].row.status # "completed"
        /\ q.op = "cancelRecurring" => r.status = "cancelled" /\ r.ended
  BY MovingSaveFacts DEF MovingIInv
<1>2. /\ transfer'[t] = r /\ transfer' \in [Items -> TransferRow]
      /\ \A u \in Items : u # t => transfer'[u] = transfer[u]
  BY <1>1 DEF Writes, MovingIInv, MovingTypes
<1>3. /\ transferCall'[c] = q /\ Moving!Completions(t)' = Moving!Completions(t)
      /\ c \notin Moving!Completions(t)
      /\ Latest \in Nat /\ Latest' \in Nat /\ Latest <= Latest'
  BY <1>1, DoneStays, LatestGrows DEF MovingIInv
<1>4. Near(r, Latest')
  BY <1>1, <1>3, CallFacts DEF Near
<1>5. Owes(c, q, t)
  <2>1. r.status # "none"
    BY <1>1 DEF Moving!Ops
  <2>2. r.status = "pending" => Modified(t)'
    <3>1. r.status = "pending" => q.op = "modify"
      BY <1>1 DEF Moving!Ops
    <3> QED BY <3>1, <1>1, <1>3 DEF Modified
  <2>3. ASSUME serial
        PROVE  /\ transferCall[c].row = transfer[t]
               /\ \A d \in Calls : d # c => ~Working(d, t)
               /\ Moving!Completions(t) # {} => r.status \in {"completed", "failed", "cancelled"}
    <3>1. Working(c, t)
      BY <1>1 DEF Working, Works
    <3>2. transferCall[c].row = transfer[t] /\ \A d \in Calls : d # c => ~Working(d, t)
      BY <3>1, <2>3, CallFacts
    <3>3. Moving!Completions(t) # {} => transfer[t].status \in {"completed", "failed", "cancelled"}
      BY <2>3 DEF MovingIInv, OneAtATime
    <3> QED BY <3>2, <3>3, <1>1 DEF Moving!Ops
  <2> QED BY <2>1, <2>2, <2>3, <1>1, <1>2, <1>3, <1>4 DEF Owes
<1>6. ASSUME NEW u \in Items, u # t PROVE Owes(c, q, u)
  <2>1. u \notin q.on /\ ~Works(q, u) /\ transfer'[u] = transfer[u]
    BY <1>1, <1>2, <1>6 DEF Works
  <2> QED BY <2>1, <1>1, Untouched
<1> QED BY <1>1, <1>2, <1>4, <1>5, <1>6, TransferKept

LEMMA EndKeeps ==
  ASSUME MovingIInv, serial' = serial, NEW c \in Calls, Moving!Finish(c) \/ Moving!SaveFailed(c)
  PROVE  MovingIInv'
<1>1. PICK t \in Items, r \in TransferRow, q \in TransferCall :
        /\ Goes(c, q) /\ Writes(t, r) /\ today' = today
        /\ q.on = {t} /\ q.row = transferCall[c].row /\ q.op = "execute" /\ q.pc = "done"
        /\ transferCall[c].pc \in {"finish", "catch"} /\ transferCall[c].on = {t}
        /\ transferCall[c].op = "execute" /\ transferCall[c].row.status = "executing"
        /\ r.status \in {"completed", "failed"}
        /\ r.next \in {transferCall[c].row.next, transferCall[c].row.next + 1, today + 1}
  BY EndFacts DEF MovingIInv
<1>2. /\ transfer'[t] = r /\ transfer' \in [Items -> TransferRow]
      /\ \A u \in Items : u # t => transfer'[u] = transfer[u]
  BY <1>1 DEF Writes, MovingIInv, MovingTypes
<1>3. /\ Latest \in Nat /\ Latest' = Latest + 1 /\ today <= Latest /\ today \in Nat
  BY <1>1, LatestGrows, RetailBoundsAssumption DEF MovingIInv, MovingTypes
<1>4. Near(r, Latest') /\ Near(q.row, Latest')
  BY <1>1, <1>3, CallFacts DEF Near
<1>5. Owes(c, q, t)
  <2>1. ASSUME serial
        PROVE  (\A d \in Calls : d # c => ~Working(d, t)) /\ Moving!Completions(t) = {}
    <3>1. Working(c, t)
      BY <1>1 DEF Working, Works
    <3>2. transferCall[c].row = transfer[t] /\ \A d \in Calls : d # c => ~Working(d, t)
      BY <3>1, <2>1, CallFacts
    <3>3. Moving!Completions(t) # {} => transfer[t].status \in {"completed", "failed", "cancelled"}
      BY <2>1 DEF MovingIInv, OneAtATime
    <3> QED BY <3>2, <3>3, <1>1
  <2>2. ~Works(q, t)
    BY <1>1 DEF Works
  <2> QED BY <2>1, <2>2, <1>1, <1>2, <1>4 DEF Owes
<1>6. ASSUME NEW u \in Items, u # t PROVE Owes(c, q, u)
  <2>1. u \notin q.on /\ ~Works(q, u) /\ transfer'[u] = transfer[u]
    BY <1>1, <1>2, <1>6 DEF Works
  <2>2. transferCall[c].pc # "done"
    BY <1>1
  <2> QED BY <2>1, <2>2, <1>1, Untouched
<1>7. transferCall[c].pc # "done"
  BY <1>1
<1> QED BY <1>1, <1>2, <1>4, <1>5, <1>6, <1>7, TransferKept

\* No call moves: a transfer is created, or a day passes.
LEMMA NobodyMoves ==
  ASSUME MovingIInv, serial' = serial, Moving!Create \/ Moving!NextDay PROVE MovingIInv'
<1>1. /\ transferCall' = transferCall /\ Endings' = Endings /\ today' \in 0..Horizon
      /\ today <= today'
      /\ \A t : (Modified(t)' <=> Modified(t)) /\ Moving!Completions(t)' = Moving!Completions(t)
      /\ \A t : Moving!Settled(t)' = Moving!Settled(t)
      /\ \A c \in Calls : \A t : Working(c, t)' <=> Working(c, t)
  <2>1. transferCall' = transferCall
    BY DEF Moving!Create, Moving!NextDay
  <2>2. today' \in 0..Horizon /\ today <= today'
    <3>1. today \in 0..Horizon /\ Horizon \in Nat
      BY RetailBoundsAssumption DEF MovingIInv, MovingTypes
    <3>2. today' = today \/ (today < Horizon /\ today' = today + 1)
      BY DEF Moving!Create, Moving!NextDay
    <3> QED BY <3>1, <3>2
  <2>3. Endings' = Endings
    BY <2>1 DEF Endings
  <2>4. ASSUME NEW t PROVE Modified(t)' <=> Modified(t)
    BY <2>1 DEF Modified
  <2>5. ASSUME NEW t PROVE Moving!Completions(t)' = Moving!Completions(t)
    BY <2>1 DEF Moving!Completions
  <2>6. ASSUME NEW c \in Calls, NEW t PROVE Working(c, t)' <=> Working(c, t)
    BY <2>1 DEF Working, Works
  <2>7. ASSUME NEW t PROVE Moving!Settled(t)' = Moving!Settled(t)
    BY <2>1 DEF Moving!Settled
  <2> QED BY <2>1, <2>2, <2>3, <2>4, <2>5, <2>6, <2>7
<1>2. Latest <= Latest' /\ Latest \in Nat /\ Latest' \in Nat /\ today' <= Latest'
  <2>1. Cardinality(Endings) \in Nat
    <3>1. Endings \subseteq Calls
      BY DEF Endings
    <3> QED BY <3>1, RetailCallsAssumption, FS_Subset, FS_CardinalityType
  <2>2. today \in Nat /\ today' \in Nat
    BY <1>1, RetailBoundsAssumption DEF MovingIInv, MovingTypes
  <2> QED BY <2>1, <2>2, <1>1 DEF Latest
<1>3. /\ transfer' \in [Items -> TransferRow]
      /\ \A t \in Items : transfer'[t] = transfer[t]
           \/ /\ transfer[t].status = "none" /\ transfer'[t].status = "pending"
              /\ transfer'[t].next \in {-1, today'}
  <2>1. CASE Moving!NextDay
    BY <2>1 DEF Moving!NextDay, MovingIInv, MovingTypes
  <2>2. CASE Moving!Create
    <3>1. PICK t \in Items, r \in TransferRow :
            /\ Writes(t, r) /\ r.status = "pending" /\ r.next \in {-1, today}
            /\ transfer[t].status = "none" /\ transferCall' = transferCall /\ today' = today
      BY <2>2, CreateFacts DEF MovingIInv
    <3> QED BY <3>1 DEF Writes, MovingIInv, MovingTypes
  <2> QED BY <2>1, <2>2
<1>5. MovingTypes'
  BY <1>1, <1>3 DEF MovingIInv, MovingTypes, MovingShape
<1>6. DatesNear'
  <2>1. ASSUME NEW t \in Items PROVE Near(transfer'[t], Latest')
    <3>1. Near(transfer[t], Latest) /\ transfer[t].next \in Int /\ today' \in Nat
      BY <1>1, RetailBoundsAssumption DEF MovingIInv, DatesNear, MovingTypes, TransferRow
    <3> QED BY <3>1, <1>2, <1>3 DEF Near
  <2>2. ASSUME NEW c \in Calls PROVE Near(transferCall'[c].row, Latest')
    BY <1>1, <1>2, CallFacts DEF Near
  <2> QED BY <2>1, <2>2 DEF DatesNear, Near
<1>7. \A t \in Items : transfer[t].status = "none" =>
        /\ Moving!Completions(t) = {} /\ Moving!Settled(t) = {}
        /\ \A c \in Calls : ~Working(c, t)
  BY DEF MovingIInv, PendingEarned, Moving!Completions, Moving!Settled, Working, Works
<1>8. PendingEarned'
  <2> SUFFICES ASSUME NEW t \in Items
      PROVE  /\ transfer'[t].status = "none" => \A c \in Calls : t \notin transferCall'[c].on
             /\ transfer'[t].status = "pending" /\ Moving!Settled(t)' # {} => Modified(t)'
    BY DEF PendingEarned
  <2> QED BY <1>1, <1>3, <1>7 DEF MovingIInv, PendingEarned
<1>9. OneAtATime'
  <2> SUFFICES ASSUME serial, NEW t \in Items
      PROVE  /\ \A d \in Calls : Working(d, t)' => transferCall'[d].row = transfer'[t]
             /\ \A d, e \in Calls : Working(d, t)' /\ Working(e, t)' => d = e
             /\ \A d \in Moving!Completions(t)' :
                  transfer'[t].status \in {"completed", "failed", "cancelled"}
             /\ \A d, e \in Moving!Completions(t)' : d = e
    BY DEF OneAtATime
  <2> QED BY <1>1, <1>3, <1>7 DEF MovingIInv, OneAtATime
<1> QED BY <1>5, <1>6, <1>8, <1>9 DEF MovingIInv

-----------------------------------------------------------------------------
LEMMA MovingInitSound == Moving!Init => MovingIInv
<1> SUFFICES ASSUME Moving!Init PROVE MovingIInv
  OBVIOUS
<1>1. Moving!NoRow \in TransferRow /\ Moving!NoRow.status = "none" /\ Moving!NoRow.next = -1
  BY DEF Moving!NoRow, Moving!Never, TransferRow, MovingStatuses
<1>2. /\ Moving!FreeCall \in TransferCall /\ Moving!FreeCall.pc = "free"
      /\ Moving!FreeCall.on = {} /\ Moving!FreeCall.row = Moving!NoRow
  BY <1>1 DEF Moving!FreeCall, TransferCall, MovingPCs
<1>3. /\ transfer = [t \in Items |-> Moving!NoRow]
      /\ transferCall = [c \in Calls |-> Moving!FreeCall]
      /\ today = 0 /\ serial \in BOOLEAN
  BY DEF Moving!Init
<1>4. MovingTypes
  BY <1>1, <1>2, <1>3, RetailBoundsAssumption DEF MovingTypes, MovingShape
<1>5. Endings = {} /\ \A t : Moving!Completions(t) = {} /\ Moving!Settled(t) = {}
  BY <1>2, <1>3 DEF Endings, Moving!Completions, Moving!Settled
<1>6. Latest = 0
  BY <1>3, <1>5, FS_EmptySet DEF Latest
<1>7. DatesNear
  BY <1>1, <1>2, <1>3, <1>6 DEF DatesNear, Near
<1> QED BY <1>1, <1>2, <1>3, <1>4, <1>5, <1>7
      DEF MovingIInv, PendingEarned, OneAtATime, Working, Works

LEMMA MovingNextSound == MovingIInv /\ [Moving!Next]_(Moving!vars) => MovingIInv'
<1> SUFFICES ASSUME MovingIInv, [Moving!Next]_(Moving!vars) PROVE MovingIInv'
  OBVIOUS
<1>1. CASE Moving!Next
  BY <1>1, NobodyMoves, MovingAskKeeps, MovingSaveKeeps, EndKeeps, DueKeeps, MovingFailKeeps
     DEF Moving!Next
<1>2. CASE UNCHANGED Moving!vars
  <2>1. /\ transfer' = transfer /\ transferCall' = transferCall /\ today' = today
        /\ serial' = serial
    BY <1>2 DEF Moving!vars
  <2>2. /\ Endings' = Endings
        /\ \A t : (Modified(t)' <=> Modified(t)) /\ Moving!Completions(t)' = Moving!Completions(t)
        /\ \A t : Moving!Settled(t)' = Moving!Settled(t)
        /\ \A c \in Calls : \A t : Working(c, t)' <=> Working(c, t)
    BY <2>1 DEF Endings, Modified, Moving!Completions, Moving!Settled, Working, Works
  <2>3. MovingTypes' /\ DatesNear'
    BY <2>1, <2>2 DEF MovingIInv, MovingTypes, MovingShape, DatesNear, Near, Latest
  <2>4. PendingEarned' /\ OneAtATime'
    BY <2>1, <2>2 DEF MovingIInv, PendingEarned, OneAtATime
  <2> QED BY <2>3, <2>4 DEF MovingIInv
<1> QED BY <1>1, <1>2


LEMMA TransfersInductive == Spec => []MovingIInv
<1>1. Init => MovingIInv
  BY MovingInitSound DEF Init
<1>2. MovingIInv /\ [Next]_vars => MovingIInv'
  BY MovingNextSound DEF Next, TransferStep, AccountStep, LoginStep, CodeStep, vars,
     transferVars,
     Moving!vars, Keeping!Next, SigningIn!Next, Verifying!Next
<1> QED BY <1>1, <1>2, PTL DEF Spec

-----------------------------------------------------------------------------
\* executeTransfer() with one call at a time on a transfer: whatever else is asked of it,
\* and whichever queries fail, it is executed at most once.
LEMMA TransfersExecutedOnce == Spec => []ExecutedOnce
<1>1. ASSUME MovingIInv PROVE ExecutedOnce
  <2> SUFFICES ASSUME serial, NEW t \in Items
      PROVE  Moving!Cardinality(Moving!Completions(t)) <= 1
    BY DEF ExecutedOnce, Moving!ExecutedOnce
  <2>1. \A c, d \in Moving!Completions(t) : c = d
    BY <1>1 DEF MovingIInv, OneAtATime
  <2>2. Cardinality(Moving!Completions(t)) <= 1
    <3>1. CASE Moving!Completions(t) = {}
      BY <3>1, FS_EmptySet
    <3>2. ASSUME NEW c, c \in Moving!Completions(t)
          PROVE  Cardinality(Moving!Completions(t)) <= 1
      <4>1. Moving!Completions(t) = {c}
        BY <2>1, <3>2
      <4>2. Cardinality({c}) = 1
        BY FS_Singleton
      <4> QED BY <4>1, <4>2
    <3> QED BY <3>1, <3>2
  <2>3. Moving!Cardinality(Moving!Completions(t)) = Cardinality(Moving!Completions(t))
    BY DEF Moving!Cardinality, Cardinality, Moving!IsFiniteSet, IsFiniteSet
  <2> QED BY <2>2, <2>3
<1> QED BY <1>1, TransfersInductive, PTL

\* executeTransfer() after modifyTransfer(), with calls that overlap: what was executed or
\* cancelled is admitted to an execution only when a modification wrote it back as pending.
THEOREM RevivalNeedsModification == Spec => RevivedOnlyIfModified
<1>1. ASSUME MovingIInv, [Next]_vars
      PROVE  [\A c \in Calls, t \in Items :
                transferCall[c].pc = "free" /\ transferCall'[c].pc = "save"
                  /\ transferCall'[c].op = "execute"
                  /\ t \in transferCall'[c].on /\ Moving!Settled(t) # {} =>
                \E d \in Calls : transferCall[d].op = "modify" /\ transferCall[d].pc = "done"
                                 /\ t \in transferCall[d].on]_(Moving!vars)
  <2> SUFFICES ASSUME NEW c \in Calls, NEW t \in Items,
                      transferCall[c].pc = "free", transferCall'[c].pc = "save",
                      transferCall'[c].op = "execute", t \in transferCall'[c].on,
                      Moving!Settled(t) # {}
               PROVE  Modified(t)
    BY DEF Modified
  <2>1. PICK d \in Calls :
          Moving!Ask(d) \/ Moving!Save(d) \/ Moving!Finish(d) \/ Moving!SaveFailed(d)
                           \/ Moving!ProcessDue(d) \/ Moving!Fail(d)
    BY <1>1 DEF Next, TransferStep, AccountStep, LoginStep, CodeStep, vars, transferVars,
       Moving!Next, Moving!Create, Moving!NextDay
  <2>2. MovingTypes
    BY <1>1 DEF MovingIInv
  <2>3. c = d
    <3>1. \E q \in TransferCall : Goes(d, q)
      <4>1. CASE Moving!Ask(d)
        BY <2>2, <4>1, AskFacts
      <4>2. CASE Moving!Save(d)
        BY <2>2, <4>2, MovingSaveFacts
      <4>3. CASE Moving!Finish(d) \/ Moving!SaveFailed(d)
        BY <2>2, <4>3, EndFacts
      <4>4. CASE Moving!ProcessDue(d)
        BY <2>2, <4>4, DueFacts
      <4>5. CASE Moving!Fail(d)
        BY <2>2, <4>5, MovingFailFacts
      <4> QED BY <2>1, <4>1, <4>2, <4>3, <4>4, <4>5
    <3> QED BY <3>1, <2>2 DEF Goes, MovingTypes
  <2>4. Moving!Ask(c)
    <3>1. ~Moving!ProcessDue(c)
      <4> SUFFICES ASSUME Moving!ProcessDue(c) PROVE FALSE
        OBVIOUS
      <4>1. PICK q \in TransferCall : Goes(c, q) /\ q.pc = "done"
        BY <2>2, DueFacts
      <4> QED BY <4>1, <2>2 DEF Goes, MovingTypes
    <3> QED BY <2>1, <2>3, <3>1 DEF Moving!Save, Moving!Finish, Moving!SaveFailed, Moving!Fail
  <2>5. PICK u \in Items, p \in TransferCall :
          Goes(c, p) /\ p.on = {u} /\ p.row = transfer[u] /\ p.pc \in {"save", "refused"}
    BY <2>2, <2>4, AskFacts
  <2>6. transferCall'[c] = p /\ MovingShape(p)
    BY <2>2, <2>5 DEF Goes, MovingTypes
  <2>7. u = t /\ transfer[t].status = "pending"
    BY <2>5, <2>6 DEF MovingShape, Moving!Accepted
  <2> QED BY <2>7, <1>1 DEF MovingIInv, PendingEarned
<1> QED BY <1>1, TransfersInductive, PTL
        DEF Spec, RevivedOnlyIfModified, Moving!RevivedOnlyIfModified

\* executeTransfer() and the cancellations with one call at a time on a transfer: what is
\* cancelled is not completed, and what is completed is cancelled only as a series.
LEMMA CompletedOrCancelledHolds == Spec => CompletedOrCancelled
<1>1. ASSUME MovingIInv, [Next]_vars PROVE [Moving!CompletedOrCancelledStep]_vars
  <2> SUFFICES ASSUME serial, NEW t \in Items
      PROVE  /\ transfer[t].status = "cancelled" => transfer'[t].status # "completed"
             /\ transfer[t].status = "completed" /\ transfer'[t].status = "cancelled"
                  => transfer'[t].ended
    BY DEF Moving!CompletedOrCancelledStep
  <2>1. CASE transfer'[t] = transfer[t]
    BY <2>1
  <2>2. CASE transfer'[t] # transfer[t]
    <3>1. MovingTypes /\ Moving!Next
      BY <2>2, <1>1 DEF Next, TransferStep, AccountStep, LoginStep, CodeStep, vars,
         transferVars,
         MovingIInv
    <3>2. CASE Moving!Create
      <4>1. PICK u \in Items, r \in TransferRow : Writes(u, r) /\ r.status = "pending"
        BY <3>1, <3>2, CreateFacts
      <4>2. transfer'[t] = r
        BY <2>2, <3>1, <4>1 DEF Writes, MovingTypes
      <4> QED BY <4>1, <4>2
    <3>3. ASSUME NEW c \in Calls, NEW q, NEW u \in Items, Goes(c, q),
                 NEW r \in TransferRow, Writes(u, r), transferCall[c].on = {u},
                 transferCall[c].pc \in {"save", "finish", "catch"}
          PROVE  u = t /\ transfer'[t] = r /\ transferCall[c].row = transfer[t]
      <4>1. u = t /\ transfer'[t] = r
        BY <2>2, <3>1, <3>3 DEF Writes, MovingTypes
      <4>2. Working(c, t)
        BY <4>1, <3>3 DEF Working, Works
      <4> QED BY <4>1, <4>2, <1>1, CallFacts
    <3>4. ASSUME NEW c \in Calls, Moving!Save(c)
          PROVE  /\ transfer[t].status = "cancelled" => transfer'[t].status # "completed"
                 /\ transfer[t].status = "completed" /\ transfer'[t].status = "cancelled"
                      => transfer'[t].ended
      <4>1. PICK u \in Items, r \in TransferRow, q \in TransferCall :
              /\ Goes(c, q) /\ Writes(u, r) /\ transferCall[c].on = {u}
              /\ q.op \in Moving!Ops
              /\ transferCall[c].pc = "save"
              /\ q.op = "execute" => r.status = "executing"
              /\ q.op = "modify" => r.status = "pending"
              /\ q.op = "cancel" =>
                   r.status = "cancelled" /\ transferCall[c].row.status # "completed"
              /\ q.op = "cancelRecurring" => r.status = "cancelled" /\ r.ended
        BY <3>1, <3>4, MovingSaveFacts
      <4>2. transfer'[t] = r /\ transferCall[c].row = transfer[t]
        BY <4>1, <3>3
      <4> QED BY <4>1, <4>2 DEF Moving!Ops
    <3>5. ASSUME NEW c \in Calls, Moving!Finish(c) \/ Moving!SaveFailed(c)
          PROVE  transfer[t].status = "executing" /\ transfer'[t].status \in {"completed", "failed"}
      <4>1. PICK u \in Items, r \in TransferRow, q \in TransferCall :
              /\ Goes(c, q) /\ Writes(u, r) /\ transferCall[c].on = {u}
              /\ transferCall[c].pc \in {"finish", "catch"}
              /\ transferCall[c].row.status = "executing"
              /\ r.status \in {"completed", "failed"}
        BY <3>1, <3>5, EndFacts
      <4>2. transfer'[t] = r /\ transferCall[c].row = transfer[t]
        BY <4>1, <3>3
      <4> QED BY <4>1, <4>2
    <3>6. ASSUME NEW c \in Calls, Moving!Ask(c) \/ Moving!ProcessDue(c) \/ Moving!Fail(c)
          PROVE  FALSE
      BY <3>6, <2>2 DEF Moving!Ask, Moving!ProcessDue, Moving!Fail
    <3> QED BY <3>1, <3>2, <3>4, <3>5, <3>6, <2>2 DEF Moving!Next, Moving!NextDay
  <2> QED BY <2>1, <2>2
<1> QED BY <1>1, TransfersInductive, PTL DEF Spec, CompletedOrCancelled

\* The types of the transfers and their calls: no date runs further ahead than one day for
\* every call.
LEMMA TransfersTypeCorrect == MovingIInv => Moving!TypeOK
<1> SUFFICES ASSUME MovingIInv PROVE Moving!TypeOK
  OBVIOUS
<1>1. DOMAIN transfer = Items /\ \A t \in Items : transfer[t] \in TransferRow
  BY DEF MovingIInv, MovingTypes
<1>2. \A t \in Items : transfer[t].next \in -1..(Horizon + Moving!Cardinality(Calls))
  <2>1. Endings \subseteq Calls
    BY DEF Endings
  <2>2. /\ Cardinality(Endings) <= Cardinality(Calls) /\ Cardinality(Endings) \in Nat
        /\ Cardinality(Calls) \in Nat
    BY <2>1, RetailCallsAssumption, FS_Subset, FS_CardinalityType
  <2>3. today \in Nat /\ today <= Horizon /\ Horizon \in Nat
    BY RetailBoundsAssumption DEF MovingIInv, MovingTypes
  <2>4. Moving!Cardinality(Calls) = Cardinality(Calls)
    BY DEF Moving!Cardinality, Cardinality, Moving!IsFiniteSet, IsFiniteSet
  <2>5. ASSUME NEW t \in Items PROVE transfer[t].next \in -1..(Horizon + Cardinality(Calls))
    <3>1. Near(transfer[t], Latest) /\ transfer[t].next \in Int
      BY <1>1 DEF MovingIInv, DatesNear, TransferRow
    <3> QED BY <3>1, <2>2, <2>3 DEF Near, Latest
  <2> QED BY <2>4, <2>5
<1>3. \A c \in Calls : transferCall[c].pc \in MovingPCs
  BY DEF MovingIInv, MovingTypes, TransferCall
<1> QED BY <1>1, <1>2, <1>3 DEF Moving!TypeOK, TransferRow, MovingStatuses, MovingPCs

-----------------------------------------------------------------------------
AccountPCs == {"free", "save", "done", "refused", "failed"}
AccountOps == {"status", "close", "dormancy", "activity", "overdraft", "fee"}

AccountRow == [status : Keeping!Statuses \cup {"none"}, flag : BOOLEAN, closedAt : BOOLEAN,
            balance : Int, idle : BOOLEAN]

-----------------------------------------------------------------------------
\* The inductive invariant.

\* A call that may close the account was accepted.
MayBeClosed(a) == Keeping!Asked("close", a) \/ Keeping!Asked("status", a)

\* A closed row has its date, and a row with the date was asked to be closed.
Dated(r, asked) == (r.status = "closed" => r.closedAt) /\ (r.closedAt => asked)

AccountShape(q) ==
  /\ q.pc \in AccountPCs /\ q.on \subseteq Items
  /\ q.pc = "free" => q.on = {}
  /\ q.pc = "save" => /\ q.op \in AccountOps /\ q.args.status \in Keeping!Statuses \cup {"none"}
                      /\ \A a \in q.on : q.rows[a] \in AccountRow

KeepingIInv ==
  /\ account \in [Items -> AccountRow]
  /\ DOMAIN accountCall = FewCalls
  /\ \A c \in FewCalls : AccountShape(accountCall[c])
  /\ \A a \in Items : Dated(account[a], MayBeClosed(a))
  /\ \A c \in FewCalls : accountCall[c].pc = "save" =>
       \A a \in accountCall[c].on : Dated(accountCall[c].rows[a], MayBeClosed(a))

-----------------------------------------------------------------------------
\* The call c goes on with the accounts it was accepted for, or has had none.
GoesOn(c) ==
  /\ DOMAIN accountCall' = FewCalls
  /\ \A d \in FewCalls : d # c => accountCall'[d] = accountCall[d]
  /\ \A a \in accountCall[c].on : accountCall[c].pc # "refused" =>
       /\ accountCall'[c].op = accountCall[c].op /\ a \in accountCall'[c].on
       /\ accountCall'[c].pc # "refused"

\* What was asked stays asked.
LEMMA AskedStays ==
  ASSUME NEW c \in FewCalls, GoesOn(c), NEW a \in Items, MayBeClosed(a)
  PROVE  MayBeClosed(a)'
<1>1. ASSUME NEW op, Keeping!Asked(op, a) PROVE Keeping!Asked(op, a)'
  <2>1. PICK d \in FewCalls :
          accountCall[d].op = op /\ a \in accountCall[d].on /\ accountCall[d].pc # "refused"
    BY <1>1 DEF Keeping!Asked
  <2>2. accountCall'[d].op = op /\ a \in accountCall'[d].on /\ accountCall'[d].pc # "refused"
    BY <2>1 DEF GoesOn
  <2> QED BY <2>2 DEF Keeping!Asked
<1> QED BY <1>1 DEF MayBeClosed

\* A step in which c alone moves.
LEMMA AccountMoves ==
  ASSUME KeepingIInv, NEW c \in FewCalls, GoesOn(c), AccountShape(accountCall'[c]),
         account' \in [Items -> AccountRow],
         \A a \in Items : account'[a] = account[a] \/ Dated(account'[a], MayBeClosed(a)'),
         accountCall'[c].pc = "save" =>
           \A a \in accountCall'[c].on : Dated(accountCall'[c].rows[a], MayBeClosed(a)')
  PROVE  KeepingIInv'
<1>1. \A a \in Items : MayBeClosed(a) => MayBeClosed(a)'
  BY AskedStays
<1>2. ASSUME NEW a \in Items PROVE Dated(account'[a], MayBeClosed(a)')
  BY <1>1 DEF KeepingIInv, Dated
<1>3. ASSUME NEW d \in FewCalls, accountCall'[d].pc = "save", NEW a \in accountCall'[d].on
      PROVE  Dated(accountCall'[d].rows[a], MayBeClosed(a)')
  <2>1. CASE d = c
    BY <2>1, <1>3
  <2>2. CASE d # c
    <3>1. accountCall'[d] = accountCall[d] /\ a \in Items
      BY <2>2, <1>3 DEF GoesOn, KeepingIInv, AccountShape
    <3>2. Dated(accountCall[d].rows[a], MayBeClosed(a))
      BY <3>1, <1>3 DEF KeepingIInv
    <3> QED BY <3>1, <3>2, <1>1 DEF Dated
  <2> QED BY <2>1, <2>2
<1>4. \A d \in FewCalls : AccountShape(accountCall'[d])
  BY DEF KeepingIInv, GoesOn
<1>5. DOMAIN accountCall' = FewCalls
  BY DEF GoesOn
<1>6. KeepingIInv' <=>
        /\ account' \in [Items -> AccountRow]
        /\ DOMAIN accountCall' = FewCalls
        /\ \A d \in FewCalls : AccountShape(accountCall'[d])
        /\ \A a \in Items : Dated(account'[a], MayBeClosed(a)')
        /\ \A d \in FewCalls : accountCall'[d].pc = "save" =>
             \A a \in accountCall'[d].on : Dated(accountCall'[d].rows[a], MayBeClosed(a)')
  BY DEF KeepingIInv, Dated, AccountShape
<1> QED BY <1>2, <1>3, <1>4, <1>5, <1>6

\* Every method reads its accounts first.
LEMMA KeepingReadKeeps ==
  ASSUME KeepingIInv, NEW c \in FewCalls, NEW op \in AccountOps, NEW on \in SUBSET Items, NEW args,
         args.status \in Keeping!Statuses \cup {"none"}, NEW ok \in BOOLEAN,
         Keeping!Read(c, op, on, args, ok)
  PROVE  KeepingIInv'
<1> DEFINE q == [op |-> op, on |-> on, rows |-> [a \in on |-> account[a]], args |-> args,
                 seen |-> Keeping!Saved, pc |-> IF ok THEN "save" ELSE "refused"]
<1>1. /\ accountCall[c].pc = "free" /\ accountCall' = [accountCall EXCEPT ![c] = q]
      /\ account' = account
  BY DEF Keeping!Read
<1>2. GoesOn(c) /\ accountCall'[c] = q
  BY <1>1 DEF KeepingIInv, AccountShape, GoesOn
<1>3. /\ q.op = op /\ q.on = on /\ q.args = args /\ q.pc \in {"save", "refused"}
      /\ \A a \in on : q.rows[a] = account[a]
  OBVIOUS
<1> HIDE DEF q
<1>4. \A a \in on : q.rows[a] \in AccountRow
  BY <1>3 DEF KeepingIInv
<1>5. AccountShape(accountCall'[c])
  BY <1>2, <1>3, <1>4 DEF AccountShape, AccountPCs
<1>6. ASSUME NEW a \in on PROVE Dated(accountCall'[c].rows[a], MayBeClosed(a)')
  <2>1. accountCall'[c].rows[a] = account[a] /\ a \in Items
    BY <1>2, <1>3
  <2>2. Dated(account[a], MayBeClosed(a)) /\ (MayBeClosed(a) => MayBeClosed(a)')
    BY <2>1, <1>2, AskedStays DEF KeepingIInv
  <2> QED BY <2>1, <2>2 DEF Dated
<1> QED BY <1>1, <1>2, <1>3, <1>5, <1>6, AccountMoves DEF KeepingIInv

\* What a method writes over its copy: closing sets the date, and nothing takes it back.
LEMMA ChangedIsDated ==
  ASSUME NEW op \in AccountOps, NEW args, args.status \in Keeping!Statuses \cup {"none"},
         NEW row \in AccountRow, row.status = "closed" => row.closedAt
  PROVE  LET r == Keeping!Changed(op, args, row) IN
         /\ r \in AccountRow
         /\ r.status = "closed" => r.closedAt
         /\ r.closedAt => row.closedAt \/ op \in {"close", "status"}
<1> DEFINE r == Keeping!Changed(op, args, row)
<1> USE DEF AccountRow, Keeping!Statuses
<1>1. CASE op = "status"
  <2>1. PICK dated \in BOOLEAN : dated = (row.closedAt \/ args.status = "closed")
    OBVIOUS
  <2>2. r = [row EXCEPT !.status = args.status, !.closedAt = dated]
    BY <1>1, <2>1 DEF Keeping!Changed
  <2> QED BY <1>1, <2>1, <2>2
<1>2. CASE op = "close"
  <2>1. r = [row EXCEPT !.status = "closed", !.closedAt = TRUE]
    BY <1>2 DEF Keeping!Changed
  <2> QED BY <1>2, <2>1
<1>3. CASE op = "dormancy"
  <2>1. r = [row EXCEPT !.status = "dormant", !.flag = TRUE]
    BY <1>3 DEF Keeping!Changed
  <2> QED BY <2>1
<1>4. CASE op = "activity"
  <2>1. r = [row EXCEPT !.idle = FALSE, !.flag = FALSE,
                        !.status = IF row.flag THEN "active" ELSE row.status]
    BY <1>4 DEF Keeping!Changed
  <2> QED BY <2>1
<1>5. CASE op = "overdraft"
  <2>1. r = row
    BY <1>5 DEF Keeping!Changed
  <2> QED BY <2>1
<1>6. CASE op = "fee"
  <2>1. r = [row EXCEPT !.balance = row.balance - 1]
    BY <1>6 DEF Keeping!Changed
  <2> QED BY <2>1
<1> HIDE DEF r
<1> QED BY <1>1, <1>2, <1>3, <1>4, <1>5, <1>6 DEF r, AccountOps

LEMMA KeepingSaveKeeps == ASSUME KeepingIInv, NEW c \in FewCalls, Keeping!Save(c) PROVE KeepingIInv'
<1> DEFINE q == accountCall[c]
           New(a) == Keeping!Changed(q.op, q.args, q.rows[a])
<1>1. /\ q.pc = "save" /\ accountCall' = [accountCall EXCEPT ![c].pc = "done"]
      /\ account' = [a \in Items |-> IF a \in q.on THEN New(a) ELSE account[a]]
  BY DEF Keeping!Save
<1>2. /\ q.on \subseteq Items /\ q.op \in AccountOps
      /\ q.args.status \in Keeping!Statuses \cup {"none"}
      /\ \A a \in q.on : q.rows[a] \in AccountRow /\ Dated(q.rows[a], MayBeClosed(a))
  BY <1>1 DEF KeepingIInv, AccountShape
<1>3. /\ \A d \in FewCalls : d # c => accountCall'[d] = accountCall[d]
      /\ DOMAIN accountCall' = FewCalls /\ accountCall'[c] = [q EXCEPT !.pc = "done"]
  BY <1>1 DEF KeepingIInv
<1>4. accountCall'[c].pc = "done" /\ accountCall'[c].op = q.op /\ accountCall'[c].on = q.on
  BY <1>3, <1>1 DEF KeepingIInv
<1>5. GoesOn(c) /\ AccountShape(accountCall'[c])
  BY <1>2, <1>3, <1>4 DEF GoesOn, AccountShape, AccountPCs
<1>6. ASSUME NEW a \in q.on
      PROVE  New(a) \in AccountRow /\ Dated(New(a), MayBeClosed(a)')
  <2>1. q.rows[a] \in AccountRow /\ Dated(q.rows[a], MayBeClosed(a)) /\ a \in Items
    BY <1>2
  <2>2. /\ New(a) \in AccountRow
        /\ New(a).status = "closed" => New(a).closedAt
        /\ New(a).closedAt => q.rows[a].closedAt \/ q.op \in {"close", "status"}
    BY <2>1, <1>2, ChangedIsDated DEF Dated
  <2>3. q.op \in {"close", "status"} => MayBeClosed(a)
    BY <1>1, <1>2 DEF MayBeClosed, Keeping!Asked
  <2>4. q.rows[a].closedAt => MayBeClosed(a)
    BY <2>1 DEF Dated
  <2>5. MayBeClosed(a) => MayBeClosed(a)'
    BY <2>1, <1>5, AskedStays
  <2>6. New(a).closedAt => MayBeClosed(a)'
    BY <2>2, <2>3, <2>4, <2>5
  <2> HIDE DEF New
  <2>7. Dated(New(a), MayBeClosed(a)')
    BY <2>2, <2>6 DEF Dated
  <2> QED BY <2>2, <2>7
<1> HIDE DEF New
<1>7. account' \in [Items -> AccountRow]
  BY <1>1, <1>6 DEF KeepingIInv
<1>8. \A a \in Items : account'[a] = account[a] \/ Dated(account'[a], MayBeClosed(a)')
  BY <1>1, <1>6
<1> QED BY <1>4, <1>5, <1>7, <1>8, AccountMoves

LEMMA KeepingFailKeeps == ASSUME KeepingIInv, NEW c \in FewCalls, Keeping!Fail(c) PROVE KeepingIInv'
<1>1. /\ accountCall[c].pc = "save"
      /\ accountCall' = [accountCall EXCEPT ![c].pc = "failed"]
      /\ account' = account
  BY DEF Keeping!Fail
<1>2. /\ \A d \in FewCalls : d # c => accountCall'[d] = accountCall[d]
      /\ DOMAIN accountCall' = FewCalls
      /\ accountCall'[c] = [accountCall[c] EXCEPT !.pc = "failed"]
  BY <1>1 DEF KeepingIInv
<1>3. /\ accountCall'[c].pc = "failed" /\ accountCall'[c].op = accountCall[c].op
      /\ accountCall'[c].on = accountCall[c].on
  BY <1>1, <1>2 DEF KeepingIInv
<1>4. GoesOn(c) /\ AccountShape(accountCall'[c])
  BY <1>2, <1>3 DEF GoesOn, KeepingIInv, AccountShape, AccountPCs
<1> QED BY <1>1, <1>3, <1>4, AccountMoves DEF KeepingIInv

\* Opening an account and the passing of time leave the dates as they are.
LEMMA KeepingOthersKeep == ASSUME KeepingIInv, Keeping!Open \/ Keeping!TimePasses PROVE KeepingIInv'
<1>1. accountCall' = accountCall /\ \A a \in Items : MayBeClosed(a)' <=> MayBeClosed(a)
  BY DEF Keeping!Open, Keeping!TimePasses, MayBeClosed, Keeping!Asked
<1>2. PICK a \in Items, r \in AccountRow :
        account' = [account EXCEPT ![a] = r] /\ Dated(r, MayBeClosed(a))
  <2>1. CASE Keeping!Open
    <3>1. PICK a \in Items :
            account' = [account EXCEPT ![a] = [Keeping!NoRow EXCEPT !.status = "active"]]
      BY <2>1 DEF Keeping!Open
    <3>2. Keeping!NoRow \in AccountRow /\ ~Keeping!NoRow.closedAt
      BY DEF Keeping!NoRow, AccountRow
    <3> DEFINE r == [Keeping!NoRow EXCEPT !.status = "active"]
    <3>3. r \in AccountRow /\ ~r.closedAt /\ r.status = "active"
      BY <3>2 DEF AccountRow, Keeping!Statuses
    <3> HIDE DEF r
    <3>4. Dated(r, MayBeClosed(a))
      BY <3>3 DEF Dated
    <3> QED BY <3>1, <3>3, <3>4 DEF r
  <2>2. CASE Keeping!TimePasses
    <3>1. PICK a \in Items : account' = [account EXCEPT ![a].idle = TRUE]
      BY <2>2 DEF Keeping!TimePasses
    <3> DEFINE r == [account[a] EXCEPT !.idle = TRUE]
    <3>2. account[a] \in AccountRow /\ Dated(account[a], MayBeClosed(a))
      BY DEF KeepingIInv
    <3>3. r \in AccountRow /\ r.status = account[a].status /\ r.closedAt = account[a].closedAt
      BY <3>2 DEF AccountRow
    <3>4. account' = [account EXCEPT ![a] = r]
      BY <3>1
    <3> HIDE DEF r
    <3>5. Dated(r, MayBeClosed(a))
      BY <3>2, <3>3 DEF Dated
    <3> QED BY <3>3, <3>4, <3>5
  <2> QED BY <2>1, <2>2
<1>3. account' \in [Items -> AccountRow]
  BY <1>2 DEF KeepingIInv
<1>4. \A b \in Items : Dated(account'[b], MayBeClosed(b))
  BY <1>2 DEF KeepingIInv
<1> QED BY <1>1, <1>3, <1>4 DEF KeepingIInv, AccountShape, Dated

-----------------------------------------------------------------------------
LEMMA KeepingInitSound == Keeping!Init => KeepingIInv
<1> SUFFICES ASSUME Keeping!Init PROVE KeepingIInv
  OBVIOUS
<1>1. Keeping!NoRow \in AccountRow /\ ~Keeping!NoRow.closedAt /\ Keeping!NoRow.status # "closed"
  BY DEF Keeping!NoRow, AccountRow
<1>2. account \in [Items -> AccountRow]
      /\ \A a \in Items : Dated(account[a], MayBeClosed(a))
  BY <1>1 DEF Keeping!Init, Dated
<1>3. /\ DOMAIN accountCall = FewCalls
      /\ \A c \in FewCalls : AccountShape(accountCall[c]) /\ accountCall[c].pc = "free"
  BY DEF Keeping!Init, Keeping!FreeCall, AccountShape, AccountPCs
<1> QED BY <1>2, <1>3 DEF KeepingIInv

LEMMA KeepingNextSound == KeepingIInv /\ [Keeping!Next]_(Keeping!vars) => KeepingIInv'
<1> SUFFICES ASSUME KeepingIInv, [Keeping!Next]_(Keeping!vars) PROVE KeepingIInv'
  OBVIOUS
<1> USE DEF AccountOps
<1>1. Keeping!NoArgs.status \in Keeping!Statuses \cup {"none"}
  BY DEF Keeping!NoArgs
<1>2. ASSUME NEW c \in FewCalls, Keeping!AskStatus(c) PROVE KeepingIInv'
  <2>1. PICK a \in Items, s \in Keeping!Statuses :
          Keeping!Read(c, "status", {a}, [Keeping!NoArgs EXCEPT !.status = s], TRUE)
    BY <1>2 DEF Keeping!AskStatus
  <2>2. [Keeping!NoArgs EXCEPT !.status = s].status \in Keeping!Statuses \cup {"none"}
    BY DEF Keeping!NoArgs
  <2>3. "status" \in AccountOps /\ {a} \in SUBSET Items /\ TRUE \in BOOLEAN
    OBVIOUS
  <2> QED BY <2>1, <2>2, <2>3, KeepingReadKeeps
<1>3. ASSUME NEW c \in FewCalls, Keeping!AskClose(c) PROVE KeepingIInv'
  <2>1. PICK a \in Items, d \in BOOLEAN :
          Keeping!Read(c, "close", {a}, [Keeping!NoArgs EXCEPT !.disposition = d],
                       Keeping!MayClose(account[a], d))
    BY <1>3 DEF Keeping!AskClose
  <2>2. [Keeping!NoArgs EXCEPT !.disposition = d].status \in Keeping!Statuses \cup {"none"}
    BY DEF Keeping!NoArgs
  <2>3. "close" \in AccountOps /\ {a} \in SUBSET Items /\ Keeping!MayClose(account[a], d) \in BOOLEAN
    BY DEF Keeping!MayClose
  <2> QED BY <2>1, <2>2, <2>3, KeepingReadKeeps
<1>4. ASSUME NEW c \in FewCalls, Keeping!CheckDormancy(c) PROVE KeepingIInv'
  <2>1. {a \in Items : Keeping!Dormant(account[a])} \in SUBSET Items /\ TRUE \in BOOLEAN
    OBVIOUS
  <2> QED BY <2>1, <1>1, <1>4, KeepingReadKeeps DEF Keeping!CheckDormancy
<1>5. ASSUME NEW c \in FewCalls,
             Keeping!AskActivity(c) \/ Keeping!AskFee(c) \/ Keeping!AskOverdraft(c)
      PROVE  KeepingIInv'
  <2>1. PICK a \in Items, op \in {"activity", "fee", "overdraft"} :
          Keeping!Read(c, op, {a}, Keeping!NoArgs, TRUE)
    BY <1>5 DEF Keeping!AskActivity, Keeping!AskFee, Keeping!AskOverdraft
  <2>2. op \in AccountOps /\ {a} \in SUBSET Items /\ TRUE \in BOOLEAN
    OBVIOUS
  <2> QED BY <2>1, <2>2, <1>1, KeepingReadKeeps
<1>6. CASE UNCHANGED Keeping!vars
  <2>1. accountCall' = accountCall /\ account' = account
        /\ \A a \in Items : MayBeClosed(a)' <=> MayBeClosed(a)
    BY <1>6 DEF Keeping!vars, MayBeClosed, Keeping!Asked
  <2> QED BY <2>1 DEF KeepingIInv, AccountShape, Dated
<1> QED BY <1>2, <1>3, <1>4, <1>5, <1>6, KeepingSaveKeeps, KeepingFailKeeps,
         KeepingOthersKeep DEF Keeping!Next

LEMMA AccountsInductive == Spec => []KeepingIInv
<1>1. Init => KeepingIInv
  BY KeepingInitSound DEF Init
<1>2. KeepingIInv /\ [Next]_vars => KeepingIInv'
  BY KeepingNextSound DEF Next, TransferStep, AccountStep, LoginStep, CodeStep, vars,
     accountVars,
     Keeping!vars, Moving!Next, SigningIn!Next, Verifying!Next
<1> QED BY <1>1, <1>2, PTL DEF Spec

\* closeAccount() and updateStatus(): whatever copies are saved over each other, a closed
\* account has its closing date, and the date tells of a call that may have closed it.
THEOREM ClosingIsDated == Spec => []ClosedIsDated
<1>1. KeepingIInv => ClosedIsDated
  BY DEF KeepingIInv, Dated, MayBeClosed, Keeping!ClosedIsDated, ClosedIsDated
<1> QED BY <1>1, AccountsInductive, PTL

\* The types, whatever is saved over what; the pending calls stand before a save.
LEMMA AccountsTypeCorrect == KeepingIInv => Keeping!TypeOK
  BY DEF KeepingIInv, AccountShape, AccountPCs, AccountRow, Keeping!TypeOK

-----------------------------------------------------------------------------
\* The fees, however calls overlap.

\* A call about to save holds rows that were there, and charges one of them.
FeeShape(q) ==
  q.pc = "save" =>
    /\ q.op = "fee" => \E a \in Items : q.on = {a}
    /\ q.op = "status" => q.args.status # "none"
    /\ \A a \in q.on : q.rows[a].status # "none"

\* A balance after some charges: it misses them, or some where calls overlapped.
Accounted(balance, charges, overlapped) ==
  /\ -Cardinality(charges) <= balance /\ balance <= 0
  /\ balance # -Cardinality(charges) => overlapped

\* A row accounts for the charges, and a copy for those that were saved when it was read.
FeesInv ==
  /\ \A c \in FewCalls : FeeShape(accountCall[c]) /\ accountCall[c].seen \subseteq Keeping!Saved
  /\ \A a \in Items : account[a].status = "none" => account[a].balance = 0
  /\ \A a \in Items :
       Accounted(account[a].balance, Keeping!Charged(a), Keeping!Overlapped(a))
  /\ \A c \in FewCalls, a \in Items : accountCall[c].pc = "save" /\ a \in accountCall[c].on =>
       Accounted(accountCall[c].rows[a].balance, Keeping!Charged(a) \cap accountCall[c].seen,
                 Keeping!Overlapped(a))

FeesIInv == KeepingIInv /\ FeesInv

-----------------------------------------------------------------------------
LEMMA ChargesCounted ==
  ASSUME NEW a, NEW S, S \subseteq Keeping!Charged(a)
  PROVE  /\ IsFiniteSet(S) /\ Cardinality(S) \in Nat
         /\ Cardinality(S) <= Cardinality(Keeping!Charged(a))
<1>1. Keeping!Charged(a) \subseteq FewCalls
  BY DEF Keeping!Charged
<1>2. IsFiniteSet(Keeping!Charged(a))
  BY <1>1, RetailCallsAssumption, FS_Subset
<1> QED BY <1>2, FS_Subset, FS_CardinalityType

\* What was saved stays saved, and calls that overlapped have overlapped.
LEMMA SavedStays ==
  ASSUME NEW c \in FewCalls, accountCall[c].pc # "done",
         \A d \in FewCalls : d # c => accountCall'[d] = accountCall[d]
  PROVE  /\ Keeping!Saved \subseteq Keeping!Saved'
         /\ \A a : Keeping!Charged(a) \subseteq Keeping!Charged(a)'
         /\ \A a : Keeping!Overlapped(a) => Keeping!Overlapped(a)'
<1>1. Keeping!Saved \subseteq Keeping!Saved' /\ \A d \in Keeping!Saved : accountCall'[d] = accountCall[d]
  BY DEF Keeping!Saved
<1>2. \A a : Keeping!Charged(a) \subseteq Keeping!Charged(a)'
  BY DEF Keeping!Charged
<1>3. ASSUME NEW a, Keeping!Overlapped(a) PROVE Keeping!Overlapped(a)'
  <2>1. PICK d \in Keeping!Charged(a), e \in Keeping!Saved :
          /\ d # e /\ a \in accountCall[e].on
          /\ d \notin accountCall[e].seen /\ e \notin accountCall[d].seen
    BY <1>3 DEF Keeping!Overlapped
  <2>2. d \in Keeping!Saved
    BY DEF Keeping!Charged, Keeping!Saved
  <2>3. accountCall'[d] = accountCall[d] /\ accountCall'[e] = accountCall[e]
    BY <2>2, <1>1
  <2>4. d \in Keeping!Charged(a)' /\ e \in Keeping!Saved'
    BY <1>1, <1>2
  <2> QED BY <2>1, <2>3, <2>4 DEF Keeping!Overlapped
<1> QED BY <1>1, <1>2, <1>3

\* A step in which c alone moves: it owes only its own copy, and the rows it touches.
LEMMA FeesMove ==
  ASSUME FeesIInv, NEW c \in FewCalls, accountCall[c].pc # "done",
         \A d \in FewCalls : d # c => accountCall'[d] = accountCall[d],
         FeeShape(accountCall'[c]), accountCall'[c].seen \subseteq Keeping!Saved,
         \A a \in Items : Keeping!Charged(a)' \subseteq Keeping!Charged(a) \cup {c},
         \A a \in Items :
           /\ account'[a].status = "none" => account'[a].balance = 0
           /\ Accounted(account'[a].balance, Keeping!Charged(a)', Keeping!Overlapped(a)')
           /\ accountCall'[c].pc = "save" /\ a \in accountCall'[c].on =>
                Accounted(accountCall'[c].rows[a].balance,
                          Keeping!Charged(a)' \cap accountCall'[c].seen, Keeping!Overlapped(a)')
  PROVE  FeesInv'
<1>1. /\ Keeping!Saved \subseteq Keeping!Saved'
      /\ \A a : Keeping!Charged(a) \subseteq Keeping!Charged(a)'
      /\ \A a : Keeping!Overlapped(a) => Keeping!Overlapped(a)'
  BY SavedStays
<1>2. \A d \in FewCalls :
        FeeShape(accountCall'[d]) /\ accountCall'[d].seen \subseteq Keeping!Saved'
  <2> SUFFICES ASSUME NEW d \in FewCalls
               PROVE  FeeShape(accountCall'[d]) /\ accountCall'[d].seen \subseteq Keeping!Saved
    BY <1>1
  <2>1. FeeShape(accountCall[d]) /\ accountCall[d].seen \subseteq Keeping!Saved
    BY DEF FeesIInv, FeesInv
  <2> QED BY <2>1
<1>3. ASSUME NEW d \in FewCalls, NEW a \in Items, accountCall'[d].pc = "save",
             a \in accountCall'[d].on
      PROVE  Accounted(accountCall'[d].rows[a].balance,
                       Keeping!Charged(a)' \cap accountCall'[d].seen, Keeping!Overlapped(a)')
  <2>1. CASE d = c
    BY <2>1, <1>3
  <2>2. CASE d # c
    <3>1. accountCall'[d] = accountCall[d] /\ accountCall[d].seen \subseteq Keeping!Saved
      BY <2>2 DEF FeesIInv, FeesInv
    <3>2. c \notin Keeping!Saved
      BY DEF Keeping!Saved
    <3>3. Keeping!Charged(a)' \cap accountCall[d].seen = Keeping!Charged(a) \cap accountCall[d].seen
      BY <3>1, <3>2, <1>1
    <3>4. Accounted(accountCall[d].rows[a].balance, Keeping!Charged(a) \cap accountCall[d].seen,
                    Keeping!Overlapped(a))
      BY <3>1, <1>3 DEF FeesIInv, FeesInv
    <3> QED BY <3>1, <3>3, <3>4, <1>1 DEF Accounted
  <2> QED BY <2>1, <2>2
<1> QED BY <1>2, <1>3 DEF FeesInv, FeeShape, Accounted

\* A step of c that charges nothing and leaves the accounts.
LEMMA NothingCharged ==
  ASSUME FeesIInv, NEW c \in FewCalls, accountCall[c].pc # "done", accountCall'[c].pc # "done",
         \A d \in FewCalls : d # c => accountCall'[d] = accountCall[d], account' = account
  PROVE  /\ \A a \in Items : Keeping!Charged(a)' = Keeping!Charged(a)
         /\ \A a \in Items :
              /\ account'[a].status = "none" => account'[a].balance = 0
              /\ Accounted(account'[a].balance, Keeping!Charged(a)', Keeping!Overlapped(a)')
<1>1. \A a \in Items : Keeping!Charged(a)' = Keeping!Charged(a)
  BY DEF Keeping!Charged
<1>2. ASSUME NEW a \in Items
      PROVE  /\ account'[a].status = "none" => account'[a].balance = 0
             /\ Accounted(account'[a].balance, Keeping!Charged(a)', Keeping!Overlapped(a)')
  <2>1. Keeping!Overlapped(a) => Keeping!Overlapped(a)'
    BY SavedStays
  <2> QED BY <2>1, <1>1 DEF FeesIInv, FeesInv, Accounted
<1> QED BY <1>1, <1>2

\* Reading: the copy accounts for what was charged until now.
LEMMA ReadTakesNothing ==
  ASSUME FeesIInv, NEW c \in FewCalls, NEW op, NEW on \in SUBSET Items, NEW args,
         NEW ok \in BOOLEAN, Keeping!Read(c, op, on, args, ok),
         op = "fee" => \E a \in Items : on = {a}, op = "status" => args.status # "none",
         \A a \in on : account[a].status # "none"
  PROVE  FeesInv'
<1> DEFINE q == [op |-> op, on |-> on, rows |-> [a \in on |-> account[a]], args |-> args,
                 seen |-> Keeping!Saved, pc |-> IF ok THEN "save" ELSE "refused"]
<1>1. /\ accountCall[c].pc = "free" /\ accountCall' = [accountCall EXCEPT ![c] = q]
      /\ account' = account
  BY DEF Keeping!Read
<1>2. accountCall'[c] = q /\ \A d \in FewCalls : d # c => accountCall'[d] = accountCall[d]
  BY <1>1 DEF FeesIInv, KeepingIInv
<1>3. /\ q.op = op /\ q.on = on /\ q.args = args /\ q.pc \in {"save", "refused"}
      /\ \A a \in on : q.rows[a] = account[a]
      /\ q.seen = Keeping!Saved
  OBVIOUS
<1> HIDE DEF q
<1>4. FeeShape(q)
  BY <1>3 DEF FeeShape
<1>5. /\ \A a \in Items : Keeping!Charged(a)' = Keeping!Charged(a)
      /\ \A a \in Items :
           /\ account'[a].status = "none" => account'[a].balance = 0
           /\ Accounted(account'[a].balance, Keeping!Charged(a)', Keeping!Overlapped(a)')
  <2>1. accountCall[c].pc # "done" /\ accountCall'[c].pc # "done"
    BY <1>1, <1>2, <1>3
  <2> QED BY <2>1, <1>1, <1>2, NothingCharged
<1>6. ASSUME NEW a \in Items, accountCall'[c].pc = "save", a \in accountCall'[c].on
      PROVE  Accounted(accountCall'[c].rows[a].balance,
                       Keeping!Charged(a)' \cap accountCall'[c].seen, Keeping!Overlapped(a)')
  <2>1. accountCall'[c].rows[a] = account'[a] /\ accountCall'[c].seen = Keeping!Saved
    BY <1>1, <1>2, <1>3, <1>6
  <2>2. Keeping!Charged(a)' \cap Keeping!Saved = Keeping!Charged(a)'
    BY <1>5 DEF Keeping!Charged, Keeping!Saved
  <2> QED BY <2>1, <2>2, <1>5
<1>7. accountCall[c].pc # "done"
  BY <1>1
<1> QED BY <1>2, <1>3, <1>4, <1>5, <1>6, <1>7, FeesMove

\* What a save does to the balance of its copy.
LEMMA ChangedBalance ==
  ASSUME NEW op \in AccountOps, NEW args, NEW row \in AccountRow, row.status # "none",
         op = "status" => args.status # "none"
  PROVE  /\ Keeping!Changed(op, args, row).status # "none"
         /\ Keeping!Changed(op, args, row).balance =
              IF op = "fee" THEN row.balance - 1 ELSE row.balance
<1> DEFINE r == Keeping!Changed(op, args, row)
<1> USE DEF AccountRow
<1>1. CASE op = "status"
  <2>1. r = [row EXCEPT !.status = args.status, !.closedAt = row.closedAt \/ args.status = "closed"]
    BY <1>1 DEF Keeping!Changed
  <2> QED BY <1>1, <2>1
<1>2. CASE op = "close"
  <2>1. r = [row EXCEPT !.status = "closed", !.closedAt = TRUE]
    BY <1>2 DEF Keeping!Changed
  <2> QED BY <1>2, <2>1
<1>3. CASE op = "dormancy"
  <2>1. r = [row EXCEPT !.status = "dormant", !.flag = TRUE]
    BY <1>3 DEF Keeping!Changed
  <2> QED BY <1>3, <2>1
<1>4. CASE op = "activity"
  <2>1. r = [row EXCEPT !.idle = FALSE, !.flag = FALSE,
                        !.status = IF row.flag THEN "active" ELSE row.status]
    BY <1>4 DEF Keeping!Changed
  <2> QED BY <1>4, <2>1
<1>5. CASE op = "overdraft"
  <2>1. r = row
    BY <1>5 DEF Keeping!Changed
  <2> QED BY <1>5, <2>1
<1>6. CASE op = "fee"
  <2>1. r = [row EXCEPT !.balance = row.balance - 1]
    BY <1>6 DEF Keeping!Changed
  <2> QED BY <1>6, <2>1
<1> HIDE DEF r
<1> QED BY <1>1, <1>2, <1>3, <1>4, <1>5, <1>6 DEF r, AccountOps

\* Saving a row: a copy that had seen all charges goes on from there, and another makes
\* the call overlap with the charge it had not seen.
LEMMA SaveAccounts ==
  ASSUME FeesIInv, NEW c \in FewCalls, NEW p, p = accountCall[c], p.pc = "save",
         accountCall'[c].pc = "done", accountCall'[c].op = p.op, accountCall'[c].on = p.on,
         accountCall'[c].seen = p.seen,
         \A d \in FewCalls : d # c => accountCall'[d] = accountCall[d],
         NEW a \in Items, a \in p.on, NEW balance \in Int, p.rows[a].balance \in Int,
         balance = IF p.op = "fee" THEN p.rows[a].balance - 1 ELSE p.rows[a].balance
  PROVE  Accounted(balance, Keeping!Charged(a)', Keeping!Overlapped(a)')
<1> DEFINE charged == Keeping!Charged(a)
           seen    == charged \cap p.seen
<1>1. /\ Accounted(p.rows[a].balance, seen, Keeping!Overlapped(a))
      /\ Keeping!Overlapped(a) => Keeping!Overlapped(a)'
      /\ FeeShape(p) /\ \A d \in FewCalls : accountCall[d].seen \subseteq Keeping!Saved
  <2>1. Keeping!Overlapped(a) => Keeping!Overlapped(a)'
    BY SavedStays
  <2> QED BY <2>1 DEF FeesIInv, FeesInv
<1>2. /\ p.op = "fee" => Keeping!Charged(a)' = charged \cup {c}
      /\ p.op # "fee" => Keeping!Charged(a)' = charged
      /\ c \notin charged
  <2>1. p.op = "fee" => p.on = {a}
    BY <1>1 DEF FeeShape
  <2> QED BY <2>1 DEF Keeping!Charged
<1>3. /\ IsFiniteSet(charged) /\ Cardinality(charged) \in Nat
      /\ Cardinality(seen) \in Nat /\ Cardinality(seen) <= Cardinality(charged)
  BY ChargesCounted
<1>4. /\ p.op = "fee" => Cardinality(Keeping!Charged(a)') = Cardinality(charged) + 1
      /\ p.op # "fee" => Cardinality(Keeping!Charged(a)') = Cardinality(charged)
  BY <1>2, <1>3, FS_AddElement
<1>5. CASE charged \subseteq p.seen
  <2>1. seen = charged
    BY <1>5
  <2> HIDE DEF seen, charged
  <2> QED BY <2>1, <1>1, <1>3, <1>4 DEF Accounted
<1>6. CASE ~(charged \subseteq p.seen)
  <2>1. PICK d \in charged : d \notin p.seen
    BY <1>6
  <2>2. d \in FewCalls /\ d # c /\ accountCall'[d] = accountCall[d]
    BY <1>2 DEF Keeping!Charged
  <2>3. c \notin accountCall[d].seen
    BY <2>2, <1>1 DEF Keeping!Saved
  <2>4. d \in Keeping!Charged(a)' /\ c \in Keeping!Saved'
    BY <1>2 DEF Keeping!Saved
  <2>5. Keeping!Overlapped(a)'
    BY <2>1, <2>2, <2>3, <2>4 DEF Keeping!Overlapped
  <2> HIDE DEF seen, charged
  <2> QED BY <2>5, <1>1, <1>3, <1>4 DEF Accounted
<1> QED BY <1>5, <1>6

LEMMA SaveTakesFee == ASSUME FeesIInv, NEW c \in FewCalls, Keeping!Save(c) PROVE FeesInv'
<1> DEFINE p == accountCall[c]
           New(a) == Keeping!Changed(p.op, p.args, p.rows[a])
<1>1. /\ p.pc = "save" /\ accountCall' = [accountCall EXCEPT ![c].pc = "done"]
      /\ account' = [a \in Items |-> IF a \in p.on THEN New(a) ELSE account[a]]
  BY DEF Keeping!Save
<1>2. /\ p.on \subseteq Items /\ p.op \in AccountOps /\ FeeShape(p)
      /\ \A a \in p.on : p.rows[a] \in AccountRow
  BY <1>1 DEF FeesIInv, KeepingIInv, AccountShape, FeesInv
<1>3. /\ \A d \in FewCalls : d # c => accountCall'[d] = accountCall[d]
      /\ accountCall'[c] = [p EXCEPT !.pc = "done"]
  BY <1>1 DEF FeesIInv, KeepingIInv
<1>4. /\ accountCall'[c].pc = "done" /\ accountCall'[c].op = p.op
      /\ accountCall'[c].on = p.on /\ accountCall'[c].seen = p.seen
  BY <1>3, <1>1 DEF FeesIInv, KeepingIInv
<1>5. ASSUME NEW a \in p.on
      PROVE  /\ New(a).status # "none" /\ p.rows[a].balance \in Int
             /\ New(a).balance = IF p.op = "fee" THEN p.rows[a].balance - 1
                                                 ELSE p.rows[a].balance
  <2>1. p.rows[a] \in AccountRow /\ p.rows[a].status # "none"
    BY <1>1, <1>2, <1>5 DEF FeeShape
  <2>2. p.op = "status" => p.args.status # "none"
    BY <1>1, <1>2 DEF FeeShape
  <2> QED BY <2>1, <2>2, <1>2, ChangedBalance DEF AccountRow
<1> HIDE DEF New
<1>6. ASSUME NEW a \in Items
      PROVE  /\ account'[a].status = "none" => account'[a].balance = 0
             /\ Accounted(account'[a].balance, Keeping!Charged(a)', Keeping!Overlapped(a)')
             /\ Keeping!Charged(a)' \subseteq Keeping!Charged(a) \cup {c}
  <2>1. Keeping!Charged(a)' \subseteq Keeping!Charged(a) \cup {c}
    BY <1>3 DEF Keeping!Charged
  <2>2. CASE a \in p.on
    <3>1. account'[a] = New(a)
      BY <2>2, <1>1
    <3>2. New(a).balance \in Int
      BY <2>2, <1>5
    <3>3. Accounted(New(a).balance, Keeping!Charged(a)', Keeping!Overlapped(a)')
      BY <2>2, <3>2, <1>1, <1>3, <1>4, <1>5, SaveAccounts
    <3> QED BY <2>1, <2>2, <3>1, <3>3, <1>5
  <2>3. CASE a \notin p.on
    <3>1. account'[a] = account[a]
      BY <2>3, <1>1
    <3>2. Keeping!Charged(a)' = Keeping!Charged(a)
      BY <2>3, <1>1, <1>3, <1>4 DEF Keeping!Charged
    <3>3. Keeping!Overlapped(a) => Keeping!Overlapped(a)'
      BY <1>1, <1>3, SavedStays
    <3> QED BY <2>1, <3>1, <3>2, <3>3 DEF FeesIInv, FeesInv, Accounted
  <2> QED BY <2>2, <2>3
<1>7. FeeShape(accountCall'[c]) /\ accountCall'[c].seen \subseteq Keeping!Saved
  BY <1>4 DEF FeeShape, FeesIInv, FeesInv
<1>8. accountCall[c].pc # "done" /\ accountCall'[c].pc # "save"
  BY <1>1, <1>4
<1> QED BY <1>3, <1>6, <1>7, <1>8, FeesMove

LEMMA FailTakesNothing == ASSUME FeesIInv, NEW c \in FewCalls, Keeping!Fail(c) PROVE FeesInv'
<1> DEFINE p == accountCall[c]
<1>1. /\ p.pc = "save" /\ accountCall' = [accountCall EXCEPT ![c].pc = "failed"]
      /\ account' = account
  BY DEF Keeping!Fail
<1>2. /\ \A d \in FewCalls : d # c => accountCall'[d] = accountCall[d]
      /\ accountCall'[c] = [p EXCEPT !.pc = "failed"]
  BY <1>1 DEF FeesIInv, KeepingIInv
<1>3. accountCall'[c].pc = "failed" /\ accountCall'[c].seen = p.seen
  BY <1>2, <1>1 DEF FeesIInv, KeepingIInv
<1>4. FeeShape(accountCall'[c]) /\ accountCall'[c].seen \subseteq Keeping!Saved
  BY <1>3 DEF FeeShape, FeesIInv, FeesInv
<1>5. accountCall[c].pc # "done" /\ accountCall'[c].pc \notin {"done", "save"}
  BY <1>1, <1>3
<1>6. /\ \A a \in Items : Keeping!Charged(a)' = Keeping!Charged(a)
      /\ \A a \in Items :
           /\ account'[a].status = "none" => account'[a].balance = 0
           /\ Accounted(account'[a].balance, Keeping!Charged(a)', Keeping!Overlapped(a)')
  BY <1>1, <1>2, <1>5, NothingCharged
<1> QED BY <1>2, <1>4, <1>5, <1>6, FeesMove

\* No call moves, and no balance.
LEMMA BalancesStay ==
  ASSUME FeesIInv, accountCall' = accountCall,
         \A a \in Items : account'[a].balance = account[a].balance,
         \A a \in Items : account'[a].status = "none" => account[a].status = "none"
  PROVE  FeesInv'
<1>1. Keeping!Saved' = Keeping!Saved
  BY DEF Keeping!Saved
<1>2. \A a : Keeping!Charged(a)' = Keeping!Charged(a)
  BY DEF Keeping!Charged
<1>3. \A a : Keeping!Overlapped(a)' <=> Keeping!Overlapped(a)
  BY <1>1, <1>2 DEF Keeping!Overlapped
<1> QED BY <1>1, <1>2, <1>3 DEF FeesIInv, FeesInv, FeeShape, Accounted

LEMMA OpenTakesNothing ==
  ASSUME FeesIInv, Keeping!Open \/ Keeping!TimePasses PROVE FeesInv'
<1>1. CASE Keeping!Open
  <2>1. PICK a \in Items :
          /\ account[a].status = "none"
          /\ account' = [account EXCEPT ![a] = [Keeping!NoRow EXCEPT !.status = "active"]]
    BY <1>1 DEF Keeping!Open, Keeping!Exists
  <2> DEFINE r == [Keeping!NoRow EXCEPT !.status = "active"]
  <2>2. r.balance = 0 /\ r.status = "active"
    BY DEF Keeping!NoRow
  <2>3. account[a].balance = 0 /\ account \in [Items -> AccountRow] /\ accountCall' = accountCall
    BY <1>1, <2>1 DEF FeesIInv, FeesInv, KeepingIInv, Keeping!Open
  <2> HIDE DEF r
  <2>4. account' = [account EXCEPT ![a] = r]
    BY <2>1 DEF r
  <2> QED BY <2>2, <2>3, <2>4, BalancesStay
<1>2. CASE Keeping!TimePasses
  <2>1. PICK a \in Items : account' = [account EXCEPT ![a].idle = TRUE]
    BY <1>2 DEF Keeping!TimePasses
  <2>2. account \in [Items -> AccountRow] /\ accountCall' = accountCall
    BY <1>2 DEF FeesIInv, KeepingIInv, Keeping!TimePasses
  <2>3. \A b \in Items :
          account'[b].balance = account[b].balance /\ account'[b].status = account[b].status
    BY <2>1, <2>2 DEF AccountRow
  <2> QED BY <2>2, <2>3, BalancesStay
<1> QED BY <1>1, <1>2

LEMMA FeesInitSound == Keeping!Init => FeesInv
<1> SUFFICES ASSUME Keeping!Init PROVE FeesInv
  OBVIOUS
<1>1. \A a \in Items : account[a].balance = 0
  BY DEF Keeping!Init, Keeping!NoRow
<1>2. \A c \in FewCalls : accountCall[c].pc = "free" /\ accountCall[c].seen = {}
  BY DEF Keeping!Init, Keeping!FreeCall
<1>3. ASSUME NEW a \in Items
      PROVE  Accounted(account[a].balance, Keeping!Charged(a), Keeping!Overlapped(a))
  <2>1. Keeping!Charged(a) = {}
    BY <1>2 DEF Keeping!Charged
  <2> QED BY <2>1, <1>1, FS_EmptySet DEF Accounted
<1> QED BY <1>1, <1>2, <1>3 DEF FeesInv, FeeShape

LEMMA FeesNextSound == FeesIInv /\ [Keeping!Next]_(Keeping!vars) => FeesInv'
<1> SUFFICES ASSUME FeesIInv, [Keeping!Next]_(Keeping!vars) PROVE FeesInv'
  OBVIOUS
<1>2. ASSUME NEW c \in FewCalls, Keeping!AskStatus(c) PROVE FeesInv'
  <2>1. PICK a \in Items, s \in Keeping!Statuses :
          /\ account[a].status # "none"
          /\ Keeping!Read(c, "status", {a}, [Keeping!NoArgs EXCEPT !.status = s], TRUE)
    BY <1>2 DEF Keeping!AskStatus, Keeping!Exists
  <2>2. [Keeping!NoArgs EXCEPT !.status = s].status # "none"
    BY DEF Keeping!NoArgs, Keeping!Statuses
  <2> QED BY <2>1, <2>2, ReadTakesNothing
<1>3. ASSUME NEW c \in FewCalls, Keeping!AskClose(c) PROVE FeesInv'
  <2>1. PICK a \in Items, d \in BOOLEAN :
          /\ account[a].status # "none"
          /\ Keeping!Read(c, "close", {a}, [Keeping!NoArgs EXCEPT !.disposition = d],
                          Keeping!MayClose(account[a], d))
    BY <1>3 DEF Keeping!AskClose, Keeping!Exists
  <2>2. Keeping!MayClose(account[a], d) \in BOOLEAN
    BY DEF Keeping!MayClose
  <2> QED BY <2>1, <2>2, ReadTakesNothing
<1>4. ASSUME NEW c \in FewCalls, Keeping!CheckDormancy(c) PROVE FeesInv'
  <2> DEFINE on == {a \in Items : Keeping!Dormant(account[a])}
  <2>1. on \in SUBSET Items /\ \A a \in on : account[a].status # "none"
    BY DEF Keeping!Dormant
  <2>2. Keeping!Read(c, "dormancy", on, Keeping!NoArgs, TRUE)
    BY <1>4 DEF Keeping!CheckDormancy
  <2> HIDE DEF on
  <2> QED BY <2>1, <2>2, ReadTakesNothing
<1>5. ASSUME NEW c \in FewCalls,
             Keeping!AskActivity(c) \/ Keeping!AskFee(c) \/ Keeping!AskOverdraft(c)
      PROVE  FeesInv'
  <2>1. PICK a \in Items, op \in {"activity", "fee", "overdraft"} :
          account[a].status # "none" /\ Keeping!Read(c, op, {a}, Keeping!NoArgs, TRUE)
    BY <1>5 DEF Keeping!AskActivity, Keeping!AskFee, Keeping!AskOverdraft, Keeping!Exists
  <2>2. {a} \in SUBSET Items /\ op # "status" /\ \A b \in {a} : account[b].status # "none"
    BY <2>1
  <2>3. (op = "fee" => \E b \in Items : {a} = {b}) /\ TRUE \in BOOLEAN
    OBVIOUS
  <2> QED BY <2>1, <2>2, <2>3, ReadTakesNothing
<1>6. CASE UNCHANGED Keeping!vars
  <2>1. accountCall' = accountCall /\ account' = account
    BY <1>6 DEF Keeping!vars
  <2> QED BY <2>1, BalancesStay
<1> QED BY <1>2, <1>3, <1>4, <1>5, <1>6, SaveTakesFee, FailTakesNothing, OpenTakesNothing
        DEF Keeping!Next

\* chargeMonthlyFee() beside whatever else saves the account: the balance misses no more
\* than the fees that were charged, and fewer only where a charge overlapped another call.
THEOREM FeesAreLostByOverlap == Spec => []FeesLostOnlyByOverlap
<1>1. Init => FeesIInv
  BY KeepingInitSound, FeesInitSound DEF Init, FeesIInv
<1>2. FeesIInv /\ [Next]_vars => FeesIInv'
  BY KeepingNextSound, FeesNextSound DEF FeesIInv, Next, TransferStep, AccountStep,
     LoginStep,
     CodeStep, vars, accountVars, Keeping!vars, Moving!Next, SigningIn!Next, Verifying!Next
<1>3. FeesIInv => FeesLostOnlyByOverlap
  <2> SUFFICES ASSUME FeesIInv, NEW a \in Items
               PROVE  /\ account[a].balance \in -Cardinality(Keeping!Charged(a))..0
                      /\ account[a].balance # -Cardinality(Keeping!Charged(a)) =>
                           Keeping!Overlapped(a)
    <3>1. \A S : Keeping!Cardinality(S) = Cardinality(S)
      BY DEF Keeping!Cardinality, Cardinality, Keeping!IsFiniteSet, IsFiniteSet
    <3> QED BY <3>1 DEF FeesLostOnlyByOverlap, Keeping!FeesLostOnlyByOverlap
  <2>1. account[a].balance \in Int
    BY DEF FeesIInv, KeepingIInv, AccountRow
  <2>2. Cardinality(Keeping!Charged(a)) \in Nat
    BY ChargesCounted
  <2> QED BY <2>1, <2>2 DEF FeesIInv, FeesInv, Accounted
<1> QED BY <1>1, <1>2, <1>3, PTL DEF Spec

=============================================================================
