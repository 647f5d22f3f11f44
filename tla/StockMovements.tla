--------------------------- MODULE StockMovements ---------------------------
(***************************************************************************)
(* StockMovementService: goods of one item received, sold, returned,       *)
(* adjusted and moved between warehouses.                                  *)
(*                                                                         *)
(* A call checks the level it read, records a movement, then reads the     *)
(* level again and saves it; a transfer does that for two warehouses.      *)
(* There is no database transaction, but (item, warehouse) is unique.      *)
(* Calls are used once; serial TRUE serves one at a time, which nothing    *)
(* in the code ensures.  Costs, lots and the committed quantity, which no  *)
(* code raises above zero, are left out.                                   *)
(***************************************************************************)
EXTENDS Integers, Sequences, FiniteSets, FiniteSetsExt

CONSTANTS
  Warehouses, Calls,
  MaxCalls,       \* bound: calls that are made, one at a time
  MaxOverlapping, \* bound: calls that are made, when they may overlap
  Quantities,   \* quantities of a movement
  Faulty

VARIABLES
  level,  \* smb_stock_level of the item
  call,
  serial  \* do calls wait for each other?

vars == <<level, call, serial>>

-----------------------------------------------------------------------------
NoRow == [exists |-> FALSE, onHand |-> 0]

\* todo: the changes of levels the call has still to make, [at |-> warehouse, by |-> delta].
FreeCall == [op |-> "none", pc |-> "free", changes |-> <<>>, todo |-> <<>>, row |-> NoRow]

InFlight(c) == call[c].pc \in {"record", "read", "save"}
Goto(c, pc) == call' = [call EXCEPT ![c].pc = pc]

Change(w, n) == [at |-> w, by |-> n]

\* A call of op that has decided on its movement.
Ask(c, op, changes, accepted) ==
  /\ call[c].pc = "free"
  /\ Cardinality({d \in Calls : call[d].pc # "free"})
       < IF serial THEN MaxCalls ELSE MaxOverlapping
  /\ serial => \A d \in Calls : ~InFlight(d)
  /\ call' = [call EXCEPT ![c] = [FreeCall EXCEPT
       !.op = op, !.changes = changes, !.todo = changes,
       !.pc = IF accepted THEN "record" ELSE "refused"]]
  /\ UNCHANGED level

-----------------------------------------------------------------------------
\* A variant: one piece more than there is.
SufficientOff(w, n) == level[w].exists /\ level[w].onHand + 1 >= n

Sufficient(w, n) == level[w].exists /\ level[w].onHand >= n

\* receiveGoods
Receive(c) == \E w \in Warehouses, n \in Quantities : Ask(c, "receive", <<Change(w, n)>>, TRUE)

\* returnGoods: the level it reads first decides on the cost alone.
Return(c) == \E w \in Warehouses, n \in Quantities : Ask(c, "return", <<Change(w, n)>>, TRUE)

\* sale
Sell(c) == \E w \in Warehouses, n \in Quantities :
  Ask(c, "sale", <<Change(w, -n)>>, Sufficient(w, n))

\* adjust: up or down, without a check.
Adjust(c) == \E w \in Warehouses, n \in Quantities, sign \in {-1, 1} :
  Ask(c, "adjust", <<Change(w, sign * n)>>, TRUE)

\* transfer
Transfer(c) == \E w, v \in Warehouses, n \in Quantities :
  Ask(c, "transfer", <<Change(w, -n), Change(v, n)>>, w # v /\ Sufficient(w, n))

Record(c) ==
  /\ call[c].pc = "record"
  /\ Goto(c, "read")
  /\ UNCHANGED level

\* updateStockLevel
ReadLevel(c) ==
  /\ call[c].pc = "read"
  /\ call' = [call EXCEPT ![c].row = level[Head(call[c].todo).at], ![c].pc = "save"]
  /\ UNCHANGED level

\* A variant: what is saved is what was moved.
MovedOnly(row, n) == [exists |-> TRUE, onHand |-> n]

Moved(row, n) == [exists |-> TRUE, onHand |-> row.onHand + n]

\* A level that did not exist when it was read is inserted, once.
SaveLevel(c) ==
  LET change == Head(call[c].todo)
      row    == call[c].row IN
  /\ call[c].pc = "save"
  /\ row.exists \/ ~level[change.at].exists
  /\ level' = [level EXCEPT ![change.at] = Moved(row, change.by)]
  /\ call' = [call EXCEPT ![c].todo = Tail(@),
                          ![c].pc = IF Len(call[c].todo) = 1 THEN "done" ELSE "read"]

\* A query fails, the process dies, or another call has inserted the level.
Fail(c) ==
  /\ InFlight(c)
  /\ \/ Faulty
     \/ call[c].pc = "save" /\ ~call[c].row.exists /\ level[Head(call[c].todo).at].exists
  /\ Goto(c, "failed")
  /\ UNCHANGED level

Init ==
  /\ level = [w \in Warehouses |-> NoRow]
  /\ call = [c \in Calls |-> FreeCall]
  /\ serial \in BOOLEAN

Next ==
  /\ \E c \in Calls :
       \/ Receive(c) \/ Return(c) \/ Sell(c) \/ Adjust(c) \/ Transfer(c)
       \/ Record(c) \/ ReadLevel(c) \/ SaveLevel(c) \/ Fail(c)
  /\ UNCHANGED serial

Spec == Init /\ [][Next]_vars

-----------------------------------------------------------------------------
TypeOK ==
  /\ level \in [Warehouses -> [exists : BOOLEAN, onHand : Int]]
  /\ \A c \in Calls : Len(call[c].todo) <= Len(call[c].changes)

\* What the changes cs add to w.
Added(w, cs) == MapThenSumSet(LAMBDA i : cs[i].by, {i \in DOMAIN cs : cs[i].at = w})
Moving == {c \in Calls : call[c].pc \notin {"free", "refused"}}

\* Served one at a time, what is on hand is what the movements on record brought,
\* less what a call that failed had still to do: a failed transfer misses in the
\* one warehouse what it took from the other.
OnHandIsMoved ==
  serial => \A w \in Warehouses :
    level[w].onHand = MapThenSumSet(LAMBDA c : Added(w, call[c].changes) - Added(w, call[c].todo), Moving)

\* Served one at a time, only an adjustment can leave less than nothing on hand.
NeverOversold ==
  serial => \A w \in Warehouses : level[w].onHand >=
    MapThenSumSet(LAMBDA c : Added(w, call[c].changes),
                  {c \in Moving : call[c].op = "adjust" /\ Added(w, call[c].changes) < 0})
=============================================================================
