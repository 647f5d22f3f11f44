------------------------------- MODULE SalesProofs --------------------------
(***************************************************************************)
(* Theorems about the points, rewards and goods of Sales, for any number   *)
(* of customers, enrollments, warehouses and calls, with failing queries:  *)
(* stale copies may lose points and goods, but never below nothing; and    *)
(* served one at a time, balances and levels are the sums of what the      *)
(* calls brought, and nothing is sold that is not there.                   *)
(***************************************************************************)
EXTENDS Sales, SumTheorems, Sequences, FiniteSetTheorems, TLAPS

PointPCs == {"free", "insert", "find", "record", "balance", "stock",
        "done", "refused", "failed", "unsettled", "uncounted"}
PointOps == {"none", "enroll", "earn", "spend", "redeem"}
Ids == Items \cup Enrollments \cup {NoId}

\* Where a call works on an enrollment, and where it holds a copy to settle.
Working == {"find", "record", "balance", "stock"}
Settling == {"record", "balance"}

PointRow == [customer : Items \cup {NoId}, balance : Nat, earned : Nat, redeemed : 0..Widest]

RewardItem == [active : BOOLEAN, limited : BOOLEAN, stock : 0..Stock, sold : Nat]

PointCall == [op : PointOps, pc : PointPCs, on : Ids, points : Nat, row : PointRow,
              item : RewardItem]

-----------------------------------------------------------------------------
\* The inductive invariant.

\* The copy covers what is taken from it.
SoundPoint(q) ==
  /\ q.pc = "insert" => q.on \in Items /\ q.op = "enroll"
  /\ q.pc \in Working => q.on \in Enrollments /\ q.op \in {"earn", "spend", "redeem"}
  /\ q.pc \in Settling => (q.op # "earn" => Rewards!Affords(q.row, q.points))
  /\ q.pc \in {"find", "stock"} => q.op = "redeem"
  /\ q.pc \in Working /\ q.op = "redeem" => Rewards!Available(q.item)

RewardsIInv ==
  /\ enrollment \in [Enrollments -> PointRow] /\ item \in RewardItem
  /\ pointCall \in [Calls -> PointCall]
  /\ \A c \in Calls : SoundPoint(pointCall[c])

-----------------------------------------------------------------------------
\* A step in which c alone moves.
LEMMA PointCallMoves ==
  ASSUME RewardsIInv, NEW c \in Calls, NEW q \in PointCall,
         pointCall' = [pointCall EXCEPT ![c] = q], SoundPoint(q),
         enrollment' \in [Enrollments -> PointRow], item' \in RewardItem
  PROVE  RewardsIInv'
<1>1. pointCall' \in [Calls -> PointCall]
  BY DEF RewardsIInv
<1>2. ASSUME NEW d \in Calls PROVE SoundPoint(pointCall'[d])
  BY DEF RewardsIInv
<1> QED BY <1>1, <1>2, SalesNumbersAssumption DEF RewardsIInv

\* Going on from one program counter to another.
LEMMA GotoMoves ==
  ASSUME RewardsIInv, NEW c \in Calls, NEW pc \in PointPCs, Rewards!Goto(c, pc)
  PROVE  /\ [pointCall[c] EXCEPT !.pc = pc] \in PointCall
         /\ pointCall' = [pointCall EXCEPT ![c] = [pointCall[c] EXCEPT !.pc = pc]]
  BY DEF RewardsIInv, PointCall, Rewards!Goto

LEMMA RewardsInitSound == ASSUME Rewards!Init PROVE RewardsIInv
<1>1. Rewards!NoRow \in PointRow
  BY SalesNumbersAssumption DEF Rewards!NoRow, PointRow
<1>2. Rewards!FreeCall \in PointCall /\ Rewards!FreeCall.pc = "free"
  BY <1>1, SalesNumbersAssumption DEF Rewards!FreeCall, PointCall, PointOps, PointPCs, Ids,
                               RewardItem
<1>3. item \in RewardItem
  BY SalesNumbersAssumption DEF Rewards!Init, RewardItem
<1> QED BY <1>1, <1>2, <1>3 DEF Rewards!Init, RewardsIInv, SoundPoint, Working, Settling

\* enroll() and its insertion.
LEMMA EnrollKeeps ==
  ASSUME RewardsIInv, NEW c \in Calls, Rewards!Enroll(c) \/ Rewards!Insert(c) PROVE RewardsIInv'
<1>1. CASE Rewards!Enroll(c)
  <2>1. PICK u \in Items : pointCall' =
          [pointCall EXCEPT ![c].op = "enroll", ![c].on = u, ![c].pc =
          IF \E e \in Enrollments : enrollment[e].customer = u THEN "refused" ELSE "insert"]
    BY <1>1 DEF Rewards!Enroll
  <2>2. PICK pc \in {"refused", "insert"} :
          pc = IF \E e \in Enrollments : enrollment[e].customer = u THEN "refused" ELSE "insert"
    OBVIOUS
  <2> DEFINE q == [pointCall[c] EXCEPT !.op = "enroll", !.on = u, !.pc = pc]
  <2>3. q \in PointCall /\ pointCall' = [pointCall EXCEPT ![c] = q]
    BY <2>1, <2>2 DEF RewardsIInv, PointCall, PointOps, PointPCs, Ids
  <2>4. q.pc = pc /\ q.on = u /\ q.op = "enroll"
    BY DEF RewardsIInv, PointCall
  <2>5. SoundPoint(q)
    <3> HIDE DEF q
    <3> QED BY <2>2, <2>4 DEF SoundPoint, Working, Settling
  <2> HIDE DEF q
  <2> QED BY <1>1, <2>3, <2>5, PointCallMoves DEF Rewards!Enroll, RewardsIInv
<1>2. CASE Rewards!Insert(c)
  <2>1. PICK e \in Enrollments : enrollment' =
          [enrollment EXCEPT ![e] = [Rewards!NoRow EXCEPT !.customer = pointCall[c].on]]
    BY <1>2 DEF Rewards!Insert
  <2>2. [Rewards!NoRow EXCEPT !.customer = pointCall[c].on] \in PointRow
    BY <1>2, SalesNumbersAssumption
       DEF Rewards!Insert, RewardsIInv, SoundPoint, Rewards!NoRow, PointRow
  <2>3. enrollment' \in [Enrollments -> PointRow]
    BY <2>1, <2>2 DEF RewardsIInv
  <2>4. Rewards!Goto(c, "done") /\ item' = item
    BY <1>2 DEF Rewards!Insert
  <2> DEFINE q == [pointCall[c] EXCEPT !.pc = "done"]
  <2>5. q \in PointCall /\ pointCall' = [pointCall EXCEPT ![c] = q]
    BY <2>4, GotoMoves DEF PointPCs
  <2>6. SoundPoint(q)
    BY DEF SoundPoint, RewardsIInv, PointCall, Working, Settling
  <2> HIDE DEF q
  <2> QED BY <2>3, <2>4, <2>5, <2>6, PointCallMoves DEF RewardsIInv
<1> QED BY <1>1, <1>2

\* What a call reads is covered when the call is accepted.
LEMMA PointReadKeeps ==
  ASSUME RewardsIInv, NEW c \in Calls, NEW op \in {"earn", "spend", "redeem"},
         NEW e \in Enrollments, NEW n \in Nat, NEW accepted \in BOOLEAN,
         Rewards!Read(c, op, e, n, accepted),
         op # "earn" => (accepted => Rewards!Affords(enrollment[e], n)),
         op = "redeem" => Rewards!Available(pointCall[c].item),
         UNCHANGED <<enrollment, item>>
  PROVE  RewardsIInv'
<1>1. PICK pc \in {"record", "refused"} : pc = IF accepted THEN "record" ELSE "refused"
  OBVIOUS
<1> DEFINE q == [pointCall[c] EXCEPT !.op = op, !.on = e, !.points = n, !.row = enrollment[e],
                                !.pc = pc]
<1>2. pointCall' = [pointCall EXCEPT ![c] = q]
  BY <1>1 DEF Rewards!Read, RewardsIInv
<1>3. q \in PointCall
  BY <1>1 DEF RewardsIInv, PointCall, PointOps, PointPCs, Ids
<1>4. /\ q.pc = pc /\ q.op = op /\ q.on = e /\ q.points = n /\ q.row = enrollment[e]
      /\ q.item = pointCall[c].item
  BY DEF RewardsIInv, PointCall
<1>5. SoundPoint(q)
  <2> HIDE DEF q
  <2> QED BY <1>1, <1>4 DEF SoundPoint, Working, Settling
<1> HIDE DEF q
<1> QED BY <1>2, <1>3, <1>5, PointCallMoves DEF RewardsIInv

\* earn(), and the two redeem() with redeemCashback().
LEMMA ReadersKeep ==
  ASSUME RewardsIInv, NEW c \in Calls,
         Rewards!Earn(c) \/ Rewards!Spend(c) \/ Rewards!Redeem(c) \/ Rewards!Find(c)
  PROVE  RewardsIInv'
<1>1. CASE Rewards!Earn(c)
  <2>1. PICK e \in Enrollments, n \in Numbers : Rewards!Read(c, "earn", e, n, TRUE)
    BY <1>1 DEF Rewards!Earn
  <2> QED BY <1>1, <2>1, PointReadKeeps, SalesNumbersAssumption
         DEF Rewards!Earn, RewardsIInv
<1>2. CASE Rewards!Spend(c)
  <2>1. PICK e \in Enrollments, n \in Numbers :
          Rewards!Read(c, "spend", e, n, Rewards!Affords(enrollment[e], n))
    BY <1>2 DEF Rewards!Spend
  <2>2. Rewards!Affords(enrollment[e], n) \in BOOLEAN
    BY DEF Rewards!Affords
  <2> QED BY <1>2, <2>1, <2>2, PointReadKeeps, SalesNumbersAssumption
         DEF Rewards!Spend, RewardsIInv
<1>3. CASE Rewards!Redeem(c)
  <2>1. PICK e \in Enrollments :
          pointCall' = [pointCall EXCEPT ![c].op = "redeem", ![c].on = e, ![c].item = item,
                               ![c].pc = IF Rewards!Available(item) THEN "find" ELSE "refused"]
    BY <1>3 DEF Rewards!Redeem
  <2>2. PICK pc \in {"find", "refused"} :
          pc = IF Rewards!Available(item) THEN "find" ELSE "refused"
    OBVIOUS
  <2> DEFINE q == [pointCall[c] EXCEPT !.op = "redeem", !.on = e, !.item = item, !.pc = pc]
  <2>3. q \in PointCall /\ pointCall' = [pointCall EXCEPT ![c] = q]
    BY <2>1, <2>2 DEF RewardsIInv, PointCall, PointOps, PointPCs, Ids
  <2>4. q.pc = pc /\ q.op = "redeem" /\ q.on = e /\ q.item = item
    BY DEF RewardsIInv, PointCall
  <2>5. SoundPoint(q)
    <3> HIDE DEF q
    <3> QED BY <2>2, <2>4 DEF SoundPoint, Working, Settling
  <2> HIDE DEF q
  <2> QED BY <1>3, <2>3, <2>5, PointCallMoves DEF Rewards!Redeem, RewardsIInv
<1>4. CASE Rewards!Find(c)
  <2>1. pointCall[c].on \in Enrollments /\ Rewards!Available(pointCall[c].item)
    BY <1>4 DEF Rewards!Find, RewardsIInv, SoundPoint, Working
  <2>2. Rewards!Affords(enrollment[pointCall[c].on], Price) \in BOOLEAN
    BY DEF Rewards!Affords
  <2> QED BY <1>4, <2>1, <2>2, PointReadKeeps, SalesNumbersAssumption
         DEF Rewards!Find, RewardsIInv
<1> QED BY <1>1, <1>2, <1>3, <1>4

\* A copy that covers what is taken from it is a row again when it has been settled.
LEMMA SettledIsRow ==
  ASSUME RewardsIInv, NEW op \in {"earn", "spend", "redeem"}, NEW n \in Nat, NEW row \in PointRow,
         op # "earn" => Rewards!Affords(row, n), Rewards!Settled(op, n, row).redeemed <= Widest
  PROVE  Rewards!Settled(op, n, row) \in PointRow
<1>1. row.balance \in Nat /\ row.redeemed \in Nat /\ Price \in Nat /\ Widest \in Nat
  BY SalesNumbersAssumption DEF PointRow, RewardsIInv
<1>2. CASE op = "earn"
  <2>1. Rewards!Settled(op, n, row) = [row EXCEPT !.balance = @ + n, !.earned = @ + n]
    BY <1>2 DEF Rewards!Settled
  <2>2. row.balance + n \in Nat /\ row.earned + n \in Nat
    BY DEF PointRow
  <2> QED BY <2>1, <2>2 DEF PointRow
<1>3. CASE op = "spend"
  <2>1. Rewards!Settled(op, n, row) = [row EXCEPT !.balance = @ - n, !.redeemed = @ + n]
    BY <1>3 DEF Rewards!Settled
  <2>2. Rewards!Settled(op, n, row).redeemed = row.redeemed + n
    BY <2>1 DEF PointRow
  <2>3. row.balance - n \in Nat
    BY <1>3, <1>1 DEF Rewards!Affords
  <2>4. row.redeemed + n \in 0..Widest
    BY <1>1, <2>2
  <2> QED BY <2>1, <2>3, <2>4 DEF PointRow
<1>4. CASE op = "redeem"
  <2>1. Rewards!Settled(op, n, row) =
          [row EXCEPT !.balance = @ - n, !.redeemed = Rewards!PlusRequired(@)]
    BY <1>4 DEF Rewards!Settled
  <2>2. Rewards!Settled(op, n, row).redeemed = Rewards!PlusRequired(row.redeemed)
    BY <2>1 DEF PointRow
  <2>3. row.balance - n \in Nat
    BY <1>4, <1>1 DEF Rewards!Affords
  <2>4. Rewards!PlusRequired(row.redeemed) \in 0..Widest
    BY <1>1, <2>2 DEF Rewards!PlusRequired
  <2> QED BY <2>1, <2>3, <2>4 DEF PointRow
<1> QED BY <1>2, <1>3, <1>4

\* The point transaction, the save of the enrollment and the save of the reward.
LEMMA WritersKeep ==
  ASSUME RewardsIInv, NEW c \in Calls,
         Rewards!Record(c) \/ Rewards!SaveEnrollment(c) \/ Rewards!SaveItem(c)
  PROVE  RewardsIInv'
<1> DEFINE q(pc) == [pointCall[c] EXCEPT !.pc = pc]
<1>1. pointCall[c] \in PointCall /\ SoundPoint(pointCall[c])
  BY DEF RewardsIInv
<1>2. \A pc : /\ q(pc).pc = pc /\ q(pc).op = pointCall[c].op /\ q(pc).on = pointCall[c].on
              /\ q(pc).points = pointCall[c].points /\ q(pc).row = pointCall[c].row
              /\ q(pc).item = pointCall[c].item
  BY <1>1 DEF PointCall
<1>3. \A pc \in PointPCs :
        Rewards!Goto(c, pc) =>
          q(pc) \in PointCall /\ pointCall' = [pointCall EXCEPT ![c] = q(pc)]
  BY GotoMoves
<1> HIDE DEF q
<1>4. CASE Rewards!Record(c)
  <2>1. Rewards!Goto(c, "balance") /\ pointCall[c].pc = "record" /\ UNCHANGED <<enrollment, item>>
    BY <1>4 DEF Rewards!Record
  <2>2. SoundPoint(q("balance"))
    BY <1>1, <1>2, <2>1 DEF SoundPoint, Working, Settling
  <2> QED BY <1>3, <2>1, <2>2, PointCallMoves DEF RewardsIInv, PointPCs
<1>5. CASE Rewards!SaveEnrollment(c)
  <2> DEFINE row == Rewards!Settled(pointCall[c].op, pointCall[c].points, pointCall[c].row)
  <2>1. pointCall[c].pc = "balance" /\ item' = item
    BY <1>5 DEF Rewards!SaveEnrollment
  <2>2. CASE row.redeemed <= Widest
    <3>1. PICK pc \in {"stock", "done"} :
            pc = IF pointCall[c].op = "redeem" THEN "stock" ELSE "done"
      OBVIOUS
    <3>2. enrollment' = [enrollment EXCEPT ![pointCall[c].on] = row] /\ Rewards!Goto(c, pc)
      BY <1>5, <2>2, <3>1 DEF Rewards!SaveEnrollment
    <3>3. row \in PointRow
      BY <1>1, <2>1, <2>2, SettledIsRow DEF SoundPoint, Working, Settling, PointCall
    <3>4. SoundPoint(q(pc))
      BY <1>1, <1>2, <2>1, <3>1 DEF SoundPoint, Working, Settling
    <3>5. enrollment' \in [Enrollments -> PointRow]
      BY <3>2, <3>3 DEF RewardsIInv
    <3> HIDE DEF row
    <3> QED BY <1>3, <2>1, <3>2, <3>4, <3>5, PointCallMoves DEF RewardsIInv, PointPCs
  <2>3. CASE ~(row.redeemed <= Widest)
    <3>1. Rewards!Goto(c, "unsettled") /\ enrollment' = enrollment
      BY <1>5, <2>3 DEF Rewards!SaveEnrollment
    <3>2. SoundPoint(q("unsettled"))
      BY <1>2 DEF SoundPoint, Working, Settling
    <3> QED BY <1>3, <2>1, <3>1, <3>2, PointCallMoves DEF RewardsIInv, PointPCs
  <2> QED BY <2>2, <2>3
<1>6. CASE Rewards!SaveItem(c)
  <2> DEFINE row == pointCall[c].item
  <2>1. /\ item' = [row EXCEPT !.sold = @ + 1, !.stock = IF row.limited THEN @ - 1 ELSE @]
        /\ Rewards!Goto(c, "done") /\ pointCall[c].pc = "stock" /\ enrollment' = enrollment
    BY <1>6 DEF Rewards!SaveItem
  <2>2. row \in RewardItem /\ Rewards!Available(row)
    BY <1>1, <2>1 DEF SoundPoint, Working, PointCall
  <2>3. (IF row.limited THEN row.stock - 1 ELSE row.stock) \in 0..Stock /\ row.sold + 1 \in Nat
    BY <2>2, SalesNumbersAssumption DEF Rewards!Available, RewardItem, RewardsIInv
  <2>4. item' \in RewardItem
    BY <2>1, <2>2, <2>3 DEF RewardItem
  <2>5. SoundPoint(q("done"))
    BY <1>2 DEF SoundPoint, Working, Settling
  <2> QED BY <1>3, <2>1, <2>4, <2>5, PointCallMoves DEF RewardsIInv, PointPCs
<1> QED BY <1>4, <1>5, <1>6

LEMMA RewardsFailKeeps ==
  ASSUME RewardsIInv, NEW c \in Calls, Rewards!Fail(c) PROVE RewardsIInv'
<1>1. PICK pc \in {"unsettled", "uncounted", "failed"} : Rewards!Goto(c, pc)
  BY DEF Rewards!Fail
<1> DEFINE q == [pointCall[c] EXCEPT !.pc = pc]
<1>2. q \in PointCall /\ pointCall' = [pointCall EXCEPT ![c] = q]
  BY <1>1, GotoMoves DEF PointPCs
<1>3. SoundPoint(q)
  BY DEF SoundPoint, RewardsIInv, PointCall, Working, Settling
<1> HIDE DEF q
<1> QED BY <1>2, <1>3, PointCallMoves DEF Rewards!Fail, RewardsIInv

LEMMA RewardsNextSound == ASSUME RewardsIInv, [Rewards!Next]_(Rewards!vars) PROVE RewardsIInv'
<1>1. CASE UNCHANGED Rewards!vars
  BY <1>1, SalesNumbersAssumption DEF RewardsIInv, Rewards!vars
<1>2. CASE Rewards!Next
  BY <1>2, EnrollKeeps, ReadersKeep, WritersKeep, RewardsFailKeeps DEF Rewards!Next
<1> QED BY <1>1, <1>2


LEMMA PointsInductive == Spec => []RewardsIInv
<1>1. Init => RewardsIInv
  BY RewardsInitSound DEF Init
<1>2. RewardsIInv /\ [Next]_vars => RewardsIInv'
  BY RewardsNextSound DEF Next, PointStep, StockStep, vars, pointVars, Rewards!vars, Goods!Next
<1> QED BY <1>1, <1>2, PTL DEF Spec

\* earn(), the redeem() of points and of rewards: however the copies are saved over each
\* other, no enrollment has less than no points and no reward less than no stock, and no
\* total is saved that its column cannot hold.
LEMMA NeverNegative == RewardsIInv => Rewards!TypeOK
  BY DEF RewardsIInv, Rewards!TypeOK, PointCall, Ids, PointRow, RewardItem

-----------------------------------------------------------------------------
\* The rewards, with one call at a time.

\* The redemptions that came to their end.
Redeemed == {c \in Calls : pointCall[c].op = "redeem" /\ pointCall[c].pc = "done"}

\* The copy of the reward that a redemption holds is the row, and the row has counted the
\* rewards that were handed out.
RewardsCounted ==
  /\ \A c, d \in Calls : Rewards!InFlight(c) /\ Rewards!InFlight(d) => c = d
  /\ \A c \in Calls :
       pointCall[c].op = "redeem" /\ pointCall[c].pc \in Working => pointCall[c].item = item
  /\ item.limited => Cardinality(Redeemed) + item.stock = Stock

CountedIInv == RewardsIInv /\ (serial => RewardsCounted)

\* Where a call is in flight.
Flying == {"insert", "find", "record", "balance", "stock"}

\* What a step of c does beside moving it to q.
Redeems(c, q) ==
  /\ pointCall' = [pointCall EXCEPT ![c] = q] /\ q \in PointCall
  /\ Rewards!Turn(c) \/ pointCall[c].pc \in Flying
  /\ q.op = "redeem" /\ q.pc \in Working =>
       \/ q.item = item
       \/ /\ q.item = pointCall[c].item
          /\ pointCall[c].op = "redeem" /\ pointCall[c].pc \in Working

\* Every step but the save of the reward.
LEMMA PointSteps ==
  ASSUME RewardsIInv, NEW c \in Calls,
         \/ Rewards!Enroll(c) \/ Rewards!Insert(c) \/ Rewards!Earn(c) \/ Rewards!Spend(c)
         \/ Rewards!Redeem(c) \/ Rewards!Find(c) \/ Rewards!Record(c)
         \/ Rewards!SaveEnrollment(c) \/ Rewards!Fail(c)
  PROVE  /\ item' = item
         /\ \E q : Redeems(c, q) /\ ~(q.op = "redeem" /\ q.pc = "done")
<1>1. pointCall[c] \in PointCall /\ pointCall \in [Calls -> PointCall] /\ SoundPoint(pointCall[c])
  BY DEF RewardsIInv
<1>2. CASE Rewards!Enroll(c)
  <2>1. PICK u \in Items, pc \in {"refused", "insert"} : pointCall' =
          [pointCall EXCEPT ![c].op = "enroll", ![c].on = u, ![c].pc = pc]
    BY <1>2 DEF Rewards!Enroll
  <2> DEFINE q == [pointCall[c] EXCEPT !.op = "enroll", !.on = u, !.pc = pc]
  <2>2. q \in PointCall /\ q.op = "enroll" /\ pointCall' = [pointCall EXCEPT ![c] = q]
    BY <1>1, <2>1 DEF PointCall, PointOps, PointPCs, Ids
  <2> HIDE DEF q
  <2> QED BY <1>2, <2>2 DEF Rewards!Enroll, Redeems
<1>3. CASE Rewards!Redeem(c)
  <2>1. PICK e \in Enrollments, pc \in {"find", "refused"} : pointCall' =
          [pointCall EXCEPT ![c].op = "redeem", ![c].on = e, ![c].item = item, ![c].pc = pc]
    BY <1>3 DEF Rewards!Redeem
  <2> DEFINE q == [pointCall[c] EXCEPT !.op = "redeem", !.on = e, !.item = item, !.pc = pc]
  <2>2. /\ q \in PointCall /\ q.item = item /\ q.pc # "done"
        /\ pointCall' = [pointCall EXCEPT ![c] = q]
    BY <1>1, <2>1 DEF PointCall, PointOps, PointPCs, Ids, RewardsIInv
  <2> HIDE DEF q
  <2> QED BY <1>3, <2>2 DEF Rewards!Redeem, Redeems
<1>4. CASE Rewards!Earn(c) \/ Rewards!Spend(c) \/ Rewards!Find(c)
  <2>1. PICK op \in {"earn", "spend", "redeem"}, e \in Enrollments, n \in Nat,
             pc \in {"record", "refused"} :
          /\ pointCall' = [pointCall EXCEPT ![c].op = op, ![c].on = e, ![c].points = n,
                                            ![c].row = enrollment[e], ![c].pc = pc]
          /\ op = "redeem" => pointCall[c].pc = "find"
    BY <1>1, <1>4, SalesNumbersAssumption
       DEF Rewards!Earn, Rewards!Spend, Rewards!Find, Rewards!Read, SoundPoint, Working
  <2> DEFINE q == [pointCall[c] EXCEPT !.op = op, !.on = e, !.points = n,
                                       !.row = enrollment[e], !.pc = pc]
  <2>2. /\ q \in PointCall /\ q.item = pointCall[c].item /\ q.pc # "done" /\ q.op = op
        /\ pointCall' = [pointCall EXCEPT ![c] = q]
    BY <1>1, <2>1 DEF PointCall, PointOps, PointPCs, Ids, RewardsIInv
  <2>3. Rewards!Turn(c) \/ pointCall[c].pc = "find"
    BY <1>4 DEF Rewards!Earn, Rewards!Spend, Rewards!Find
  <2>4. op = "redeem" => pointCall[c].op = "redeem" /\ pointCall[c].pc \in Working
    BY <1>1, <2>1 DEF SoundPoint, Working
  <2> HIDE DEF q
  <2>5. Redeems(c, q) /\ ~(q.op = "redeem" /\ q.pc = "done")
    BY <2>2, <2>3, <2>4 DEF Redeems, Flying
  <2>6. item' = item
    BY <1>4 DEF Rewards!Earn, Rewards!Spend, Rewards!Find
  <2> QED BY <2>5, <2>6
<1>5. CASE \/ Rewards!Insert(c) \/ Rewards!Record(c) \/ Rewards!SaveEnrollment(c)
           \/ Rewards!Fail(c)
  <2>1. PICK pc \in PointPCs :
          /\ Rewards!Goto(c, pc) /\ pointCall[c].pc \in Flying
          /\ pc \in Working => pointCall[c].pc \in Working
          /\ pc = "done" => pointCall[c].op # "redeem"
    BY <1>1, <1>5 DEF Rewards!Insert, Rewards!Record, Rewards!SaveEnrollment, Rewards!Fail,
                      Rewards!InFlight, SoundPoint, Flying, Working, PointPCs
  <2> DEFINE q == [pointCall[c] EXCEPT !.pc = pc]
  <2>2. q \in PointCall /\ pointCall' = [pointCall EXCEPT ![c] = q]
    BY <2>1, GotoMoves
  <2>3. q.op = pointCall[c].op /\ q.item = pointCall[c].item /\ q.pc = pc
    BY <1>1 DEF PointCall
  <2> HIDE DEF q
  <2>4. Redeems(c, q) /\ ~(q.op = "redeem" /\ q.pc = "done")
    BY <2>1, <2>2, <2>3 DEF Redeems
  <2>5. item' = item
    BY <1>5 DEF Rewards!Insert, Rewards!Record, Rewards!SaveEnrollment, Rewards!Fail
  <2> QED BY <2>4, <2>5
<1> QED BY <1>2, <1>3, <1>4, <1>5

\* A step of c, when calls are served in turn.
LEMMA RedeemsInTurn ==
  ASSUME CountedIInv, serial, NEW c \in Calls, NEW q, Redeems(c, q)
  PROVE  /\ \A d \in Calls : d # c => ~Rewards!InFlight(d) /\ ~Rewards!InFlight(d)'
         /\ \A d \in Calls : d # c => pointCall'[d] = pointCall[d]
         /\ pointCall'[c] = q
         /\ q.op = "redeem" /\ q.pc \in Working => q.item = item
         /\ pointCall[c].pc # "done"
<1>1. /\ \A d \in Calls : d # c => pointCall'[d] = pointCall[d]
      /\ pointCall'[c] = q
  BY DEF CountedIInv, RewardsIInv, Redeems
<1>2. \A d \in Calls : d # c => ~Rewards!InFlight(d)
  BY DEF CountedIInv, RewardsCounted, Redeems, Rewards!Turn, Rewards!InFlight, Flying
<1>3. pointCall[c].pc # "done"
  BY DEF Redeems, Rewards!Turn, Flying
<1>4. q.op = "redeem" /\ q.pc \in Working => q.item = item
  BY DEF CountedIInv, RewardsCounted, Redeems
<1>5. \A d \in Calls : d # c => ~Rewards!InFlight(d)'
  BY <1>1, <1>2 DEF Rewards!InFlight
<1> QED BY <1>1, <1>2, <1>3, <1>4, <1>5

\* The steps that hand out nothing, and the one that does.
LEMMA PointStepsCount ==
  ASSUME CountedIInv, serial, serial' = serial, NEW c \in Calls, NEW q, Redeems(c, q),
         item' = item, ~(q.op = "redeem" /\ q.pc = "done")
  PROVE  RewardsCounted'
<1>1. /\ \A d \in Calls : d # c => ~Rewards!InFlight(d)'
      /\ \A d \in Calls : d # c => pointCall'[d] = pointCall[d]
      /\ pointCall'[c] = q /\ pointCall[c].pc # "done"
      /\ q.op = "redeem" /\ q.pc \in Working => q.item = item
  BY RedeemsInTurn
<1>2. Redeemed' = Redeemed
  BY <1>1 DEF Redeemed
<1>3. \A d \in Calls : pointCall'[d].op = "redeem" /\ pointCall'[d].pc \in Working =>
        pointCall'[d].item = item'
  BY <1>1 DEF CountedIInv, RewardsCounted
<1>4. \A d, e \in Calls : Rewards!InFlight(d)' /\ Rewards!InFlight(e)' => d = e
  BY <1>1
<1> QED BY <1>2, <1>3, <1>4 DEF CountedIInv, RewardsCounted

LEMMA SaveItemCounts ==
  ASSUME CountedIInv, serial, serial' = serial, NEW c \in Calls, Rewards!SaveItem(c)
  PROVE  RewardsCounted'
<1> DEFINE q == [pointCall[c] EXCEPT !.pc = "done"]
           row == pointCall[c].item
<1>1. /\ pointCall[c].pc = "stock" /\ pointCall[c].op = "redeem"
      /\ pointCall[c] \in PointCall /\ Rewards!Available(row) /\ row \in RewardItem
  BY DEF Rewards!SaveItem, CountedIInv, RewardsIInv, SoundPoint, Working, PointCall
<1>2. q \in PointCall /\ pointCall' = [pointCall EXCEPT ![c] = q]
  BY GotoMoves DEF Rewards!SaveItem, CountedIInv, PointPCs
<1>3. q.pc = "done" /\ q.op = "redeem"
  BY <1>1 DEF PointCall
<1> HIDE DEF q
<1>4. Redeems(c, q)
  BY <1>1, <1>2, <1>3 DEF Redeems, Flying, Working
<1>5. /\ \A d \in Calls : d # c => ~Rewards!InFlight(d) /\ ~Rewards!InFlight(d)'
      /\ \A d \in Calls : d # c => pointCall'[d] = pointCall[d]
      /\ pointCall'[c] = q
  BY <1>4, RedeemsInTurn
<1>6. row = item
  BY <1>1 DEF CountedIInv, RewardsCounted, Working
<1>7. item'.limited = item.limited /\ (item.limited => item'.stock = item.stock - 1)
  BY <1>1, <1>6 DEF Rewards!SaveItem, RewardItem
<1>8. Redeemed' = Redeemed \cup {c} /\ c \notin Redeemed
  BY <1>1, <1>3, <1>5 DEF Redeemed
<1>9. Cardinality(Redeemed') = Cardinality(Redeemed) + 1 /\ Cardinality(Redeemed) \in Nat
  <2>1. IsFiniteSet(Redeemed)
    BY SalesCallsAssumption, FS_Subset DEF Redeemed
  <2> QED BY <1>8, <2>1, FS_AddElement, FS_CardinalityType
<1>10. item'.limited => Cardinality(Redeemed') + item'.stock = Stock
  <2>1. item.stock \in Nat
    BY SalesNumbersAssumption DEF CountedIInv, RewardsIInv, RewardItem
  <2> QED BY <1>7, <1>9, <2>1, SalesNumbersAssumption DEF CountedIInv, RewardsCounted
<1>11. \A d \in Calls : pointCall'[d].pc \notin Working
  BY <1>3, <1>5 DEF Rewards!InFlight, Working
<1>12. \A d, e \in Calls : Rewards!InFlight(d)' /\ Rewards!InFlight(e)' => d = e
  BY <1>5
<1> QED BY <1>10, <1>11, <1>12 DEF RewardsCounted

LEMMA CountedInitSound == Rewards!Init => RewardsCounted
<1> SUFFICES ASSUME Rewards!Init PROVE RewardsCounted
  OBVIOUS
<1>1. \A c \in Calls : pointCall[c].pc = "free" /\ pointCall[c].op = "none"
  BY DEF Rewards!Init, Rewards!FreeCall
<1>2. Redeemed = {} /\ item.stock = Stock
  BY <1>1 DEF Redeemed, Rewards!Init
<1>3. Cardinality(Redeemed) = 0
  BY <1>2, FS_EmptySet
<1> QED BY <1>1, <1>2, <1>3, SalesNumbersAssumption DEF RewardsCounted, Rewards!InFlight

LEMMA CountedNextSound ==
  CountedIInv /\ [Rewards!Next]_(Rewards!vars) => (serial => RewardsCounted)'
<1> SUFFICES ASSUME CountedIInv, [Rewards!Next]_(Rewards!vars), serial' PROVE RewardsCounted'
  OBVIOUS
<1>1. serial' = serial /\ serial
  BY DEF Rewards!Next, Rewards!vars
<1>2. CASE UNCHANGED Rewards!vars
  <2>1. pointCall' = pointCall /\ item' = item /\ Redeemed' = Redeemed
    BY <1>2 DEF Rewards!vars, Redeemed
  <2> QED BY <1>1, <2>1 DEF CountedIInv, RewardsCounted, Rewards!InFlight
<1>3. ASSUME NEW c \in Calls,
             \/ Rewards!Enroll(c) \/ Rewards!Insert(c) \/ Rewards!Earn(c) \/ Rewards!Spend(c)
             \/ Rewards!Redeem(c) \/ Rewards!Find(c) \/ Rewards!Record(c)
             \/ Rewards!SaveEnrollment(c) \/ Rewards!Fail(c)
      PROVE  RewardsCounted'
  <2>1. PICK q : Redeems(c, q) /\ ~(q.op = "redeem" /\ q.pc = "done") /\ item' = item
    BY <1>3, PointSteps DEF CountedIInv
  <2> QED BY <1>1, <2>1, PointStepsCount
<1>4. ASSUME NEW c \in Calls, Rewards!SaveItem(c) PROVE RewardsCounted'
  BY <1>1, <1>4, SaveItemCounts
<1> QED BY <1>2, <1>3, <1>4 DEF Rewards!Next

\* redeem() of a reward with one call at a time: no more of a limited reward are handed
\* out than there are, whichever calls fail half way.
THEOREM RewardsStayWithinStock == Spec => []RewardsWithinStock
<1>1. Init => CountedIInv
  BY RewardsInitSound, CountedInitSound DEF Init, CountedIInv
<1>2. CountedIInv /\ [Next]_vars => CountedIInv'
  BY RewardsNextSound, CountedNextSound
     DEF CountedIInv, Next, PointStep, StockStep, vars, pointVars, Rewards!vars, Goods!Next
<1>3. CountedIInv => RewardsWithinStock
  <2> SUFFICES ASSUME CountedIInv, serial, item.limited
      PROVE  Rewards!Cardinality(Rewards!CallsAt("redeem", {"done"})) <= Stock
    BY DEF RewardsWithinStock, Rewards!RewardsWithinStock
  <2>1. Rewards!Cardinality(Redeemed) = Cardinality(Redeemed)
    BY DEF Rewards!Cardinality, Cardinality, Rewards!IsFiniteSet, IsFiniteSet
  <2>2. Rewards!CallsAt("redeem", {"done"}) = Redeemed
    BY DEF Rewards!CallsAt, Redeemed
  <2>3. item.stock \in Nat /\ Cardinality(Redeemed) + item.stock = Stock
    BY SalesNumbersAssumption DEF CountedIInv, RewardsCounted, RewardsIInv, RewardItem
  <2>4. Cardinality(Redeemed) \in Nat
    BY SalesCallsAssumption, FS_Subset, FS_CardinalityType DEF Redeemed
  <2> QED BY <2>1, <2>2, <2>3, <2>4, SalesNumbersAssumption
<1> QED BY <1>1, <1>2, <1>3, PTL DEF Spec

-----------------------------------------------------------------------------
\* The balances, with one call at a time.

\* What a call has brought to the balance of e.
Counts(q) == q.op \in {"earn", "spend", "redeem"} /\ q.pc \in {"done", "stock", "uncounted"}
Gain(q, e) ==
  IF ~Counts(q) \/ q.on # e THEN 0 ELSE IF q.op = "earn" THEN q.points ELSE -q.points
Gains(calls, e) == [c \in Calls |-> Gain(calls[c], e)]

Enrolled(rows, e) == rows[e].customer # NoId

\* A call that settles holds the row of an enrollment that exists, and a balance is what
\* the calls brought.
BalancesSettled ==
  /\ \A e \in Enrollments : ~Enrolled(enrollment, e) => enrollment[e].balance = 0
  /\ \A c \in Calls : pointCall[c].pc \in {"find", "record", "balance"} =>
       Enrolled(enrollment, pointCall[c].on)
  /\ \A c \in Calls : pointCall[c].pc \in Settling => pointCall[c].row = enrollment[pointCall[c].on]
  /\ \A e \in Enrollments : enrollment[e].balance = Total(Gains(pointCall, e), Calls)

SettledIInv == CountedIInv /\ (serial => BalancesSettled)

LEMMA GainInt == ASSUME NEW q \in PointCall, NEW e PROVE Gain(q, e) \in Int
  BY DEF Gain, PointCall

\* One call moves: every sum moves by what its gain moves.
LEMMA GainsMove ==
  ASSUME NEW calls \in [Calls -> PointCall], NEW c \in Calls, NEW q \in PointCall, NEW e
  PROVE  Total(Gains([calls EXCEPT ![c] = q], e), Calls)
           = Total(Gains(calls, e), Calls) + (Gain(q, e) - Gain(calls[c], e))
<1> DEFINE w == Gains(calls, e)
           v == Gains([calls EXCEPT ![c] = q], e)
<1>1. \A d \in Calls : w[d] \in Int /\ v[d] \in Int
  BY GainInt DEF Gains
<1>2. w[c] = Gain(calls[c], e) /\ v[c] = Gain(q, e) /\ \A d \in Calls : d # c => w[d] = v[d]
  BY DEF Gains
<1> HIDE DEF w, v
<1>3. Total(v, Calls) = Total(w, Calls) + (v[c] - w[c])
  BY <1>1, <1>2, TotalOneMoved, SalesCallsAssumption
<1> QED BY <1>2, <1>3 DEF w, v

\* A step of c that settles nothing: what it holds after is a copy it reads or held.
Holds(c, q) ==
  /\ pointCall' = [pointCall EXCEPT ![c] = q] /\ q \in PointCall
  /\ Rewards!Turn(c) \/ pointCall[c].pc \in Flying
  /\ \A e : Gain(q, e) = Gain(pointCall[c], e)
  /\ q.pc = "find" => Rewards!Exists(q.on)
  /\ q.pc \in Settling =>
       \/ q.row = enrollment[q.on] /\ Rewards!Exists(q.on)
       \/ /\ pointCall[c].pc \in Settling
          /\ q.row = pointCall[c].row /\ q.on = pointCall[c].on

LEMMA GainOf ==
  /\ \A q, e : ~Counts(q) => Gain(q, e) = 0
  /\ \A q, p, e : /\ q.op = p.op /\ q.on = p.on /\ q.points = p.points
                  /\ q.pc \in {"done", "stock", "uncounted"}
                  /\ p.pc \in {"done", "stock", "uncounted"}
                  => Gain(q, e) = Gain(p, e)
  BY DEF Gain, Counts

LEMMA HoldingSteps ==
  ASSUME SettledIInv, serial, NEW c \in Calls,
         \/ Rewards!Enroll(c) \/ Rewards!Earn(c) \/ Rewards!Spend(c) \/ Rewards!Redeem(c)
         \/ Rewards!Find(c) \/ Rewards!Record(c) \/ Rewards!SaveItem(c) \/ Rewards!Fail(c)
  PROVE  enrollment' = enrollment /\ \E q : Holds(c, q)
<1>1. pointCall[c] \in PointCall /\ pointCall \in [Calls -> PointCall] /\ SoundPoint(pointCall[c])
  BY DEF SettledIInv, CountedIInv, RewardsIInv
<1>2. CASE Rewards!Enroll(c)
  <2>1. PICK u \in Items, pc \in {"refused", "insert"} : pointCall' =
          [pointCall EXCEPT ![c].op = "enroll", ![c].on = u, ![c].pc = pc]
    BY <1>2 DEF Rewards!Enroll
  <2> DEFINE q == [pointCall[c] EXCEPT !.op = "enroll", !.on = u, !.pc = pc]
  <2>2. q \in PointCall /\ q.pc = pc /\ pointCall' = [pointCall EXCEPT ![c] = q]
    BY <1>1, <2>1 DEF PointCall, PointOps, PointPCs, Ids
  <2> HIDE DEF q
  <2>3. pointCall[c].pc = "free"
    BY <1>2 DEF Rewards!Enroll, Rewards!Turn
  <2>4. ~Counts(q) /\ ~Counts(pointCall[c])
    BY <2>2, <2>3 DEF Counts
  <2>5. Holds(c, q)
    BY <1>2, <2>2, <2>4, GainOf DEF Rewards!Enroll, Holds, Settling
  <2> QED BY <1>2, <2>5 DEF Rewards!Enroll
<1>3. CASE Rewards!Redeem(c)
  <2>1. PICK e \in Enrollments, pc \in {"find", "refused"} : Rewards!Exists(e) /\ pointCall' =
          [pointCall EXCEPT ![c].op = "redeem", ![c].on = e, ![c].item = item, ![c].pc = pc]
    BY <1>3 DEF Rewards!Redeem
  <2> DEFINE q == [pointCall[c] EXCEPT !.op = "redeem", !.on = e, !.item = item, !.pc = pc]
  <2>2. /\ q \in PointCall /\ q.pc = pc /\ q.on = e
        /\ pointCall' = [pointCall EXCEPT ![c] = q]
    BY <1>1, <2>1 DEF PointCall, PointOps, PointPCs, Ids, SettledIInv, CountedIInv, RewardsIInv
  <2> HIDE DEF q
  <2>3. pointCall[c].pc = "free"
    BY <1>3 DEF Rewards!Redeem, Rewards!Turn
  <2>4. ~Counts(q) /\ ~Counts(pointCall[c])
    BY <2>2, <2>3 DEF Counts
  <2>5. Holds(c, q)
    BY <1>3, <2>1, <2>2, <2>4, GainOf DEF Rewards!Redeem, Holds, Settling
  <2> QED BY <1>3, <2>5 DEF Rewards!Redeem
<1>4. CASE Rewards!Earn(c) \/ Rewards!Spend(c) \/ Rewards!Find(c)
  <2>1. PICK op \in {"earn", "spend", "redeem"}, e \in Enrollments, n \in Nat,
             pc \in {"record", "refused"} :
          /\ pointCall' = [pointCall EXCEPT ![c].op = op, ![c].on = e, ![c].points = n,
                                            ![c].row = enrollment[e], ![c].pc = pc]
          /\ Rewards!Exists(e)
    <3>1. PICK op \in {"earn", "spend", "redeem"}, e \in Enrollments, n \in Nat,
               a \in BOOLEAN : Rewards!Read(c, op, e, n, a) /\ Rewards!Exists(e)
      <4>0. \A r, n : Rewards!Affords(r, n) \in BOOLEAN
        BY DEF Rewards!Affords
      <4>1. CASE Rewards!Earn(c)
        BY <4>1, SalesNumbersAssumption DEF Rewards!Earn
      <4>2. CASE Rewards!Spend(c)
        BY <4>0, <4>2, SalesNumbersAssumption DEF Rewards!Spend
      <4>3. CASE Rewards!Find(c)
        BY <1>1, <4>0, <4>3, SalesNumbersAssumption
           DEF Rewards!Find, SoundPoint, Working, SettledIInv, BalancesSettled, Enrolled,
               Rewards!Exists
      <4> QED BY <1>4, <4>1, <4>2, <4>3
    <3>2. PICK pc \in {"record", "refused"} : pc = IF a THEN "record" ELSE "refused"
      OBVIOUS
    <3> QED BY <3>1, <3>2 DEF Rewards!Read
  <2> DEFINE q == [pointCall[c] EXCEPT !.op = op, !.on = e, !.points = n,
                                       !.row = enrollment[e], !.pc = pc]
  <2>2. /\ q \in PointCall /\ q.pc = pc /\ q.on = e /\ q.row = enrollment[e]
        /\ pointCall' = [pointCall EXCEPT ![c] = q]
    BY <1>1, <2>1 DEF PointCall, PointOps, PointPCs, Ids, SettledIInv, CountedIInv, RewardsIInv
  <2>3. /\ Rewards!Turn(c) \/ pointCall[c].pc \in Flying
        /\ pointCall[c].pc \in {"free", "find"}
    BY <1>4 DEF Rewards!Earn, Rewards!Spend, Rewards!Find, Rewards!Turn, Flying
  <2> HIDE DEF q
  <2>4. ~Counts(q) /\ ~Counts(pointCall[c])
    BY <2>2, <2>3 DEF Counts
  <2>5. \A f : Gain(q, f) = Gain(pointCall[c], f)
    BY <2>4, GainOf
  <2>6. Holds(c, q)
    BY <2>1, <2>2, <2>3, <2>5 DEF Holds
  <2>7. enrollment' = enrollment
    BY <1>4 DEF Rewards!Earn, Rewards!Spend, Rewards!Find
  <2> QED BY <2>6, <2>7
<1>5. CASE Rewards!Record(c) \/ Rewards!SaveItem(c) \/ Rewards!Fail(c)
  <2>1. PICK pc \in PointPCs :
          /\ Rewards!Goto(c, pc) /\ pointCall[c].pc \in Flying
          /\ pc # "find" /\ (pc \in Settling => pointCall[c].pc \in Settling)
          /\ \/ pc \in {"done", "uncounted"} /\ pointCall[c].pc = "stock"
             \/ /\ pc \notin {"done", "stock", "uncounted"}
                /\ pointCall[c].pc \notin {"done", "stock", "uncounted"}
    BY <1>5 DEF Rewards!Record, Rewards!SaveItem, Rewards!Fail,
                Rewards!InFlight, Flying, Settling, PointPCs
  <2> DEFINE q == [pointCall[c] EXCEPT !.pc = pc]
  <2>2. q \in PointCall /\ pointCall' = [pointCall EXCEPT ![c] = q]
    BY <2>1, GotoMoves DEF SettledIInv, CountedIInv
  <2>3. /\ q.op = pointCall[c].op /\ q.on = pointCall[c].on /\ q.points = pointCall[c].points
        /\ q.row = pointCall[c].row /\ q.pc = pc
    BY <1>1 DEF PointCall
  <2> HIDE DEF q
  <2>4. \A e : Gain(q, e) = Gain(pointCall[c], e)
    BY <2>1, <2>3, GainOf DEF Counts
  <2>5. Holds(c, q)
    BY <2>1, <2>2, <2>3, <2>4 DEF Holds
  <2>6. enrollment' = enrollment
    BY <1>5 DEF Rewards!Record, Rewards!SaveItem, Rewards!Fail
  <2> QED BY <2>5, <2>6
<1> QED BY <1>2, <1>3, <1>4, <1>5

LEMMA HoldingKeeps ==
  ASSUME SettledIInv, serial, NEW c \in Calls, NEW q, Holds(c, q), enrollment' = enrollment
  PROVE  BalancesSettled'
<1>1. pointCall \in [Calls -> PointCall] /\ BalancesSettled
  BY DEF SettledIInv, CountedIInv, RewardsIInv
<1>2. \A d \in Calls : pointCall'[d] = IF d = c THEN q ELSE pointCall[d]
  BY <1>1 DEF Holds
<1>4. \A d \in Calls : pointCall'[d].pc \in {"find", "record", "balance"} =>
        Enrolled(enrollment', pointCall'[d].on)
  BY <1>1, <1>2 DEF BalancesSettled, Holds, Rewards!Exists, Enrolled, Settling
<1>5. \A d \in Calls : pointCall'[d].pc \in Settling =>
        pointCall'[d].row = enrollment'[pointCall'[d].on]
  BY <1>1, <1>2 DEF BalancesSettled, Holds
<1>6. ASSUME NEW e \in Enrollments
      PROVE  enrollment'[e].balance = Total(Gains(pointCall', e), Calls)
  <2>1. /\ pointCall' = [pointCall EXCEPT ![c] = q] /\ q \in PointCall
        /\ Gain(q, e) = Gain(pointCall[c], e)
    BY DEF Holds
  <2>2. Total(Gains(pointCall', e), Calls) = Total(Gains(pointCall, e), Calls)
                                             + (Gain(q, e) - Gain(pointCall[c], e))
    BY <1>1, <2>1, GainsMove
  <2>3. Gain(q, e) \in Int /\ enrollment[e].balance \in Int
    BY <2>1, GainInt DEF SettledIInv, CountedIInv, RewardsIInv, PointRow
  <2> QED BY <1>1, <2>1, <2>2, <2>3 DEF BalancesSettled
<1>7. \A e \in Enrollments : ~Enrolled(enrollment', e) => enrollment'[e].balance = 0
  BY <1>1 DEF BalancesSettled
<1> QED BY <1>4, <1>5, <1>6, <1>7 DEF BalancesSettled

\* A step that writes the row of e leaves no other call that works on it.
LEMMA WritesSettle ==
  ASSUME SettledIInv, serial, NEW c \in Calls, pointCall[c].pc \in Flying,
         NEW q \in PointCall, pointCall' = [pointCall EXCEPT ![c] = q], q.pc \in {"stock", "done"},
         NEW e \in Enrollments, NEW r \in PointRow, enrollment' = [enrollment EXCEPT ![e] = r],
         r.customer # NoId,
         \A f \in Enrollments : Gain(q, f) - Gain(pointCall[c], f)
           = IF f = e THEN r.balance - enrollment[e].balance ELSE 0
  PROVE  BalancesSettled'
<1>1. /\ pointCall \in [Calls -> PointCall] /\ BalancesSettled
      /\ enrollment \in [Enrollments -> PointRow]
  BY DEF SettledIInv, CountedIInv, RewardsIInv
<1>2. \A d \in Calls : pointCall'[d].pc \notin {"find", "record", "balance"}
  <2>1. \A d \in Calls : d # c => ~Rewards!InFlight(d)
    BY DEF SettledIInv, CountedIInv, RewardsCounted, Rewards!InFlight, Flying
  <2> QED BY <1>1, <2>1 DEF Rewards!InFlight
<1>3. \A f \in Enrollments : ~Enrolled(enrollment', f) => enrollment'[f].balance = 0
  BY <1>1 DEF BalancesSettled, Enrolled
<1>4. ASSUME NEW f \in Enrollments
      PROVE  enrollment'[f].balance = Total(Gains(pointCall', f), Calls)
  <2>1. Total(Gains(pointCall', f), Calls) = Total(Gains(pointCall, f), Calls)
                                             + (Gain(q, f) - Gain(pointCall[c], f))
    BY <1>1, GainsMove
  <2>2. enrollment[f].balance = Total(Gains(pointCall, f), Calls)
    BY <1>1 DEF BalancesSettled
  <2>3. enrollment[f].balance \in Int /\ r.balance \in Int
    BY <1>1 DEF PointRow
  <2>4. enrollment'[f] = IF f = e THEN r ELSE enrollment[f]
    BY <1>1
  <2> QED BY <2>1, <2>2, <2>3, <2>4
<1> QED BY <1>2, <1>3, <1>4 DEF BalancesSettled, Settling

LEMMA InsertSettles ==
  ASSUME SettledIInv, serial, NEW c \in Calls, Rewards!Insert(c) PROVE BalancesSettled'
<1>1. pointCall[c] \in PointCall /\ SoundPoint(pointCall[c]) /\ pointCall[c].pc = "insert"
  BY DEF SettledIInv, CountedIInv, RewardsIInv, Rewards!Insert
<1>2. PICK e \in Enrollments : ~Rewards!Exists(e) /\ enrollment' =
        [enrollment EXCEPT ![e] = [Rewards!NoRow EXCEPT !.customer = pointCall[c].on]]
  BY DEF Rewards!Insert
<1> DEFINE r == [Rewards!NoRow EXCEPT !.customer = pointCall[c].on]
           q == [pointCall[c] EXCEPT !.pc = "done"]
<1>3. r \in PointRow /\ r.customer = pointCall[c].on /\ r.balance = 0
  BY <1>1, SalesNumbersAssumption DEF SoundPoint, Rewards!NoRow, PointRow
<1>4. r.customer # NoId
  BY <1>1, <1>3, SalesIdsAssumption DEF SoundPoint
<1>5. q \in PointCall /\ pointCall' = [pointCall EXCEPT ![c] = q]
  BY GotoMoves DEF Rewards!Insert, SettledIInv, CountedIInv, PointPCs
<1>6. q.pc = "done" /\ q.op = "enroll"
  BY <1>1 DEF PointCall, SoundPoint
<1>7. ~Counts(q) /\ ~Counts(pointCall[c])
  BY <1>1, <1>6 DEF Counts
<1>8. enrollment[e].balance = 0
  BY <1>2 DEF SettledIInv, BalancesSettled, Enrolled, Rewards!Exists
<1> HIDE DEF q, r
<1>9. \A f \in Enrollments : Gain(q, f) - Gain(pointCall[c], f)
        = IF f = e THEN r.balance - enrollment[e].balance ELSE 0
  BY <1>3, <1>7, <1>8, GainOf
<1>10. pointCall[c].pc \in Flying
  BY <1>1 DEF Flying
<1> QED BY <1>2, <1>3, <1>4, <1>5, <1>6, <1>9, <1>10, WritesSettle DEF r

LEMMA SaveSettles ==
  ASSUME SettledIInv, serial, NEW c \in Calls, Rewards!SaveEnrollment(c) PROVE BalancesSettled'
<1> DEFINE row == pointCall[c].row
           op  == pointCall[c].op
           n   == pointCall[c].points
           e   == pointCall[c].on
           r   == Rewards!Settled(op, n, row)
<1>1. /\ pointCall[c] \in PointCall /\ SoundPoint(pointCall[c]) /\ pointCall[c].pc = "balance"
      /\ BalancesSettled /\ pointCall \in [Calls -> PointCall]
  BY DEF SettledIInv, CountedIInv, RewardsIInv, Rewards!SaveEnrollment
<1>2. /\ e \in Enrollments /\ op \in {"earn", "spend", "redeem"} /\ n \in Nat
      /\ row = enrollment[e] /\ row \in PointRow /\ row.customer # NoId
  BY <1>1 DEF SoundPoint, Working, PointCall, BalancesSettled, Settling, Enrolled
<1>3. CASE r.redeemed <= Widest
  <2>1. PICK pc \in {"stock", "done"} :
          pc = IF pointCall[c].op = "redeem" THEN "stock" ELSE "done"
    OBVIOUS
  <2>2. enrollment' = [enrollment EXCEPT ![e] = r] /\ Rewards!Goto(c, pc)
    BY <1>3, <2>1 DEF Rewards!SaveEnrollment
  <2>3. op # "earn" => Rewards!Affords(row, n)
    BY <1>1 DEF SoundPoint, Settling
  <2>4. r \in PointRow
    BY <1>2, <1>3, <2>3, SettledIsRow DEF SettledIInv, CountedIInv
  <2>5. r.customer = row.customer
        /\ r.balance = IF op = "earn" THEN row.balance + n ELSE row.balance - n
    BY <1>2 DEF Rewards!Settled, PointRow
  <2> DEFINE q == [pointCall[c] EXCEPT !.pc = pc]
  <2>6. q \in PointCall /\ pointCall' = [pointCall EXCEPT ![c] = q]
    BY <2>2, GotoMoves DEF SettledIInv, CountedIInv, PointPCs
  <2>7. q.op = op /\ q.on = e /\ q.points = n /\ q.pc = pc
    BY <1>1 DEF PointCall
  <2>8. Counts(q) /\ ~Counts(pointCall[c])
    BY <1>1, <1>2, <2>7 DEF Counts
  <2> HIDE DEF q
  <2>9. \A f \in Enrollments : /\ Gain(pointCall[c], f) = 0
                               /\ Gain(q, f) = IF f # e THEN 0 ELSE IF op = "earn" THEN n ELSE -n
    BY <2>7, <2>8 DEF Gain
  <2>10. \A f \in Enrollments : Gain(q, f) - Gain(pointCall[c], f)
           = IF f = e THEN r.balance - enrollment[e].balance ELSE 0
    <3>1. row.balance \in Int
      BY <1>2 DEF PointRow
    <3> HIDE DEF r, op, n, e
    <3> QED BY <1>2, <2>5, <2>9, <3>1
  <2>11. pointCall[c].pc \in Flying /\ q.pc \in {"stock", "done"}
    BY <1>1, <2>7 DEF Flying
  <2> HIDE DEF r, op, n, e, row
  <2> QED BY <1>2, <2>2, <2>4, <2>5, <2>6, <2>10, <2>11, WritesSettle
<1>4. CASE ~(r.redeemed <= Widest)
  <2>1. Rewards!Goto(c, "unsettled") /\ enrollment' = enrollment
    BY <1>4 DEF Rewards!SaveEnrollment
  <2> DEFINE q == [pointCall[c] EXCEPT !.pc = "unsettled"]
  <2>2. q \in PointCall /\ pointCall' = [pointCall EXCEPT ![c] = q]
    BY <2>1, GotoMoves DEF SettledIInv, CountedIInv, PointPCs
  <2>3. q.pc = "unsettled"
    BY <1>1 DEF PointCall
  <2> HIDE DEF q
  <2>4. ~Counts(q) /\ ~Counts(pointCall[c]) /\ pointCall[c].pc \in Flying
    BY <1>1, <2>3 DEF Counts, Flying
  <2>5. Holds(c, q)
    BY <2>2, <2>3, <2>4, GainOf DEF Holds, Settling
  <2> QED BY <2>1, <2>5, HoldingKeeps
<1> QED BY <1>3, <1>4

LEMMA SettledNextSound ==
  SettledIInv /\ [Rewards!Next]_(Rewards!vars) => (serial => BalancesSettled)'
<1> SUFFICES ASSUME SettledIInv, [Rewards!Next]_(Rewards!vars), serial' PROVE BalancesSettled'
  OBVIOUS
<1>1. serial' = serial /\ serial
  BY DEF Rewards!Next, Rewards!vars
<1>2. CASE UNCHANGED Rewards!vars
  <2>1. pointCall' = pointCall /\ enrollment' = enrollment
    BY <1>2 DEF Rewards!vars
  <2> QED BY <1>1, <2>1 DEF SettledIInv, BalancesSettled
<1>3. ASSUME NEW c \in Calls,
             \/ Rewards!Enroll(c) \/ Rewards!Earn(c) \/ Rewards!Spend(c) \/ Rewards!Redeem(c)
             \/ Rewards!Find(c) \/ Rewards!Record(c) \/ Rewards!SaveItem(c) \/ Rewards!Fail(c)
      PROVE  BalancesSettled'
  <2>1. enrollment' = enrollment /\ \E q : Holds(c, q)
    BY <1>1, <1>3, HoldingSteps
  <2> QED BY <1>1, <2>1, HoldingKeeps
<1> QED BY <1>1, <1>2, <1>3, InsertSettles, SaveSettles DEF Rewards!Next

LEMMA SettledInitSound == Rewards!Init => BalancesSettled
<1> SUFFICES ASSUME Rewards!Init PROVE BalancesSettled
  OBVIOUS
<1>1. \A c \in Calls : pointCall[c].pc = "free"
  BY DEF Rewards!Init, Rewards!FreeCall
<1>2. \A e \in Enrollments : enrollment[e].balance = 0
  BY DEF Rewards!Init, Rewards!NoRow
<1>3. ASSUME NEW e \in Enrollments PROVE Total(Gains(pointCall, e), Calls) = 0
  <2> DEFINE w == Gains(pointCall, e)
  <2>1. \A c \in Calls : w[c] = 0
    BY <1>1 DEF Gains, Gain, Counts
  <2> HIDE DEF w
  <2>2. Total(w, Calls) = 0
    BY <2>1, TotalZero, SalesCallsAssumption
  <2> QED BY <2>2 DEF w
<1> QED BY <1>1, <1>2, <1>3 DEF BalancesSettled, Settling

-----------------------------------------------------------------------------
\* The sums that BalanceIsSettled takes are the gains of the calls.

PointsBy(calls) == [c \in Calls |-> calls[c].points]

LEMMA PointsOfTotal ==
  ASSUME NEW cs \in SUBSET Calls PROVE Rewards!PointsOf(cs) = Total(PointsBy(pointCall), cs)
<1> DEFINE w == PointsBy(pointCall)
<1>1. Rewards!PointsOf(cs)
        = (CHOOSE g : g = [s \in SUBSET cs |->
             IF s = {} THEN 0 ELSE pointCall[Chosen(s)].points + g[s \ {Chosen(s)}]])[cs]
  BY DEF Rewards!PointsOf, Rewards!MapThenSumSet, Rewards!MapThenFoldSet, Chosen
<1>2. \A g : g = [s \in SUBSET cs |->
                    IF s = {} THEN 0 ELSE pointCall[Chosen(s)].points + g[s \ {Chosen(s)}]]
               <=> Sums(g, cs, w)
  <2>1. \A s \in SUBSET cs : s # {} => w[Chosen(s)] = pointCall[Chosen(s)].points
    BY ChosenIn DEF PointsBy
  <2> HIDE DEF w
  <2> QED BY <2>1 DEF Sums
<1> QED BY <1>1, <1>2 DEF Total

LEMMA SettlementsTotal ==
  ASSUME RewardsIInv, NEW e \in Enrollments
  PROVE  Rewards!PointsOf(Rewards!Settlements("earn", e))
           - Rewards!PointsOf(Rewards!Settlements("spend", e) \cup Rewards!Settlements("redeem", e))
             = Total(Gains(pointCall, e), Calls)
<1> DEFINE In  == Rewards!Settlements("earn", e)
           Out == Rewards!Settlements("spend", e) \cup Rewards!Settlements("redeem", e)
           p   == PointsBy(pointCall)
           i   == [c \in Calls |-> IF c \in In THEN p[c] ELSE 0]
           o   == [c \in Calls |-> IF c \in Out THEN p[c] ELSE 0]
           d   == Gains(pointCall, e)
<1>1. In \in SUBSET Calls /\ Out \in SUBSET Calls
  BY DEF Rewards!Settlements, Rewards!CallsAt
<1>2. \A c \in Calls : p[c] \in Int
  BY DEF PointsBy, RewardsIInv, PointCall
<1>3. \A c \in Calls : d[c] = i[c] - o[c]
  <2> SUFFICES ASSUME NEW c \in Calls PROVE d[c] = i[c] - o[c]
    OBVIOUS
  <2>1. /\ c \in In <=> Counts(pointCall[c]) /\ pointCall[c].on = e /\ pointCall[c].op = "earn"
        /\ c \in Out <=> /\ Counts(pointCall[c]) /\ pointCall[c].on = e
                         /\ pointCall[c].op \in {"spend", "redeem"}
    BY DEF Rewards!Settlements, Rewards!CallsAt, Counts
  <2>2. p[c] = pointCall[c].points /\ d[c] = Gain(pointCall[c], e)
    BY DEF PointsBy, Gains
  <2>3. i[c] = (IF c \in In THEN p[c] ELSE 0) /\ o[c] = (IF c \in Out THEN p[c] ELSE 0)
    OBVIOUS
  <2>4. p[c] \in Int
    BY <1>2
  <2> HIDE DEF In, Out, p, i, o, d
  <2> QED BY <2>1, <2>2, <2>3, <2>4 DEF Gain, Counts
<1>4. \A c \in Calls : /\ i[c] \in Int /\ o[c] \in Int
                       /\ i[c] = IF c \in In THEN p[c] ELSE 0
                       /\ o[c] = IF c \in Out THEN p[c] ELSE 0
  BY <1>2
<1>5. Rewards!PointsOf(In) = Total(p, In) /\ Rewards!PointsOf(Out) = Total(p, Out)
  BY <1>1, PointsOfTotal
<1> HIDE DEF In, Out, p, i, o, d
<1>6. Total(p, In) = Total(i, Calls) /\ Total(p, Out) = Total(o, Calls)
  BY <1>1, <1>4, TotalWithin, SalesCallsAssumption
<1>7. Total(i, Calls) - Total(o, Calls) = Total(d, Calls)
  BY <1>3, <1>4, TotalDifference, SalesCallsAssumption
<1> QED BY <1>5, <1>6, <1>7 DEF In, Out, d

\* earn(), redeem() and redeemCashback() with one call at a time: a balance is what was
\* earned less what was spent, over the calls that came as far as saving it, so it misses
\* the transactions of the calls that failed before, and none besides.
THEOREM BalancesAreSettled == Spec => []BalanceIsSettled
<1>1. Init => SettledIInv
  BY RewardsInitSound, CountedInitSound, SettledInitSound DEF Init, SettledIInv, CountedIInv
<1>2. SettledIInv /\ [Next]_vars => SettledIInv'
  BY RewardsNextSound, CountedNextSound, SettledNextSound
     DEF SettledIInv, CountedIInv, Next, PointStep, StockStep, vars, pointVars, Rewards!vars,
         Goods!Next
<1>3. SettledIInv => BalanceIsSettled
  BY SettlementsTotal
     DEF SettledIInv, CountedIInv, BalancesSettled, BalanceIsSettled, Rewards!BalanceIsSettled
<1> QED BY <1>1, <1>2, <1>3, PTL DEF Spec

-----------------------------------------------------------------------------
\* The goods.

LevelRow == [exists : BOOLEAN, onHand : Int]
LevelChange == [at : Items, by : Int]

GoodsPCs == {"free", "record", "read", "save", "done", "refused", "failed"}
GoodsOps == {"none", "receive", "return", "sale", "adjust", "transfer"}

GoodsCall == [op : GoodsOps, pc : GoodsPCs, changes : Seq(LevelChange),
              todo : Seq(LevelChange), row : LevelRow]

\* A call has still to make some of its changes, and one at least before it saves.
GoodsShape(q) ==
  /\ Len(q.todo) <= Len(q.changes)
  /\ q.pc \in {"record", "read", "save"} => q.todo # <<>>

GoodsIInv ==
  /\ level \in [Items -> LevelRow]
  /\ stockCall \in [Calls -> GoodsCall]
  /\ \A c \in Calls : GoodsShape(stockCall[c])

LEMMA GoodsMove ==
  ASSUME GoodsIInv, NEW c \in Calls, NEW q \in GoodsCall, GoodsShape(q),
         stockCall' = [stockCall EXCEPT ![c] = q], level' \in [Items -> LevelRow]
  PROVE  GoodsIInv'
<1>1. stockCall' \in [Calls -> GoodsCall]
  BY DEF GoodsIInv
<1>2. ASSUME NEW d \in Calls PROVE GoodsShape(stockCall'[d])
  BY DEF GoodsIInv
<1> QED BY <1>1, <1>2 DEF GoodsIInv

LEMMA FreeGoodsCall == Goods!FreeCall \in GoodsCall /\ GoodsShape(Goods!FreeCall)
<1>1. Goods!NoRow \in LevelRow
  BY DEF Goods!NoRow, LevelRow
<1> QED BY <1>1 DEF Goods!FreeCall, GoodsCall, GoodsOps, GoodsPCs, GoodsShape

\* A call that decides on a movement.
LEMMA AskKeeps ==
  ASSUME GoodsIInv, NEW c \in Calls, NEW op \in GoodsOps, NEW changes \in Seq(LevelChange),
         changes # <<>>, NEW accepted, Goods!Ask(c, op, changes, accepted)
  PROVE  GoodsIInv'
<1>1. PICK pc \in {"record", "refused"} : stockCall' = [stockCall EXCEPT ![c] =
        [Goods!FreeCall EXCEPT !.op = op, !.changes = changes, !.todo = changes, !.pc = pc]]
  BY DEF Goods!Ask
<1> DEFINE q == [Goods!FreeCall EXCEPT !.op = op, !.changes = changes, !.todo = changes,
                                       !.pc = pc]
<1>2. Goods!FreeCall \in GoodsCall
  BY FreeGoodsCall
<1>3. pc \in GoodsPCs
  BY DEF GoodsPCs
<1>4. q \in GoodsCall /\ q.todo = changes /\ q.changes = changes
  BY <1>2, <1>3 DEF GoodsCall
<1>5. stockCall' = [stockCall EXCEPT ![c] = q]
  BY <1>1
<1> HIDE DEF q
<1>6. GoodsShape(q)
  BY <1>4 DEF GoodsShape
<1>7. level' = level
  BY DEF Goods!Ask
<1> QED BY <1>4, <1>5, <1>6, <1>7, GoodsMove DEF GoodsIInv

LEMMA AskersKeep ==
  ASSUME GoodsIInv, NEW c \in Calls,
         \/ Goods!Receive(c) \/ Goods!Return(c) \/ Goods!Sell(c) \/ Goods!Adjust(c)
         \/ Goods!Transfer(c)
  PROVE  GoodsIInv'
<1>1. \A w \in Items, n \in Int : Goods!Change(w, n) \in LevelChange
  BY DEF Goods!Change, LevelChange
<1> DEFINE one(w, n) == <<Goods!Change(w, n)>>
<1>2. \A w \in Items, n \in Int : one(w, n) \in Seq(LevelChange) /\ one(w, n) # <<>>
  BY <1>1
<1>3. CASE Goods!Receive(c)
  <2>1. PICK w \in Items, n \in Numbers : Goods!Ask(c, "receive", one(w, n), TRUE)
    BY <1>3 DEF Goods!Receive
  <2>2. n \in Int
    BY SalesNumbersAssumption
  <2> HIDE DEF one
  <2> QED BY <1>2, <2>1, <2>2, AskKeeps DEF GoodsOps
<1>4. CASE Goods!Return(c)
  <2>1. PICK w \in Items, n \in Numbers : Goods!Ask(c, "return", one(w, n), TRUE)
    BY <1>4 DEF Goods!Return
  <2>2. n \in Int
    BY SalesNumbersAssumption
  <2> HIDE DEF one
  <2> QED BY <1>2, <2>1, <2>2, AskKeeps DEF GoodsOps
<1>5. CASE Goods!Sell(c)
  <2>1. PICK w \in Items, n \in Numbers :
          Goods!Ask(c, "sale", one(w, -n), Goods!Sufficient(w, n))
    BY <1>5 DEF Goods!Sell
  <2>2. -n \in Int
    BY SalesNumbersAssumption
  <2> HIDE DEF one
  <2> QED BY <1>2, <2>1, <2>2, AskKeeps DEF GoodsOps
<1>6. CASE Goods!Adjust(c)
  <2>1. PICK w \in Items, n \in Numbers, sign \in {-1, 1} :
          Goods!Ask(c, "adjust", one(w, sign * n), TRUE)
    BY <1>6 DEF Goods!Adjust
  <2>2. sign * n \in Int
    BY SalesNumbersAssumption
  <2> HIDE DEF one
  <2> QED BY <1>2, <2>1, <2>2, AskKeeps DEF GoodsOps
<1>7. CASE Goods!Transfer(c)
  <2>1. PICK w \in Items, v \in Items, n \in Numbers :
          Goods!Ask(c, "transfer", <<Goods!Change(w, -n), Goods!Change(v, n)>>,
                    w # v /\ Goods!Sufficient(w, n))
    BY <1>7 DEF Goods!Transfer
  <2> DEFINE two == <<Goods!Change(w, -n), Goods!Change(v, n)>>
  <2>2. n \in Int /\ -n \in Int
    BY SalesNumbersAssumption
  <2>3. two \in Seq(LevelChange) /\ two # <<>>
    BY <1>1, <2>2
  <2> HIDE DEF two
  <2>4. Goods!Ask(c, "transfer", two, w # v /\ Goods!Sufficient(w, n))
    BY <2>1 DEF two
  <2> QED BY <2>3, <2>4, AskKeeps DEF GoodsOps
<1> QED BY <1>3, <1>4, <1>5, <1>6, <1>7

\* A call that goes on.
LEMMA MoversKeep ==
  ASSUME GoodsIInv, NEW c \in Calls,
         Goods!Record(c) \/ Goods!ReadLevel(c) \/ Goods!SaveLevel(c) \/ Goods!Fail(c)
  PROVE  GoodsIInv'
<1>1. stockCall[c] \in GoodsCall /\ GoodsShape(stockCall[c])
  BY DEF GoodsIInv
<1>2. CASE Goods!Record(c) \/ Goods!Fail(c)
  <2>1. PICK pc \in {"read", "failed"} :
          /\ stockCall' = [stockCall EXCEPT ![c].pc = pc] /\ level' = level
          /\ pc = "read" => stockCall[c].pc = "record"
    BY <1>2 DEF Goods!Record, Goods!Fail, Goods!Goto
  <2> DEFINE q == [stockCall[c] EXCEPT !.pc = pc]
  <2>2. /\ q \in GoodsCall /\ q.pc = pc /\ q.todo = stockCall[c].todo
        /\ q.changes = stockCall[c].changes /\ stockCall' = [stockCall EXCEPT ![c] = q]
    BY <1>1, <2>1 DEF GoodsCall, GoodsPCs
  <2> HIDE DEF q
  <2>3. GoodsShape(q)
    BY <1>1, <2>1, <2>2 DEF GoodsShape
  <2> QED BY <2>1, <2>2, <2>3, GoodsMove DEF GoodsIInv
<1>3. CASE Goods!ReadLevel(c)
  <2>1. /\ stockCall[c].pc = "read" /\ level' = level
        /\ stockCall' = [stockCall EXCEPT ![c].row = level[Head(stockCall[c].todo).at],
                                          ![c].pc = "save"]
    BY <1>3 DEF Goods!ReadLevel
  <2>2. stockCall[c].todo \in Seq(LevelChange) /\ stockCall[c].todo # <<>>
    BY <1>1, <2>1 DEF GoodsCall, GoodsShape
  <2>3. Head(stockCall[c].todo) \in LevelChange
    BY <2>2
  <2>4. PICK r \in LevelRow : r = level[Head(stockCall[c].todo).at]
    BY <2>3 DEF GoodsIInv, LevelChange
  <2> DEFINE q == [stockCall[c] EXCEPT !.row = r, !.pc = "save"]
  <2>5. /\ q \in GoodsCall /\ q.pc = "save" /\ q.todo = stockCall[c].todo
        /\ q.changes = stockCall[c].changes /\ stockCall' = [stockCall EXCEPT ![c] = q]
    BY <1>1, <2>1, <2>4 DEF GoodsCall, GoodsPCs
  <2> HIDE DEF q
  <2>6. GoodsShape(q)
    BY <1>1, <2>2, <2>5 DEF GoodsShape
  <2> QED BY <2>1, <2>5, <2>6, GoodsMove DEF GoodsIInv
<1>4. CASE Goods!SaveLevel(c)
  <2>1. PICK change : change = Head(stockCall[c].todo)
    OBVIOUS
  <2>2. PICK pc \in {"done", "read"} :
          pc = IF Len(stockCall[c].todo) = 1 THEN "done" ELSE "read"
    OBVIOUS
  <2>3. PICK rest : rest = Tail(stockCall[c].todo)
    OBVIOUS
  <2>4. /\ stockCall[c].pc = "save"
        /\ level' = [level EXCEPT ![change.at] = Goods!Moved(stockCall[c].row, change.by)]
        /\ stockCall' = [stockCall EXCEPT ![c].todo = Tail(@), ![c].pc = pc]
    BY <1>4, <2>1, <2>2 DEF Goods!SaveLevel
  <2>5. /\ stockCall[c].todo \in Seq(LevelChange) /\ stockCall[c].todo # <<>>
        /\ Len(stockCall[c].todo) <= Len(stockCall[c].changes)
        /\ stockCall[c].changes \in Seq(LevelChange)
    BY <1>1, <2>4 DEF GoodsCall, GoodsShape
  <2>6. /\ change \in LevelChange /\ rest \in Seq(LevelChange)
        /\ Len(rest) <= Len(stockCall[c].changes)
        /\ Len(stockCall[c].todo) # 1 => rest # <<>>
    <3> DEFINE todo == stockCall[c].todo
    <3>1. todo \in Seq(LevelChange) /\ todo # <<>>
      BY <2>5
    <3>2. Len(stockCall[c].changes) \in Nat /\ Len(todo) <= Len(stockCall[c].changes)
      BY <2>5
    <3> HIDE DEF todo
    <3>3. Head(todo) \in LevelChange /\ Tail(todo) \in Seq(LevelChange)
      BY <3>1
    <3>4. Len(Tail(todo)) = Len(todo) - 1 /\ Len(todo) \in Nat
      BY <3>1
    <3>5. Tail(todo) = <<>> => Len(todo) = 1
      BY <3>1, <3>4
    <3> QED BY <2>1, <2>3, <3>2, <3>3, <3>4, <3>5 DEF todo
  <2> DEFINE q == [stockCall[c] EXCEPT !.todo = rest, !.pc = pc]
  <2>7. stockCall' = [stockCall EXCEPT ![c] = q]
    BY <1>1, <2>3, <2>4 DEF GoodsIInv, GoodsCall
  <2>8. q \in GoodsCall /\ q.pc = pc /\ q.todo = rest /\ q.changes = stockCall[c].changes
    BY <1>1, <2>6 DEF GoodsCall, GoodsPCs
  <2> HIDE DEF q
  <2>9. GoodsShape(q)
    BY <2>2, <2>6, <2>8 DEF GoodsShape
  <2>10. Goods!Moved(stockCall[c].row, change.by) \in LevelRow
    BY <1>1, <2>6 DEF Goods!Moved, LevelRow, GoodsCall, LevelChange
  <2>11. level' \in [Items -> LevelRow]
    BY <2>4, <2>10 DEF GoodsIInv
  <2> QED BY <2>7, <2>8, <2>9, <2>11, GoodsMove
<1> QED BY <1>2, <1>3, <1>4

LEMMA GoodsInductive == Spec => []GoodsIInv
<1>1. Init => GoodsIInv
  <2> SUFFICES ASSUME Goods!Init PROVE GoodsIInv
    BY DEF Init
  <2>1. Goods!NoRow \in LevelRow
    BY DEF Goods!NoRow, LevelRow
  <2> QED BY <2>1, FreeGoodsCall DEF Goods!Init, GoodsIInv
<1>2. GoodsIInv /\ [Next]_vars => GoodsIInv'
  <2> SUFFICES ASSUME GoodsIInv, [Next]_vars PROVE GoodsIInv'
    OBVIOUS
  <2>1. CASE UNCHANGED stockVars
    BY <2>1 DEF stockVars, GoodsIInv
  <2>2. CASE Goods!Next
    BY <2>2, AskersKeep, MoversKeep DEF Goods!Next
  <2> QED BY <2>1, <2>2 DEF Next, PointStep, StockStep, vars
<1> QED BY <1>1, <1>2, PTL DEF Spec

LEMMA GoodsTypeCorrect == GoodsIInv => Goods!TypeOK
  BY DEF GoodsIInv, LevelRow, GoodsShape, Goods!TypeOK

\* The rows and calls of the two services keep their types; among them, no balance of
\* points and no stock of a reward is negative, whichever copies are saved last.
THEOREM SalesTypeCorrect == Spec => []TypeOK
<1>1. RewardsIInv /\ GoodsIInv => TypeOK
  BY NeverNegative, GoodsTypeCorrect DEF TypeOK
<1> QED BY <1>1, PointsInductive, GoodsInductive, PTL

-----------------------------------------------------------------------------
\* What changes add to a warehouse.

EffectOn(w, change) == IF change.at = w THEN change.by ELSE 0
Effects(w, cs) == [i \in DOMAIN cs |-> EffectOn(w, cs[i])]

LEMMA AddedTotal ==
  ASSUME NEW w, NEW cs \in Seq(LevelChange)
  PROVE  Goods!Added(w, cs) = Total(Effects(w, cs), DOMAIN cs)
<1> DEFINE S == {i \in DOMAIN cs : cs[i].at = w}
           b == [i \in DOMAIN cs |-> cs[i].by]
           v == Effects(w, cs)
<1>1. Goods!Added(w, cs)
        = (CHOOSE g : g = [s \in SUBSET S |->
             IF s = {} THEN 0 ELSE cs[Chosen(s)].by + g[s \ {Chosen(s)}]])[S]
  BY DEF Goods!Added, Goods!MapThenSumSet, Goods!MapThenFoldSet, Chosen
<1>2. \A g : g = [s \in SUBSET S |->
                    IF s = {} THEN 0 ELSE cs[Chosen(s)].by + g[s \ {Chosen(s)}]]
               <=> Sums(g, S, b)
  <2>1. \A s \in SUBSET S : s # {} => b[Chosen(s)] = cs[Chosen(s)].by
    BY ChosenIn
  <2> HIDE DEF b
  <2> QED BY <2>1 DEF Sums
<1>3. IsFiniteSet(DOMAIN cs) /\ S \in SUBSET DOMAIN cs
  <2>1. DOMAIN cs = 1..Len(cs) /\ Len(cs) \in Nat
    OBVIOUS
  <2> QED BY <2>1, FS_Interval
<1>4. /\ \A i \in DOMAIN cs : v[i] \in Int
      /\ \A i \in S : v[i] = b[i]
      /\ \A i \in DOMAIN cs \ S : v[i] = 0
  <2>1. \A i \in DOMAIN cs : cs[i] \in LevelChange
    OBVIOUS
  <2>2. \A i \in DOMAIN cs : v[i] = EffectOn(w, cs[i]) /\ b[i] = cs[i].by
    BY DEF Effects
  <2>3. \A x \in LevelChange : x.by \in Int
    BY DEF LevelChange
  <2> HIDE DEF v, b
  <2> QED BY <2>1, <2>2, <2>3 DEF EffectOn
<1>5. Goods!Added(w, cs) = Total(b, S)
  BY <1>1, <1>2 DEF Total
<1> HIDE DEF b, v, S
<1>6. Total(b, S) = Total(v, DOMAIN cs)
  BY <1>3, <1>4, TotalWithin
<1> QED BY <1>5, <1>6 DEF v

LEMMA AddedInt ==
  ASSUME NEW w, NEW cs \in Seq(LevelChange) PROVE Goods!Added(w, cs) \in Int
<1> DEFINE v == Effects(w, cs)
<1>1. \A i \in DOMAIN cs : v[i] \in Int
  <2>1. \A i \in DOMAIN cs : cs[i] \in LevelChange
    OBVIOUS
  <2>2. \A x \in LevelChange : EffectOn(w, x) \in Int
    BY DEF LevelChange, EffectOn
  <2> QED BY <2>1, <2>2 DEF Effects
<1>2. IsFiniteSet(DOMAIN cs)
  <2>1. DOMAIN cs = 1..Len(cs) /\ Len(cs) \in Nat
    OBVIOUS
  <2> QED BY <2>1, FS_Interval
<1> HIDE DEF v
<1>3. Total(v, DOMAIN cs) \in Int
  BY <1>1, <1>2, TotalInt
<1> QED BY <1>3, AddedTotal DEF v

LEMMA AddedNone == ASSUME NEW w PROVE Goods!Added(w, <<>>) = 0
<1>1. DOMAIN <<>> = {}
  OBVIOUS
<1>2. <<>> \in Seq(LevelChange)
  OBVIOUS
<1> QED BY <1>1, <1>2, AddedTotal, TotalEmpty

LEMMA AddedOne ==
  ASSUME NEW w, NEW cs \in Seq(LevelChange), Len(cs) = 1
  PROVE  Goods!Added(w, cs) = EffectOn(w, cs[1])
<1> DEFINE v == Effects(w, cs)
<1>1. DOMAIN cs = {1} /\ cs[1] \in LevelChange
  OBVIOUS
<1>2. v[1] = EffectOn(w, cs[1]) /\ v[1] \in Int
  BY <1>1 DEF Effects, EffectOn, LevelChange
<1>3. Goods!Added(w, cs) = Total(v, {1})
  BY <1>1, AddedTotal
<1> HIDE DEF v
<1> QED BY <1>2, <1>3, TotalOfOne

LEMMA AddedTwo ==
  ASSUME NEW w, NEW cs \in Seq(LevelChange), Len(cs) = 2
  PROVE  Goods!Added(w, cs) = EffectOn(w, cs[1]) + EffectOn(w, cs[2])
<1> DEFINE v == Effects(w, cs)
<1>1. DOMAIN cs = {1, 2} /\ cs[1] \in LevelChange /\ cs[2] \in LevelChange
  OBVIOUS
<1>2. /\ v[1] = EffectOn(w, cs[1]) /\ v[1] \in Int
      /\ v[2] = EffectOn(w, cs[2]) /\ v[2] \in Int
  BY <1>1 DEF Effects, EffectOn, LevelChange
<1>3. Goods!Added(w, cs) = Total(v, {1, 2})
  BY <1>1, AddedTotal
<1>4. IsFiniteSet({1, 2}) /\ {1, 2} \ {1} = {2}
  <2>1. {1, 2} = {1} \cup {2}
    OBVIOUS
  <2>2. IsFiniteSet({1} \cup {2})
    BY FS_Singleton, FS_AddElement
  <2>3. {1, 2} \ {1} = {2}
    OBVIOUS
  <2> QED BY <2>1, <2>2, <2>3
<1> HIDE DEF v
<1>5. Total(v, {1, 2}) = v[1] + Total(v, {1, 2} \ {1})
  <2>1. \A i \in {1, 2} : v[i] \in Int
    BY <1>2
  <2> QED BY <1>4, <2>1, TotalTake
<1>6. Total(v, {2}) = v[2]
  BY <1>2, TotalOfOne
<1> QED BY <1>2, <1>3, <1>4, <1>5, <1>6

\* One change or two.
LEMMA ShortSequence ==
  ASSUME NEW S, NEW s \in Seq(S), s # <<>>, Len(s) <= 2
  PROVE  /\ Len(s) \in {1, 2} /\ Head(s) = s[1] /\ Head(s) \in S /\ Tail(s) \in Seq(S)
         /\ Len(s) = 1 => Tail(s) = <<>>
         /\ Len(s) = 2 => Len(Tail(s)) = 1 /\ Tail(s)[1] = s[2]
<1>1. PICK n \in Nat : n = Len(s)
  OBVIOUS
<1>2. n # 0
  BY <1>1
<1>3. Len(s) \in {1, 2}
  <2>1. n = 1 \/ n = 2
    BY <1>1, <1>2
  <2> QED BY <1>1, <2>1
<1>4. Head(s) = s[1]
  OBVIOUS
<1>5. Head(s) \in S
  OBVIOUS
<1>6. Tail(s) \in Seq(S)
  OBVIOUS
<1>7. Len(Tail(s)) = Len(s) - 1
  OBVIOUS
<1>8. Len(s) = 1 => Tail(s) = <<>>
  <2> SUFFICES ASSUME Len(s) = 1 PROVE Tail(s) = <<>>
    OBVIOUS
  <2>1. PICK t \in Seq(S) : t = Tail(s)
    BY <1>6
  <2>2. Len(t) = 0
    BY <1>7, <2>1
  <2>3. t = <<>>
    BY <2>2
  <2> QED BY <2>1, <2>3
<1>9. Len(s) = 2 => Tail(s)[1] = s[2]
  OBVIOUS
<1> QED BY <1>3, <1>4, <1>5, <1>6, <1>7, <1>8, <1>9

\* A call makes its first change, then those that are left.
LEMMA AddedFirst ==
  ASSUME NEW w, NEW cs \in Seq(LevelChange), cs # <<>>, Len(cs) <= 2
  PROVE  Goods!Added(w, cs) = EffectOn(w, Head(cs)) + Goods!Added(w, Tail(cs))
<1>1. /\ Len(cs) \in {1, 2} /\ Head(cs) = cs[1] /\ cs[1] \in LevelChange
      /\ Tail(cs) \in Seq(LevelChange)
      /\ Len(cs) = 1 => Tail(cs) = <<>>
      /\ Len(cs) = 2 => Len(Tail(cs)) = 1 /\ Tail(cs)[1] = cs[2]
  BY ShortSequence
<1>2. EffectOn(w, cs[1]) \in Int
  BY <1>1 DEF EffectOn, LevelChange
<1>3. CASE Len(cs) = 1
  <2>1. Tail(cs) = <<>>
    BY <1>1, <1>3
  <2>2. Goods!Added(w, cs) = EffectOn(w, cs[1])
    BY <1>3, AddedOne
  <2>3. Goods!Added(w, Tail(cs)) = 0
    BY <2>1, AddedNone
  <2> QED BY <1>1, <1>2, <2>2, <2>3
<1>4. CASE Len(cs) = 2
  <2>1. Tail(cs) \in Seq(LevelChange) /\ Len(Tail(cs)) = 1 /\ Tail(cs)[1] = cs[2]
    BY <1>1, <1>4
  <2>2. Goods!Added(w, Tail(cs)) = EffectOn(w, cs[2])
    BY <2>1, AddedOne
  <2> QED BY <1>1, <1>4, <2>2, AddedTwo
<1> QED BY <1>1, <1>3, <1>4

-----------------------------------------------------------------------------
\* The goods, with one call at a time.

Underway == {"record", "read", "save"}

\* What a call has brought to w so far, and what it may leave missing there.
Brings(q, w) ==
  IF q.pc \in {"free", "refused"} THEN 0 ELSE Goods!Added(w, q.changes) - Goods!Added(w, q.todo)
Misses(q, w) ==
  IF /\ q.pc \notin {"free", "refused"} /\ q.op = "adjust"
     /\ Goods!Added(w, q.changes) < 0
  THEN Goods!Added(w, q.changes) ELSE 0

Brought(calls, w) == [c \in Calls |-> Brings(calls[c], w)]
Missing(calls, w) == [c \in Calls |-> Misses(calls[c], w)]

\* Two changes are for two warehouses.
Short(cs) == Len(cs) <= 2 /\ (Len(cs) = 2 => cs[1].at # cs[2].at)

\* What is on hand was brought; it is not less than what adjustments may miss, and it will
\* not be when the call that is under way has made its changes.
LevelsExplained ==
  /\ \A c, d \in Calls : Goods!InFlight(c) /\ Goods!InFlight(d) => c = d
  /\ \A c \in Calls : stockCall[c].pc \in Underway => Short(stockCall[c].todo)
  /\ \A c \in Calls : stockCall[c].pc = "save" =>
       stockCall[c].row = level[Head(stockCall[c].todo).at]
  /\ \A w \in Items : level[w].onHand = Total(Brought(stockCall, w), Calls)
  /\ \A w \in Items : level[w].onHand >= Total(Missing(stockCall, w), Calls)
  /\ \A c \in Calls : stockCall[c].pc \in Underway =>
       \A w \in Items : level[w].onHand + Goods!Added(w, stockCall[c].todo)
                          >= Total(Missing(stockCall, w), Calls)

MovedIInv == GoodsIInv /\ (serial => LevelsExplained)

LEMMA BringsInt ==
  ASSUME NEW q \in GoodsCall, NEW w
  PROVE  Brings(q, w) \in Int /\ Misses(q, w) \in Int /\ Misses(q, w) <= 0
<1>1. Goods!Added(w, q.changes) \in Int /\ Goods!Added(w, q.todo) \in Int
  BY AddedInt DEF GoodsCall
<1> QED BY <1>1 DEF Brings, Misses

LEMMA SumsInInt ==
  ASSUME NEW calls \in [Calls -> GoodsCall], NEW w
  PROVE  /\ Total(Brought(calls, w), Calls) \in Int
         /\ Total(Missing(calls, w), Calls) \in Int
         /\ Total(Missing(calls, w), Calls) <= 0
<1> DEFINE b == Brought(calls, w)
           m == Missing(calls, w)
<1>1. \A c \in Calls : b[c] \in Int /\ m[c] \in Int /\ m[c] <= 0
  BY BringsInt DEF Brought, Missing
<1> HIDE DEF b, m
<1>2. Total(b, Calls) \in Int /\ Total(m, Calls) \in Int
  BY <1>1, TotalInt, SalesCallsAssumption
<1>3. Total(m, Calls) <= 0
  BY <1>1, TotalNotPositive, SalesCallsAssumption
<1> QED BY <1>2, <1>3 DEF b, m

LEMMA SumsMove ==
  ASSUME NEW calls \in [Calls -> GoodsCall], NEW c \in Calls, NEW q \in GoodsCall, NEW w
  PROVE  /\ Total(Brought([calls EXCEPT ![c] = q], w), Calls)
              = Total(Brought(calls, w), Calls) + (Brings(q, w) - Brings(calls[c], w))
         /\ Total(Missing([calls EXCEPT ![c] = q], w), Calls)
              = Total(Missing(calls, w), Calls) + (Misses(q, w) - Misses(calls[c], w))
<1> DEFINE b  == Brought(calls, w)
           b2 == Brought([calls EXCEPT ![c] = q], w)
           m  == Missing(calls, w)
           m2 == Missing([calls EXCEPT ![c] = q], w)
<1>1. /\ \A d \in Calls : b[d] \in Int /\ b2[d] \in Int
      /\ \A d \in Calls : m[d] \in Int /\ m2[d] \in Int
  BY BringsInt DEF Brought, Missing
<1>2. /\ b[c] = Brings(calls[c], w) /\ b2[c] = Brings(q, w)
      /\ m[c] = Misses(calls[c], w) /\ m2[c] = Misses(q, w)
      /\ \A d \in Calls : d # c => b[d] = b2[d] /\ m[d] = m2[d]
  BY DEF Brought, Missing
<1> HIDE DEF b, b2, m, m2
<1>3. Total(b2, Calls) = Total(b, Calls) + (b2[c] - b[c])
  <2>1. \A d \in Calls : d # c => b[d] = b2[d]
    BY <1>2
  <2>2. \A d \in Calls : b[d] \in Int /\ b2[d] \in Int
    BY <1>1
  <2> QED BY <2>1, <2>2, TotalOneMoved, SalesCallsAssumption
<1>4. Total(m2, Calls) = Total(m, Calls) + (m2[c] - m[c])
  <2>1. \A d \in Calls : d # c => m[d] = m2[d]
    BY <1>2
  <2>2. \A d \in Calls : m[d] \in Int /\ m2[d] \in Int
    BY <1>1
  <2> QED BY <2>1, <2>2, TotalOneMoved, SalesCallsAssumption
<1> QED BY <1>2, <1>3, <1>4 DEF b, b2, m, m2

\* A step of c to q that leaves no other call under way explains the levels again, if q
\* does.
LEMMA MoveExplains ==
  ASSUME MovedIInv, serial, NEW c \in Calls, NEW q \in GoodsCall,
         stockCall' = [stockCall EXCEPT ![c] = q],
         \A d \in Calls : d # c => ~Goods!InFlight(d),
         q.pc \in Underway => Short(q.todo),
         q.pc = "save" => q.row = level'[Head(q.todo).at],
         \A w \in Items :
           /\ level'[w].onHand \in Int
           /\ level'[w].onHand - level[w].onHand = Brings(q, w) - Brings(stockCall[c], w)
           /\ LET m == Total(Missing(stockCall, w), Calls)
                         + (Misses(q, w) - Misses(stockCall[c], w)) IN
              /\ level'[w].onHand >= m
              /\ q.pc \in Underway => level'[w].onHand + Goods!Added(w, q.todo) >= m
  PROVE  LevelsExplained'
<1>1. stockCall \in [Calls -> GoodsCall] /\ LevelsExplained /\ level \in [Items -> LevelRow]
  BY DEF MovedIInv, GoodsIInv
<1>2. \A d \in Calls : d # c => stockCall'[d].pc \notin Underway /\ stockCall'[d].pc # "save"
  BY DEF Goods!InFlight, Underway
<1>3. stockCall'[c] = q
  BY <1>1
<1>4. \A d, e \in Calls : Goods!InFlight(d)' /\ Goods!InFlight(e)' => d = e
  BY <1>2 DEF Goods!InFlight, Underway
<1>5. ASSUME NEW w \in Items
      PROVE  /\ level'[w].onHand = Total(Brought(stockCall', w), Calls)
             /\ level'[w].onHand >= Total(Missing(stockCall', w), Calls)
             /\ q.pc \in Underway => level'[w].onHand + Goods!Added(w, q.todo)
                                       >= Total(Missing(stockCall', w), Calls)
  <2>1. /\ Total(Brought(stockCall', w), Calls)
             = Total(Brought(stockCall, w), Calls) + (Brings(q, w) - Brings(stockCall[c], w))
        /\ Total(Missing(stockCall', w), Calls)
             = Total(Missing(stockCall, w), Calls) + (Misses(q, w) - Misses(stockCall[c], w))
    BY <1>1, SumsMove
  <2>2. /\ level[w].onHand = Total(Brought(stockCall, w), Calls)
        /\ level[w].onHand \in Int
    BY <1>1 DEF LevelsExplained, LevelRow
  <2>3. Brings(q, w) \in Int /\ Brings(stockCall[c], w) \in Int
    BY <1>1, BringsInt
  <2>4. level'[w].onHand = Total(Brought(stockCall', w), Calls)
    BY <2>1, <2>2, <2>3
  <2> QED BY <2>1, <2>4
<1> QED BY <1>2, <1>3, <1>4, <1>5 DEF LevelsExplained

\* Nobody else is under way when a call is.
LEMMA Alone ==
  ASSUME MovedIInv, serial, NEW c \in Calls, stockCall[c].pc \in Underway
  PROVE  \A d \in Calls : d # c => ~Goods!InFlight(d)
  BY DEF MovedIInv, LevelsExplained, Goods!InFlight, Underway

\* A call that decides on a movement takes no more than there is, unless it adjusts.
LEMMA AskExplains ==
  ASSUME MovedIInv, serial, NEW c \in Calls, NEW op \in GoodsOps, NEW changes \in Seq(LevelChange),
         NEW accepted \in BOOLEAN, Goods!Ask(c, op, changes, accepted),
         accepted => Short(changes),
         accepted /\ op # "adjust" => \A w \in Items :
           Goods!Added(w, changes) >= 0 \/ level[w].onHand + Goods!Added(w, changes) >= 0
  PROVE  LevelsExplained'
<1>1. PICK pc \in {"record", "refused"} : pc = IF accepted THEN "record" ELSE "refused"
  OBVIOUS
<1> DEFINE q == [Goods!FreeCall EXCEPT !.op = op, !.changes = changes, !.todo = changes,
                                       !.pc = pc]
<1>2. Goods!FreeCall \in GoodsCall
  BY FreeGoodsCall
<1>3. pc \in GoodsPCs
  BY <1>1 DEF GoodsPCs
<1>4. q \in GoodsCall /\ q.todo = changes /\ q.changes = changes /\ q.pc = pc /\ q.op = op
  BY <1>2, <1>3 DEF GoodsCall
<1>5. stockCall' = [stockCall EXCEPT ![c] = q] /\ level' = level /\ stockCall[c].pc = "free"
  BY <1>1 DEF Goods!Ask
<1>6. \A d \in Calls : ~Goods!InFlight(d)
  BY DEF Goods!Ask
<1> HIDE DEF q
<1>7. ASSUME NEW w \in Items
      PROVE  /\ level'[w].onHand \in Int
             /\ level'[w].onHand - level[w].onHand = Brings(q, w) - Brings(stockCall[c], w)
             /\ LET m == Total(Missing(stockCall, w), Calls)
                           + (Misses(q, w) - Misses(stockCall[c], w)) IN
                /\ level'[w].onHand >= m
                /\ q.pc \in Underway => level'[w].onHand + Goods!Added(w, q.todo) >= m
  <2>1. stockCall \in [Calls -> GoodsCall] /\ LevelsExplained
    BY DEF MovedIInv, GoodsIInv
  <2>2. level[w].onHand \in Int /\ level'[w] = level[w]
    BY <1>5 DEF MovedIInv, GoodsIInv, LevelRow
  <2>3. PICK m : m = Total(Missing(stockCall, w), Calls)
    OBVIOUS
  <2>4. m \in Int /\ m <= 0 /\ level[w].onHand >= m
    BY <2>1, <2>3, SumsInInt DEF LevelsExplained
  <2>5. PICK a : a = Goods!Added(w, changes)
    OBVIOUS
  <2>6. a \in Int
    BY <2>5, AddedInt
  <2>7. Brings(q, w) = 0 /\ Brings(stockCall[c], w) = 0 /\ Misses(stockCall[c], w) = 0
    BY <1>4, <1>5, <2>5, <2>6 DEF Brings, Misses
  <2>8. Misses(q, w) = IF pc = "record" /\ op = "adjust" /\ a < 0 THEN a ELSE 0
    BY <1>1, <1>4, <2>5 DEF Misses
  <2>9. accepted /\ op # "adjust" => a >= 0 \/ level[w].onHand + a >= 0
    BY <2>5
  <2>10. q.pc \in Underway <=> accepted
    BY <1>1, <1>4 DEF Underway
  <2>11. pc = "record" <=> accepted
    BY <1>1
  <2>12. level'[w].onHand >= m + (Misses(q, w) - Misses(stockCall[c], w))
    BY <2>2, <2>4, <2>6, <2>7, <2>8
  <2>13. q.pc \in Underway => level'[w].onHand + a >= m + (Misses(q, w) - Misses(stockCall[c], w))
    BY <2>2, <2>4, <2>6, <2>7, <2>8, <2>9, <2>10, <2>11
  <2> QED BY <1>4, <2>2, <2>3, <2>5, <2>7, <2>12, <2>13
<1>8. q.pc \in Underway => Short(q.todo)
  BY <1>1, <1>4 DEF Underway
<1>9. q.pc # "save"
  BY <1>1, <1>4
<1> QED BY <1>4, <1>5, <1>6, <1>7, <1>8, <1>9, MoveExplains

LEMMA AskersExplain ==
  ASSUME MovedIInv, serial, NEW c \in Calls,
         \/ Goods!Receive(c) \/ Goods!Return(c) \/ Goods!Sell(c) \/ Goods!Adjust(c)
         \/ Goods!Transfer(c)
  PROVE  LevelsExplained'
<1>1. \A w \in Items, n \in Int : Goods!Change(w, n) \in LevelChange
  BY DEF Goods!Change, LevelChange
<1> DEFINE one(w, n) == <<Goods!Change(w, n)>>
<1>2. ASSUME NEW w \in Items, NEW n \in Int
      PROVE  /\ one(w, n) \in Seq(LevelChange) /\ Short(one(w, n))
             /\ \A u \in Items : Goods!Added(u, one(w, n)) = IF u = w THEN n ELSE 0
  <2> DEFINE o == one(w, n)
  <2>1. o \in Seq(LevelChange) /\ Len(o) = 1 /\ o[1] = Goods!Change(w, n)
    BY <1>1
  <2> HIDE DEF o
  <2>2. \A u \in Items : Goods!Added(u, o) = EffectOn(u, Goods!Change(w, n))
    BY <2>1, AddedOne
  <2>3. \A u \in Items : EffectOn(u, Goods!Change(w, n)) = IF u = w THEN n ELSE 0
    BY DEF EffectOn, Goods!Change
  <2> QED BY <2>1, <2>2, <2>3 DEF o, Short
<1>3. CASE Goods!Receive(c)
  <2>1. PICK w \in Items, n \in Numbers : Goods!Ask(c, "receive", one(w, n), TRUE)
    BY <1>3 DEF Goods!Receive
  <2>2. n \in Nat
    BY SalesNumbersAssumption
  <2>3. n \in Int
    BY <2>2
  <2> HIDE DEF one
  <2>4. /\ one(w, n) \in Seq(LevelChange) /\ Short(one(w, n))
        /\ \A u \in Items : Goods!Added(u, one(w, n)) = IF u = w THEN n ELSE 0
    BY <1>2, <2>3
  <2>5. \A u \in Items : Goods!Added(u, one(w, n)) >= 0
    BY <2>2, <2>4
  <2> QED BY <2>1, <2>4, <2>5, AskExplains DEF GoodsOps
<1>4. CASE Goods!Return(c)
  <2>1. PICK w \in Items, n \in Numbers : Goods!Ask(c, "return", one(w, n), TRUE)
    BY <1>4 DEF Goods!Return
  <2>2. n \in Nat
    BY SalesNumbersAssumption
  <2>3. n \in Int
    BY <2>2
  <2> HIDE DEF one
  <2>4. /\ one(w, n) \in Seq(LevelChange) /\ Short(one(w, n))
        /\ \A u \in Items : Goods!Added(u, one(w, n)) = IF u = w THEN n ELSE 0
    BY <1>2, <2>3
  <2>5. \A u \in Items : Goods!Added(u, one(w, n)) >= 0
    BY <2>2, <2>4
  <2> QED BY <2>1, <2>4, <2>5, AskExplains DEF GoodsOps
<1>5. CASE Goods!Sell(c)
  <2>1. PICK w \in Items, n \in Numbers :
          Goods!Ask(c, "sale", one(w, -n), Goods!Sufficient(w, n))
    BY <1>5 DEF Goods!Sell
  <2>2. n \in Nat /\ -n \in Int /\ level[w].onHand \in Int
    BY SalesNumbersAssumption DEF MovedIInv, GoodsIInv, LevelRow
  <2>3. Goods!Sufficient(w, n) \in BOOLEAN /\ (Goods!Sufficient(w, n) => level[w].onHand >= n)
    BY DEF Goods!Sufficient, MovedIInv, GoodsIInv, LevelRow
  <2> HIDE DEF one
  <2>4. one(w, -n) \in Seq(LevelChange) /\ Short(one(w, -n))
        /\ \A u \in Items : Goods!Added(u, one(w, -n)) = IF u = w THEN -n ELSE 0
    BY <1>2, <2>2
  <2>5. Goods!Sufficient(w, n) => \A u \in Items :
          Goods!Added(u, one(w, -n)) >= 0 \/ level[u].onHand + Goods!Added(u, one(w, -n)) >= 0
    BY <2>2, <2>3, <2>4
  <2> QED BY <2>1, <2>3, <2>4, <2>5, AskExplains DEF GoodsOps
<1>6. CASE Goods!Adjust(c)
  <2>1. PICK w \in Items, n \in Numbers, sign \in {-1, 1} :
          Goods!Ask(c, "adjust", one(w, sign * n), TRUE)
    BY <1>6 DEF Goods!Adjust
  <2>2. sign * n \in Int
    BY SalesNumbersAssumption
  <2> HIDE DEF one
  <2> QED BY <1>2, <2>1, <2>2, AskExplains DEF GoodsOps
<1>7. CASE Goods!Transfer(c)
  <2>1. PICK w \in Items, v \in Items, n \in Numbers :
          Goods!Ask(c, "transfer", <<Goods!Change(w, -n), Goods!Change(v, n)>>,
                    w # v /\ Goods!Sufficient(w, n))
    BY <1>7 DEF Goods!Transfer
  <2> DEFINE two == <<Goods!Change(w, -n), Goods!Change(v, n)>>
             ok  == w # v /\ Goods!Sufficient(w, n)
  <2>2. n \in Nat /\ n \in Int /\ -n \in Int
    BY SalesNumbersAssumption
  <2>3. /\ two \in Seq(LevelChange) /\ Len(two) = 2
        /\ two[1] = Goods!Change(w, -n) /\ two[2] = Goods!Change(v, n)
    BY <1>1, <2>2
  <2>4. ok \in BOOLEAN /\ (ok => w # v /\ level[w].onHand >= n)
    BY DEF Goods!Sufficient, MovedIInv, GoodsIInv, LevelRow
  <2>5. Goods!Ask(c, "transfer", two, ok)
    BY <2>1
  <2> HIDE DEF two, ok
  <2>6. \A u \in Items : Goods!Added(u, two)
          = EffectOn(u, Goods!Change(w, -n)) + EffectOn(u, Goods!Change(v, n))
    BY <2>3, AddedTwo
  <2>7. \A u \in Items : /\ EffectOn(u, Goods!Change(w, -n)) = IF u = w THEN -n ELSE 0
                         /\ EffectOn(u, Goods!Change(v, n)) = IF u = v THEN n ELSE 0
    BY DEF EffectOn, Goods!Change
  <2>8. level[w].onHand \in Int
    BY DEF MovedIInv, GoodsIInv, LevelRow
  <2>9. ok => \A u \in Items :
          Goods!Added(u, two) >= 0 \/ level[u].onHand + Goods!Added(u, two) >= 0
    BY <2>2, <2>4, <2>6, <2>7, <2>8
  <2>10. ok => Short(two)
    BY <2>3, <2>4 DEF Short, Goods!Change
  <2> QED BY <2>3, <2>4, <2>5, <2>9, <2>10, AskExplains DEF GoodsOps
<1> QED BY <1>3, <1>4, <1>5, <1>6, <1>7

\* A call that goes on without a change, or fails.
LEMMA GoersExplain ==
  ASSUME MovedIInv, serial, NEW c \in Calls,
         Goods!Record(c) \/ Goods!ReadLevel(c) \/ Goods!Fail(c)
  PROVE  LevelsExplained'
<1>1. /\ stockCall[c] \in GoodsCall /\ GoodsShape(stockCall[c]) /\ LevelsExplained
      /\ stockCall \in [Calls -> GoodsCall] /\ level \in [Items -> LevelRow]
  BY DEF MovedIInv, GoodsIInv
<1>2. stockCall[c].pc \in Underway /\ level' = level
  BY DEF Goods!Record, Goods!ReadLevel, Goods!Fail, Goods!InFlight, Underway
<1>3. stockCall[c].todo \in Seq(LevelChange) /\ stockCall[c].todo # <<>>
  BY <1>1, <1>2 DEF GoodsCall, GoodsShape, Underway
<1>4. Head(stockCall[c].todo) \in LevelChange
  BY <1>3
<1>5. PICK h \in LevelRow : h = level[Head(stockCall[c].todo).at]
  BY <1>1, <1>4 DEF LevelChange
<1>6. PICK pc \in {"read", "save", "failed"}, r \in LevelRow :
        /\ stockCall' = [stockCall EXCEPT ![c].pc = pc, ![c].row = r]
        /\ pc = "save" => r = h
  <2>1. CASE Goods!Record(c) \/ Goods!Fail(c)
    <3>1. PICK pc \in {"read", "failed"} : stockCall' = [stockCall EXCEPT ![c].pc = pc]
      BY <2>1 DEF Goods!Record, Goods!Fail, Goods!Goto
    <3>2. stockCall' = [stockCall EXCEPT ![c].pc = pc, ![c].row = stockCall[c].row]
      BY <1>1, <3>1 DEF GoodsCall
    <3> QED BY <1>1, <3>2 DEF GoodsCall
  <2>2. CASE Goods!ReadLevel(c)
    <3>1. stockCall' = [stockCall EXCEPT ![c].row = h, ![c].pc = "save"]
      BY <1>5, <2>2 DEF Goods!ReadLevel
    <3>2. stockCall' = [stockCall EXCEPT ![c].pc = "save", ![c].row = h]
      BY <1>1, <3>1 DEF GoodsCall
    <3> QED BY <3>2
  <2> QED BY <2>1, <2>2
<1> DEFINE q == [stockCall[c] EXCEPT !.pc = pc, !.row = r]
<1>7. /\ q \in GoodsCall /\ q.pc = pc /\ q.row = r /\ q.todo = stockCall[c].todo
      /\ q.changes = stockCall[c].changes /\ q.op = stockCall[c].op
      /\ stockCall' = [stockCall EXCEPT ![c] = q]
  BY <1>1, <1>6 DEF GoodsCall, GoodsPCs
<1> HIDE DEF q
<1>8. ASSUME NEW w \in Items
      PROVE  Brings(q, w) = Brings(stockCall[c], w) /\ Misses(q, w) = Misses(stockCall[c], w)
  <2>1. q.pc \notin {"free", "refused"} /\ stockCall[c].pc \notin {"free", "refused"}
    BY <1>2, <1>7 DEF Underway
  <2> QED BY <1>7, <2>1 DEF Brings, Misses
<1>9. ASSUME NEW w \in Items
      PROVE  /\ level'[w].onHand \in Int
             /\ level'[w].onHand - level[w].onHand = Brings(q, w) - Brings(stockCall[c], w)
             /\ LET m == Total(Missing(stockCall, w), Calls)
                           + (Misses(q, w) - Misses(stockCall[c], w)) IN
                /\ level'[w].onHand >= m
                /\ q.pc \in Underway => level'[w].onHand + Goods!Added(w, q.todo) >= m
  <2>1. level[w].onHand \in Int /\ level'[w] = level[w]
    BY <1>1, <1>2 DEF LevelRow
  <2>2. PICK m \in Int : m = Total(Missing(stockCall, w), Calls)
    BY <1>1, SumsInInt
  <2>3. /\ Brings(q, w) \in Int /\ Misses(q, w) \in Int
    BY <1>7, BringsInt
  <2>4. /\ level[w].onHand >= m
        /\ level[w].onHand + Goods!Added(w, stockCall[c].todo) >= m
    BY <1>1, <1>2, <2>2 DEF LevelsExplained
  <2> QED BY <1>7, <1>8, <2>1, <2>2, <2>3, <2>4
<1>10. Short(q.todo)
  BY <1>1, <1>2, <1>7 DEF LevelsExplained
<1>11. q.pc = "save" => q.row = level'[Head(q.todo).at]
  BY <1>2, <1>5, <1>6, <1>7
<1>12. \A d \in Calls : d # c => ~Goods!InFlight(d)
  BY <1>2, Alone
<1> QED BY <1>7, <1>9, <1>10, <1>11, <1>12, MoveExplains

\* The save of a level adds the change to what is on hand, as the copy is the level.
LEMMA SaveExplains ==
  ASSUME MovedIInv, serial, NEW c \in Calls, Goods!SaveLevel(c) PROVE LevelsExplained'
<1>1. /\ stockCall[c] \in GoodsCall /\ GoodsShape(stockCall[c]) /\ LevelsExplained
      /\ stockCall \in [Calls -> GoodsCall] /\ level \in [Items -> LevelRow]
      /\ stockCall[c].pc = "save" /\ stockCall[c].pc \in Underway
  BY DEF MovedIInv, GoodsIInv, Goods!SaveLevel, Underway
<1>2. PICK todo \in Seq(LevelChange) : todo = stockCall[c].todo
  BY <1>1 DEF GoodsCall
<1>3. todo # <<>> /\ Short(todo)
  BY <1>1, <1>2 DEF GoodsShape, LevelsExplained
<1>4. PICK change \in LevelChange, rest \in Seq(LevelChange) :
        /\ change = Head(todo) /\ change = todo[1] /\ rest = Tail(todo)
        /\ Len(todo) \in {1, 2}
        /\ Len(todo) = 1 => rest = <<>>
        /\ Len(todo) = 2 => Len(rest) = 1 /\ rest[1] = todo[2]
  BY <1>3, ShortSequence DEF Short
<1>6. PICK pc \in {"done", "read"} : pc = IF Len(todo) = 1 THEN "done" ELSE "read"
  OBVIOUS
<1>8. /\ stockCall' = [stockCall EXCEPT ![c].todo = rest, ![c].pc = pc]
      /\ level' = [level EXCEPT ![change.at] = Goods!Moved(stockCall[c].row, change.by)]
  BY <1>1, <1>2, <1>4, <1>6 DEF Goods!SaveLevel
<1>9. stockCall[c].row = level[change.at]
  BY <1>1, <1>2, <1>4 DEF LevelsExplained
<1>10. \A w \in Items : /\ level[w].onHand \in Int /\ EffectOn(w, change) \in Int
                        /\ level'[w].onHand = level[w].onHand + EffectOn(w, change)
  BY <1>1, <1>8, <1>9 DEF LevelRow, LevelChange, EffectOn, Goods!Moved
<1> DEFINE q == [stockCall[c] EXCEPT !.todo = rest, !.pc = pc]
<1>11. /\ q \in GoodsCall /\ q.pc = pc /\ q.todo = rest
       /\ q.changes = stockCall[c].changes /\ q.op = stockCall[c].op
       /\ stockCall' = [stockCall EXCEPT ![c] = q]
  BY <1>1, <1>8 DEF GoodsCall, GoodsPCs
<1> HIDE DEF q
<1>12. \A w \in Items : Goods!Added(w, todo) = EffectOn(w, change) + Goods!Added(w, rest)
  BY <1>3, <1>4, AddedFirst DEF Short
\* Nothing is left to be done for the warehouse of the first change.
<1>15. Goods!Added(change.at, rest) = 0
  <2>1. CASE Len(todo) = 1
    BY <1>4, <2>1, AddedNone
  <2>2. CASE Len(todo) = 2
    <3>1. Goods!Added(change.at, rest) = EffectOn(change.at, todo[2])
      BY <1>4, <2>2, AddedOne
    <3>2. todo[2].at # change.at
      BY <1>3, <1>4, <2>2 DEF Short
    <3> QED BY <3>1, <3>2 DEF EffectOn
  <2> QED BY <1>4, <2>1, <2>2
<1>16. ASSUME NEW w \in Items
       PROVE  /\ level'[w].onHand \in Int
              /\ level'[w].onHand - level[w].onHand = Brings(q, w) - Brings(stockCall[c], w)
              /\ LET m == Total(Missing(stockCall, w), Calls)
                            + (Misses(q, w) - Misses(stockCall[c], w)) IN
                 /\ level'[w].onHand >= m
                 /\ q.pc \in Underway => level'[w].onHand + Goods!Added(w, q.todo) >= m
  <2>1. PICK m \in Int : m = Total(Missing(stockCall, w), Calls)
    BY <1>1, SumsInInt
  <2>2. /\ level[w].onHand >= m
        /\ level[w].onHand + Goods!Added(w, todo) >= m
    BY <1>1, <1>2, <2>1 DEF LevelsExplained
  <2>3. q.pc \notin {"free", "refused"} /\ stockCall[c].pc \notin {"free", "refused"}
    BY <1>1, <1>11
  <2>4. Misses(q, w) = Misses(stockCall[c], w) /\ Misses(q, w) \in Int
    BY <1>11, <2>3, BringsInt DEF Misses
  <2>5. PICK a \in Int, t \in Int, s \in Int :
          /\ a = Goods!Added(w, stockCall[c].changes)
          /\ t = Goods!Added(w, todo) /\ s = Goods!Added(w, rest)
    BY <1>1, AddedInt DEF GoodsCall
  <2>6. Brings(q, w) = a - s /\ Brings(stockCall[c], w) = a - t
    BY <1>2, <1>11, <2>3, <2>5 DEF Brings
  <2>7. PICK x \in Int : x = EffectOn(w, change)
    BY <1>10
  <2>8. t = x + s
    BY <1>12, <2>5, <2>7
  <2>9. level'[w].onHand = level[w].onHand + x /\ level[w].onHand \in Int
    BY <1>10, <2>7
  <2>10. level'[w].onHand >= m
    <3>1. CASE w = change.at
      BY <1>15, <2>2, <2>5, <2>8, <2>9, <3>1
    <3>2. CASE w # change.at
      BY <2>2, <2>7, <2>9, <3>2 DEF EffectOn
    <3> QED BY <3>1, <3>2
  <2>11. level'[w].onHand + Goods!Added(w, q.todo) >= m
    BY <1>11, <2>2, <2>5, <2>8, <2>9
  <2>12. level'[w].onHand - level[w].onHand = Brings(q, w) - Brings(stockCall[c], w)
    BY <2>6, <2>8, <2>9
  <2>13. m = m + (Misses(q, w) - Misses(stockCall[c], w))
    BY <2>4
  <2> QED BY <2>1, <2>9, <2>10, <2>11, <2>12, <2>13
<1>17. q.pc \in Underway => Short(q.todo)
  BY <1>4, <1>6, <1>11 DEF Underway, Short
<1>18. \A d \in Calls : d # c => ~Goods!InFlight(d)
  BY <1>1, Alone
<1>19. q.pc # "save"
  BY <1>11
<1> QED BY <1>11, <1>16, <1>17, <1>18, <1>19, MoveExplains

LEMMA ExplainedInitSound == Goods!Init => LevelsExplained
<1> SUFFICES ASSUME Goods!Init PROVE LevelsExplained
  OBVIOUS
<1>1. \A c \in Calls : stockCall[c].pc = "free"
  BY DEF Goods!Init, Goods!FreeCall
<1>2. \A w \in Items : level[w].onHand = 0
  BY DEF Goods!Init, Goods!NoRow
<1>3. ASSUME NEW w \in Items
      PROVE  Total(Brought(stockCall, w), Calls) = 0 /\ Total(Missing(stockCall, w), Calls) = 0
  <2> DEFINE b == Brought(stockCall, w)
             m == Missing(stockCall, w)
  <2>1. \A c \in Calls : b[c] = 0 /\ m[c] = 0
    BY <1>1 DEF Brought, Missing, Brings, Misses
  <2> HIDE DEF b, m
  <2>2. Total(b, Calls) = 0 /\ Total(m, Calls) = 0
    BY <2>1, TotalZero, SalesCallsAssumption
  <2> QED BY <2>2 DEF b, m
<1> QED BY <1>1, <1>2, <1>3 DEF LevelsExplained, Goods!InFlight, Underway

LEMMA ExplainedNextSound ==
  MovedIInv /\ [Goods!Next]_(Goods!vars) => (serial => LevelsExplained)'
<1> SUFFICES ASSUME MovedIInv, [Goods!Next]_(Goods!vars), serial' PROVE LevelsExplained'
  OBVIOUS
<1>1. serial' = serial /\ serial
  BY DEF Goods!Next, Goods!vars
<1>2. CASE UNCHANGED Goods!vars
  <2>1. stockCall' = stockCall /\ level' = level
    BY <1>2 DEF Goods!vars
  <2> QED BY <1>1, <2>1 DEF MovedIInv, LevelsExplained, Goods!InFlight
<1> QED BY <1>1, <1>2, AskersExplain, GoersExplain, SaveExplains DEF Goods!Next

LEMMA MovedInductive == Spec => []MovedIInv
<1>1. Init => (serial => LevelsExplained)
  BY ExplainedInitSound DEF Init
<1>2. MovedIInv /\ [Next]_vars => (serial => LevelsExplained)'
  BY ExplainedNextSound DEF Next, PointStep, StockStep, vars, stockVars, Goods!vars, Rewards!Next
<1> QED BY <1>1, <1>2, GoodsInductive, PTL DEF Spec, MovedIInv

-----------------------------------------------------------------------------
\* The sums that OnHandIsMoved and NeverOversold take.

LEMMA MovedTotal ==
  ASSUME GoodsIInv, NEW w \in Items
  PROVE  Goods!MapThenSumSet(
           LAMBDA c : Goods!Added(w, stockCall[c].changes) - Goods!Added(w, stockCall[c].todo),
           Goods!Moving) = Total(Brought(stockCall, w), Calls)
<1> DEFINE S == Goods!Moving
           v == Brought(stockCall, w)
<1>1. Goods!MapThenSumSet(
        LAMBDA c : Goods!Added(w, stockCall[c].changes) - Goods!Added(w, stockCall[c].todo), S)
        = (CHOOSE g : g = [s \in SUBSET S |-> IF s = {} THEN 0 ELSE
             (Goods!Added(w, stockCall[Chosen(s)].changes)
               - Goods!Added(w, stockCall[Chosen(s)].todo)) + g[s \ {Chosen(s)}]])[S]
  BY DEF Goods!MapThenSumSet, Goods!MapThenFoldSet, Chosen
<1>2. \A g : g = [s \in SUBSET S |-> IF s = {} THEN 0 ELSE
                    (Goods!Added(w, stockCall[Chosen(s)].changes)
                      - Goods!Added(w, stockCall[Chosen(s)].todo)) + g[s \ {Chosen(s)}]]
               <=> Sums(g, S, v)
  <2>1. \A s \in SUBSET S : s # {} =>
          v[Chosen(s)] = Goods!Added(w, stockCall[Chosen(s)].changes)
                           - Goods!Added(w, stockCall[Chosen(s)].todo)
    BY ChosenIn DEF Goods!Moving, Brought, Brings
  <2> HIDE DEF v, S
  <2> QED BY <2>1 DEF Sums
<1>3. /\ S \in SUBSET Calls
      /\ \A c \in Calls : v[c] \in Int
      /\ \A c \in Calls \ S : v[c] = 0
  BY BringsInt DEF Goods!Moving, Brought, Brings, GoodsIInv
<1>4. Total(v, S) = Total(v, Calls)
  <2> HIDE DEF v, S
  <2> QED BY <1>3, TotalWithin, SalesCallsAssumption
<1> QED BY <1>1, <1>2, <1>4 DEF Total

LEMMA MissingTotal ==
  ASSUME GoodsIInv, NEW w \in Items
  PROVE  Goods!MapThenSumSet(LAMBDA c : Goods!Added(w, stockCall[c].changes),
           {c \in Goods!Moving : /\ stockCall[c].op = "adjust"
                                 /\ Goods!Added(w, stockCall[c].changes) < 0})
           = Total(Missing(stockCall, w), Calls)
<1> DEFINE S == {c \in Goods!Moving : /\ stockCall[c].op = "adjust"
                                      /\ Goods!Added(w, stockCall[c].changes) < 0}
           v == Missing(stockCall, w)
<1>1. Goods!MapThenSumSet(LAMBDA c : Goods!Added(w, stockCall[c].changes), S)
        = (CHOOSE g : g = [s \in SUBSET S |-> IF s = {} THEN 0 ELSE
             Goods!Added(w, stockCall[Chosen(s)].changes) + g[s \ {Chosen(s)}]])[S]
  BY DEF Goods!MapThenSumSet, Goods!MapThenFoldSet, Chosen
<1>2. \A g : g = [s \in SUBSET S |-> IF s = {} THEN 0 ELSE
                    Goods!Added(w, stockCall[Chosen(s)].changes) + g[s \ {Chosen(s)}]]
               <=> Sums(g, S, v)
  <2>1. \A s \in SUBSET S : s # {} =>
          v[Chosen(s)] = Goods!Added(w, stockCall[Chosen(s)].changes)
    BY ChosenIn DEF Goods!Moving, Missing, Misses
  <2> HIDE DEF v, S
  <2> QED BY <2>1 DEF Sums
<1>3. /\ S \in SUBSET Calls
      /\ \A c \in Calls : v[c] \in Int
      /\ \A c \in Calls \ S : v[c] = 0
  BY BringsInt DEF Goods!Moving, Missing, Misses, GoodsIInv
<1>4. Total(v, S) = Total(v, Calls)
  <2> HIDE DEF v, S
  <2> QED BY <1>3, TotalWithin, SalesCallsAssumption
<1> QED BY <1>1, <1>2, <1>4 DEF Total

\* receiveGoods(), sale(), returnGoods(), adjust() and transfer() with one call at a time:
\* what is on hand is what the movements on record brought, less what calls that failed
\* had still to do.
THEOREM GoodsAreMoved == Spec => []OnHandIsMoved
<1>1. MovedIInv => OnHandIsMoved
  BY MovedTotal DEF MovedIInv, LevelsExplained, OnHandIsMoved, Goods!OnHandIsMoved
<1> QED BY <1>1, MovedInductive, PTL

\* sale() and transfer() with one call at a time never take what is not there: only an
\* adjustment can leave less than nothing on hand.
THEOREM NothingIsOversold == Spec => []NeverOversold
<1>1. MovedIInv => NeverOversold
  BY MissingTotal DEF MovedIInv, LevelsExplained, NeverOversold, Goods!NeverOversold
<1> QED BY <1>1, MovedInductive, PTL
=============================================================================
