---------------------------- MODULE LoyaltyPoints ---------------------------
(***************************************************************************)
(* EnrollmentService, PointTransactionService and RedemptionService: the   *)
(* enrollments of one programme, the points earned and spent, and one      *)
(* reward of the catalogue.                                                *)
(*                                                                         *)
(* A call records a point transaction, then saves the enrollment, then the *)
(* reward, each row from the copy it read at first, and without a database *)
(* transaction.  Calls are used once, so the transactions on record can be *)
(* read off them.  Where serial is TRUE one call is served at a time,      *)
(* which nothing in the code ensures.                                      *)
(***************************************************************************)
EXTENDS Integers, FiniteSets, FiniteSetsExt

CONSTANTS
  Customers,
  Enrollments,  \* enrollment ids; the bound on how many are created
  NoId,         \* neither a customer nor an enrollment
  Calls,
  Points,       \* amounts that are earned, or spent without a reward
  Price,        \* points_required of the reward, a digit
  Stock,        \* how many there are of the reward, if it is limited
  Widest,       \* bound: the largest total numeric(18,2) can hold
  Faulty

VARIABLES
  enrollment,  \* customer_loyalty_enrollment
  item,        \* loyalty_redemption_catalog
  call,
  serial       \* do calls wait for each other?

vars == <<enrollment, item, call, serial>>

-----------------------------------------------------------------------------
NoRow == [customer |-> NoId, balance |-> 0, earned |-> 0, redeemed |-> 0]
FreeCall == [op |-> "none", pc |-> "free", on |-> NoId, points |-> 0, row |-> NoRow,
             item |-> [active |-> FALSE, limited |-> FALSE, stock |-> 0, sold |-> 0]]

Exists(e)   == enrollment[e].customer # NoId
InFlight(c) == call[c].pc \in {"insert", "find", "record", "balance", "stock"}
Goto(c, pc) == call' = [call EXCEPT ![c].pc = pc]
Turn(c)     == call[c].pc = "free" /\ (serial => \A d \in Calls : ~InFlight(d))

\* A call of op on e, for n points, that read the enrollment.
Read(c, op, e, n, accepted) ==
  call' = [call EXCEPT ![c].op = op, ![c].on = e, ![c].points = n, ![c].row = enrollment[e],
                       ![c].pc = IF accepted THEN "record" ELSE "refused"]

-----------------------------------------------------------------------------
\* enroll: looks for an enrollment that is not terminated; none ever is.
Enroll(c) ==
  /\ Turn(c)
  /\ \E u \in Customers :
       call' = [call EXCEPT ![c].op = "enroll", ![c].on = u, ![c].pc =
         IF \E e \in Enrollments : enrollment[e].customer = u THEN "refused" ELSE "insert"]
  /\ UNCHANGED <<enrollment, item>>

Insert(c) ==
  /\ call[c].pc = "insert"
  /\ \E e \in Enrollments :
       /\ ~Exists(e)
       /\ enrollment' = [enrollment EXCEPT ![e] = [NoRow EXCEPT !.customer = call[c].on]]
  /\ Goto(c, "done")
  /\ UNCHANGED item

\* earn
Earn(c) ==
  /\ Turn(c)
  /\ \E e \in Enrollments, n \in Points : Exists(e) /\ Read(c, "earn", e, n, TRUE)
  /\ UNCHANGED <<enrollment, item>>

\* A variant: the balance is not looked at.
AffordsAll(row, n) == TRUE

Affords(row, n) == row.balance >= n

\* PointTransactionService.redeem and redeemCashback
Spend(c) ==
  /\ Turn(c)
  /\ \E e \in Enrollments, n \in Points :
       Exists(e) /\ Read(c, "spend", e, n, Affords(enrollment[e], n))
  /\ UNCHANGED <<enrollment, item>>

\* A variant: the last but one is not looked at.
AvailableOnce(row) == row.active

Available(row) == row.active /\ (row.limited => row.stock > 0)

\* RedemptionService.redeem reads the reward first, then the enrollment.
Redeem(c) ==
  /\ Turn(c)
  /\ \E e \in Enrollments :
       /\ Exists(e)
       /\ call' = [call EXCEPT ![c].op = "redeem", ![c].on = e, ![c].item = item,
                               ![c].pc = IF Available(item) THEN "find" ELSE "refused"]
  /\ UNCHANGED <<enrollment, item>>

Find(c) ==
  LET e == call[c].on IN
  /\ call[c].pc = "find"
  /\ Read(c, "redeem", e, Price, Affords(enrollment[e], Price))
  /\ UNCHANGED <<enrollment, item>>

\* The point transaction is on record from here on.
Record(c) ==
  /\ call[c].pc = "record"
  /\ Goto(c, "balance")
  /\ UNCHANGED <<enrollment, item>>

\* points_required is a numeric column, which arrives as a string: adding it to
\* a number writes its digit behind the number's.
PlusRequired(n) == 10 * n + Price

\* A variant: points are given back instead of taken.
SettledWrong(op, n, row) == [row EXCEPT !.balance = @ + n]

\* The enrollment a call saves.
Settled(op, n, row) ==
  CASE op = "earn"   -> [row EXCEPT !.balance = @ + n, !.earned = @ + n]
    [] op = "spend"  -> [row EXCEPT !.balance = @ - n, !.redeemed = @ + n]
    [] op = "redeem" -> [row EXCEPT !.balance = @ - n, !.redeemed = PlusRequired(@)]

SaveEnrollment(c) ==
  LET row == Settled(call[c].op, call[c].points, call[c].row) IN
  /\ call[c].pc = "balance"
  /\ IF row.redeemed <= Widest
     THEN /\ enrollment' = [enrollment EXCEPT ![call[c].on] = row]
          /\ Goto(c, IF call[c].op = "redeem" THEN "stock" ELSE "done")
     ELSE Goto(c, "unsettled") /\ UNCHANGED enrollment
  /\ UNCHANGED item

SaveItem(c) ==
  LET row == call[c].item IN
  /\ call[c].pc = "stock"
  /\ item' = [row EXCEPT !.sold = @ + 1, !.stock = IF row.limited THEN @ - 1 ELSE @]
  /\ Goto(c, "done")
  /\ UNCHANGED enrollment

\* A query fails or the process dies: what was saved before stays.
Fail(c) ==
  /\ Faulty /\ InFlight(c)
  /\ Goto(c, CASE call[c].pc = "balance" -> "unsettled"
               [] call[c].pc = "stock"   -> "uncounted"
               [] OTHER                  -> "failed")
  /\ UNCHANGED <<enrollment, item>>

Init ==
  /\ enrollment = [e \in Enrollments |-> NoRow]
  /\ item \in [active : BOOLEAN, limited : BOOLEAN, stock : {Stock}, sold : {0}]
  /\ call = [c \in Calls |-> FreeCall]
  /\ serial \in BOOLEAN

Next ==
  /\ \E c \in Calls :
       \/ Enroll(c) \/ Insert(c) \/ Earn(c) \/ Spend(c) \/ Redeem(c) \/ Find(c) \/ Record(c)
       \/ SaveEnrollment(c) \/ SaveItem(c) \/ Fail(c)
  /\ UNCHANGED serial

Spec == Init /\ [][Next]_vars

-----------------------------------------------------------------------------
\* No race makes a balance or a stock negative: what is checked is the copy that
\* is saved.
TypeOK ==
  /\ enrollment \in [Enrollments -> [customer : Customers \cup {NoId}, balance : Nat,
                                     earned : Nat, redeemed : 0..Widest]]
  /\ item \in [active : BOOLEAN, limited : BOOLEAN, stock : 0..Stock, sold : Nat]
  /\ \A c \in Calls : call[c].on \in Customers \cup Enrollments \cup {NoId}

CallsAt(op, pcs) == {c \in Calls : call[c].op = op /\ call[c].pc \in pcs}
Settlements(op, e) == {c \in CallsAt(op, {"done", "stock", "uncounted"}) : call[c].on = e}
PointsOf(cs) == MapThenSumSet(LAMBDA c : call[c].points, cs)

\* Served one at a time, a balance is what was earned less what was spent, over the
\* calls that came as far as saving it: a transaction on record whose call failed
\* before is the only one the balance misses.
BalanceIsSettled ==
  serial => \A e \in Enrollments :
    enrollment[e].balance =
      PointsOf(Settlements("earn", e)) - PointsOf(Settlements("spend", e) \cup Settlements("redeem", e))

\* Served one at a time, no more of a limited reward are handed out than there are,
\* whichever calls fail half way.
RewardsWithinStock ==
  serial /\ item.limited => Cardinality(CallsAt("redeem", {"done"})) <= Stock

\* Served one at a time, a customer is enrolled once.
EnrolledOnce ==
  serial => \A e, f \in Enrollments : Exists(e) /\ enrollment[e].customer = enrollment[f].customer => e = f

\* total_points_redeemed_lifetime is what was redeemed.
LifetimeIsSum ==
  \A e \in Enrollments :
    enrollment[e].redeemed <= PointsOf(Settlements("spend", e) \cup Settlements("redeem", e))

\* When no query fails, every transaction on record is in the balance.
RecordedIsSettled == \A c \in Calls : call[c].pc # "unsettled"
=============================================================================
