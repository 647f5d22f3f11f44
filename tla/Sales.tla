-------------------------------- MODULE Sales ------------------------------
(***************************************************************************)
(* What is bought and sold: loyalty points and rewards (LoyaltyPoints) and *)
(* the goods in the warehouses (StockMovements).  The two services run in  *)
(* one process beside each other and share no row.                         *)
(***************************************************************************)
EXTENDS Integers, FiniteSets

CONSTANTS
  Items,    \* customers or warehouses
  Enrollments, NoId, Calls,
  MaxCalls,       \* bound: movements of goods, one at a time
  MaxOverlapping, \* bound: movements of goods that may overlap
  Numbers,  \* amounts of points, quantities of goods
  Price, Stock, Widest, Faulty

ASSUME SalesCallsAssumption == IsFiniteSet(Calls)
ASSUME SalesIdsAssumption == NoId \notin Items
ASSUME SalesNumbersAssumption ==
  Numbers \subseteq Nat /\ Price \in Nat /\ Stock \in Nat /\ Widest \in Nat

VARIABLES
  enrollment, item, pointCall, level, stockCall,
  serial    \* do the calls of a service wait for each other?

pointVars == <<enrollment, item, pointCall>>
stockVars == <<level, stockCall>>
vars      == <<pointVars, stockVars, serial>>

Rewards == INSTANCE LoyaltyPoints
             WITH Customers <- Items, Points <- Numbers, call <- pointCall
Goods   == INSTANCE StockMovements
             WITH Warehouses <- Items, Quantities <- Numbers, call <- stockCall

Init == Rewards!Init /\ Goods!Init

PointStep == Rewards!Next /\ UNCHANGED stockVars
StockStep == Goods!Next /\ UNCHANGED pointVars

Next == PointStep \/ StockStep

Spec == Init /\ [][Next]_vars

-----------------------------------------------------------------------------
\* Both services keep the types of their rows, and no balance or stock of rewards
\* is ever negative: see LoyaltyPoints.
TypeOK == Rewards!TypeOK /\ Goods!TypeOK

\* earn(), redeem() and redeemCashback() one at a time: see LoyaltyPoints.
BalanceIsSettled == Rewards!BalanceIsSettled

\* redeem() of a reward, one at a time: see LoyaltyPoints.
RewardsWithinStock == Rewards!RewardsWithinStock

\* The movements of goods one at a time: see StockMovements.
OnHandIsMoved == Goods!OnHandIsMoved

\* sale() and transfer() one at a time: see StockMovements.
NeverOversold == Goods!NeverOversold
=============================================================================
