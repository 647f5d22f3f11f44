---------------------------- MODULE BranchTables -----------------------------
(***************************************************************************)
(* Tellers of a branch: drawers, transactions, night deposits and safe     *)
(* deposit boxes as machines of StatusRows.                                *)
(***************************************************************************)
EXTENDS StatusTables

-----------------------------------------------------------------------------
\* The drawers of one teller.  A transaction saves the drawer it read to count itself.
Drawers == {"open", "closed", "suspended"}
NewDrawer == {Unless(New("openDrawer", "open", {}), {"open"})}
DrawerSteps ==
  {Step("closeDrawer", Drawers \ {"closed"}, "closed", {"closedAt"}),
   Step("updateCurrentBalance", Drawers, Same, {}),
   Step("incrementTransactionCounts", Drawers, Same, {})}
CountTransaction == {Step("executeTransaction", {"open"}, Same, {})}
DrawerCalls == {"closeDrawer", "updateCurrentBalance"}
Drawer == OneIn(Machine(Drawers, NewDrawer,
  Called(DrawerSteps, DrawerCalls) \cup CountTransaction,
  {Promise({"closed"}, {}, {"closedAt"}, {"closeDrawer"})}), {"open"})

\* Transactions.  A confirmation completes one that was voided or reversed.
TellerTransactions == {"completed", "pending", "reversed", "voided"}
NewTellerTransaction == {New("executeTransaction", "pending", {})}
TellerTransactionSteps ==
  {Step("confirmTransaction", TellerTransactions, "completed", {"printed"}),
   Step("reverseTransaction", {"completed"}, "reversed", {"approved"}),
   Step("voidTransaction", TellerTransactions \ {"completed"}, "voided", {})}
TellerTransactionCalls == {"confirmTransaction", "reverseTransaction", "voidTransaction"}
TellerTransaction == Machine(TellerTransactions, NewTellerTransaction,
  Called(TellerTransactionSteps, TellerTransactionCalls),
  {Promise({"completed"}, {}, {"printed"}, {"confirmTransaction"}),
   Promise({"reversed"}, {}, {"printed", "approved"}, {"confirmTransaction", "reverseTransaction"}),
   Promise({"voided"}, {}, {}, {"voidTransaction"})})

\* Exchanges of currency, rows of the same table.
NewExchange == {New("executeExchange", "pending", {})}
ExchangeSteps ==
  {Step("confirmExchange", TellerTransactions, "completed", {"printed"}),
   Step("reverseExchange", {"completed"}, "reversed", {"approved"})}
ExchangeCalls == {"confirmExchange", "reverseExchange"}
Exchange == Machine(TellerTransactions, NewExchange, Called(ExchangeSteps, ExchangeCalls),
  {Promise({"completed"}, {}, {"printed"}, {"confirmExchange"}),
   Promise({"reversed"}, {}, {"printed", "approved"}, {"confirmExchange", "reverseExchange"})})

\* Night deposits.  The processedAt that an opening sets to undefined stays as it is.
NightDeposits == {"received", "opened", "processed", "discrepancy", "rejected"}
NewNightDeposit == {New("createDeposit", "received", {})}
NightDepositSteps ==
  ToEach("completeProcessing", {"opened"}, {"processed", "discrepancy"}, {"processedAt"}) \cup
  {Step("initiateOpening", {"received"}, "opened", {"receivedBy"}),
   Step("rejectDeposit", NightDeposits \ {"processed"}, "rejected", {}),
   Step("recordDiscrepancyResolution", {"discrepancy"}, "processed", {})}
NightDepositCalls == {"initiateOpening", "completeProcessing"}
NightDeposit == Ending(Machine(NightDeposits, NewNightDeposit,
  Called(NightDepositSteps, NightDepositCalls),
  {Promise({"opened"}, {}, {"receivedBy"}, {"initiateOpening"}),
   Promise({"processed", "discrepancy"}, {}, {"receivedBy", "processedAt"},
           {"initiateOpening", "completeProcessing"})}), {"processed", "discrepancy"})

\* Safe deposit boxes.  Saving a column set to undefined leaves it: a returned box keeps the
\* customer it had.  An access fails to save, for it stores a customer where a date belongs.
SafeBoxes == {"available", "rented", "reserved", "maintenance", "disabled"}
NewSafeBox == {New("createBox", "available", {})}
SafeBoxSteps ==
  {Step("rentBox", {"available"}, "rented", {"customer"}),
   Step("returnBox", {"rented"}, "available", {}),
   Step("setMaintenance", SafeBoxes \ {"rented"}, "maintenance", {}),
   Step("reactivateBox", {"maintenance"}, "available", {}),
   Step("renewRental", {"rented"}, Same, {})}
SafeBoxCalls == {"rentBox", "returnBox"}
SafeBox == Machine(SafeBoxes, NewSafeBox, Called(SafeBoxSteps, SafeBoxCalls),
  {Promise({"rented"}, {}, {"customer"}, {"rentBox"})})

-----------------------------------------------------------------------------
Branch ==
  [drawer |-> Drawer, tellerTransaction |-> TellerTransaction, exchange |-> Exchange,
   nightDeposit |-> NightDeposit, safeBox |-> SafeBox]
=============================================================================
