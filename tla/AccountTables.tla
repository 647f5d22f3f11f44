---------------------------- MODULE AccountTables ----------------------------
(***************************************************************************)
(* Business and retail banking, the ledger's side tables, loyalty,         *)
(* webhooks and payments as machines of StatusRows: what LedgerAccounts,   *)
(* RetailAccounts, Payroll and the like leave out.                         *)
(***************************************************************************)
EXTENDS StatusTables

-----------------------------------------------------------------------------
\* Business accounts.  updateStatus closes an account without a date, and any change of
\* status opens a closed one.
BusinessAccounts == {"active", "frozen", "dormant", "closed", "restricted"}
NewBusinessAccount == {New("openAccount", "active", {})}
BusinessAccountSteps ==
  ToEach("updateStatus", BusinessAccounts, BusinessAccounts, {}) \cup
  {Step("freezeAccount", BusinessAccounts, "frozen", {}),
   Step("unfreezeAccount", BusinessAccounts, "active", {}),
   Step("configureOverdraft", BusinessAccounts, Same, {}),
   Step("verifyKyc", BusinessAccounts, Same, {"kycVerifiedAt"}),
   Step("closeAccount", BusinessAccounts, "closed", {"closedAt"})}
BusinessAccountCalls == {"updateStatus", "freezeAccount", "unfreezeAccount",
                         "configureOverdraft", "verifyKyc", "closeAccount"}
BusinessAccount == Machine(BusinessAccounts, NewBusinessAccount,
  Called(BusinessAccountSteps, BusinessAccountCalls),
  {Promise(BusinessAccounts, {"closedAt"}, {}, {"closeAccount"}),
   Promise(BusinessAccounts, {"kycVerifiedAt"}, {}, {"verifyKyc"}),
   Promise({"dormant", "restricted"}, {}, {}, {"updateStatus"})})

\* Signatories.  The row that is looked for may be a removed one while another is active.
Signatories == {"active", "removed", "pending_approval"}
NewSignatory == {New("addSignatory", "active", {})}
SignatorySteps ==
  {Step("updateAuthorization", Signatories, Same, {}),
   Step("setLimits", Signatories, Same, {}),
   Step("removeSignatory", Signatories, "removed", {"removedAt"})}
SignatoryCalls == {"updateAuthorization", "setLimits", "removeSignatory"}
Signatory == Ending(Machine(Signatories, NewSignatory, Called(SignatorySteps, SignatoryCalls),
  {Promise({"removed"}, {}, {"removedAt"}, {"removeSignatory"})}), {"removed"})

\* Checks.  A voided check that is presented is paid, and a paid one may be paid again.
Checks == {"issued", "paid", "returned", "void", "stale"}
NewCheck == {New("createCheck", "issued", {})}
CheckSteps ==
  ToEach("processPresentment", Checks, {"paid", "returned"}, {"presented", "decision"}) \cup
  ToEach("markDecided", Checks, {"paid", "returned", Same}, {"decidedAt", "decision"}) \cup
  {Step("voidCheck", Checks, "void", {"decision"})}
CheckCalls == {"processPresentment", "markDecided", "voidCheck"}
Check == Machine(Checks, NewCheck, Called(CheckSteps, CheckCalls),
  {Promise({"paid", "returned"}, {}, {"decision"}, {}), Promise({"void"}, {}, {}, {"voidCheck"}),
   Promise(Checks, {"decidedAt"}, {"decision"}, {"markDecided"})})

\* Sweep rules.  A sweep that is under way saves the rule it read: it activates one that was
\* deactivated meanwhile.
SweepRules == {"active", "inactive"}
NewSweepRule == {New("createRule", "active", {})}
SweepRuleSteps ==
  {Step("deactivateRule", SweepRules, "inactive", {}),
   Step("activateRule", SweepRules, "active", {}),
   Step("executeSweep", {"active"}, Same, {"lastExecutedAt"})}
SweepRuleCalls == {"deactivateRule", "activateRule", "executeSweep"}
SweepRule == Machine(SweepRules, NewSweepRule, Called(SweepRuleSteps, SweepRuleCalls),
  {Promise({"inactive"}, {}, {}, {"deactivateRule"}),
   Promise(SweepRules, {"lastExecutedAt"}, {}, {"executeSweep"})})

\* Beneficial owners.  A match on a list sends the verification back to pending; nothing
\* keeps an owner with a match from being verified.  Nobody calls rejectUbo.
Owners == {"verified", "pending", "rejected"}
NewOwner == {New("registerUbo", "pending", {})}
OwnerSteps ==
  ToEach("markAsPep", Owners, {"pending", Same}, {}) \cup
  ToEach("screenSanctions", Owners, {"pending", Same}, {}) \cup
  ToEach("flagAdverseMedia", Owners, {"pending", Same}, {}) \cup
  {Step("updateOwnership", Owners, Same, {}),
   Step("verifyKyc", Owners, "verified", {"verifiedAt"}),
   Step("rejectUbo", Owners, "rejected", {})}
OwnerCalls == {"updateOwnership", "verifyKyc", "markAsPep", "screenSanctions",
               "flagAdverseMedia"}
Owner == Machine(Owners, NewOwner, Called(OwnerSteps, OwnerCalls),
  {Promise({"verified"}, {}, {"verifiedAt"}, {"verifyKyc"})})

-----------------------------------------------------------------------------
\* Deposit certificates.  A renewal with a term inserts the successor and leaves the old
\* certificate active; one that was withdrawn can be renewed.
Deposits == {"active", "matured", "withdrawn", "renewed"}
NewDeposit == {New("createCD", "active", {})}
DepositSteps ==
  {Step("renewCd", Deposits, "renewed", {}),
   Inserting(Step("renewCd", Deposits, Same, {}), Row("active", {})),
   Step("earlyWithdrawal", {"active"}, "withdrawn", {}),
   Step("matureCd", Deposits, "matured", {})}
DepositCalls == {"renewCd", "earlyWithdrawal"}
Deposit == Machine(Deposits, NewDeposit, Called(DepositSteps, DepositCalls),
  {Promise({"renewed"}, {}, {}, {"renewCd"}), Promise({"withdrawn"}, {}, {}, {"earlyWithdrawal"})})

\* Alerts of a retail account.  A check that found the alert saves it again after its deletion.
RetailAlerts == {"active", "inactive"}
NewRetailAlert == {New("createAlert", "active", {})}
RetailAlertSteps ==
  {ByColumns(Step("deleteAlert", RetailAlerts, Deleted, {})),
   Step("toggleAlert", {"active"}, "inactive", {}),
   Step("toggleAlert", {"inactive"}, "active", {}),
   Step("checkLowBalance", {"active"}, Same, {"lastTriggeredAt"}),
   Step("checkLargeTransaction", {"active"}, Same, {"lastTriggeredAt"})}
RetailAlertCalls == {"deleteAlert", "toggleAlert", "checkLowBalance", "checkLargeTransaction"}
RetailAlert == Machine(RetailAlerts, NewRetailAlert, Called(RetailAlertSteps, RetailAlertCalls),
  {Promise({"inactive"}, {}, {}, {"toggleAlert"})})

-----------------------------------------------------------------------------
\* Accruals.  The amount that was amortized is added to as text; no controller calls the service.
Accruals == {"active", "fully_amortized", "reversed"}
NewAccrual == {New("createAccrual", "active", {})}
AccrualSteps ==
  ToEach("amortizePeriod", {"active"}, {"fully_amortized", Same}, {"amortized"}) \cup
  {Step("reverseAccrual", Accruals \ {"reversed"}, "reversed", {})}
Accrual == Ending(Machine(Accruals, NewAccrual, AccrualSteps,
  {Promise({"fully_amortized"}, {}, {"amortized"}, {"amortizePeriod"}),
   Promise({"reversed"}, {}, {}, {"reverseAccrual"})}), {"reversed"})

\* Transactions between entities.  markPosted takes one in any status back; the elimination
\* saves all rows it found.  No controller calls the service.
Intercompanies == {"pending", "posted", "eliminated", "settled"}
NewIntercompany == {New("createTxn", "pending", {})}
IntercompanySteps ==
  {Step("markPosted", Intercompanies, "posted", {"journalEntryId"}),
   OnAll(Step("runEliminations", {"posted"}, "eliminated", {"eliminationEntryId"})),
   Step("settleTxn", {"eliminated", "posted"}, "settled", {})}
Intercompany == Machine(Intercompanies, NewIntercompany, IntercompanySteps,
  {Promise({"posted"}, {}, {"journalEntryId"}, {"markPosted"}),
   Promise({"eliminated"}, {}, {"journalEntryId", "eliminationEntryId"},
           {"markPosted", "runEliminations"}),
   Promise({"settled"}, {}, {"journalEntryId"}, {"markPosted", "settleTxn"})})

\* Reconciliations of a bank account.  No controller calls resolveException, so none is
\* certified from outside.
Reconciliations == {"pending", "auto_matched", "exceptions", "resolved", "certified"}
NewReconciliation == {New("create", "pending", {"reconciled_at"})}
ReconciliationSteps ==
  {Step("resolveException", Reconciliations, "resolved", {"reconciled_at"}),
   Step("certify", {"resolved"}, "certified", {})}
Reconciliation == Machine(Reconciliations, NewReconciliation, ReconciliationSteps,
  {Promise({"resolved"}, {}, {"reconciled_at"}, {"resolveException"}),
   Promise({"certified"}, {}, {"reconciled_at"}, {"resolveException", "certify"})})

\* Segments.
Segments == {"active", "inactive"}
NewSegment == {New("createSegment", "active", {})}
SegmentSteps == ToEach("updateStatus", Segments, Segments, {})
SegmentCalls == {"updateStatus"}
Segment == Machine(Segments, NewSegment, Called(SegmentSteps, SegmentCalls),
  {Promise({"inactive"}, {}, {}, {"updateStatus"})})

-----------------------------------------------------------------------------
\* Promotions of the loyalty programme.  Each method takes any status, a cancelled one too.
Promotions == {"scheduled", "active", "paused", "completed", "cancelled"}
NewPromotion == {New("create", "scheduled", {})}
PromotionSteps ==
  {Step("activate", Promotions, "active", {"activatedAt"}),
   Step("pause", Promotions, "paused", {"pausedAt"}),
   Step("cancel", Promotions, "cancelled", {})}
PromotionCalls == {"activate", "pause", "cancel"}
Promotion == Machine(Promotions, NewPromotion, Called(PromotionSteps, PromotionCalls),
  {Promise({"active"}, {}, {"activatedAt"}, {"activate"}),
   Promise({"paused"}, {}, {"pausedAt"}, {"pause"}),
   Promise({"cancelled"}, {}, {}, {"cancel"})})

\* Keys of the API.  A validation that read an active key saves it after its revocation.
ApiKeys == {"ACTIVE", "REVOKED", "EXPIRED"}
NewApiKey == {New("generateApiKey", "ACTIVE", {})}
ApiKeySteps ==
  {Step("revokeApiKey", ApiKeys, "REVOKED", {"revokedAt"}),
   Step("validateApiKey", {"ACTIVE"}, "EXPIRED", {}),
   Step("validateApiKey", {"ACTIVE"}, Same, {"lastUsedAt"})}
ApiKey == Ending(Machine(ApiKeys, NewApiKey, ApiKeySteps,
  {Promise({"REVOKED"}, {}, {"revokedAt"}, {"revokeApiKey"}),
   Promise({"EXPIRED"}, {}, {}, {"validateApiKey"})}), {"REVOKED"})

\* Tenants.  A configuration or a request that is under way undoes a suspension.
Tenants == {"ACTIVE", "SUSPENDED", "ARCHIVED"}
NewTenant == {New("createTenant", "ACTIVE", {})}
TenantSteps ==
  {Step("suspendTenant", Tenants, "SUSPENDED", {"suspendedAt"}),
   Dropping(Step("activateTenant", Tenants, "ACTIVE", {}), {"suspendedAt"}),
   Step("updateTenantConfig", Tenants, Same, {}),
   Step("trackRequest", Tenants, Same, {})}
TenantCalls == {"suspendTenant", "activateTenant", "updateTenantConfig"}
Tenant == Machine(Tenants, NewTenant, Called(TenantSteps, TenantCalls),
  {Promise({"SUSPENDED"}, {}, {"suspendedAt"}, {"suspendTenant"})})

\* Connections to a bank.  An update with an undefined date leaves the date.
Connections == {"DISCONNECTED", "ACTIVE", "ERROR"}
NewConnection == {New("create", "DISCONNECTED", {})}
ConnectionSteps ==
  {ByColumns(Step("testConnection", Connections, "ACTIVE", {"lastSuccessfulPoll"})),
   ByColumns(Step("testConnection", Connections, "ERROR", {})),
   ByColumns(Step("resetDailyLimits", Connections, Same, {}))}
Connection == Machine(Connections, NewConnection, ConnectionSteps,
  {Promise({"ACTIVE"}, {}, {"lastSuccessfulPoll"}, {"testConnection"}),
   Promise({"ERROR"}, {}, {}, {"testConnection"})})

-----------------------------------------------------------------------------
\* Budgets of the ledger.  Encumbrances save the copy of the budget that they read.
LedgerBudgets == {"draft", "approved", "revised", "closed"}
NewLedgerBudget == {New("createBudget", "draft", {})}
LedgerBudgetSteps ==
  {Step("approveBudget", {"draft", "revised"}, "approved", {"approvedAt"}),
   Step("updateActualAmount", LedgerBudgets, Same, {})}
BudgetReserves ==
  {Step("createEncumbrance", {"approved"}, Same, {"reserved"}),
   Step("fulfillEncumbrance", LedgerBudgets, Same, {}),
   Step("cancelEncumbrance", LedgerBudgets, Same, {})}
LedgerBudget == Machine(LedgerBudgets, NewLedgerBudget, LedgerBudgetSteps \cup BudgetReserves,
  {Promise({"approved"}, {}, {"approvedAt"}, {"approveBudget"}),
   Promise(LedgerBudgets, {"reserved"}, {"approvedAt"}, {"approveBudget", "createEncumbrance"})})

\* Encumbrances.  The amount fulfilled is appended to a text, so it hardly grows and only an
\* encumbrance of nothing is fulfilled; a fulfilled one can be cancelled.
Encumbrances == {"open", "partially_fulfilled", "fulfilled", "cancelled"}
NewEncumbrance == {New("createEncumbrance", "open", {})}
EncumbranceSteps ==
  ToEach("fulfillEncumbrance", {"open", "partially_fulfilled"},
         {"partially_fulfilled", "fulfilled"}, {}) \cup
  {Step("cancelEncumbrance", Encumbrances, "cancelled", {})}
Encumbrance == Ending(Machine(Encumbrances, NewEncumbrance, EncumbranceSteps,
  {Promise({"partially_fulfilled", "fulfilled"}, {}, {}, {"fulfillEncumbrance"}),
   Promise({"cancelled"}, {}, {}, {"cancelEncumbrance"})}), {"cancelled"})

\* Rules of the sub-ledgers.  A posting that is under way activates a rule again.
DistributionRules == {"draft", "active", "inactive", "archived"}
NewDistributionRule == {New("createRule", "active", {})}
DistributionRuleSteps ==
  {Step("deactivateRule", DistributionRules, "inactive", {}),
   Step("postEntries", DistributionRules, Same, {"lastRunAt"})}
DistributionRule == Machine(DistributionRules, NewDistributionRule, DistributionRuleSteps,
  {Promise({"inactive"}, {}, {}, {"deactivateRule"}),
   Promise(DistributionRules, {"lastRunAt"}, {}, {"postEntries"})})

\* Entries of the sub-ledgers; some have a rule that requires an approval.  An approval that
\* read an entry before it was posted makes it unposted again.
SubLedgerEntries == {"unposted", "posted"}
NewSubLedgerEntry == {New("createEntry", "unposted", has) : has \in {{}, {"requiresApproval"}}}
SubLedgerEntrySteps ==
  {Lacking(Step("postEntries", {"unposted"}, "posted", {"journalEntryId"}), {"requiresApproval"}),
   Needing(Step("postEntries", {"unposted"}, "posted", {"journalEntryId"}), {"approvedBy"}),
   Step("approveEntry", SubLedgerEntries, Same, {"approvedBy"})}
SubLedgerEntry == Ending(Machine(SubLedgerEntries, NewSubLedgerEntry, SubLedgerEntrySteps,
  {Promise({"posted"}, {}, {"journalEntryId"}, {"postEntries"}),
   Promise({"posted"}, {"requiresApproval"}, {"approvedBy"}, {}),
   Promise(SubLedgerEntries, {"approvedBy"}, {}, {"approveEntry"})}), {"posted"})

\* Joint holders.  No controller calls the service.
JointHolders == {"active", "removed", "pending"}
NewJointHolder == {New("addJointHolder", "active", {})}
JointHolderSteps ==
  {Step("updateAccessLevel", JointHolders, Same, {}),
   Step("updateOwnershipPercentage", JointHolders, Same, {}),
   Step("removeHolder", JointHolders, "removed", {"removedAt"})}
JointHolder == Ending(Machine(JointHolders, NewJointHolder, JointHolderSteps,
  {Promise({"removed"}, {}, {"removedAt"}, {"removeHolder"})}), {"removed"})

-----------------------------------------------------------------------------
Account ==
  [businessAccount |-> BusinessAccount, signatory |-> Signatory, check |-> Check,
   sweepRule |-> SweepRule, owner |-> Owner, deposit |-> Deposit, retailAlert |-> RetailAlert,
   accrual |-> Accrual, intercompany |-> Intercompany, reconciliation |-> Reconciliation,
   segment |-> Segment, promotion |-> Promotion, apiKey |-> ApiKey, tenant |-> Tenant,
   connection |-> Connection, ledgerBudget |-> LedgerBudget, encumbrance |-> Encumbrance,
   distributionRule |-> DistributionRule, subLedgerEntry |-> SubLedgerEntry,
   jointHolder |-> JointHolder]
=============================================================================
