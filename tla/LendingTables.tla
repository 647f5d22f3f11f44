---------------------------- MODULE LendingTables ----------------------------
(***************************************************************************)
(* Loans and cards as machines of StatusRows.                              *)
(***************************************************************************)
EXTENDS StatusTables

-----------------------------------------------------------------------------
\* Applications.  A decision may be taken again, and an offer is accepted in any status.
Applications == {"pending", "approved", "conditionally_approved", "counteroffered", "declined",
                 "withdrawn"}
NewApplication == {New("create", "pending", {})}
ApplicationSteps ==
  ToEach("updateDecision", Applications,
         {"approved", "conditionally_approved", "declined", "withdrawn"}, {"decidedAt"}) \cup
  {Step("submitApplication", Applications, Same, {"submittedAt"}),
   Step("acceptOffer", Applications, Same, {"eSignedAt"})}
ApplicationCalls == {"updateDecision", "submitApplication", "acceptOffer"}
Application == Machine(Applications, NewApplication, Called(ApplicationSteps, ApplicationCalls),
  {Promise(Applications \ {"pending"}, {}, {"decidedAt"}, {"updateDecision"}),
   Promise(Applications, {"eSignedAt"}, {}, {"acceptOffer"})})

\* Loans.  A payment fails on the text of a date column before it writes, so no loan is paid
\* off.  Charge-offs by hand leave no date; no controller calls accrual and ChargeOffService.
Loans == {"pending_disbursement", "active", "paid_off", "defaulted", "charged_off",
          "restructured", "suspended"}
NewLoan == {New("disburseLoan", "active", {})}
LoanSteps == {Step("registerExtraPayment", Loans, Same, {"extraPaid"})}
Collections ==
  {Step("logDelinquencyEvent", Loans, Same, {}),
   Step("processChargeOff", Loans, "charged_off", {})}
InterestAccruals == {Step("processAccrual", {"active"}, Same, {})}
RateAdjustments  == {Step("adjustArmRate", Loans, Same, {})}
Payoffs          == {Step("calculatePayoffAmount", Loans, Same, {})}
LateFees         == {Step("assessLateFees", Loans, Same, {})}
Capitalizations  == {Step("capitalizeInterest", Loans, Same, {})}
ChargeOffs ==
  {Step("processChargeOff", Loans \ {"charged_off"}, "charged_off", {"closedAt"}),
   Step("recordRecovery", {"charged_off"}, Same, {"recovered"})}
LoanCalls == {"registerExtraPayment"}
CollectionCalls == {"logDelinquencyEvent", "processChargeOff"}
Loan == Ending(Machine(Loans, NewLoan,
  Called(LoanSteps, LoanCalls) \cup Called(Collections, CollectionCalls) \cup
  InterestAccruals \cup RateAdjustments \cup Payoffs \cup LateFees \cup Capitalizations \cup
  ChargeOffs,
  {Promise({"charged_off"}, {}, {}, {"processChargeOff"}),
   Promise(Loans, {"closedAt"}, {}, {"processChargeOff"}),
   Promise(Loans, {"recovered"}, {}, {"processChargeOff", "recordRecovery"}),
   Promise(Loans, {"extraPaid"}, {}, {"registerExtraPayment"})}), {"charged_off"})

\* Installments.  Those of a loan that is charged off are written off one by one.
Installments == {"scheduled", "paid", "partial", "late", "missed", "skipped", "charged_off"}
NewInstallment == {New("generateAmortizationSchedule", "scheduled", {})}
InstallmentSteps ==
  {OnAll(Step("processChargeOff", {"scheduled"}, "charged_off", {})),
   Step("assessLateFees", {"scheduled"}, Same, {"lateFeeAssessed"})}
Installment == Ending(Machine(Installments, NewInstallment, InstallmentSteps,
  {Promise({"charged_off"}, {}, {}, {"processChargeOff"}),
   Promise(Installments, {"lateFeeAssessed"}, {}, {"assessLateFees"})}), {"charged_off"})

\* Restructurings.
Restructures == {"pending", "approved", "rejected", "effective", "cancelled"}
NewRestructure == {New("proposeRestructure", "pending", {})}
RestructureSteps ==
  {Step("approveRestructure", {"pending"}, "approved", {"approvedBy", "decidedAt"}),
   Step("rejectRestructure", {"pending"}, "rejected", {"approvedBy", "decidedAt"}),
   Step("applyRestructure", {"approved"}, "effective", {"effectiveDate"})}
RestructureCalls == {"approveRestructure", "rejectRestructure", "applyRestructure"}
Restructure == Ending(Machine(Restructures, NewRestructure,
  Called(RestructureSteps, RestructureCalls),
  {Promise({"approved"}, {}, {"approvedBy", "decidedAt"}, {"approveRestructure"}),
   Promise({"rejected"}, {}, {"decidedAt"}, {"rejectRestructure"}),
   Promise({"effective"}, {}, {"approvedBy", "decidedAt", "effectiveDate"},
           {"approveRestructure", "applyRestructure"})}), {"rejected", "effective"})

\* Margin calls.  One that nobody acknowledged may be resolved; no controller liquidates.
MarginCalls == {"issued", "acknowledged", "compliant", "executed", "expired", "cancelled"}
NewMarginCall == {New("issueMarginCall", "issued", {})}
MarginCallSteps ==
  {Step("acknowledgeMarginCall", {"issued"}, "acknowledged", {"acknowledgedAt"}),
   Step("resolveMarginCall", {"acknowledged", "issued"}, "compliant", {"resolvedAt"}),
   Step("executeLiquidation", {"acknowledged"}, "executed", {"resolvedAt"})}
MarginCallCalls == {"acknowledgeMarginCall", "resolveMarginCall"}
MarginCall == Ending(Machine(MarginCalls, NewMarginCall, Called(MarginCallSteps, MarginCallCalls),
  {Promise({"acknowledged"}, {}, {"acknowledgedAt"}, {"acknowledgeMarginCall"}),
   Promise({"compliant"}, {}, {"resolvedAt"}, {"resolveMarginCall"})}), {"compliant"})

\* Collateral.  No controller calls release or updateTitleStatus.
Collaterals == {"registered", "released", "foreclosed", "substituted"}
NewCollateral == {New("register", "registered", {})}
CollateralSteps ==
  {Step("release", Collaterals, "released", {"releasedAt"}),
   Step("updateTitleStatus", Collaterals, Same, {})}
Collateral == Machine(Collaterals, NewCollateral, CollateralSteps,
  {Promise({"released"}, {}, {"releasedAt"}, {"release"})})

-----------------------------------------------------------------------------
\* Cards.  Renewal saves the card, then its insertion breaks the unique panHash; the card of
\* a replacement, the only one with an empty panHash, is a row of its own.
Cards == {"issued", "active", "blocked", "lost", "stolen", "expired", "renewed", "closed",
          "pending_activation"}
NewCard == {New("requestCard", "pending_activation", {})}
CardSteps ==
  {Step("activateCard", {"pending_activation"}, "active", {}),
   Step("blockCard", Cards, "blocked", {"blockedAt"}),
   Dropping(Step("unblockCard", Cards, "active", {}), {"blockedAt"}),
   Step("reportLost", Cards, "lost", {"blockedAt"}),
   Step("reportStolen", Cards, "stolen", {"blockedAt"}),
   Step("closeCard", Cards, "closed", {}),
   Step("renewCard", Cards, "renewed", {}),
   Step("replaceCard", Cards, "closed", {}),
   Step("updateLimits", Cards, Same, {})}
CardCalls == {"activateCard", "blockCard", "unblockCard", "reportLost", "reportStolen",
              "closeCard", "renewCard", "replaceCard", "updateLimits"}
Card == Machine(Cards, NewCard, Called(CardSteps, CardCalls),
  {Promise({"blocked", "lost", "stolen"}, {}, {"blockedAt"}, {}),
   Promise({"lost"}, {}, {}, {"reportLost"}), Promise({"stolen"}, {}, {}, {"reportStolen"})})

\* Transactions of a card.
CardTransactions == {"authorized", "settled", "declined", "reversed"}
NewCardTransaction == {New("create", "authorized", {})}
CardTransactionSteps ==
  {Step("settleTransaction", CardTransactions, "settled", {}),
   Step("declineTransaction", CardTransactions, "declined", {"factors"}),
   Step("reverseTransaction", CardTransactions, "reversed", {})}
CardTransactionCalls == {"settleTransaction", "reverseTransaction"}
CardTransaction == Machine(CardTransactions, NewCardTransaction,
  Called(CardTransactionSteps, CardTransactionCalls),
  {Promise({"settled"}, {}, {}, {"settleTransaction"}),
   Promise({"reversed"}, {}, {}, {"reverseTransaction"})})

\* Disputes.  The status a resolution refuses is overwritten before it is saved.
Disputes == {"opened", "under_investigation", "resolved", "won", "lost", "invalid"}
NewDispute == {New("openDispute", "opened", {})}
DisputeSteps ==
  ToEach("resolve", Disputes \ {"resolved"}, {"lost", "invalid"}, {"resolvedAt"}) \cup
  {Step("resolve", Disputes \ {"resolved"}, "won", {"resolvedAt", "chargedBack"}),
   Step("escalateToChargeback", Disputes, "under_investigation", {"chargedBack"}),
   Step("addEvidence", Disputes, Same, {})}
DisputeCalls == {"resolve", "escalateToChargeback", "addEvidence"}
Dispute == Machine(Disputes, NewDispute, Called(DisputeSteps, DisputeCalls),
  {Promise({"won"}, {}, {"resolvedAt", "chargedBack"}, {"resolve"}),
   Promise({"lost", "invalid"}, {}, {"resolvedAt"}, {"resolve"}),
   Promise({"under_investigation"}, {}, {"chargedBack"}, {"escalateToChargeback"})})

\* Tokens of a card in a wallet.  Nobody calls cleanupExpired.
CardTokens == {"active", "suspended", "revoked", "expired"}
NewCardToken == {New("tokenizeCard", "active", {})}
CardTokenSteps ==
  {Step("revokeToken", CardTokens, "revoked", {}),
   Step("suspendToken", CardTokens, "suspended", {}),
   Step("reactivateToken", CardTokens, "active", {}),
   OnAll(Step("cleanupExpired", CardTokens \ {"revoked"}, "expired", {}))}
CardTokenCalls == {"revokeToken", "suspendToken", "reactivateToken"}
CardToken == Machine(CardTokens, NewCardToken, Called(CardTokenSteps, CardTokenCalls),
  {Promise({"revoked"}, {}, {}, {"revokeToken"}), Promise({"suspended"}, {}, {}, {"suspendToken"})})

-----------------------------------------------------------------------------
Lending ==
  [application |-> Application, loan |-> Loan, installment |-> Installment,
   restructure |-> Restructure,
   marginCall |-> MarginCall, collateral |-> Collateral, card |-> Card,
   cardTransaction |-> CardTransaction, dispute |-> Dispute, cardToken |-> CardToken]
=============================================================================
