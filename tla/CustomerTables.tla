--------------------------- MODULE CustomerTables ---------------------------
(***************************************************************************)
(* Wallets, mobile banking and the accounting of small businesses as       *)
(* machines of StatusRows.                                                 *)
(***************************************************************************)
EXTENDS StatusTables

-----------------------------------------------------------------------------
\* QR codes.  A scan reads the code, lets checkValidity expire it, and saves the code it
\* read before: the expiry is written over.
QrCodes == {"active", "expired", "revoked", "reused"}
NewQrCode == {New("generateQr", "active", {})}
QrExpiry == Step("checkValidity", {"active", "expired"}, "expired", {})
QrCodeSteps ==
  {Through("expired", Step("scanQr", {"active"}, "active", {})),
   Step("scanQr", QrCodes, Same, {}), QrExpiry,
   Step("revokeQr", QrCodes, "revoked", {"revokedAt"})}
QrCodeCalls == {"scanQr", "checkValidity", "revokeQr"}
QrCode == Machine(QrCodes, NewQrCode, Called(QrCodeSteps, QrCodeCalls),
  {Promise({"revoked"}, {}, {"revokedAt"}, {"revokeQr"})})

\* Payment methods of a customer, of which setPrimary leaves one primary; addMethod makes none.
PaymentMethods == {"primary", "secondary"}
NewPaymentMethod == {New("addMethod", "secondary", {})}
PaymentMethodSteps ==
  {Aside(Step("setPrimary", PaymentMethods, "primary", {}), {"primary"}, "secondary"),
   Step("removeMethod", PaymentMethods, Same, {"removed"}),
   Step("verifyWithMicrodeposit", PaymentMethods, Same, {}),
   Step("updateSpendLimits", PaymentMethods, Same, {}),
   Step("markAsUsed", PaymentMethods, Same, {})}
PaymentMethodCalls == {"setPrimary", "removeMethod", "verifyWithMicrodeposit",
                       "updateSpendLimits", "markAsUsed"}
PaymentMethod == OneIn(Machine(PaymentMethods, NewPaymentMethod,
  Called(PaymentMethodSteps, PaymentMethodCalls),
  {Promise({"primary"}, {}, {}, {"setPrimary"})}), {"primary"})

\* Tokens of a card in a wallet; activateToken revives a revoked one.
WalletTokens == {"active", "suspended", "expired", "revoked"}
NewWalletToken == {New("provisionToken", "active", {})}
WalletTokenSteps ==
  {Step("suspendToken", WalletTokens, "suspended", {}),
   Step("activateToken", WalletTokens, "active", {}),
   Step("revokeToken", WalletTokens, "revoked", {"revokedAt"}),
   Step("deactivateByRef", WalletTokens, "revoked", {"revokedAt"}),
   Step("setSpendingLimits", WalletTokens, Same, {}),
   Step("generateDynamicCryptogram", WalletTokens, Same, {})}
WalletTokenCalls == {"suspendToken", "activateToken", "deactivateByRef", "setSpendingLimits",
                     "generateDynamicCryptogram"}
WalletToken == Machine(WalletTokens, NewWalletToken, Called(WalletTokenSteps, WalletTokenCalls),
  {Promise({"revoked"}, {}, {"revokedAt"}, {"deactivateByRef"}),
   Promise({"suspended"}, {}, {}, {"suspendToken"})})

\* Transactions of the hub: the settlement clears those pending, one after the other.
HubPayments == {"pending", "matched", "cleared", "exception"}
NewHubPayment == {New("initiatePayment", "pending", {}), New("splitBill", "pending", {}),
                  New("processRefund", "pending", {}), New("retryFailedPayment", "pending", {})}
BatchSettlement == {OnAll(Step("executeBatchSettlement", {"pending"}, "cleared", {}))}
HubPaymentSteps == {Step("contestChargeback", HubPayments, Same, {"disputeCaseId"})}
HubPaymentCalls == {"contestChargeback"}
HubPayment == Ending(Machine(HubPayments, NewHubPayment,
  Called(HubPaymentSteps, HubPaymentCalls) \cup BatchSettlement,
  {Promise({"cleared"}, {}, {}, {"executeBatchSettlement"})}), {"cleared"})

-----------------------------------------------------------------------------
\* Transfers between persons; isRegisteredUser answers no, so each waits to be claimed.
P2pTransfers == {"pending", "claimed", "returned", "expired", "failed"}
NewP2pTransfer == {New("sendP2P", "pending", {})}
P2pTransferSteps ==
  {Step("claimTransfer", {"pending"}, "claimed", {"claimedAt"}),
   Step("returnTransfer", {"pending"}, "returned", {"returnedAt"}),
   Step("inviteContact", P2pTransfers, Same, {"invitationSmsSent"})}
P2pTransferCalls == {"claimTransfer", "returnTransfer", "inviteContact"}
P2pTransfer == Ending(Machine(P2pTransfers, NewP2pTransfer, Called(P2pTransferSteps, P2pTransferCalls),
  {Promise({"claimed"}, {}, {"claimedAt"}, {"claimTransfer"}),
   Promise({"returned"}, {}, {"returnedAt"}, {"returnTransfer"})}),
  {"claimed", "returned"})

\* Sessions of one device of a user, found or created without a unique index.
DeviceSessions == {"active", "inactive"}
NewDeviceSession == {Unless(New("enroll", "active", {}), DeviceSessions)}
DeviceSessionSteps ==
  {Step("enroll", DeviceSessions, "active", {}),
   Step("revoke", DeviceSessions, "inactive", {"revokedAt"})}
DeviceSessionCalls == {"enroll", "revoke"}
DeviceSession == OneIn(Machine(DeviceSessions, NewDeviceSession,
  Called(DeviceSessionSteps, DeviceSessionCalls),
  {Promise({"inactive"}, {}, {"revokedAt"}, {"revoke"})}), DeviceSessions)

\* Deposits of checks; no controller calls processDepositApproval.
CheckDeposits == {"submitted", "processing", "accepted", "rejected", "funds_available"}
NewCheckDeposit == {New("submitDeposit", "submitted", {})}
CheckDepositSteps ==
  ToEach("processDepositApproval", CheckDeposits, {"accepted"}, {"holdUntilDate"}) \cup
  ToEach("processDepositApproval", CheckDeposits, {"rejected"}, {"rejectionReason"})
CheckDeposit == Machine(CheckDeposits, NewCheckDeposit, CheckDepositSteps,
  {Promise({"accepted"}, {}, {"holdUntilDate"}, {"processDepositApproval"}),
   Promise({"rejected"}, {}, {"rejectionReason"}, {"processDepositApproval"})})

\* Appointments at a branch.
Appointments == {"scheduled", "cancelled"}
NewAppointment == {New("createAppointment", "scheduled", {})}
AppointmentSteps == {Step("cancelAppointment", Appointments, "cancelled", {"cancelledAt"})}
AppointmentCalls == {"cancelAppointment"}
Appointment == Ending(Machine(Appointments, NewAppointment,
  Called(AppointmentSteps, AppointmentCalls),
  {Promise({"cancelled"}, {}, {"cancelledAt"}, {"cancelAppointment"})}), {"cancelled"})

\* Notifications of the application.
MobileNotifications == {"listed"}
NewMobileNotification == {New("create", "listed", {})}
MobileNotificationSteps ==
  {Step("markAsRead", MobileNotifications, Same, {"inAppRead", "readAt"}),
   Step("dismiss", MobileNotifications, Same, {"dismissedAt"}),
   ByColumns(Step("markPushDelivered", MobileNotifications, Same, {"pushDelivered"})),
   ByColumns(Step("markPushOpened", MobileNotifications, Same, {"pushOpened"}))}
MobileNotification == Machine(MobileNotifications, NewMobileNotification, MobileNotificationSteps,
  {Promise(MobileNotifications, {"inAppRead"}, {"readAt"}, {"markAsRead"}),
   Promise(MobileNotifications, {"dismissedAt"}, {}, {"dismiss"}),
   Promise(MobileNotifications, {"pushOpened"}, {}, {"markPushOpened"})})

-----------------------------------------------------------------------------
\* Invoices.  A payment writes the sum it computed from the invoice it read, and send
\* issues a paid invoice again.
Invoices == {"draft", "issued", "partial_paid", "full_paid"}
NewInvoice == {New("create", "draft", {})}
InvoiceOfStock == {New("createInvoiceWithItems", "draft", {})}
InvoiceSteps == {ByColumns(Step("send", Invoices, "issued", {"sentAt"}))}
InvoicePayments ==
  {ByColumns(st) : st \in
     ToEach("processOnlinePayment", Invoices, {"partial_paid", "full_paid"}, {"received"}) \cup
     ToEach("markAsPaid", Invoices, {"partial_paid", "full_paid"}, {"received"})}
InvoiceCalls == {"send", "processOnlinePayment", "markAsPaid"}
Invoice == Machine(Invoices, NewInvoice \cup InvoiceOfStock,
  Called(InvoiceSteps \cup InvoicePayments, InvoiceCalls),
  {Promise({"issued"}, {}, {"sentAt"}, {"send"}),
   Promise({"partial_paid", "full_paid"}, {}, {"received"}, {})})

\* The company of a user; the wizard looks for it before it creates it.
Companies == {"profile"}
NewCompany == {Unless(New("startWizard", "profile", {}), Companies)}
CompanySteps ==
  {Step("updateProfile", Companies, Same, {}),
   ByColumns(Step("completeOnboarding", Companies, Same, {"onboardCompletedAt"}))}
Company == OneIn(Machine(Companies, NewCompany, CompanySteps,
  {Promise(Companies, {"onboardCompletedAt"}, {}, {"completeOnboarding"})}), Companies)

\* Budgets.  update assigns every field of its request, the status included.
Budgets == {"draft", "approved", "rejected", "archived"}
NewBudget == {New("create", "draft", {})}
BudgetSteps ==
  {Step("update", Budgets, Same, {}), Step("update", Budgets, "draft", {}),
   Step("approveBudget", Budgets \ {"approved"}, "approved", {"approvedAt"}),
   Step("rejectBudget", Budgets, "rejected", {}),
   Step("archiveBudget", Budgets, "archived", {}),
   Inserting(Step("cloneBudget", Budgets, Same, {}), Row("draft", {})),
   ByColumns(Step("delete", Budgets, Deleted, {}))}
BudgetCalls == {"update", "approveBudget", "rejectBudget", "archiveBudget", "cloneBudget", "delete"}
Budget == Machine(Budgets, NewBudget, Called(BudgetSteps, BudgetCalls),
  {Promise({"approved"}, {}, {"approvedAt"}, {"approveBudget"})})

\* Hours of a project.
TimeEntries == {"pending", "approved", "rejected"}
NewTimeEntry == {New("logTime", "pending", {})}
TimeEntrySteps ==
  {Step("approveEntry", TimeEntries, "approved", {"approvedBy", "approvedAt"}),
   Step("rejectEntry", TimeEntries, "rejected", {})}
TimeEntry == Machine(TimeEntries, NewTimeEntry, TimeEntrySteps,
  {Promise({"approved"}, {}, {"approvedBy", "approvedAt"}, {"approveEntry"}),
   Promise({"rejected"}, {}, {}, {"rejectEntry"})})

\* Methods of allocation.
Allocations == {"active", "inactive"}
NewAllocation == {New("createMethod", "active", {})}
AllocationSteps ==
  {Step("update", Allocations, Same, {}),
   Step("deactivate", Allocations, "inactive", {}),
   ByColumns(Step("delete", Allocations, Deleted, {}))}
AllocationCalls == {"update", "deactivate", "delete"}
Allocation == Machine(Allocations, NewAllocation, Called(AllocationSteps, AllocationCalls),
  {Promise({"inactive"}, {}, {}, {"deactivate"})})

-----------------------------------------------------------------------------
Customer ==
  [qrCode |-> QrCode, paymentMethod |-> PaymentMethod, walletToken |-> WalletToken,
   hubPayment |-> HubPayment, p2pTransfer |-> P2pTransfer, deviceSession |-> DeviceSession,
   checkDeposit |-> CheckDeposit, appointment |-> Appointment,
   mobileNotification |-> MobileNotification, invoice |-> Invoice, company |-> Company,
   budget |-> Budget, timeEntry |-> TimeEntry, allocation |-> Allocation]
=============================================================================
