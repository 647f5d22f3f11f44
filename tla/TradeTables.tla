----------------------------- MODULE TradeTables -----------------------------
(***************************************************************************)
(* Trade finance, correspondent banking, consolidation of the group and    *)
(* bancassurance as machines of StatusRows.                                *)
(***************************************************************************)
EXTENDS StatusTables

-----------------------------------------------------------------------------
\* Guarantees: no method asks for the status it finds.
Guarantees == {"application", "under_review", "active", "suspended", "claimed", "expired",
               "extended", "released", "cancelled"}
NewGuarantee == {New("create", "active", {})}
GuaranteeSteps ==
  {Step("claim", Guarantees, "claimed", {"lastClaimDate"}),
   Step("release", Guarantees, "released", {}),
   Step("expire", Guarantees, "expired", {}),
   Step("extend", Guarantees, Same, {"extended"}),
   Step("cancel", Guarantees, "cancelled", {})}
GuaranteeCalls == {"claim", "release", "expire", "extend"}
Guarantee == Machine(Guarantees, NewGuarantee, Called(GuaranteeSteps, GuaranteeCalls),
  {Promise({"claimed"}, {}, {"lastClaimDate"}, {"claim"}),
   Promise({"released"}, {}, {}, {"release"}), Promise({"expired"}, {}, {}, {"expire"})})

\* Documents presented under a credit or a guarantee.
Examined == {"compliant", "minor_discrepancy", "major_discrepancy", "conditionally_accepted", "rejected"}
Documents == Examined \cup {"waived", "pending_correction"}
NewDocument == {New("submit", "pending_correction", {})}
DocumentSteps ==
  ToEach("examine", Documents, {"compliant", "rejected", "waived"}, {"examinationDate"}) \cup
  {Step("waiveDiscrepancy", Documents, "waived", {"waived"}),
   Step("markUrgent", Documents, Same, {"urgent"})}
DocumentCalls == {"examine", "waiveDiscrepancy"}
Document == Machine(Documents, NewDocument, Called(DocumentSteps, DocumentCalls),
  {Promise(Examined, {}, {"examinationDate"}, {"examine"}),
   Promise(Documents, {"waived"}, {}, {"waiveDiscrepancy"})})

-----------------------------------------------------------------------------
\* Correspondents: a screening saves the bank it read before it.
Correspondents == {"active", "terminated"}
NewCorrespondent == {New("create", "active", {})}
CorrespondentSteps ==
  {ByColumns(Step("update", Correspondents, Same, {"terminationDate"})),
   ByColumns(Step("deactivate", {"active"}, "terminated", {"terminationDate"})),
   ByColumns(Step("updateAnnualReview", Correspondents, Same, {"annualReviewDate"}))}
ScreenCorrespondent == {Step("screenCorrespondent", Correspondents, Same, {"screened"})}
CorrespondentCalls == {"update", "deactivate", "updateAnnualReview"}
Correspondent == Ending(Machine(Correspondents, NewCorrespondent,
  Called(CorrespondentSteps, CorrespondentCalls) \cup ScreenCorrespondent,
  {Promise({"terminated"}, {}, {"terminationDate"}, {"deactivate"}),
   Promise(Correspondents, {"screened"}, {}, {"screenCorrespondent"})}), {"terminated"})

\* Hits of the screening of a correspondent.
Hits == {"clear", "potential_match", "confirmed_match", "false_positive"}
NewHit ==
  {New("screenCorrespondent", "clear", {}), New("screenCorrespondent", "potential_match", {}),
   New("screenCorrespondent", "confirmed_match", {"escalated"})}
HitSteps ==
  {Step("escalateScreening", Hits, Same, {"escalated", "escalatedTo"}),
   Step("resolveScreening", Hits, Same, {"resolvedAt"}),
   Step("resolveScreening", Hits, Same, {"resolvedAt", "sarFiled"}),
   Dropping(Step("resolveScreening", Hits, Same, {"resolvedAt"}), {"sarFiled"})}
HitCalls == {"escalateScreening", "resolveScreening"}
Hit == Machine(Hits, NewHit, Called(HitSteps, HitCalls),
  {Promise({"confirmed_match"}, {}, {"escalated"}, {}),
   Promise(Hits, {"escalatedTo"}, {"escalated"}, {"escalateScreening"}),
   Promise(Hits, {"sarFiled"}, {"resolvedAt"}, {"resolveScreening"})})

\* Remittances.  The tracker of SWIFT writes any status, to one that has a tracking id.
Remittances == {"initiated", "executing", "confirmed", "completed", "cancelled"}
NewRemittance == {New("initiate", "initiated", {})}
RemittanceSteps ==
  {Step("execute", {"initiated"}, "executing", {"executedAt"}),
   Step("confirmExecution", Remittances, "confirmed", {"confirmedAt", "tracked"}),
   Step("markBeneficiaryCredited", Remittances, "completed", {"creditedAt"}),
   Step("cancel", Remittances \ {"completed", "confirmed"}, "cancelled", {})}
RemittanceCalls == {"execute", "confirmExecution", "cancel"}
TrackerSteps ==
  {Step("createGpiTracker", Remittances, Same, {"tracked"}),
   Step("receiveSwiftMessageMT103", Remittances, "completed", {"creditedAt"})} \cup
  {Needing(st, {"tracked"}) :
     st \in ToEach("updateGpiStatus", Remittances, {"completed"}, {})}
TrackerCalls == {"createGpiTracker", "updateGpiStatus", "receiveSwiftMessageMT103"}
Remittance == Machine(Remittances, NewRemittance,
  Called(RemittanceSteps, RemittanceCalls) \cup Called(TrackerSteps, TrackerCalls),
  {Promise({"confirmed"}, {}, {"confirmedAt", "tracked"}, {"confirmExecution"}),
   Promise({"cancelled"}, {}, {}, {"cancel"}),
   Promise(Remittances, {"executedAt"}, {}, {"execute"}),
   Promise(Remittances, {"creditedAt"}, {}, {"receiveSwiftMessageMT103"})})

-----------------------------------------------------------------------------
\* Runs of the consolidation.  No controller calls updateProgress or failRun.
Runs == {"pending", "in_progress", "eliminating", "translating", "completed", "failed", "approved"}
NewRun == {New("createRun", "pending", {})}
RunSteps ==
  ToEach("updateProgress", Runs, {"eliminating", "completed", Same}, {}) \cup
  {Step("startRun", {"pending"}, "in_progress", {}),
   Step("approveRun", {"completed"}, "approved", {"approvedBy", "approvedAt"}),
   Step("failRun", Runs, "failed", {"errorDetails"})}
Run == Machine(Runs, NewRun, RunSteps,
  {Promise({"approved"}, {}, {"approvedBy", "approvedAt"}, {"updateProgress", "approveRun"}),
   Promise({"completed"}, {}, {}, {"updateProgress"}),
   Promise({"failed"}, {}, {"errorDetails"}, {"failRun"})})

\* Acquisitions.  The allocation of the price saves, then calls calculateGoodwill, which
\* reads the row again: a call of its own here.
Acquisitions == {"announced", "regulatory_approval", "closing", "completed", "terminated",
                 "impairment_testing"}
NewAcquisition == {New("create", "announced", {})}
AcquisitionSteps ==
  ToEach("updateStatus", Acquisitions, {"closing", "impairment_testing"}, {}) \cup
  {Step("performPurchasePriceAllocation", Acquisitions, Same, {"allocated"}),
   Step("terminate", Acquisitions, "terminated", {"reason"})}
GoodwillSteps ==
  {Step("calculateGoodwill", Acquisitions, Same, {}),
   Step("testImpairment", Acquisitions, "impairment_testing", {"impaired"})}
AcquisitionCalls == {"updateStatus", "performPurchasePriceAllocation", "terminate",
                     "calculateGoodwill", "testImpairment"}
Acquisition == Machine(Acquisitions, NewAcquisition,
  Called(AcquisitionSteps \cup GoodwillSteps, AcquisitionCalls),
  {Promise(Acquisitions, {"allocated"}, {}, {"performPurchasePriceAllocation"}),
   Promise(Acquisitions, {"impaired"}, {}, {"testImpairment"}),
   Promise(Acquisitions, {"reason"}, {}, {"terminate"})})

\* Eliminations: a manual match takes any entry, an eliminated one too.
Eliminations == {"pending", "matched", "partial", "manual_override", "eliminated"}
NewElimination == {New("createEntry", "pending", {})}
EliminationSteps ==
  {OnAll(Step("autoMatch", {"pending"}, "matched", {"eliminatedAmount", "autoMatched"})),
   OnAll(Step("autoMatch", {"pending"}, "partial", {"eliminatedAmount", "autoMatched"})),
   Dropping(Step("manualMatch", Eliminations, "manual_override", {"eliminatedAmount"}), {"autoMatched"}),
   Step("executeElimination", {"matched", "manual_override", "partial"}, "eliminated", {}),
   OnAll(Step("executeBatchElimination", {"matched", "manual_override"}, "eliminated", {}))}
EliminationCalls == {"autoMatch", "manualMatch", "executeElimination", "executeBatchElimination"}
Elimination == Machine(Eliminations, NewElimination, Called(EliminationSteps, EliminationCalls),
  {Promise({"matched", "partial"}, {}, {"eliminatedAmount", "autoMatched"}, {"autoMatch"}),
   Promise({"manual_override"}, {}, {"eliminatedAmount"}, {"manualMatch"}),
   Promise({"eliminated"}, {}, {"eliminatedAmount"}, {})})

-----------------------------------------------------------------------------
\* Claims on insurance policies: a claim paid can be assigned and paid again.
Claims == {"submitted", "under_review", "approved", "rejected", "paid", "closed"}
NewClaim == {New("createClaim", "submitted", {})}
ClaimSteps ==
  {Step("assignAdjuster", Claims, "under_review", {"adjuster"}),
   Step("approveClaim", {"under_review"}, "approved", {"approvedAmount"}),
   Step("rejectClaim", Claims, "rejected", {}),
   Step("payout", {"approved"}, "paid", {"payoutDate"})}
ClaimCalls == {"assignAdjuster", "approveClaim", "payout"}
Claim == Machine(Claims, NewClaim, Called(ClaimSteps, ClaimCalls),
  {Promise({"paid"}, {}, {"adjuster", "approvedAmount", "payoutDate"},
           {"assignAdjuster", "approveClaim", "payout"}),
   Promise({"approved"}, {}, {"adjuster", "approvedAmount"}, {"assignAdjuster", "approveClaim"}),
   Promise({"under_review"}, {}, {"adjuster"}, {"assignAdjuster"})})

\* Policies and their endorsements, premiums and commissions; a renewal revives one.
Policies == {"active", "pending", "expired", "cancelled", "lapsed"}
NewPolicy == {New("issue", "active", {})}
PolicySteps ==
  {Step("renew", Policies, "active", {"renewed"}),
   Step("cancel", Policies \ {"cancelled"}, "cancelled", {"cancellationReason"})}
PolicyCalls == {"renew", "cancel"}
Policy == Machine(Policies, NewPolicy, Called(PolicySteps, PolicyCalls),
  {Promise({"cancelled"}, {}, {"cancellationReason"}, {"cancel"}),
   Promise(Policies, {"renewed"}, {}, {"renew"})})

Endorsements == {"pending", "approved", "rejected", "effective"}
NewEndorsement == {New("endorse", "pending", {})}
EndorsementSteps == {Step("approveEndorsement", Endorsements, "approved", {"approvedBy"})}
Endorsement == Ending(Machine(Endorsements, NewEndorsement, EndorsementSteps,
  {Promise({"approved"}, {}, {"approvedBy"}, {"approveEndorsement"})}), {"approved"})

Premiums == {"pending", "paid", "overdue", "cancelled", "waived"}
NewPremium == {New("issue", "pending", {})}
PremiumSteps ==
  {Step("collectPremium", Premiums \ {"paid"}, "paid", {"paymentId", "paidAt"}),
   OnAll(Step("markOverdue", {"pending"}, "overdue", {})),
   Step("waivePremium", Premiums, "waived", {})}
Premium == Machine(Premiums, NewPremium, PremiumSteps,
  {Promise({"paid"}, {}, {"paymentId", "paidAt"}, {"collectPremium"}),
   Promise({"overdue"}, {}, {}, {"markOverdue"}),
   Promise({"waived"}, {}, {}, {"waivePremium"})})

Commissions == {"accrued", "paid", "reversed", "pending"}
NewCommission == {New("issue", "accrued", {})}
CommissionSteps ==
  {Step("payCommission", Commissions, "paid", {"paidAt"}),
   Step("reverseCommission", Commissions, "reversed", {})}
Commission == Machine(Commissions, NewCommission, CommissionSteps,
  {Promise({"paid"}, {}, {"paidAt"}, {"payCommission"}),
   Promise({"reversed"}, {}, {}, {"reverseCommission"})})

\* Assessments: the status is the final decision, none before it is made.
Assessments == {"unset", "approved", "conditional", "declined", "referred"}
NewAssessment == {New("evaluate", "unset", {"riskScore"})}
AssessmentSteps == ToEach("makeDecision", Assessments, Assessments \ {"unset"}, {})
AssessmentCalls == {"makeDecision"}
Assessment == Machine(Assessments, NewAssessment, Called(AssessmentSteps, AssessmentCalls),
  {Promise(Assessments, {}, {"riskScore"}, {}),
   Promise(Assessments \ {"unset"}, {}, {}, {"makeDecision"})})

\* Entries of a nostro account held in suspense.  No controller creates one.
SuspenseItems == {"open", "investigating", "resolved", "written_off"}
NewSuspenseItem == {New("createSuspenseItem", "open", {})}
SuspenseItemSteps == {Step("resolveSuspenseItem", SuspenseItems, "resolved", {"resolvedAt"})}
SuspenseItemCalls == {"resolveSuspenseItem"}
SuspenseItem == Ending(Machine(SuspenseItems, NewSuspenseItem,
  Called(SuspenseItemSteps, SuspenseItemCalls),
  {Promise({"resolved"}, {}, {"resolvedAt"}, {"resolveSuspenseItem"})}), {"resolved"})

-----------------------------------------------------------------------------
Trade ==
  [guarantee |-> Guarantee, document |-> Document, correspondent |-> Correspondent, hit |-> Hit,
   remittance |-> Remittance, consolidationRun |-> Run, acquisition |-> Acquisition,
   elimination |-> Elimination, claim |-> Claim, policy |-> Policy, endorsement |-> Endorsement,
   premium |-> Premium, commission |-> Commission, assessment |-> Assessment,
   suspenseItem |-> SuspenseItem]
=============================================================================
