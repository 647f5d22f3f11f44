-------------------------- MODULE ComplianceTables --------------------------
(***************************************************************************)
(* Governance, compliance and data governance as machines of StatusRows.   *)
(* The steps are the public methods of the services; Calls restricts them  *)
(* to what the controller calls, where it calls enough to reach them.      *)
(***************************************************************************)
EXTENDS StatusTables

-----------------------------------------------------------------------------
\* Policies of the governance.  activate, deactivate and canaryRollout write values the
\* column does not have and fail.  rollback inserts a copy under a name that is taken: it
\* fails too, after it has archived the row.
GovPolicies == {"draft", "active", "deprecated", "archived"}
NewGovPolicy == {New("create", "draft", {})}
GovPolicySteps ==
  ToEach("update", GovPolicies, GovPolicies \cup {Same}, {}) \cup
  {Step("remove", GovPolicies, Deleted, {}),
   Step("rollback", GovPolicies, "archived", {})}
GovPolicyCalls == {"update", "remove", "rollback", "activate", "deactivate", "canaryRollout"}
GovPolicy == Machine(GovPolicies, NewGovPolicy, Called(GovPolicySteps, GovPolicyCalls),
  {Promise({"active", "deprecated"}, {}, {}, {"update"})})

\* Violations of policies.
Violations == {"open", "investigating", "resolved", "waived"}
NewViolation == {New("create", "open", {})}
ViolationSteps ==
  ToEach("resolve", Violations, {"open", "investigating"}, {}) \cup
  {Step("resolve", Violations, "resolved", {"resolvedAt"}),
   Step("resolve", Violations, "waived", {"resolvedAt", "justification"}),
   Step("assign", Violations, "investigating", {"assignedTo"})}
ViolationCalls == {"resolve", "assign"}
Violation == Machine(Violations, NewViolation, Called(ViolationSteps, ViolationCalls),
  {Promise({"resolved", "waived"}, {}, {"resolvedAt"}, {"resolve"}),
   Promise({"waived"}, {}, {"justification"}, {})})

\* Coverage of the controls of a framework: "assessed" by the service, not by its creation.
Mappings == {"compliant", "non_compliant", "partially"}
NewMapping == {New("mapToFramework", "compliant", {})}
MappingSteps == ToEach("updateCoverage", Mappings, Mappings, {"assessed"})
MappingCalls == {"updateCoverage"}
Mapping == Machine(Mappings, NewMapping, Called(MappingSteps, MappingCalls),
  {Promise({"non_compliant", "partially"}, {}, {"assessed"}, {"updateCoverage"})})

-----------------------------------------------------------------------------
\* Verifications of customers; "face" is a match of the selfie of 80 or more.  An upload
\* goes on with a pending one.
Kycs == {"pending", "verified", "rejected", "review"}
NewKyc == {Unless(New("uploadDocument", "pending", {}), {"pending"})}
KycSteps ==
  {Step("uploadDocument", {"pending"}, Same, {}),
   Step("extractOcrData", Kycs, Same, {}),
   Step("verifySelfie", Kycs, Same, {"face"}),
   Step("detectLiveness", Kycs, Same, {"liveness"}),
   Step("applyRiskScore", Kycs, "rejected", {}),
   Needing(Step("applyRiskScore", Kycs, "verified", {"verifiedAt"}), {"face", "liveness"}),
   Step("applyRiskScore", Kycs, "review", {}),
   Step("requestEnhancedDueDiligence", Kycs, "review", {})}
Kyc == Machine(Kycs, NewKyc, KycSteps,
  {Promise({"verified"}, {}, {"face", "liveness", "verifiedAt"},
           {"verifySelfie", "detectLiveness", "applyRiskScore"}),
   Promise(Kycs, {"face"}, {}, {"verifySelfie"}), Promise(Kycs, {"liveness"}, {}, {"detectLiveness"}),
   Promise({"rejected"}, {}, {}, {"applyRiskScore"})})

\* Alerts against money laundering.
AmlAlerts == {"open", "investigating", "resolved", "escalated"}
NewAmlAlert == {New("evaluateTransaction", "open", {})}
AmlAlertSteps ==
  {Step("startInvestigation", AmlAlerts \ {"resolved"}, "investigating", {"assignedTo"}),
   Step("resolveAsFalsePositive", {"investigating"}, "resolved",
        {"assignedTo", "falsePositive", "resolvedAt"})}
AmlAlertCalls == {"startInvestigation", "resolveAsFalsePositive"}
AmlAlert == Ending(Machine(AmlAlerts, NewAmlAlert, Called(AmlAlertSteps, AmlAlertCalls),
  {Promise({"resolved"}, {}, {"falsePositive", "resolvedAt"},
           {"startInvestigation", "resolveAsFalsePositive"}),
   Promise({"investigating"}, {}, {"assignedTo"}, {"startInvestigation"})}), {"resolved"})

\* Screenings, and the lists they use: one of each source.
Screenings == {"pending", "cleared", "blocked"}
NewScreening == {New("checkScreening", s, {}) : s \in Screenings}
ScreeningSteps == ToEach("adjudicateHit", {"pending"}, {"cleared", "blocked"}, {"reviewedBy"})
Screening == Ending(Machine(Screenings, NewScreening, ScreeningSteps,
  {Promise(Screenings, {"reviewedBy"}, {}, {"adjudicateHit"})}), {"cleared", "blocked"})

SanctionLists == {"syncing", "idle"}
NewSanctionList == {Unless(Through("syncing", New("syncList", "idle", {"counted"})), SanctionLists)}
SanctionListSteps == {Through("syncing", Step("syncList", SanctionLists, "idle", {"counted"}))}
SanctionListCalls == {"syncList"}
SanctionList == OneIn(Machine(SanctionLists, NewSanctionList,
  Called(SanctionListSteps, SanctionListCalls), {Promise({"idle"}, {}, {"counted"}, {"syncList"})}),
  SanctionLists)

\* Cases, and the sealed entries of the audit log.
Cases == {"open", "closed"}
NewCase == {New("createCase", "open", {})}
CaseSteps == {Step("addEvidence", Cases, Same, {"evidence"}), Step("closeCase", Cases, "closed", {"closedAt"})}
Case == Ending(Machine(Cases, NewCase, CaseSteps,
  {Promise({"closed"}, {}, {"closedAt"}, {"closeCase"})}), {"closed"})

AuditEntries == {"unsealed", "sealed"}
NewAuditEntry == {New("logAction", "unsealed", {})}
AuditEntrySteps == {Step("sealEvidence", AuditEntries, "sealed", {"hash"})}
AuditEntry == Ending(Machine(AuditEntries, NewAuditEntry, AuditEntrySteps,
  {Promise({"sealed"}, {}, {"hash"}, {"sealEvidence"})}), {"sealed"})

-----------------------------------------------------------------------------
\* Violations of the rules against data loss.
Leaks == {"unresolved", "resolved"}
NewLeak == {New("evaluateContent", "unresolved", {})}
LeakSteps == {Step("approveException", Leaks, "resolved", {"justification", "approvalId"})}
LeakCalls == {"approveException"}
Leak == Ending(Machine(Leaks, NewLeak, Called(LeakSteps, LeakCalls),
  {Promise({"resolved"}, {}, {"justification", "approvalId"}, {"approveException"})}), {"resolved"})

\* Classified data: the label decides on masking and encryption.
Labels == {"public", "internal", "confidential", "restricted"}
Protection(label) ==
  (IF label \in {"confidential", "restricted"} THEN {"masking"} ELSE {}) \cup
  (IF label = "restricted" THEN {"encryption"} ELSE {})
NewClassification == {New("classify", label, Protection(label)) : label \in Labels}
ClassificationSteps ==
  {Dropping(Step("overrideClassification", Labels, label, Protection(label)),
            {"masking", "encryption"} \ Protection(label)) : label \in Labels} \cup
  {OnAll(Step("reclassifyExpired", Labels, Same, {}))}
ClassificationCalls == {"overrideClassification"}
Classification == Machine(Labels, NewClassification, Called(ClassificationSteps, ClassificationCalls),
  {Promise({"confidential", "restricted"}, {}, {"masking"}, {}),
   Promise({"restricted"}, {}, {"encryption"}, {}),
   Promise(Labels, {"encryption"}, {"masking"}, {})})

-----------------------------------------------------------------------------
\* Records of the regulatory compliance: schedules, trainings, attestations, reports.
RegComps == {"scheduled", "pending", "active", "critical", "warning", "normal", "monitored",
             "generated", "completed"}
NewRegComp ==
  {New("scheduleAudit", "scheduled", {}), New("createTrainingRecord", "pending", {}),
   New("createDlpPolicy", "active", {}), New("detectInsiderThreat", "critical", {}),
   New("detectInsiderThreat", "warning", {}), New("detectInsiderThreat", "normal", {}),
   New("assessThirdPartyRisk", "pending", {}), New("createAttestation", "pending", {}),
   New("monitorRegulatoryChange", "monitored", {}),
   New("generateAutomatedReport", "generated", {"completedAt"})}
RegCompSteps ==
  {Step("update", RegComps, Same, {}),
   Step("remove", RegComps, Deleted, {}),
   Step("complete", RegComps, "completed", {"completedAt"})}
RegCompCalls == {"update", "remove", "complete"}
RegComp == Machine(RegComps, NewRegComp, Called(RegCompSteps, RegCompCalls),
  {Promise({"completed"}, {}, {"completedAt"}, {"complete"}),
   Promise({"generated"}, {}, {"completedAt"}, {})})

\* Exemptions from taxes.  Only an exemption that is active and verified counts; verify and
\* activate take it in any order and status.  No controller decides on one.
Exemptions == {"pending", "active", "expired", "suspended", "denied"}
NewExemption == {New("create", "pending", {})}
ExemptionSteps ==
  {Step("activate", Exemptions, "active", {}),
   Step("suspend", Exemptions, "suspended", {}),
   Step("expire", Exemptions, "expired", {}),
   Step("verify", Exemptions, Same, {"verified", "verifiedAt"}),
   Step("reject", Exemptions, "denied", {})}
Exemption == Machine(Exemptions, NewExemption, ExemptionSteps,
  {Promise({"active"}, {}, {}, {"activate"}), Promise({"denied"}, {}, {}, {"reject"}),
   Promise(Exemptions, {"verified"}, {"verifiedAt"}, {"verify"})})

-----------------------------------------------------------------------------
Compliance ==
  [govPolicy |-> GovPolicy, violation |-> Violation, mapping |-> Mapping, kyc |-> Kyc,
   amlAlert |-> AmlAlert, screening |-> Screening, sanctionList |-> SanctionList,
   complianceCase |-> Case, auditEntry |-> AuditEntry, leak |-> Leak,
   classification |-> Classification, regComp |-> RegComp, exemption |-> Exemption]
=============================================================================
