--------------------------- MODULE RegulatoryTables -------------------------
(***************************************************************************)
(* The regulatory services that keep a status, as tables of StatusRows.    *)
(* For each kind of row: the statuses of its entity, the methods that      *)
(* insert it, its other methods, and what its controller calls.            *)
(***************************************************************************)
EXTENDS StatusTables

-----------------------------------------------------------------------------
\* Lineage of a report.  The facts are the entries of its audit trail.
Lineages == {"draft", "review", "certified", "filed", "rejected"}
NewLineage == {New("createLineage", "draft", {"created"})}
LineageSteps ==
  {Step("reviewLineage", Lineages, "review", {"reviewed"}),
   Step("certifyLineage", {"review"}, "certified", {"certified"}),
   Step("fileLineage", {"certified"}, "filed", {"filed"})}
LineageCalls == {"reviewLineage", "certifyLineage", "fileLineage"}

-----------------------------------------------------------------------------
\* Events of the calendar; "tasks" and "done" are items of the checklist.
Events == {"pending", "confirmed", "completed", "cancelled", "overdue"}
NewEvent == {New("createEvent", "pending", {}), New("createEvent", "pending", {"tasks"})}
EventSteps ==
  ToEach("updateStatus", Events, {"pending", "confirmed", "cancelled"}, {}) \cup
  {Step("updateStatus", Events, "completed", {"submittedAt"}),
   Step("markRemindersSent", Events, Same, {"reminded"}),
   Step("addChecklistItem", Events, Same, {"tasks"}),
   Needing(Step("completeChecklistItem", Events, Same, {"done"}), {"tasks"}),
   Step("assignReviewer", Events, Same, {"reviewer"})}
EventCalls == {"updateStatus", "markRemindersSent", "addChecklistItem", "completeChecklistItem"}

-----------------------------------------------------------------------------
\* Validation rules.
Rules == {"active", "inactive", "deprecated"}
NewRule == {New("createRule", "active", {})}
RuleSteps ==
  {Step("triggerRule", Rules, Same, {"lastTriggeredAt", "lastResult"}),
   Step("deactivateRule", Rules, "inactive", {}),
   Step("activateRule", Rules, "active", {})}
RuleCalls == {"triggerRule", "deactivateRule", "activateRule"}

-----------------------------------------------------------------------------
\* Call reports and the international ones.  "filed" is the filing status submitted,
\* "amends" the filing status amended.
Reports == {"generating", "validating", "ready", "submitted", "acknowledged", "rejected", "amended"}
NewReport == {Through("generating", New("generateCallReport", "validating",
                                        {"validationPassed", "generatedAt"}))}
ReportSteps ==
  {Step("validateReport", Reports \ {"generating"}, "ready", {"validationPassed"}),
   Dropping(Needing(Step("submitReport", Reports, "submitted",
                         {"filed", "acknowledged", "submittedAt"}), {"validationPassed"}),
            {"amends"}),
   Inserting(Step("amendReport", {"submitted", "acknowledged"}, Same, {}),
             Row("generating", {"amends"}))}
FileWithAuthority ==
  {Dropping(Step("fileWithAuthority", Reports, Same, {"filed", "acknowledged"}), {"amends"})}
ReportCalls == {"validateReport", "submitReport", "amendReport", "fileWithAuthority"}

-----------------------------------------------------------------------------
\* Stress tests.  A run saves RUNNING first.
StressTests == {"configured", "running", "completed", "reviewed", "submitted"}
NewStressTest == {New("createScenario", "configured", {})}
StressTestSteps ==
  {Through("running", Step("runStressTest", {"configured", "completed"}, "completed",
                           {"executedAt"})),
   Step("reverseStressTest", StressTests, "reviewed", {}),
   Step("reviewResults", {"completed"}, "reviewed", {}),
   Step("submitToRegulator", {"reviewed"}, "submitted", {"submittedToRegulator"})}
StressTestCalls == {"runStressTest", "reverseStressTest", "reviewResults", "submitToRegulator"}

-----------------------------------------------------------------------------
\* Examinations.
Exams == {"open", "in_progress", "submitted", "closed"}
NewExam == {New("createExam", "open", {})}
ExamSteps ==
  ToEach("updateStatus", Exams, Exams \ {"submitted"}, {}) \cup
  {Step("updateStatus", Exams, "submitted", {"submittedAt"}),
   Step("archiveExam", Exams \ {"closed"}, "closed", {"resolvedBy"})}
ExamCalls == {"updateStatus", "archiveExam"}

-----------------------------------------------------------------------------
\* Alerts of the market surveillance.
Alerts == {"open", "investigating", "dismissed", "escalated"}
NewAlert == {New("createAlert", "open", {})}
AlertSteps ==
  ToEach("investigateAlert", Alerts, {"open", "investigating"}, {}) \cup
  ToEach("investigateAlert", Alerts, {"dismissed", "escalated"}, {"resolvedAt"})
AlertCalls == {"investigateAlert"}

-----------------------------------------------------------------------------
\* Controls of the Sarbanes-Oxley act; "failed" is a count of deficiencies above zero.
Controls == {"pending", "effective", "deficient", "remediated"}
NewControl == {New("createControl", "pending", {})}
ControlSteps ==
  {Step("executeTest", Controls, "deficient", {"lastTestedAt", "failed"}),
   Step("executeTest", Controls, "effective", {"lastTestedAt"})} \cup
  ToEach("startRemediation", Controls, Controls \cup {Same}, {})
ControlCalls == {"executeTest", "startRemediation"}

-----------------------------------------------------------------------------
\* Ethics: cases of whistleblowers, conflicts of interest, gifts.
EthicsCases == {"open"}
NewEthicsCase == {New("submitWhistleblower", "open", f) : f \in {{}, {"whistleblower"}}}
EthicsCaseSteps ==
  {Step("protectIdentity", EthicsCases, Same, {}),
   Needing(Step("assessRewardEligibility", EthicsCases, Same, {"assessed", "rewardEligible"}),
           {"whistleblower"}),
   Dropping(Needing(Step("assessRewardEligibility", EthicsCases, Same, {"assessed"}),
                    {"whistleblower"}), {"rewardEligible"})}

Conflicts == {"pending", "approved", "rejected"}
NewConflict == {New("declareCoi", "pending", {})}
ConflictSteps ==
  {Step("screenCoiAgainstVendors", Conflicts, Same, {"screened", "flagged"}),
   Dropping(Step("screenCoiAgainstVendors", Conflicts, Same, {"screened"}), {"flagged"})} \cup
  ToEach("reviewCoi", Conflicts, Conflicts, {"reviewedAt"})

Gifts == {"pending", "flagged", "approved", "rejected"}
NewGift == {New("logGift", "pending", f) : f \in {{}, {"aboveThreshold"}}}
GiftSteps ==
  {OnAll(Needing(Step("flagGiftsAboveThreshold", {"pending"}, "flagged", {}), {"aboveThreshold"}))} \cup
  ToEach("approveGift", Gifts, Gifts, {"approvedBy"})

EthicsCalls == {"protectIdentity", "assessRewardEligibility", "screenCoiAgainstVendors",
                "reviewCoi", "flagGiftsAboveThreshold", "approveGift"}

-----------------------------------------------------------------------------
\* Consumer protection: cases, and the monitors they come from.
ConsumerCases == {"open", "investigating", "pending_review", "closed_resolved", "closed_no_action"}
NewConsumerCase == {New("generateViolationAlerts", "open", {})}
ConsumerCaseSteps ==
  {Step("assignCase", ConsumerCases, "investigating", {"assignedTo"}),
   Step("escalateCase", ConsumerCases, "pending_review", {"escalatedAt"}),
   Step("resolveCase", ConsumerCases, "closed_no_action", {"resolvedAt", "falsePositive"}),
   Dropping(Step("resolveCase", ConsumerCases, "closed_resolved", {"resolvedAt"}),
            {"falsePositive"})}

Monitors == {"active", "under_review", "violation_detected", "resolved", "escalated"}
NewMonitor == {New("createMonitor", "active", {})}
MonitorChecks == {OnAll(Step(op, Monitors, Same, {"lastCheckRun"})) :
  op \in {"monitorRegE", "monitorRegZ", "monitorRegCC", "monitorRegDD"}}
MonitorSteps ==
  {Step("generateViolationAlerts", Monitors, "violation_detected", {"detected"}),
   Step("resolveCase", Monitors, Same, {"resolved"})}

ConsumerCalls == {"monitorRegE", "monitorRegZ", "monitorRegCC", "monitorRegDD", 
                  "generateViolationAlerts", "assignCase", "escalateCase", "resolveCase"}

-----------------------------------------------------------------------------
\* Training of the employees, and changes of the regulations.
Trainings == {"assigned", "passed", "failed"}
NewTraining == {New("assignTraining", "assigned", {})}
TrainingSteps == ToEach("completeTraining", Trainings, {"passed", "failed"}, {"completedAt"})

Changes == {"pending", "assessed"}
NewChange == {New("monitorRegulatoryUpdates", "pending", {})}
ChangeSteps == {Step("assessImpact", Changes, "assessed", {"actionPlan"})}

MiscCalls == {"completeTraining", "assessImpact"}

-----------------------------------------------------------------------------
\* Compliance automation: tests of controls, frameworks, accesses of auditors.  These
\* services update columns.
ControlTests == {"completed", "in_remediation", "re_tested"}
NewControlTest == {New("create", s, f) : s \in ControlTests, f \in {{}, {"pass"}}}
ControlTestSteps ==
  {ByColumns(st) : st \in
    ToEach("updateStatus", ControlTests, {"in_remediation", "re_tested"}, {}) \cup
    {Step("addEvidence", ControlTests, Same, {"evidence"}),
     Step("markPassed", ControlTests, "completed", {"pass"})}}

Frameworks == {"active", "inactive"}
NewFramework == {New("create", s, {}) : s \in Frameworks}
FrameworkSteps ==
  {ByColumns(st) : st \in ToEach("update", Frameworks, Frameworks, {"updated"}) \cup
                          {Step("deactivate", Frameworks, "inactive", {})}}

Accesses == {"active", "revoked"}
NewAccess == {New("grantAccess", "active", {"scopes", "expiresAt"})}
AccessSteps ==
  {ByColumns(Step("revokeAccess", Accesses, "revoked", {})),
   ByColumns(Step("extendAccess", Accesses, Same, {"expiresAt"}))}

AutomationCalls == {"update", "updateStatus", "addEvidence", "markPassed", "revokeAccess",
                    "extendAccess"}

-----------------------------------------------------------------------------
Regulatory ==
  [lineage |-> Machine(Lineages, NewLineage, Called(LineageSteps, LineageCalls),
     {Promise({"review", "certified", "filed"}, {}, {"reviewed"}, {"reviewLineage"}),
      Promise({"certified", "filed"}, {}, {"certified"}, {"certifyLineage"}),
      Promise({"filed"}, {}, {"filed"}, {"fileLineage"})}),
   event |-> Machine(Events, NewEvent, Called(EventSteps, EventCalls),
     {Promise({"completed"}, {}, {"submittedAt"}, {"updateStatus"}),
      Promise(Events, {"done"}, {"tasks"}, {"completeChecklistItem"})}),
   rule |-> Machine(Rules, NewRule, Called(RuleSteps, RuleCalls),
     {Promise({"inactive"}, {}, {}, {"deactivateRule"})}),
   report |-> Machine(Reports, NewReport, Called(ReportSteps \cup FileWithAuthority, ReportCalls),
     {Promise({"ready", "submitted"}, {}, {"validationPassed"}, {}),
      Promise({"submitted"}, {}, {"submittedAt", "acknowledged", "filed"}, {"submitReport"}),
      Promise(Reports, {"amends"}, {}, {"amendReport"}),
      Promise({"ready"}, {"amends"}, {}, {"validateReport"})}),
   stressTest |-> Machine(StressTests, NewStressTest, Called(StressTestSteps, StressTestCalls),
     {Promise({"completed"}, {}, {"executedAt"}, {"runStressTest"}),
      Promise({"submitted"}, {}, {"submittedToRegulator"}, {"submitToRegulator"})}),
   exam |-> Machine(Exams, NewExam, Called(ExamSteps, ExamCalls),
     {Promise({"submitted"}, {}, {"submittedAt"}, {"updateStatus"}),
      Promise(Exams, {"resolvedBy"}, {}, {"archiveExam"})}),
   alert |-> Machine(Alerts, NewAlert, Called(AlertSteps, AlertCalls),
     {Promise({"dismissed", "escalated"}, {}, {"resolvedAt"}, {"investigateAlert"})}),
   control |-> Machine(Controls, NewControl, Called(ControlSteps, ControlCalls),
     {Promise(Controls, {"failed"}, {"lastTestedAt"}, {"executeTest"})}),
   ethicsCase |-> Machine(EthicsCases, NewEthicsCase, Called(EthicsCaseSteps, EthicsCalls),
     {Promise(EthicsCases, {"rewardEligible"}, {"whistleblower", "assessed"},
              {"assessRewardEligibility"})}),
   conflict |-> Machine(Conflicts, NewConflict, Called(ConflictSteps, EthicsCalls),
     {Promise({"approved", "rejected"}, {}, {"reviewedAt"}, {"reviewCoi"}),
      Promise(Conflicts, {"flagged"}, {"screened"}, {"screenCoiAgainstVendors"})}),
   gift |-> Machine(Gifts, NewGift, Called(GiftSteps, EthicsCalls),
     {Promise({"approved", "rejected"}, {}, {"approvedBy"}, {"approveGift"})}),
   consumerCase |-> Machine(ConsumerCases, NewConsumerCase, Called(ConsumerCaseSteps, ConsumerCalls),
     {Promise({"closed_resolved", "closed_no_action"}, {}, {"resolvedAt"}, {"resolveCase"}),
      Promise({"closed_no_action"}, {}, {"falsePositive"}, {}),
      Promise({"investigating"}, {}, {"assignedTo"}, {"assignCase"}),
      Promise({"pending_review"}, {}, {"escalatedAt"}, {"escalateCase"})}),
   monitor |-> Machine(Monitors, NewMonitor, Called(MonitorChecks \cup MonitorSteps, ConsumerCalls),
     {Promise({"violation_detected"}, {}, {"detected"}, {"generateViolationAlerts"})}),
   training |-> Machine(Trainings, NewTraining, Called(TrainingSteps, MiscCalls),
     {Promise({"passed", "failed"}, {}, {"completedAt"}, {"completeTraining"})}),
   change |-> Machine(Changes, NewChange, Called(ChangeSteps, MiscCalls),
     {Promise({"assessed"}, {}, {"actionPlan"}, {"assessImpact"})}),
   controlTest |-> Machine(ControlTests, NewControlTest, Called(ControlTestSteps, AutomationCalls),
     {}),
   framework |-> Machine(Frameworks, NewFramework, Called(FrameworkSteps, AutomationCalls), {}),
   access |-> Machine(Accesses, NewAccess, Called(AccessSteps, AutomationCalls),
     {Promise({"revoked"}, {}, {}, {"revokeAccess"}),
      Promise(Accesses, {}, {"scopes", "expiresAt"}, {})})]
=============================================================================
