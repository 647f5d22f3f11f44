---------------------------- MODULE PrivacyTables ---------------------------
(***************************************************************************)
(* The privacy services that keep a status, as machines of StatusRows.     *)
(* For each kind of row: the statuses, the methods that insert it, the     *)
(* other methods that the controllers call, and what the statuses promise. *)
(***************************************************************************)
EXTENDS StatusTables

-----------------------------------------------------------------------------
\* Consents of a user for a purpose; "unrevoked" is revokedAt = null.  ensureConsent
\* inserts a refused one that updatePreferences goes on with.
Consents == {"granted", "refused"}
NewConsent ==
  {Unless(New("grantConsent", "granted", {"grantedAt", "unrevoked"}), {"granted"}),
   Unless(Through("refused", New("updatePreferences", "granted", {"grantedAt", "unrevoked"})), Consents),
   Unless(Through("refused", New("updatePreferences", "refused", {})), Consents)}
ConsentSteps ==
  {Dropping(Step("revokeConsent", {"granted"}, "refused", {}), {"unrevoked"}),
   Step("updatePreferences", Consents, "granted", {"grantedAt", "unrevoked"}),
   Dropping(Step("updatePreferences", Consents, "refused", {}), {"unrevoked"})}
ConsentCalls == {"revokeConsent", "updatePreferences"}
Consent == Machine(Consents, NewConsent, Called(ConsentSteps, ConsentCalls),
  {Promise({"granted"}, {}, {"grantedAt", "unrevoked"}, {})})

-----------------------------------------------------------------------------
\* Impact assessments; "high" is the risk level, "consulted" that the officer was asked.
\* The review may set the latter either way.
Dpias == {"draft", "in_review", "approved", "rejected"}
NewDpia == {New("createDpia", "draft", f) : f \in {{}, {"high"}}}
ReviewedDpia(needs, lacks, s) ==
  {Needing(Lacking(st, lacks), needs) : st \in
    {Step("reviewDpia", Dpias \ {"approved"}, s, f) : f \in {{}, {"consulted"}}} \cup
    {Dropping(Step("reviewDpia", Dpias \ {"approved"}, s, {}), {"consulted"})}}
DpiaSteps ==
  {Step("evaluateRisk", Dpias \ {"approved"}, Same, {"high"}),
   Dropping(Step("evaluateRisk", Dpias \ {"approved"}, Same, {}), {"high"}),
   Step("consultDpo", Dpias, "in_review", {"consulted"}),
   Needing(Step("notifySupervisoryAuthority", Dpias, Same, {}), {"high", "consulted"})} \cup
  UNION {ReviewedDpia({}, {}, s) : s \in (Dpias \cup {Same}) \ {"approved"}} \cup
  ReviewedDpia({"consulted"}, {}, "approved") \cup ReviewedDpia({}, {"high"}, "approved")
DpiaCalls == {"evaluateRisk", "consultDpo", "reviewDpia", "notifySupervisoryAuthority"}
Dpia == Machine(Dpias, NewDpia, Called(DpiaSteps, DpiaCalls), {Promise({"approved"}, {}, {}, {"reviewDpia"})})

\* Processing activities.  Changed purposes, categories or bases drop the approval that the
\* review of an assessment gives.
Activities == {"recorded"}
NewActivity == {New("createActivity", "recorded", {})}
ActivitySteps ==
  {Step("updateActivity", Activities, Same, {}),
   Dropping(Step("updateActivity", Activities, Same, {}), {"dpoApproved"}),
   Step("deleteActivity", Activities, Deleted, {}),
   ByColumns(Step("reviewDpia", Activities, Same, {"dpoApproved"}))}
ActivityCalls == {"updateActivity", "deleteActivity", "reviewDpia"}
Activity == Machine(Activities, NewActivity, Called(ActivitySteps, ActivityCalls),
  {Promise(Activities, {"dpoApproved"}, {}, {"reviewDpia"})})

-----------------------------------------------------------------------------
\* Requests of data subjects.  The transitions bind the statuses they list only.
Dsars == {"received", "processing", "ready", "delivered", "closed", "rejected"}
NewDsar == {New("createRequest", "received", f) : f \in {{}, {"erasure"}}}
DsarTransitions ==
  [s \in {"received", "processing", "ready", "delivered"} |->
     CASE s = "received"   -> {"processing"}
       [] s = "processing" -> {"ready", "rejected"}
       [] s = "ready"      -> {"delivered"}
       [] s = "delivered"  -> {"closed"}]
DsarMayGo(from, to) == from \in DOMAIN DsarTransitions => to \in DsarTransitions[from]
DsarSteps ==
  {Step("compileDataPackage", Dsars, "processing", {"package"}),
   Needing(Step("executeErasure", Dsars, "processing", {}), {"erasure"})} \cup
  {Step("updateStatus", {from \in Dsars : DsarMayGo(from, to)}, to,
        IF to \in {"ready", "closed"} THEN {"completedAt"} ELSE {}) : to \in Dsars}
DsarCalls == {"compileDataPackage", "updateStatus", "executeErasure"}
Dsar == Machine(Dsars, NewDsar, Called(DsarSteps, DsarCalls),
  {Promise({"ready", "closed"}, {}, {"completedAt"}, {"updateStatus"}),
   Promise({"delivered", "rejected"}, {}, {}, {"updateStatus"})})

-----------------------------------------------------------------------------
\* Contacts of the officer: making one primary takes the flag from another first.
Contacts == {"primary", "secondary"}
NewContact ==
  {Aside(New("createContact", "primary", {"active"}), {"primary"}, "secondary"),
   New("createContact", "secondary", {"active"})}
ContactSteps ==
  {Aside(Step("updateContact", Contacts, "primary", {}), {"primary"}, "secondary"),
   Step("updateContact", Contacts, Same, {}),
   Step("updateContact", Contacts, "secondary", {}),
   Dropping(Step("deactivateContact", Contacts, "secondary", {}), {"active"})}
ContactCalls == {"updateContact", "deactivateContact"}
Contact == OneIn(Machine(Contacts, NewContact, Called(ContactSteps, ContactCalls), {}), {"primary"})

\* Versions of the privacy policy: publishing one supersedes another first.
PolicyVersions == {"draft", "published", "superseded"}
NewPolicyVersion == {New("createVersion", "draft", {})}
PolicyVersionSteps ==
  {Aside(Step("publishVersion", {"draft"}, "published", {"checksum"}), {"published"}, "superseded")}
PolicyVersionCalls == {"publishVersion"}
PolicyVersion ==
  Ending(OneIn(Machine(PolicyVersions, NewPolicyVersion, Called(PolicyVersionSteps, PolicyVersionCalls),
    {Promise({"published", "superseded"}, {}, {"checksum"}, {"publishVersion"})}),
    {"published"}), {"superseded"})

-----------------------------------------------------------------------------
\* Retention schedules.  The run saves every active one.
Schedules == {"active", "inactive"}
NewSchedule == {New("createSchedule", "active", f) : f \in {{}, {"mandatory"}}}
ScheduleSteps ==
  {Lacking(Step("updateSchedule", Schedules, Same, {}), {"mandatory"}),
   Step("updateSchedule", Schedules, Same, {"mandatory"}),
   Dropping(Step("updateSchedule", Schedules, Same, {}), {"mandatory"}),
   Step("toggleActive", {"active"}, "inactive", {}),
   Step("toggleActive", {"inactive"}, "active", {}),
   OnAll(Step("executeExpiredRetentions", {"active"}, Same, {})),
   Lacking(Step("deleteSchedule", Schedules, Deleted, {}), {"mandatory"}),
   Step("approveSchedule", Schedules, Same, {"approvedBy"})}
ScheduleCalls == {"updateSchedule", "toggleActive", "executeExpiredRetentions", "deleteSchedule", "approveSchedule"}
Schedule == Machine(Schedules, NewSchedule, Called(ScheduleSteps, ScheduleCalls),
  {Promise({"inactive"}, {}, {}, {"toggleActive"}),
   Promise(Schedules, {"approvedBy"}, {}, {"approveSchedule"})})

-----------------------------------------------------------------------------
Privacy ==
  [consent |-> Consent, dpia |-> Dpia, activity |-> Activity, dsar |-> Dsar,
   dpoContact |-> Contact, policyVersion |-> PolicyVersion, retentionSchedule |-> Schedule]
=============================================================================
