---------------------------- MODULE PlatformTables ---------------------------
(***************************************************************************)
(* Audit, storage, notifications, chat, change management, data pipelines  *)
(* and monitoring as machines of StatusRows.                               *)
(***************************************************************************)
EXTENDS StatusTables

-----------------------------------------------------------------------------
\* Forensic cases.  No method moves the status; evidence counts itself on a copy of the case.
ForensicCases == {"open", "investigating", "pending", "evidence", "closed", "archived"}
NewForensicCase == {New("createCase", "open", {})}
ForensicCaseSteps ==
  {Step("uploadEvidence", ForensicCases, Same, {"evidence"}),
   Step("generateReport", ForensicCases, Same, {"reportGeneratedAt"})}
ForensicCaseCalls == {"uploadEvidence", "generateReport"}
ForensicCase == Machine(ForensicCases, NewForensicCase,
  Called(ForensicCaseSteps, ForensicCaseCalls),
  {Promise(ForensicCases, {"reportGeneratedAt"}, {}, {"generateReport"}),
   Promise(ForensicCases, {"evidence"}, {}, {"uploadEvidence"})})

\* Files.  The file is removed first, then its row is marked, then the row is removed.
Files == {"uploading", "ready", "processing", "corrupted", "deleted"}
NewFile == {New("upload", "ready", {})}
FileSteps == {Through("deleted", Step("delete", Files, Deleted, {}))}
FileCalls == {"delete"}
File == Machine(Files, NewFile, Called(FileSteps, FileCalls),
  {Promise({"deleted"}, {}, {}, {"delete"})})

\* Notifications.  One that is archived unread may be read later, and is then read.
Notifications == {"unread", "read", "archived"}
NewNotification == {New("create", "unread", {})}
NotificationSteps ==
  {Step("markAsRead", Notifications, "read", {"readAt"}),
   WhereStill(Step("markAllAsRead", {"unread"}, "read", {"readAt"})),
   Step("archive", Notifications, "archived", {})}
NotificationCalls == {"markAsRead", "markAllAsRead", "archive"}
Notification == Machine(Notifications, NewNotification,
  Called(NotificationSteps, NotificationCalls),
  {Promise({"read"}, {}, {"readAt"}, {}), Promise({"archived"}, {}, {}, {"archive"})})

\* Messages.  An edit of a deleted message is accepted, and one that was under way undoes
\* the deletion.
Messages == {"sent", "delivered", "read"}
NewMessage == {New("sendMessage", "sent", {})}
MessageSteps ==
  {WhereStill(Step("markAsRead", {"sent"}, "read", {})),
   Step("editMessage", Messages, Same, {"isEdited"}),
   Step("deleteMessage", Messages, Same, {"isDeleted"})}
MessageCalls == {"markAsRead", "editMessage", "deleteMessage"}
Message == Machine(Messages, NewMessage, Called(MessageSteps, MessageCalls),
  {Promise({"read"}, {}, {}, {"markAsRead"}),
   Promise(Messages, {"isDeleted"}, {}, {"deleteMessage"}),
   Promise(Messages, {"isEdited"}, {}, {"editMessage"})})

\* The direct conversations of two users: one is saved without participants, then with
\* them; one that both are in is used again, one that a user left is not.
DirectConversations == {"created", "joined", "left"}
NewDirectConversation ==
  {Unless(Through("created", New("createConversation", "joined", {})), {"joined"})}
DirectConversationSteps == {Step("removeParticipant", {"joined", "left"}, "left", {})}
DirectConversationCalls == {"removeParticipant"}
DirectConversation == OneIn(Machine(DirectConversations, NewDirectConversation,
  Called(DirectConversationSteps, DirectConversationCalls),
  {Promise({"left"}, {}, {}, {"removeParticipant"})}), {"joined"})

-----------------------------------------------------------------------------
\* Changes.  The flag of the change is saved before the change itself.
ChangeRequests == {"submitted", "approved", "rejected", "implemented", "rolled_back"}
NewChangeRequest == {New("createChangeRequest", "submitted", {})}
ChangeRequestSteps ==
  ToEach("reviewChange", {"submitted"}, {"approved", "rejected"}, {"cabApprovedBy"}) \cup
  {Step("assessImpact", ChangeRequests, Same, {}),
   Step("implementChange", {"approved"}, "implemented", {"implementedAt"}),
   Step("rollbackChange", {"implemented"}, "rolled_back", {})}
ChangeRequestCalls == {"reviewChange", "assessImpact", "implementChange", "rollbackChange"}
ChangeRequest == Ending(Machine(ChangeRequests, NewChangeRequest,
  Called(ChangeRequestSteps, ChangeRequestCalls),
  {Promise({"approved", "rejected"}, {}, {"cabApprovedBy"}, {"reviewChange"}),
   Promise({"implemented"}, {}, {"cabApprovedBy", "implementedAt"},
           {"reviewChange", "implementChange"}),
   Promise({"rolled_back"}, {}, {"cabApprovedBy", "implementedAt"},
           {"reviewChange", "implementChange", "rollbackChange"})}),
  {"rejected", "rolled_back"})

\* Pipelines of data.
Pipelines == {"active", "paused", "error", "draft"}
NewPipeline == {New("createPipeline", "draft", {})}
PipelineSteps ==
  ToEach("updatePipelineStatus", Pipelines, Pipelines \ {"active"}, {}) \cup
  {Step("updatePipelineStatus", Pipelines, "active", {"lastRunAt"}),
   Step("triggerExecution", {"draft", "paused"}, "active", {"lastRunAt"}),
   Step("triggerExecution", {"active"}, Same, {"lastRunAt"}),
   Step("configurePipelineAlerts", Pipelines, Same, {})}
PipelineCalls == {"updatePipelineStatus", "triggerExecution", "configurePipelineAlerts"}
Pipeline == Machine(Pipelines, NewPipeline, Called(PipelineSteps, PipelineCalls),
  {Promise({"active"}, {}, {"lastRunAt"}, {}),
   Promise({"paused", "error"}, {}, {}, {"updatePipelineStatus"})})

\* Alert rules.
AlertRules == {"active", "acknowledged", "resolved", "suppressed"}
NewAlertRule == {New("createAlertRule", "active", {})}
AlertRuleSteps == ToEach("updateAlertStatus", AlertRules, AlertRules, {})
AlertRuleCalls == {"updateAlertStatus"}
AlertRule == Machine(AlertRules, NewAlertRule, Called(AlertRuleSteps, AlertRuleCalls),
  {Promise(AlertRules \ {"active"}, {}, {}, {"updateAlertStatus"})})

-----------------------------------------------------------------------------
Platform ==
  [forensicCase |-> ForensicCase, file |-> File, notification |-> Notification,
   message |-> Message, directConversation |-> DirectConversation,
   changeRequest |-> ChangeRequest,
   pipeline |-> Pipeline, alertRule |-> AlertRule]
=============================================================================
