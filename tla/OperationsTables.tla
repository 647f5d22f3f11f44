-------------------------- MODULE OperationsTables --------------------------
(***************************************************************************)
(* Security operations, reconciliation and customer relations as machines  *)
(* of StatusRows.                                                          *)
(***************************************************************************)
EXTENDS StatusTables

-----------------------------------------------------------------------------
\* Executions of playbooks, saved before their steps, which do not throw, and after them.
Executions == {"pending", "running", "awaitingApproval", "approved", "rejected",
               "completed", "failed", "aborted"}
NewExecution ==
  {Through("running", New("runPlaybook", "completed", {"completedAt", "stepResults"}))}
Execution == Ending(Machine(Executions, NewExecution, {},
  {Promise({"completed"}, {}, {"completedAt", "stepResults"}, {})}), {"completed"})

\* Vulnerabilities: the verification does not ask whether one was fixed.
Vulnerabilities == {"open", "confirmed", "fixed", "verified", "reopened"}
NewVulnerability == {New("scanInfrastructure", "open", {})}
VulnerabilitySteps ==
  {Step("markFixed", Vulnerabilities, "fixed", {"fixedAt"}),
   Step("verifyRemediation", Vulnerabilities, "verified", {})}
VulnerabilityCalls == {"markFixed", "verifyRemediation"}
Vulnerability == Machine(Vulnerabilities, NewVulnerability,
  Called(VulnerabilitySteps, VulnerabilityCalls),
  {Promise({"fixed"}, {}, {"fixedAt"}, {"markFixed"}),
   Promise({"verified"}, {}, {}, {"verifyRemediation"})})

\* Indicators of compromise, one of each value; the table has no unique index.
Indicators == {"cached"}
NewIndicator == {Unless(New("syncFeeds", "cached", {}), Indicators)}
IndicatorSteps ==
  {Step("syncFeeds", Indicators, Same, {"seenAgain"}),
   OnAll(ByColumns(Step("submitToConsortium", Indicators, Same, {})))}
IndicatorCalls == {"syncFeeds", "submitToConsortium"}
Indicator == OneIn(Machine(Indicators, NewIndicator, Called(IndicatorSteps, IndicatorCalls),
  {Promise(Indicators, {"seenAgain"}, {}, {"syncFeeds"})}), Indicators)

-----------------------------------------------------------------------------
\* Batches between systems.  runBatch of the matching engine sets neither the number nor
\* the type of its batch and cannot insert it.
ReconBatches == {"pending", "running", "completed", "failed"}
NewReconBatch == {Through("running", New("run", "completed", {"completedAt"}))}
ReconBatch == Ending(Machine(ReconBatches, NewReconBatch, {},
  {Promise({"completed"}, {}, {"completedAt"}, {})}), {"completed"})

\* Matches made by hand.
Matches == {"matched", "unmatched", "partial", "disputed"}
NewMatch == {New("manualMatch", "matched", {"matchedBy"})}
MatchSteps == {Step("manualUnmatch", Matches, "unmatched", {"unmatchedReason"})}
MatchCalls == {"manualUnmatch"}
Match == Ending(Machine(Matches, NewMatch, Called(MatchSteps, MatchCalls),
  {Promise({"unmatched"}, {}, {"unmatchedReason"}, {"manualUnmatch"}),
   Promise(Matches, {}, {"matchedBy"}, {})}), {"unmatched"})

\* Netting: "unposted" is the negation of postedToLedger.
Nettings == {"calculated", "executed", "posted", "cancelled"}
NewNetting == {New("calculate", "calculated", {"unposted"})}
NettingSteps ==
  {Step("execute", Nettings, "executed", {"executedAt"}),
   Dropping(Step("postToLedger", Nettings, "posted", {}), {"unposted"}),
   Needing(Step("cancel", Nettings, "cancelled", {}), {"unposted"})}
NettingCalls == {"execute", "postToLedger", "cancel"}
Netting == Machine(Nettings, NewNetting, Called(NettingSteps, NettingCalls),
  {Promise({"cancelled"}, {}, {"unposted"}, {"cancel"}),
   Promise({"executed"}, {}, {"executedAt"}, {"execute"}),
   Promise({"posted"}, {}, {}, {"postToLedger"})})

\* Settlements: no step asks for the step before it.
Settlements == {"optimized", "sent", "acknowledged", "settled", "failed"}
NewSettlement == {New("optimizeBatch", "optimized", {})}
SettlementSteps ==
  {Step("sendBatch", Settlements, "sent", {"sentAt"}),
   Step("acknowledgeBatch", Settlements, "acknowledged", {"acknowledgedAt", "bankReference"}),
   Step("settleBatch", Settlements, "settled", {"settledAt"}),
   Step("failBatch", Settlements, "failed", {})}
Settlement == Machine(Settlements, NewSettlement, SettlementSteps,
  {Promise({"sent"}, {}, {"sentAt"}, {"sendBatch"}),
   Promise({"acknowledged"}, {}, {"acknowledgedAt", "bankReference"}, {"acknowledgeBatch"}),
   Promise({"settled"}, {}, {"settledAt"}, {"settleBatch"})})

-----------------------------------------------------------------------------
\* Customer relations.  Every method updates columns, of any row.
QueueItems == {"queued", "assigned", "in_progress", "resolved", "escalated", "abandoned"}
NewQueueItem == {New("enqueue", "queued", {"slaDeadline"})}
QueueItemSteps ==
  {ByColumns(Step("assignAgent", QueueItems, "assigned", {"assignedAgentId"})),
   ByColumns(Step("escalateToSupervisor", QueueItems, "escalated", {"escalatedToSupervisor"})),
   ByColumns(Step("resolve", QueueItems, "resolved", {"resolvedAt"}))}
QueueItemCalls == {"assignAgent", "escalateToSupervisor", "resolve"}
QueueItem == Machine(QueueItems, NewQueueItem, Called(QueueItemSteps, QueueItemCalls),
  {Promise({"assigned"}, {}, {"assignedAgentId"}, {"assignAgent"}),
   Promise({"escalated"}, {}, {"escalatedToSupervisor"}, {"escalateToSupervisor"}),
   Promise({"resolved"}, {}, {"resolvedAt"}, {"resolve"})})

\* updateTicket writes what the request holds, here some of the statuses: a resolved ticket
\* may have no date.
Tickets == {"open", "in_progress", "pending_customer", "pending_info", "resolved", "closed",
            "escalated"}
NewTicket == {New("createTicket", "open", {})}
TicketSteps ==
  {ByColumns(st) : st \in ToEach("updateTicket", Tickets, {"open", "resolved"}, {}) \cup
    {Step("resolveTicket", Tickets, "resolved", {"resolvedAt"}),
     Step("closeTicket", Tickets, "closed", {"closedAt"}),
     Step("handleComplaint", Tickets, "escalated", {})}}
TicketCalls == {"updateTicket", "resolveTicket", "closeTicket"}
ComplaintCalls == {"handleComplaint"}
Ticket == Machine(Tickets, NewTicket, Called(TicketSteps, TicketCalls \cup ComplaintCalls),
  {Promise(Tickets, {"resolvedAt"}, {}, {"resolveTicket"}),
   Promise(Tickets, {"closedAt"}, {}, {"closeTicket"})})

\* An answer still pending closes the opportunity as lost.
Opportunities == {"identified", "qualified", "proposed", "negotiating", "closed_won", "closed_lost"}
NewOpportunity == {New("createOpportunity", "identified", {})}
OpportunitySteps ==
  {ByColumns(st) : st \in ToEach("advanceStage", Opportunities, Opportunities, {}) \cup
     ToEach("setResult", Opportunities, {"closed_won", "closed_lost"}, {"closedAt"})}
OpportunityCalls == {"advanceStage", "setResult"}
Opportunity == Machine(Opportunities, NewOpportunity, Called(OpportunitySteps, OpportunityCalls),
  {Promise(Opportunities, {"closedAt"}, {}, {"setResult"})})

\* Conversations with the bot; endConversation also unsets transferredToHuman.
Conversations == {"started", "ended"}
NewConversation == {New("startConversation", "started", {})}
ConversationSteps ==
  {ByColumns(Step("transferToHuman", Conversations, Same, {"transferred", "transferReason"})),
   ByColumns(Step("endConversation", Conversations, "ended", {"transferred", "endedAt"})),
   ByColumns(Dropping(Step("endConversation", Conversations, "ended", {"endedAt"}), {"transferred"}))}
ConversationCalls == {"transferToHuman", "endConversation"}
Conversation == Ending(Machine(Conversations, NewConversation,
  Called(ConversationSteps, ConversationCalls),
  {Promise(Conversations, {"transferReason"}, {}, {"transferToHuman"}),
   Promise({"ended"}, {}, {"endedAt"}, {"endConversation"})}), {"ended"})

\* Metrics of an agent in a month: found or created, without a unique index.
AgentMonths == {"counted"}
NewAgentMonth == {Unless(New("updateAgentMetrics", "counted", {}), AgentMonths)}
AgentMonthSteps == {Step("updateAgentMetrics", AgentMonths, Same, {"rated"})}
AgentMonthCalls == {"updateAgentMetrics"}
AgentMonth == OneIn(Machine(AgentMonths, NewAgentMonth, Called(AgentMonthSteps, AgentMonthCalls),
  {Promise(AgentMonths, {"rated"}, {}, {"updateAgentMetrics"})}), AgentMonths)

-----------------------------------------------------------------------------
Operations ==
  [execution |-> Execution, vulnerability |-> Vulnerability, indicator |-> Indicator,
   reconBatch |-> ReconBatch, match |-> Match, netting |-> Netting, settlement |-> Settlement,
   queueItem |-> QueueItem, ticket |-> Ticket, opportunity |-> Opportunity,
   conversation |-> Conversation, agentMonth |-> AgentMonth]
=============================================================================
