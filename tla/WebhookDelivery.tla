-------------------------- MODULE WebhookDelivery --------------------------
(***************************************************************************)
(* WebhookService: the delivery log of one webhook subscription.           *)
(*                                                                         *)
(* triggerWebhook and replayFromDeadLetter leave a log in the database and *)
(* a setTimeout in the memory of the process; the timer's callback delivers*)
(* the event.  Each callback and each call is a worker that stops at every *)
(* await.  save() writes the row as the worker's copy has it, and inserts  *)
(* it when it is gone.  The request to the endpoint always succeeds, as in *)
(* the code; what can fail is the database.  A promise that is rejected in *)
(* a timer's callback, outside of its try, ends the process.               *)
(* Events are those the subscription's event types include; payloads,      *)
(* times and texts are left out.                                           *)
(***************************************************************************)
EXTENDS Integers, FiniteSets, FiniteSetsExt

CONSTANTS
  Events, NoEvent, \* events ever triggered
  Workers,     \* how many calls and callbacks run at a time
  Retries,     \* values a client may ask for as maxRetries
  MaxReplays,  \* bound: replays asked for
  Widest,      \* bound: the largest number total_deliveries can hold
  Faulty,      \* may a database query fail?
  Crashing     \* may the process be killed?

VARIABLES
  sub,      \* api_webhook_subscription: state, maxRetries, total_deliveries
  log,      \* api_webhook_delivery_log: status and attempt
  timer,    \* pending setTimeout callbacks per event
  worker,   \* the running calls and callbacks
  sends,    \* requests made to the endpoint, per event
  replays,  \* replays that reset an event, per event
  deletes   \* does a client delete the subscription in this behaviour?

vars == <<sub, log, timer, worker, sends, replays, deletes>>

-----------------------------------------------------------------------------
Statuses == {"none", "PENDING", "DELIVERED", "FAILED", "DEAD_LETTER"}

NoLog  == [status |-> "none", attempt |-> 0]

\* A variant: a status the enumeration does not know.
NewLogRetry == [status |-> "RETRY", attempt |-> 1]

NewLog == [status |-> "PENDING", attempt |-> 1]
NoSub  == [state |-> "none", maxRetries |-> 0, total |-> 0]

\* A variant: the column read as a number.
PlusOneNumber(n) == n + 1

\* total_deliveries is a bigint, which arrives as a string: += 1 appends a digit.
PlusOne(n) == 10 * n + 1

FreeWorker == [pc |-> "idle", event |-> NoEvent, row |-> NoLog, total |-> 0]

At(w, pc)   == worker[w].pc = pc
Start(w, pc, e, row) ==
  /\ At(w, "idle")
  /\ worker' = [worker EXCEPT ![w] = [FreeWorker EXCEPT !.pc = pc, !.event = e, !.row = row]]
Goto(w, pc) == worker' = [worker EXCEPT ![w].pc = pc]
Finish(w)   == worker' = [worker EXCEPT ![w] = FreeWorker]

-----------------------------------------------------------------------------
\* createWebhook: maxRetries || 3.
Register ==
  /\ sub.state = "none"
  /\ \E n \in Retries :
       sub' = [state |-> "active", maxRetries |-> IF n = 0 THEN 3 ELSE n, total |-> 0]
  /\ UNCHANGED <<log, timer, worker, sends, replays>>

Delete ==
  /\ deletes /\ sub.state = "active"
  /\ sub' = [sub EXCEPT !.state = "deleted"]
  /\ UNCHANGED <<log, timer, worker, sends, replays>>

\* triggerWebhook: looks the subscription up, saves the log, sets the timer.
Trigger(w) ==
  /\ sub.state = "active"
  /\ \E e \in Events :
       /\ log[e] = NoLog /\ \A v \in Workers : worker[v].event # e
       /\ Start(w, "insertLog", e, NoLog)
  /\ UNCHANGED <<sub, log, timer, sends, replays>>

InsertLog(w) ==
  LET e == worker[w].event IN
  /\ At(w, "insertLog")
  /\ log' = [log EXCEPT ![e] = NewLog]
  /\ timer' = [timer EXCEPT ![e] = @ + 1]
  /\ Finish(w)
  /\ UNCHANGED <<sub, sends, replays>>

-----------------------------------------------------------------------------
\* A variant: the timer is a setInterval.
FireInterval(w) ==
  /\ \E e \in Events : timer[e] > 0 /\ Start(w, "send", e, log[e])
  /\ UNCHANGED <<sub, log, timer, sends, replays>>

\* deliverWebhook, from the timer on: reads the log it was set for.
Fire(w) ==
  /\ \E e \in Events :
       /\ timer[e] > 0
       /\ timer' = [timer EXCEPT ![e] = @ - 1]
       /\ Start(w, "send", e, log[e])
  /\ UNCHANGED <<sub, log, sends, replays>>

SaveDelivered(w) ==
  LET e == worker[w].event IN
  /\ At(w, "send")
  /\ log' = [log EXCEPT ![e] = [worker[w].row EXCEPT !.status = "DELIVERED"]]
  /\ sends' = [sends EXCEPT ![e] = @ + 1]
  /\ worker' = [worker EXCEPT ![w].row.status = "DELIVERED", ![w].pc = "readStats"]
  /\ UNCHANGED <<sub, timer, replays>>

ReadStats(w) ==
  /\ At(w, "readStats")
  /\ IF sub.state = "active"
     THEN worker' = [worker EXCEPT ![w].total = sub.total, ![w].pc = "saveStats"]
     ELSE Finish(w)
  /\ UNCHANGED <<sub, log, timer, sends, replays>>

SaveStats(w) ==
  LET total == PlusOne(worker[w].total) IN
  /\ At(w, "saveStats")
  /\ IF total <= Widest
     THEN sub' = [sub EXCEPT !.state = "active", !.total = total] /\ Finish(w)
     ELSE Goto(w, "saveFailed") /\ UNCHANGED sub
  /\ UNCHANGED <<log, timer, sends, replays>>

\* The catch block: the log is failed, then retried or given up.
SaveFailed(w) ==
  LET row == [worker[w].row EXCEPT !.status = "FAILED"] IN
  /\ At(w, "saveFailed")
  /\ log' = [log EXCEPT ![worker[w].event] = row]
  /\ worker' = [worker EXCEPT ![w].row = row, ![w].pc = "decide"]
  /\ UNCHANGED <<sub, timer, sends, replays>>

Retryable(row) == sub.state = "active" /\ row.attempt < sub.maxRetries

Decide(w) ==
  /\ At(w, "decide")
  /\ Goto(w, IF Retryable(worker[w].row) THEN "readAgain" ELSE "saveDead")
  /\ UNCHANGED <<sub, log, timer, sends, replays>>

\* scheduleRetry reads the log once more and counts the attempt; it sets no timer.
ReadAgain(w) ==
  /\ At(w, "readAgain")
  /\ worker' = [worker EXCEPT ![w].row = log[worker[w].event], ![w].pc = "saveAttempt"]
  /\ UNCHANGED <<sub, log, timer, sends, replays>>

SaveAttempt(w) ==
  /\ At(w, "saveAttempt")
  /\ log' = [log EXCEPT ![worker[w].event] =
               [worker[w].row EXCEPT !.attempt = @ + 1]]
  /\ Finish(w)
  /\ UNCHANGED <<sub, timer, sends, replays>>

SaveDead(w) ==
  /\ At(w, "saveDead")
  /\ log' = [log EXCEPT ![worker[w].event] =
               [worker[w].row EXCEPT !.status = "DEAD_LETTER"]]
  /\ Finish(w)
  /\ UNCHANGED <<sub, timer, sends, replays>>

-----------------------------------------------------------------------------
Replayable(row) == row.status = "DEAD_LETTER"

\* replayFromDeadLetter: resets the log, and sets a timer if the subscription
\* is still there.
Replay(w) ==
  /\ \E e \in Events :
       /\ Replayable(log[e]) /\ replays[e] < MaxReplays
       /\ Start(w, "savePending", e, NewLog)
  /\ UNCHANGED <<sub, log, timer, sends, replays>>

SavePending(w) ==
  LET e == worker[w].event IN
  /\ At(w, "savePending")
  /\ log' = [log EXCEPT ![e] = NewLog]
  /\ replays' = [replays EXCEPT ![e] = @ + 1]
  /\ Goto(w, "readEndpoint")
  /\ UNCHANGED <<sub, timer, sends>>

\* A variant: the replay forgets the timer.
ReadEndpointOnly(w) ==
  /\ At(w, "readEndpoint")
  /\ Finish(w)
  /\ UNCHANGED <<sub, log, timer, sends, replays>>

ReadEndpoint(w) ==
  LET e == worker[w].event IN
  /\ At(w, "readEndpoint")
  /\ timer' = [timer EXCEPT ![e] = @ + IF sub.state = "active" THEN 1 ELSE 0]
  /\ Finish(w)
  /\ UNCHANGED <<sub, log, sends, replays>>

-----------------------------------------------------------------------------
Requests  == {"insertLog", "savePending", "readEndpoint"}
InTry     == {"send", "readStats", "saveStats"}

\* A query fails: a request answers with an error, a delivery goes to its catch.
Fail(w) ==
  /\ Faulty
  /\ \/ worker[w].pc \in Requests /\ Finish(w)
     \/ worker[w].pc \in InTry /\ Goto(w, "saveFailed")
  /\ UNCHANGED <<sub, log, timer, sends, replays>>

Die ==
  /\ worker' = [w \in Workers |-> FreeWorker]
  /\ timer' = [e \in Events |-> 0]
  /\ UNCHANGED <<sub, log, sends, replays>>

\* The process dies and starts again: a query failed outside of a try, or it
\* was killed.
Crash ==
  /\ \/ Crashing
     \/ Faulty /\ \E w \in Workers :
          worker[w].pc \in {"saveFailed", "decide", "readAgain", "saveAttempt", "saveDead"}
  /\ Die

\* What a worker does next when the database answers.
Step(w) ==
  \/ InsertLog(w) \/ SaveDelivered(w) \/ ReadStats(w) \/ SaveStats(w)
  \/ SaveFailed(w) \/ Decide(w) \/ ReadAgain(w) \/ SaveAttempt(w) \/ SaveDead(w)
  \/ SavePending(w) \/ ReadEndpoint(w)

Init ==
  /\ sub = NoSub
  /\ log = [e \in Events |-> NoLog]
  /\ timer = [e \in Events |-> 0]
  /\ worker = [w \in Workers |-> FreeWorker]
  /\ sends = [e \in Events |-> 0]
  /\ replays = [e \in Events |-> 0]
  /\ deletes \in BOOLEAN

Next ==
  /\ \/ Register \/ Delete \/ Crash
     \/ \E w \in Workers : Trigger(w) \/ Fire(w) \/ Replay(w) \/ Step(w) \/ Fail(w)
  /\ UNCHANGED deletes

Spec == Init /\ [][Next]_vars

\* The database answers every query, and the event loop runs every timer.
Fairness ==
  /\ \A w \in Workers : WF_vars(Step(w) /\ UNCHANGED deletes)
  /\ WF_vars(\E w \in Workers : Fire(w) /\ UNCHANGED deletes)

-----------------------------------------------------------------------------
TypeOK ==
  /\ sub \in [state : {"none", "active", "deleted"}, maxRetries : Nat, total : 0..Widest]
  /\ log \in [Events -> [status : Statuses, attempt : Nat]]
  /\ {timer, sends, replays} \subseteq [Events -> Nat]
  /\ \A w \in Workers : worker[w].event \in Events \cup {NoEvent}

Delivering(e) ==
  {w \in Workers : worker[w].event = e /\ worker[w].pc \in {"send", "insertLog", "readEndpoint"}}

\* The endpoint is never asked more often than the event was triggered and
\* replayed, and nothing that can still ask it was set twice: whatever fails.
SentAsOftenAsAsked ==
  \A e \in Events : log[e].status # "none" =>
    sends[e] + timer[e] + Cardinality(Delivering(e)) <= 1 + replays[e]

\* As long as no query fails and the process lives, a pending event has a timer or
\* a worker that will see to it, however deliveries, overflows of their statistics,
\* replays and the deletion of the subscription overlap.  One thing alone leaves an
\* event behind: a deletion, and only if the event was replayed.
Attended(e) ==
  \/ timer[e] > 0
  \/ \E w \in Workers : /\ worker[w].event = e
                         /\ worker[w].pc \in {"send", "saveFailed", "readEndpoint"}

PendingIsAttended ==
  ~Faulty => \A e \in Events :
    /\ log[e].status = "PENDING"
    /\ (deletes => replays[e] = 0)
    => Attended(e)

\* What was delivered is not put among the failed ones by the bookkeeping.
DeliveredIsFinal ==
  [][\A e \in Events : log[e].status = "DELIVERED" => log'[e].status # "FAILED"]_vars

\* total_deliveries counts deliveries.
StatsCount == sub.total <= MapThenSumSet(LAMBDA e : sends[e], Events)

\* A deleted subscription does not come back.
DeletedIsGone == [][sub.state = "deleted" => sub'.state = "deleted"]_vars

\* As long as nobody deletes the subscription, every pending event is sent, or at least
\* failed, in the end.
PendingIsResolved ==
  \A e \in Events : ~deletes /\ log[e].status = "PENDING" ~> log[e].status # "PENDING"
=============================================================================
