---------------------------- MODULE GeneralLedger ---------------------------
(***************************************************************************)
(* The general ledger: JournalEntryService, FiscalPeriodService and        *)
(* InventoryJournalService as calls that interleave at every await.        *)
(*                                                                         *)
(* Only the insertion of a journal entry with its lines is a transaction.  *)
(* Everything else reads a row, checks it and saves the copy later, and a  *)
(* save writes back what the copy says of the row: it undoes what others   *)
(* did in between.  Amounts are half cents, as in AtomicBank.  What close  *)
(* and reopen note beside the status (who, when, how often) is left out,   *)
(* and so are texts, accounts and segments of a line.                      *)
(***************************************************************************)
EXTENDS Integers, Sequences, FiniteSets, SequencesExt

CONSTANTS
  Periods,   \* fiscal periods
  Entries,   \* journal entry ids; the bound on how many are ever inserted
  Calls,     \* calls of the services
  Inputs,    \* line lists a client may send, as sequences of Line
  NoEntry, NoPeriod

ASSUME EntryNullAssumption == NoEntry \notin Entries

VARIABLES
  period,   \* ledger_fiscal_period: the status
  entry,    \* ledger_journal_entry with its ledger_journal_lines
  call      \* call -> where it waits, and what it read

vars == <<period, entry, call>>

-----------------------------------------------------------------------------
PeriodStatus == {"open", "closed", "temp_closed", "permanent"}
Line == [debit : Nat, credit : Nat]

\* Storing an amount in a numeric(18,2) column.
Stored(x) == IF x % 2 = 0 THEN x ELSE x + 1

StoredLines(ls) == [i \in DOMAIN ls |-> [debit |-> Stored(ls[i].debit),
                                         credit |-> Stored(ls[i].credit)]]

Swapped(ls) == [i \in DOMAIN ls |-> [debit |-> ls[i].credit, credit |-> ls[i].debit]]

Debits(ls)   == FoldLeft(LAMBDA sum, l : sum + l.debit, 0, ls)
Credits(ls)  == FoldLeft(LAMBDA sum, l : sum + l.credit, 0, ls)
Balanced(ls) == Debits(ls) = Credits(ls)

\* Out of balance by half a cent a line at most, which is what storing can do.
NearlyBalanced(ls) == Debits(ls) - Credits(ls) \in -Len(ls) .. Len(ls)

NoRow == [status |-> "none", period |-> NoPeriod, source |-> "api", lines |-> <<>>,
          reverses |-> NoEntry, reversedBy |-> NoEntry]

\* reverses is the reference REVERSAL-<number> of a reversal.
NewEntry(status, p, source, lines, reverses) ==
  [status |-> status, period |-> p, source |-> source, lines |-> lines,
   reverses |-> reverses, reversedBy |-> NoEntry]

Exists(e) == e \in Entries /\ entry[e].status # "none"

FreeCall == [op |-> "create", pc |-> "free", period |-> NoPeriod, entry |-> NoEntry,
             lines |-> <<>>, reversal |-> NoEntry, reversedBy |-> NoEntry]

Ended(c)    == call[c].pc \in {"done", "refused", "failed"}
InFlight(c) == ~Ended(c) /\ call[c].pc # "free"

Goto(c, pc) == call' = [call EXCEPT ![c].pc = pc]

Ask(c, pc, op, p, e, lines) ==
  /\ call[c].pc = "free"
  /\ call' = [call EXCEPT ![c] = [FreeCall EXCEPT !.pc = pc, !.op = op, !.period = p,
                                                  !.entry = e, !.lines = lines]]
  /\ UNCHANGED <<period, entry>>

-----------------------------------------------------------------------------
\* A variant: the double-entry check is forgotten.
AcceptsAny(ls) == TRUE

Accepts(ls) == Balanced(ls)

\* The requests.  create() refuses unbalanced lines before it reads anything.
AskCreate(c)  == \E p \in Periods, ls \in {l \in Inputs : Accepts(l)} :
                   Ask(c, "readPeriod", "create", p, NoEntry, ls)
AskPost(c)    == \E e \in Entries : Exists(e) /\ Ask(c, "readEntry", "post", NoPeriod, e, <<>>)
AskReverse(c) == \E e \in Entries :
                   Exists(e) /\ Ask(c, "readOriginal", "reverse", NoPeriod, e, <<>>)
AskClose(c)   == \E p \in Periods, op \in {"close", "closeForGood"} :
                   Ask(c, "readPeriod", op, p, NoEntry, <<>>)
AskReopen(c)  == \E p \in Periods : Ask(c, "readPeriod", "reopen", p, NoEntry, <<>>)

\* generateJournalFromMovement: one amount, debited and credited, so both lines
\* round alike.
OneAmount(ls) ==
  Len(ls) = 2 /\ ls[1].debit = ls[2].credit /\ ls[1].credit = 0 /\ ls[2].debit = 0

AskInventory(c) == \E p \in Periods, ls \in {l \in Inputs : OneAmount(l)} :
                     Ask(c, "readPeriod", "inventory", p, NoEntry, ls)

-----------------------------------------------------------------------------
\* What each caller demands of the period it read.
PeriodAccepted(c) ==
  LET status == period[call[c].period] IN
  CASE call[c].op = "reopen"    -> status \notin {"open", "permanent"}
    [] call[c].op = "inventory" -> status = "open"
    [] OTHER -> status \notin {"closed", "permanent"}

AfterPeriod(c) ==
  CASE call[c].op \in {"create", "reverse"} -> "insert"
    [] call[c].op = "inventory" -> "insertPosted"
    [] OTHER -> "savePeriod"

ReadPeriod(c) ==
  /\ call[c].pc = "readPeriod"
  /\ Goto(c, IF PeriodAccepted(c) THEN AfterPeriod(c) ELSE "refused")
  /\ UNCHANGED <<period, entry>>

\* A variant: the request's word for it is stored.
NewStatusRaw(c) == call[c].op

NewStatus(c) ==
  CASE call[c].op = "close"        -> "closed"
    [] call[c].op = "closeForGood" -> "permanent"
    [] call[c].op = "reopen"       -> "open"

SavePeriod(c) ==
  /\ call[c].pc = "savePeriod"
  /\ period' = [period EXCEPT ![call[c].period] = NewStatus(c)]
  /\ Goto(c, "done")
  /\ UNCHANGED entry

-----------------------------------------------------------------------------
\* A variant: reverse() does not post the reversal.
AfterInsertUnposted(c) == IF call[c].op = "create" THEN "done" ELSE "saveOriginal"

AfterInsert(c) == IF call[c].op = "create" THEN "done" ELSE "readEntry"

\* create(): entry and lines in one transaction, as a draft.
InsertEntry(c) ==
  /\ call[c].pc = "insert"
  /\ \E e \in Entries :
       /\ ~Exists(e)
       /\ entry' = [entry EXCEPT ![e] =
            NewEntry("draft", call[c].period, "api", StoredLines(call[c].lines), call[c].entry)]
       /\ call' = [call EXCEPT ![c].reversal = e, ![c].pc = AfterInsert(c)]
  /\ UNCHANGED period

\* post(), called by a client or by reverse() for the reversal it created.
Target(c) == IF call[c].op = "post" THEN call[c].entry ELSE call[c].reversal

ReadEntry(c) ==
  LET e == entry[Target(c)] IN
  /\ call[c].pc = "readEntry"
  /\ IF e.status = "draft"
     THEN call' = [call EXCEPT ![c].pc = "savePosted", ![c].reversedBy = e.reversedBy]
     ELSE Goto(c, "refused")
  /\ UNCHANGED <<period, entry>>

SavePosted(c) ==
  /\ call[c].pc = "savePosted"
  /\ entry' = [entry EXCEPT ![Target(c)].status = "posted",
                            ![Target(c)].reversedBy = call[c].reversedBy]
  /\ Goto(c, IF call[c].op = "post" THEN "done" ELSE "saveOriginal")
  /\ UNCHANGED period

-----------------------------------------------------------------------------
\* A variant: the reversal repeats the original instead of mirroring it.
ReversedLinesUnswapped(ls) == ls

ReversedLines(ls) == Swapped(ls)

\* reverse(): reads the original and its lines, and calls create(), which
\* checks the swapped lines again and reads the period.
ReadOriginal(c) ==
  LET o == entry[call[c].entry] IN
  /\ call[c].pc = "readOriginal"
  /\ IF o.status = "posted" /\ Accepts(ReversedLines(o.lines))
     THEN call' = [call EXCEPT ![c].pc = "readPeriod", ![c].period = o.period,
                               ![c].lines = ReversedLines(o.lines)]
     ELSE Goto(c, "refused")
  /\ UNCHANGED <<period, entry>>

SaveOriginal(c) ==
  /\ call[c].pc = "saveOriginal"
  /\ entry' = [entry EXCEPT ![call[c].entry].status = "reversed",
                            ![call[c].entry].reversedBy = call[c].reversal]
  /\ Goto(c, "done")
  /\ UNCHANGED period

-----------------------------------------------------------------------------
\* generateJournalFromMovement(): an entry that is posted at once, its two lines
\* and the link to the movement, each saved on its own.
InsertPosted(c) ==
  /\ call[c].pc = "insertPosted"
  /\ \E e \in Entries :
       /\ ~Exists(e)
       /\ entry' = [entry EXCEPT ![e] =
            NewEntry("posted", call[c].period, "inventory", <<>>, NoEntry)]
       /\ call' = [call EXCEPT ![c].entry = e, ![c].pc = "saveLine"]
  /\ UNCHANGED period

\* A variant: only the first line is saved.
AfterLineOnce(c) == "saveLink"

AfterLine(c) == IF Len(call[c].lines) = 1 THEN "saveLink" ELSE "saveLine"

SaveLine(c) ==
  LET e == call[c].entry
      line == Head(call[c].lines) IN
  /\ call[c].pc = "saveLine"
  /\ entry' = [entry EXCEPT ![e].lines = @ \o StoredLines(<<line>>)]
  /\ call' = [call EXCEPT ![c].lines = Tail(@), ![c].pc = AfterLine(c)]
  /\ UNCHANGED period

SaveLink(c) ==
  /\ call[c].pc = "saveLink"
  /\ Goto(c, "done")
  /\ UNCHANGED <<period, entry>>

\* Any query may throw, and the process may die: the call ends where it is.
Fail(c) ==
  /\ InFlight(c)
  /\ Goto(c, "failed")
  /\ UNCHANGED <<period, entry>>

Done == (\A c \in Calls : Ended(c)) /\ UNCHANGED vars

-----------------------------------------------------------------------------
\* The database holds what earlier calls left: periods of any status, and at
\* most one entry, a draft or posted, in the first place.
Init ==
  /\ period \in [Periods -> PeriodStatus]
  /\ \/ entry = [e \in Entries |-> NoRow]
     \/ \E first \in Entries, p \in Periods, s \in {"draft", "posted"},
           ls \in {l \in Inputs : Balanced(l)} :
          entry = [e \in Entries |->
                     IF e = first THEN NewEntry(s, p, "api", StoredLines(ls), NoEntry)
                                  ELSE NoRow]
  /\ call = [c \in Calls |-> FreeCall]

Next ==
  \/ \E c \in Calls :
       \/ AskCreate(c) \/ AskPost(c) \/ AskReverse(c)
       \/ AskClose(c) \/ AskReopen(c) \/ AskInventory(c)
       \/ ReadPeriod(c) \/ SavePeriod(c)
       \/ InsertEntry(c) \/ ReadEntry(c) \/ SavePosted(c)
       \/ ReadOriginal(c) \/ SaveOriginal(c)
       \/ InsertPosted(c) \/ SaveLine(c) \/ SaveLink(c)
       \/ Fail(c)
  \/ Done

Spec == Init /\ [][Next]_vars

-----------------------------------------------------------------------------
PCs == {"free", "readPeriod", "savePeriod", "insert", "readEntry", "savePosted",
        "readOriginal", "saveOriginal", "insertPosted", "saveLine", "saveLink",
        "done", "refused", "failed"}

TypeOK ==
  /\ period \in [Periods -> PeriodStatus]
  /\ DOMAIN entry = Entries
  /\ \A e \in Entries :
       /\ entry[e].status \in {"none", "draft", "posted", "reversed"}
       /\ entry[e].period \in Periods \cup {NoPeriod}
       /\ entry[e].lines \in Seq(Line)
       /\ {entry[e].reverses, entry[e].reversedBy} \subseteq Entries \cup {NoEntry}
  /\ \A c \in Calls : call[c].pc \in PCs

MirroredBy(o, e) ==
  entry[e].lines = Swapped(entry[o].lines) /\ entry[e].period = entry[o].period

\* A reversal of an entry made by create() undoes it line by line, in the same
\* period, whoever else was posting, reversing or failing while it was made.
ReversalsMirror ==
  \A e \in Entries : LET o == entry[e].reverses IN
    o # NoEntry /\ entry[o].source = "api" => MirroredBy(o, e)

\* The same of every entry: once all its lines are there a reversal mirrors them.
EveryReversalMirrors ==
  \A e \in Entries : LET o == entry[e].reverses IN
    o # NoEntry /\ Len(entry[o].lines) > 1 => MirroredBy(o, e)

\* An entry is called reversed only when a reversal of it is in the books, and
\* the entry names it; a crash in the middle never leaves less than that.
ReversedIsBacked ==
  \A e \in Entries : entry[e].status = "reversed" =>
    LET r == entry[e].reversedBy IN
    /\ Exists(r)
    /\ entry[r].reverses = e
    /\ entry[r].status # "draft"

\* A posted entry that is out of balance by more than the rounding of what a
\* client sent, or at all if it came from a stock movement, is one whose lines
\* generateJournal... is still writing, or was writing when it failed.
HalfWrittenOnlyByInventory ==
  \A e \in Entries : entry[e].status \in {"posted", "reversed"} =>
    \/ IF entry[e].source = "api" THEN NearlyBalanced(entry[e].lines)
                                  ELSE Balanced(entry[e].lines)
    \/ \E c \in Calls : /\ call[c].op = "inventory" /\ call[c].entry = e
                        /\ call[c].pc \in {"saveLine", "failed"}

\* create() compares the sums before the columns round them: what it stored may
\* be out of balance, by half a cent a line at most.  The rounding never adds
\* up: a reversal balances to the cent, although nothing but its own lines is
\* checked and its original may be half written or rounded.
RoundingDoesNotCompound ==
  \A e \in Entries : entry[e].source = "api" =>
    /\ NearlyBalanced(entry[e].lines)
    /\ entry[e].reverses # NoEntry => Balanced(entry[e].lines)

\* Every entry's lines balance once they are stored, as is_balanced says.
StoredLinesBalance ==
  \A e \in Entries : entry[e].source = "api" => Balanced(entry[e].lines)

\* Nothing that is posted is unbalanced, at any moment.
PostedBalances ==
  \A e \in Entries : entry[e].status = "posted" => Balanced(entry[e].lines)

\* Only posted entries can be reversed, so none is reversed twice.
ReversedOnce ==
  \A e, f \in Entries :
    entry[e].reverses = entry[f].reverses /\ entry[e].reverses # NoEntry => e = f

\* A locked period takes no entries.
LockedTakesNone ==
  [][\A e \in Entries : ~Exists(e) /\ Exists(e)' =>
       period[entry'[e].period] \notin {"closed", "permanent"}]_vars

\* A permanently closed period cannot be reopened, nor become anything else.
PermanentIsFinal ==
  [][\A p \in Periods : period[p] = "permanent" => period'[p] = "permanent"]_vars
=============================================================================
