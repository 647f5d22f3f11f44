------------------------ MODULE GeneralLedgerProofs -------------------------
(***************************************************************************)
(* Theorems about GeneralLedger, for any number of periods, entries and    *)
(* calls and any lines: whatever overlaps, fails or is saved twice, what   *)
(* is called reversed has its reversal, reversals mirror, and what does    *)
(* not balance is out by the rounding of its lines or is half written.     *)
(***************************************************************************)
EXTENDS GeneralLedger, SumTheorems, SequenceTheorems, TLAPS

Ops == {"create", "post", "reverse", "close", "closeForGood", "reopen", "inventory"}
Ids == Entries \cup {NoEntry}

EntryType == [status : {"none", "draft", "posted", "reversed"}, period : Periods \cup {NoPeriod},
              source : {"api", "inventory"}, lines : Seq(Line), reverses : Ids, reversedBy : Ids]

CallType == [op : Ops, pc : PCs, period : Periods \cup {NoPeriod}, entry : Ids,
             lines : Seq(Line), reversal : Ids, reversedBy : Ids]

-----------------------------------------------------------------------------
\* Lines as they are stored: a map over a sequence keeps what it is a sequence of.
LEMMA StoredAgain ==
  ASSUME NEW x \in Nat PROVE Stored(x) \in Nat /\ Stored(Stored(x)) = Stored(x)
<1>1. CASE x % 2 = 0
  BY <1>1 DEF Stored
<1>2. CASE x % 2 # 0
  <2>1. (x + 1) % 2 = 0
    BY <1>2
  <2> QED BY <1>2, <2>1 DEF Stored
<1> QED BY <1>1, <1>2

LEMMA StoredType ==
  ASSUME NEW ls \in Seq(Line)
  PROVE  StoredLines(ls) \in Seq(Line) /\ StoredLines(StoredLines(ls)) = StoredLines(ls)
<1>1. Len(ls) \in Nat /\ DOMAIN ls = 1..Len(ls) /\ \A i \in DOMAIN ls : ls[i] \in Line
  BY LenProperties, ElementOfSeq
<1>2. \A i \in DOMAIN ls :
        /\ Stored(ls[i].debit) \in Nat /\ Stored(ls[i].credit) \in Nat
        /\ Stored(Stored(ls[i].debit)) = Stored(ls[i].debit)
        /\ Stored(Stored(ls[i].credit)) = Stored(ls[i].credit)
  BY <1>1, StoredAgain DEF Line
<1>3. StoredLines(ls) \in [1..Len(ls) -> Line]
  BY <1>1, <1>2 DEF StoredLines, Line
<1>4. StoredLines(ls) \in Seq(Line)
  BY <1>1, <1>3
<1>5. StoredLines(StoredLines(ls)) = StoredLines(ls)
  BY <1>1, <1>2 DEF StoredLines
<1> QED BY <1>4, <1>5

LEMMA SwappedType ==
  ASSUME NEW ls \in Seq(Line)
  PROVE  /\ Swapped(ls) \in Seq(Line)
         /\ StoredLines(Swapped(ls)) = Swapped(StoredLines(ls))
<1>1. Len(ls) \in Nat /\ DOMAIN ls = 1..Len(ls) /\ \A i \in DOMAIN ls : ls[i] \in Line
  BY LenProperties, ElementOfSeq
<1>2. Swapped(ls) \in [1..Len(ls) -> Line]
  BY <1>1 DEF Swapped, Line
<1>3. Swapped(ls) \in Seq(Line)
  BY <1>1, <1>2
<1>4. StoredLines(Swapped(ls)) = Swapped(StoredLines(ls))
  BY <1>1 DEF StoredLines, Swapped
<1> QED BY <1>3, <1>4

-----------------------------------------------------------------------------
\* The inductive invariant, over a table E of entries.

Present(E, e) == e \in Entries /\ E[e].status # "none"

\* r is a reversal of e, and no draft.
Backing(E, r, e) == Present(E, r) /\ E[r].reverses = e /\ E[r].status # "draft"

Mirrored(E, o, e) == E[e].lines = Swapped(E[o].lines) /\ E[e].period = E[o].period

RowSound(E, e) ==
  /\ E[e].reverses # NoEntry =>
       /\ E[e].source = "api" /\ Present(E, E[e].reverses)
       /\ E[E[e].reverses].source = "api" => Mirrored(E, E[e].reverses, e)
  /\ E[e].source = "api" => StoredLines(E[e].lines) = E[e].lines

\* What is called reversed is.
StatusSound(E, e) == E[e].status = "reversed" => Backing(E, E[e].reversedBy, e)

\* What a call has read and made so far: the lines reverse() has swapped are those of an
\* original that cannot change, and what it saves as reversed has its reversal.
CallSound(E, q) ==
  /\ q.pc \in {"readPeriod", "insert"} =>
       /\ q.op = "create" => q.entry = NoEntry
       /\ q.op = "reverse" /\ E[q.entry].source = "api" =>
            q.lines = Swapped(E[q.entry].lines) /\ q.period = E[q.entry].period
  /\ q.pc # "free" /\ q.op = "reverse" => Present(E, q.entry)
  /\ q.pc = "readPeriod" => q.op # "post"
  /\ q.pc = "insert" => q.op \in {"create", "reverse"}
  /\ q.pc = "savePeriod" => q.op \in {"close", "closeForGood", "reopen"}
  /\ q.pc = "readOriginal" => q.op = "reverse"
  /\ q.pc \in {"readEntry", "savePosted"} =>
       /\ q.op \in {"post", "reverse"}
       /\ q.op = "post" => Present(E, q.entry)
       /\ q.op = "reverse" => Present(E, q.reversal) /\ E[q.reversal].reverses = q.entry
  /\ q.pc = "saveOriginal" => q.op = "reverse" /\ Backing(E, q.reversal, q.entry)
  /\ q.op = "inventory" /\ q.pc \in {"readPeriod", "insertPosted", "saveLine"} => Len(q.lines) >= 1
  /\ q.pc \in {"insertPosted", "saveLine", "saveLink"} => q.op = "inventory"
  /\ q.pc = "saveLine" => Present(E, q.entry) /\ E[q.entry].source = "inventory"

Types ==
  /\ Inputs \subseteq Seq(Line)
  /\ period \in [Periods -> PeriodStatus]
  /\ entry \in [Entries -> EntryType] /\ call \in [Calls -> CallType]

IInv ==
  /\ Types
  /\ \A e \in Entries : RowSound(entry, e) /\ StatusSound(entry, e)
  /\ \A c \in Calls : CallSound(entry, call[c])

-----------------------------------------------------------------------------
\* What a step does to no entry: take it away, change what it reverses, where it came from
\* or what create() wrote, or make it a draft again.
Grows(E, F) ==
  \A e \in Entries : Present(E, e) =>
    /\ Present(F, e)
    /\ F[e].reverses = E[e].reverses /\ F[e].source = E[e].source /\ F[e].period = E[e].period
    /\ E[e].source = "api" => F[e].lines = E[e].lines
    /\ E[e].status # "draft" => F[e].status # "draft"

LEMMA BackingStays ==
  ASSUME NEW E, NEW F, Grows(E, F), NEW r, NEW e, Backing(E, r, e) PROVE Backing(F, r, e)
  BY DEF Backing, Grows, Present

LEMMA CallStays ==
  ASSUME NEW E, NEW F, Grows(E, F), NEW q, CallSound(E, q) PROVE CallSound(F, q)
<1>1. q.pc = "saveOriginal" => Backing(F, q.reversal, q.entry)
  BY BackingStays DEF CallSound
<1>2. \A e : Present(E, e) => /\ Present(F, e)
                              /\ F[e].reverses = E[e].reverses /\ F[e].source = E[e].source
                              /\ F[e].period = E[e].period
                              /\ E[e].source = "api" => F[e].lines = E[e].lines
  BY DEF Grows, Present
<1> QED BY <1>1, <1>2 DEF CallSound

LEMMA RowStays ==
  ASSUME NEW E, NEW F, Grows(E, F), NEW e \in Entries, Present(E, e), RowSound(E, e)
  PROVE  RowSound(F, e)
<1>1. \A o : Present(E, o) => /\ Present(F, o)
                              /\ F[o].reverses = E[o].reverses /\ F[o].source = E[o].source
                              /\ F[o].period = E[o].period
                              /\ E[o].source = "api" => F[o].lines = E[o].lines
  BY DEF Grows, Present
<1>2. CASE E[e].source = "api"
  BY <1>1, <1>2 DEF RowSound, Mirrored
<1>3. CASE E[e].source # "api"
  BY <1>1, <1>3 DEF RowSound, Mirrored
<1> QED BY <1>2, <1>3

-----------------------------------------------------------------------------
\* A step in which c alone moves: what is left to show are the entries it adds, those it
\* calls reversed, and what c knows afterwards.
LEMMA CallMoves ==
  ASSUME IInv, NEW c \in Calls, NEW q \in CallType, call' = [call EXCEPT ![c] = q],
         period' \in [Periods -> PeriodStatus], entry' \in [Entries -> EntryType],
         Grows(entry, entry'), CallSound(entry', q),
         \A e \in Entries : ~Present(entry, e) => entry'[e] = entry[e] \/ RowSound(entry', e),
         \A e \in Entries : entry'[e].status = "reversed" =>
           \/ entry[e].status = "reversed" /\ entry'[e].reversedBy = entry[e].reversedBy
           \/ Backing(entry', entry'[e].reversedBy, e)
  PROVE  IInv'
<1>1. Types'
  BY DEF IInv, Types
<1>2. ASSUME NEW d \in Calls PROVE CallSound(entry', call'[d])
  <2>1. call[d] \in CallType /\ CallSound(entry, call[d])
    BY DEF IInv, Types
  <2> QED BY <2>1, CallStays DEF IInv, Types
<1>3. ASSUME NEW e \in Entries PROVE RowSound(entry', e)
  <2>1. CASE Present(entry, e)
    BY <2>1, RowStays DEF IInv
  <2>2. CASE ~Present(entry, e) /\ entry'[e] = entry[e]
    <3>1. RowSound(entry, e)
      BY DEF IInv
    <3>2. PICK o : o = entry[e].reverses
      OBVIOUS
    <3>3. Present(entry, o) => /\ Present(entry', o) /\ entry'[o].source = entry[o].source
                               /\ entry'[o].period = entry[o].period
                               /\ entry[o].source = "api" => entry'[o].lines = entry[o].lines
      BY DEF Grows, Present
    <3> QED BY <2>2, <3>1, <3>2, <3>3 DEF RowSound, Mirrored
  <2> QED BY <2>1, <2>2
<1>4. ASSUME NEW e \in Entries PROVE StatusSound(entry', e)
  BY BackingStays DEF IInv, StatusSound
<1> QED BY <1>1, <1>2, <1>3, <1>4 DEF IInv

\* The same when the entries stay as they are.
LEMMA EntriesStay ==
  ASSUME IInv, NEW c \in Calls, NEW q \in CallType, call' = [call EXCEPT ![c] = q],
         period' \in [Periods -> PeriodStatus], entry' = entry, CallSound(entry, q)
  PROVE  IInv'
<1>1. Grows(entry, entry')
  BY DEF Grows
<1>2. entry' \in [Entries -> EntryType]
  BY DEF IInv, Types
<1> QED BY <1>1, <1>2, CallMoves

\* Going on from one program counter to another.
LEMMA GotoMoves ==
  ASSUME IInv, NEW c \in Calls, NEW pc \in PCs, Goto(c, pc)
  PROVE  \E q \in CallType :
           /\ call' = [call EXCEPT ![c] = q]
           /\ q.pc = pc /\ q.op = call[c].op /\ q.period = call[c].period
           /\ q.entry = call[c].entry /\ q.lines = call[c].lines
           /\ q.reversal = call[c].reversal /\ q.reversedBy = call[c].reversedBy
<1> DEFINE q == [call[c] EXCEPT !.pc = pc]
<1>1. call[c] \in CallType /\ call' = [call EXCEPT ![c] = q]
  BY DEF IInv, Types, Goto
<1>2. q \in CallType
  BY <1>1 DEF CallType
<1>3. /\ q.pc = pc /\ q.op = call[c].op /\ q.period = call[c].period
      /\ q.entry = call[c].entry /\ q.lines = call[c].lines
      /\ q.reversal = call[c].reversal /\ q.reversedBy = call[c].reversedBy
  BY <1>1 DEF CallType
<1> HIDE DEF q
<1> QED BY <1>1, <1>2, <1>3

\* A call that ends, having changed no entry.
LEMMA Ends ==
  ASSUME IInv, NEW c \in Calls, NEW pc \in {"done", "refused", "failed"}, Goto(c, pc),
         call[c].pc # "free", period' \in [Periods -> PeriodStatus], entry' = entry
  PROVE  IInv'
<1>1. PICK q \in CallType : call' = [call EXCEPT ![c] = q] /\ q.pc = pc
                            /\ q.op = call[c].op /\ q.entry = call[c].entry
  BY GotoMoves DEF PCs
<1>2. CallSound(entry, call[c])
  BY DEF IInv
<1>3. CallSound(entry, q)
  BY <1>1, <1>2 DEF CallSound
<1> QED BY <1>1, <1>3, EntriesStay

\* The requests.
LEMMA AskMoves ==
  ASSUME IInv, NEW c \in Calls, NEW pc \in {"readPeriod", "readEntry", "readOriginal"},
         NEW op \in Ops, NEW p \in Periods \cup {NoPeriod}, NEW e \in Ids, NEW ls \in Seq(Line),
         Ask(c, pc, op, p, e, ls),
         pc = "readPeriod" => op \notin {"post", "reverse"},
         pc = "readPeriod" /\ op = "create" => e = NoEntry,
         pc = "readPeriod" /\ op = "inventory" => Len(ls) >= 1,
         pc = "readEntry" => op = "post" /\ Present(entry, e),
         pc = "readOriginal" => op = "reverse" /\ Present(entry, e)
  PROVE  IInv'
<1> DEFINE q == [FreeCall EXCEPT !.pc = pc, !.op = op, !.period = p, !.entry = e, !.lines = ls]
<1>1. <<>> \in Seq(Line)
  BY EmptySeq
<1>2. q \in CallType /\ q.pc = pc /\ q.op = op /\ q.entry = e /\ q.lines = ls
  BY <1>1 DEF FreeCall, CallType, PCs, Ids
<1>3. call' = [call EXCEPT ![c] = q] /\ UNCHANGED <<period, entry>>
  BY DEF Ask
<1> HIDE DEF q
<1>4. CallSound(entry, q)
  BY <1>2 DEF CallSound
<1> QED BY <1>2, <1>3, <1>4, EntriesStay DEF IInv, Types

LEMMA AsksKeep ==
  ASSUME IInv, NEW c \in Calls,
         \/ AskCreate(c) \/ AskPost(c) \/ AskReverse(c)
         \/ AskClose(c) \/ AskReopen(c) \/ AskInventory(c)
  PROVE  IInv'
<1>1. <<>> \in Seq(Line) /\ \A ls \in Inputs : ls \in Seq(Line)
  BY EmptySeq DEF IInv, Types
<1>2. CASE AskCreate(c)
  <2>1. PICK p \in Periods, ls \in Inputs : Ask(c, "readPeriod", "create", p, NoEntry, ls)
    BY <1>2 DEF AskCreate
  <2> QED BY <1>1, <2>1, AskMoves DEF Ops, Ids
<1>3. CASE AskPost(c)
  <2>1. PICK e \in Entries : Exists(e) /\ Ask(c, "readEntry", "post", NoPeriod, e, <<>>)
    BY <1>3 DEF AskPost
  <2> QED BY <1>1, <2>1, AskMoves DEF Ops, Ids, Exists, Present
<1>4. CASE AskReverse(c)
  <2>1. PICK e \in Entries : Exists(e) /\ Ask(c, "readOriginal", "reverse", NoPeriod, e, <<>>)
    BY <1>4 DEF AskReverse
  <2> QED BY <1>1, <2>1, AskMoves DEF Ops, Ids, Exists, Present
<1>5. CASE AskClose(c)
  <2>1. PICK p \in Periods, op \in {"close", "closeForGood"} :
          Ask(c, "readPeriod", op, p, NoEntry, <<>>)
    BY <1>5 DEF AskClose
  <2> QED BY <1>1, <2>1, AskMoves DEF Ops, Ids
<1>6. CASE AskReopen(c)
  <2>1. PICK p \in Periods : Ask(c, "readPeriod", "reopen", p, NoEntry, <<>>)
    BY <1>6 DEF AskReopen
  <2> QED BY <1>1, <2>1, AskMoves DEF Ops, Ids
<1>7. CASE AskInventory(c)
  <2>1. PICK p \in Periods, ls \in Inputs :
          Len(ls) = 2 /\ Ask(c, "readPeriod", "inventory", p, NoEntry, ls)
    BY <1>7 DEF AskInventory, OneAmount
  <2>2. ls \in Seq(Line) /\ Len(ls) >= 1
    BY <1>1, <2>1
  <2>3. "inventory" \in Ops /\ p \in Periods \cup {NoPeriod} /\ NoEntry \in Ids
    BY DEF Ops, Ids
  <2> QED BY <2>1, <2>2, <2>3, AskMoves
<1> QED BY <1>2, <1>3, <1>4, <1>5, <1>6, <1>7

-----------------------------------------------------------------------------
\* The period is read, or saved.
LEMMA PeriodKeeps ==
  ASSUME IInv, NEW c \in Calls, ReadPeriod(c) \/ SavePeriod(c) PROVE IInv'
<1>1. call[c] \in CallType /\ CallSound(entry, call[c])
  BY DEF IInv, Types
<1>2. CASE ReadPeriod(c)
  <2>1. call[c].pc = "readPeriod" /\ UNCHANGED <<period, entry>>
    BY <1>2 DEF ReadPeriod
  <2>2. CASE PeriodAccepted(c)
    <3>1. PICK pc \in {"insert", "insertPosted", "savePeriod"} : pc = AfterPeriod(c)
      BY DEF AfterPeriod
    <3>2. Goto(c, pc)
      BY <1>2, <2>2, <3>1 DEF ReadPeriod
    <3>3. PICK q \in CallType :
            /\ call' = [call EXCEPT ![c] = q]
            /\ q.pc = pc /\ q.op = call[c].op /\ q.period = call[c].period
            /\ q.entry = call[c].entry /\ q.lines = call[c].lines
      BY <3>2, GotoMoves DEF PCs
    <3>4. call[c].op \in {"create", "reverse", "inventory", "close", "closeForGood", "reopen"}
      BY <1>1, <2>1 DEF CallSound, CallType, Ops
    <3>5. CallSound(entry, q)
      BY <1>1, <2>1, <3>1, <3>3, <3>4 DEF CallSound, AfterPeriod
    <3> QED BY <2>1, <3>3, <3>5, EntriesStay DEF IInv, Types
  <2>3. CASE ~PeriodAccepted(c)
    BY <1>2, <2>1, <2>3, Ends DEF ReadPeriod, IInv, Types
  <2> QED BY <2>2, <2>3
<1>3. CASE SavePeriod(c)
  <2>1. call[c].pc = "savePeriod" /\ Goto(c, "done") /\ entry' = entry
        /\ period' = [period EXCEPT ![call[c].period] = NewStatus(c)]
    BY <1>3 DEF SavePeriod
  <2>2. NewStatus(c) \in PeriodStatus
    BY <1>1, <2>1 DEF CallSound, NewStatus, PeriodStatus
  <2>3. period' \in [Periods -> PeriodStatus]
    BY <2>1, <2>2 DEF IInv, Types
  <2> QED BY <2>1, <2>3, Ends
<1> QED BY <1>2, <1>3

-----------------------------------------------------------------------------
\* create(), for a client or for reverse(): the lines of a reversal are those of the
\* original, swapped, and rounding them again changes nothing.
LEMMA InsertKeeps == ASSUME IInv, NEW c \in Calls, InsertEntry(c) PROVE IInv'
<1>1. call[c] \in CallType /\ CallSound(entry, call[c]) /\ call[c].pc = "insert"
  BY DEF IInv, Types, InsertEntry
<1>2. PICK e \in Entries :
        /\ ~Exists(e)
        /\ entry' = [entry EXCEPT ![e] =
             NewEntry("draft", call[c].period, "api", StoredLines(call[c].lines), call[c].entry)]
        /\ call' = [call EXCEPT ![c].reversal = e, ![c].pc = AfterInsert(c)]
  BY DEF InsertEntry
<1>3. PICK pc \in {"done", "readEntry"} : pc = AfterInsert(c)
  BY DEF AfterInsert
<1> DEFINE q == [call[c] EXCEPT !.reversal = e, !.pc = pc]
<1>4. q \in CallType /\ q.pc = pc /\ q.op = call[c].op /\ q.entry = call[c].entry
      /\ q.reversal = e
  BY <1>1 DEF CallType, PCs, Ids
<1>5. call' = [call EXCEPT ![c] = q]
  BY <1>2, <1>3 DEF IInv, Types
<1> HIDE DEF q
<1> DEFINE row == NewEntry("draft", call[c].period, "api", StoredLines(call[c].lines),
                           call[c].entry)
<1>6. row \in EntryType /\ row.status = "draft" /\ row.source = "api"
      /\ row.period = call[c].period /\ row.lines = StoredLines(call[c].lines)
      /\ row.reverses = call[c].entry
  BY <1>1, StoredType DEF NewEntry, EntryType, CallType, Ids
<1> HIDE DEF row
<1>7. entry' = [entry EXCEPT ![e] = row]
  BY <1>2 DEF row
<1>8. entry' \in [Entries -> EntryType] /\ \A f \in Entries : f # e => entry'[f] = entry[f]
  BY <1>6, <1>7 DEF IInv, Types
<1>9. entry'[e] = row /\ ~Present(entry, e)
  BY <1>2, <1>7 DEF IInv, Types, Exists, Present
<1>10. Grows(entry, entry')
  BY <1>8, <1>9 DEF Grows, Present
<1>11. RowSound(entry', e)
  <2>1. StoredLines(row.lines) = row.lines
    BY <1>1, <1>6, StoredType DEF CallType
  <2>2. CASE call[c].op = "create"
    BY <2>1, <2>2, <1>1, <1>6, <1>9 DEF RowSound, CallSound
  <2>3. CASE call[c].op = "reverse"
    <3> DEFINE o == call[c].entry
    <3>1. Present(entry, o) /\ RowSound(entry, o) /\ entry[o] \in EntryType
      BY <1>1, <2>3 DEF CallSound, IInv, Types, Present
    <3>2. entry'[o] = entry[o] /\ Present(entry', o)
      BY <3>1, <1>8, <1>9 DEF Present
    <3>3. ASSUME entry[o].source = "api" PROVE Mirrored(entry', o, e)
      <4>1. call[c].lines = Swapped(entry[o].lines) /\ call[c].period = entry[o].period
            /\ StoredLines(entry[o].lines) = entry[o].lines
        BY <1>1, <2>3, <3>1, <3>3 DEF CallSound, RowSound
      <4>2. StoredLines(Swapped(entry[o].lines)) = Swapped(entry[o].lines)
        BY <3>1, <4>1, SwappedType DEF EntryType
      <4> QED BY <4>1, <4>2, <3>2, <1>6, <1>9 DEF Mirrored
    <3> HIDE DEF o
    <3> QED BY <2>1, <3>2, <3>3, <1>6, <1>9 DEF RowSound, o
  <2> QED BY <2>2, <2>3, <1>1 DEF CallSound
<1>12. CallSound(entry', q)
  <2>1. call[c].op = "create" => pc = "done"
    BY <1>3 DEF AfterInsert
  <2>2. Present(entry', e) /\ entry'[e].reverses = call[c].entry
    BY <1>6, <1>9 DEF Present
  <2>3. call[c].op = "reverse" => Present(entry', call[c].entry)
    BY <1>1, <1>10 DEF CallSound, Grows, Present
  <2>4. call[c].op \in {"create", "reverse"}
    BY <1>1 DEF CallSound
  <2> QED BY <1>3, <1>4, <2>1, <2>2, <2>3, <2>4 DEF CallSound
<1>13. period' \in [Periods -> PeriodStatus]
  BY DEF IInv, Types, InsertEntry
<1> QED BY <1>4, <1>5, <1>6, <1>8, <1>9, <1>10, <1>11, <1>12, <1>13, CallMoves

-----------------------------------------------------------------------------
\* A step of c that saves an entry that is there.
LEMMA SaveMoves ==
  ASSUME IInv, NEW c \in Calls, NEW q \in CallType, call' = [call EXCEPT ![c] = q],
         NEW e \in Entries, Present(entry, e), NEW row \in EntryType,
         entry' = [entry EXCEPT ![e] = row], period' = period,
         row.status # "none", entry[e].status # "draft" => row.status # "draft",
         row.reverses = entry[e].reverses, row.source = entry[e].source,
         row.period = entry[e].period, entry[e].source = "api" => row.lines = entry[e].lines,
         row.status = "reversed" =>
           \/ entry[e].status = "reversed" /\ row.reversedBy = entry[e].reversedBy
           \/ Backing(entry, row.reversedBy, e),
         Grows(entry, entry') => CallSound(entry', q)
  PROVE  IInv'
<1>1. entry' \in [Entries -> EntryType] /\ entry'[e] = row
      /\ \A f \in Entries : f # e => entry'[f] = entry[f]
  BY DEF IInv, Types
<1>2. Grows(entry, entry')
  BY <1>1 DEF Grows, Present
<1>3. ASSUME NEW f \in Entries, entry'[f].status = "reversed"
      PROVE  \/ entry[f].status = "reversed" /\ entry'[f].reversedBy = entry[f].reversedBy
             \/ Backing(entry', entry'[f].reversedBy, f)
  <2>1. CASE f = e
    <3>1. Backing(entry, row.reversedBy, e) => Backing(entry', row.reversedBy, e)
      BY <1>2, BackingStays
    <3> QED BY <2>1, <3>1, <1>1, <1>3
  <2> QED BY <2>1, <1>1, <1>3
<1>4. \A f \in Entries : ~Present(entry, f) => entry'[f] = entry[f]
  BY <1>1
<1>5. period' \in [Periods -> PeriodStatus]
  BY DEF IInv, Types
<1> QED BY <1>1, <1>2, <1>3, <1>4, <1>5, CallMoves

\* post(), called by a client, or by reverse() for the reversal.
LEMMA TargetThere ==
  ASSUME IInv, NEW c \in Calls, call[c].pc \in {"readEntry", "savePosted"}
  PROVE  /\ Present(entry, Target(c)) /\ call[c].op \in {"post", "reverse"}
         /\ call[c].op = "reverse" => /\ entry[Target(c)].reverses = call[c].entry
                                      /\ Present(entry, call[c].entry)
  BY DEF IInv, CallSound, Target

LEMMA PostKeeps ==
  ASSUME IInv, NEW c \in Calls, ReadEntry(c) \/ SavePosted(c) PROVE IInv'
<1>1. call[c] \in CallType /\ CallSound(entry, call[c])
  BY DEF IInv, Types
<1>2. CASE ReadEntry(c)
  <2> DEFINE by == entry[Target(c)].reversedBy
  <2>1. call[c].pc = "readEntry" /\ UNCHANGED <<period, entry>>
    BY <1>2 DEF ReadEntry
  <2>2. CASE entry[Target(c)].status = "draft"
    <3>1. by \in Ids
      BY <2>1, TargetThere DEF IInv, Types, EntryType, Present
    <3> HIDE DEF by
    <3> DEFINE q == [call[c] EXCEPT !.pc = "savePosted", !.reversedBy = by]
    <3>2. call' = [call EXCEPT ![c] = q]
      BY <1>2, <2>2 DEF ReadEntry, IInv, Types, by
    <3>3. q \in CallType /\ q.pc = "savePosted" /\ q.op = call[c].op
          /\ q.entry = call[c].entry /\ q.reversal = call[c].reversal
      BY <1>1, <3>1 DEF CallType, PCs
    <3> HIDE DEF q
    <3>4. CallSound(entry, q)
      BY <1>1, <2>1, <3>3 DEF CallSound
    <3> QED BY <2>1, <3>2, <3>3, <3>4, EntriesStay DEF IInv, Types
  <2>3. CASE entry[Target(c)].status # "draft"
    BY <1>2, <2>1, <2>3, Ends DEF ReadEntry, IInv, Types
  <2> QED BY <2>2, <2>3
<1>3. CASE SavePosted(c)
  <2> DEFINE e == Target(c)
             row == [entry[e] EXCEPT !.status = "posted", !.reversedBy = call[c].reversedBy]
  <2>1. call[c].pc = "savePosted" /\ period' = period
    BY <1>3 DEF SavePosted
  <2>2. e \in Entries /\ Present(entry, e) /\ entry[e] \in EntryType
    BY <2>1, TargetThere DEF Present, IInv, Types
  <2>3. entry' = [entry EXCEPT ![e] = row]
    BY <1>3, <2>2 DEF SavePosted, IInv, Types
  <2>4. row \in EntryType /\ row.status = "posted" /\ row.reverses = entry[e].reverses
        /\ row.source = entry[e].source /\ row.period = entry[e].period
        /\ row.lines = entry[e].lines
    BY <1>1, <2>2 DEF EntryType, CallType
  <2>5. PICK pc \in {"done", "saveOriginal"} :
          pc = (IF call[c].op = "post" THEN "done" ELSE "saveOriginal") /\ Goto(c, pc)
    BY <1>3 DEF SavePosted
  <2>6. PICK q \in CallType :
          /\ call' = [call EXCEPT ![c] = q] /\ q.pc = pc /\ q.op = call[c].op
          /\ q.entry = call[c].entry /\ q.reversal = call[c].reversal
    BY <2>5, GotoMoves DEF PCs
  <2> HIDE DEF row
  <2>7. entry'[e] = row
    BY <2>2, <2>3 DEF IInv, Types
  <2>8. ASSUME Grows(entry, entry') PROVE CallSound(entry', q)
    <3>1. CASE call[c].op = "post"
      BY <3>1, <2>5, <2>6 DEF CallSound
    <3>2. CASE call[c].op = "reverse"
      <4>1. q.reversal = e /\ entry'[e].status = "posted" /\ entry'[e].reverses = q.entry
        BY <3>2, <2>1, <2>4, <2>6, <2>7, TargetThere DEF Target
      <4>2. Backing(entry', q.reversal, q.entry)
        BY <4>1, <2>2 DEF Backing, Present
      <4>3. Present(entry', q.entry)
        BY <3>2, <2>1, <2>6, <2>8, TargetThere DEF Grows, Present
      <4> QED BY <3>2, <4>2, <4>3, <2>5, <2>6 DEF CallSound
    <3> QED BY <3>1, <3>2, <2>1, TargetThere
  <2> HIDE DEF e
  <2> QED BY <2>1, <2>2, <2>3, <2>4, <2>6, <2>8, SaveMoves
<1> QED BY <1>2, <1>3

-----------------------------------------------------------------------------
\* reverse(), before and after the reversal is made.
LEMMA ReverseKeeps ==
  ASSUME IInv, NEW c \in Calls, ReadOriginal(c) \/ SaveOriginal(c) PROVE IInv'
<1>1. call[c] \in CallType /\ CallSound(entry, call[c])
  BY DEF IInv, Types
<1> DEFINE e == call[c].entry
<1>2. CASE ReadOriginal(c)
  <2>1. call[c].pc = "readOriginal" /\ UNCHANGED <<period, entry>>
    BY <1>2 DEF ReadOriginal
  <2>2. call[c].op = "reverse" /\ Present(entry, e)
    BY <1>1, <2>1 DEF CallSound
  <2>3. entry[e] \in EntryType
    BY <2>2 DEF IInv, Types, Present
  <2>4. CASE entry[e].status = "posted" /\ Accepts(ReversedLines(entry[e].lines))
    <3> DEFINE q == [call[c] EXCEPT !.pc = "readPeriod", !.period = entry[e].period,
                                    !.lines = Swapped(entry[e].lines)]
    <3>1. call' = [call EXCEPT ![c] = q]
      BY <1>2, <2>4 DEF ReadOriginal, ReversedLines, IInv, Types
    <3>2. Swapped(entry[e].lines) \in Seq(Line) /\ entry[e].period \in Periods \cup {NoPeriod}
      BY <2>3, SwappedType DEF EntryType
    <3>3. q \in CallType /\ q.pc = "readPeriod" /\ q.op = call[c].op /\ q.entry = e
          /\ q.period = entry[e].period /\ q.lines = Swapped(entry[e].lines)
      BY <1>1, <3>2 DEF CallType, PCs
    <3> HIDE DEF q, e
    <3>4. CallSound(entry, q)
      BY <2>2, <3>3 DEF CallSound
    <3> QED BY <2>1, <3>1, <3>3, <3>4, EntriesStay DEF IInv, Types
  <2>5. CASE ~(entry[e].status = "posted" /\ Accepts(ReversedLines(entry[e].lines)))
    BY <1>2, <2>1, <2>5, Ends DEF ReadOriginal, IInv, Types
  <2> QED BY <2>4, <2>5
<1>3. CASE SaveOriginal(c)
  <2> DEFINE row == [entry[e] EXCEPT !.status = "reversed", !.reversedBy = call[c].reversal]
  <2>1. call[c].pc = "saveOriginal" /\ period' = period /\ Goto(c, "done")
    BY <1>3 DEF SaveOriginal
  <2>2. call[c].op = "reverse" /\ Present(entry, e) /\ Backing(entry, call[c].reversal, e)
    BY <1>1, <2>1 DEF CallSound
  <2>3. e \in Entries /\ entry[e] \in EntryType
    BY <2>2 DEF IInv, Types, Present
  <2>4. entry' = [entry EXCEPT ![e] = row]
    BY <1>3, <2>3 DEF SaveOriginal, IInv, Types
  <2>5. row \in EntryType /\ row.status = "reversed" /\ row.reverses = entry[e].reverses
        /\ row.source = entry[e].source /\ row.period = entry[e].period
        /\ row.lines = entry[e].lines /\ row.reversedBy = call[c].reversal
    BY <1>1, <2>3 DEF EntryType, CallType
  <2>6. PICK q \in CallType : call' = [call EXCEPT ![c] = q] /\ q.pc = "done"
                              /\ q.op = call[c].op /\ q.entry = e
    BY <2>1, GotoMoves DEF PCs
  <2> HIDE DEF row, e
  <2>7. Grows(entry, entry') => CallSound(entry', q)
    BY <2>2, <2>6 DEF CallSound, Grows, Present
  <2> QED BY <2>1, <2>2, <2>3, <2>4, <2>5, <2>6, <2>7, SaveMoves
<1> QED BY <1>2, <1>3

-----------------------------------------------------------------------------
\* generateJournalFromMovement() writes to the entry it has inserted, and to no other.
LEMMA InsertPostedKeeps == ASSUME IInv, NEW c \in Calls, InsertPosted(c) PROVE IInv'
<1>1. /\ call[c] \in CallType /\ CallSound(entry, call[c]) /\ call[c].pc = "insertPosted"
      /\ call[c].op = "inventory" /\ Len(call[c].lines) >= 1
  BY DEF IInv, Types, CallSound, InsertPosted
<1>2. PICK e \in Entries :
        /\ ~Exists(e)
        /\ entry' = [entry EXCEPT ![e] =
             NewEntry("posted", call[c].period, "inventory", <<>>, NoEntry)]
        /\ call' = [call EXCEPT ![c].entry = e, ![c].pc = "saveLine"]
  BY DEF InsertPosted
<1> DEFINE q == [call[c] EXCEPT !.entry = e, !.pc = "saveLine"]
           row == NewEntry("posted", call[c].period, "inventory", <<>>, NoEntry)
<1>3. /\ q \in CallType /\ q.pc = "saveLine" /\ q.op = "inventory" /\ q.entry = e
      /\ q.lines = call[c].lines
  BY <1>1 DEF CallType, PCs, Ids
<1>4. call' = [call EXCEPT ![c] = q]
  BY <1>2 DEF IInv, Types
<1>5. /\ row \in EntryType /\ row.status = "posted" /\ row.source = "inventory"
      /\ row.reverses = NoEntry
  BY <1>1, EmptySeq DEF NewEntry, EntryType, CallType, Ids
<1>6. entry' \in [Entries -> EntryType] /\ entry'[e] = row
      /\ \A f \in Entries : f # e => entry'[f] = entry[f]
  BY <1>2, <1>5 DEF IInv, Types
<1> HIDE DEF q, row
<1>7. ~Present(entry, e)
  BY <1>2 DEF Exists, Present
<1>8. Grows(entry, entry')
  BY <1>6, <1>7 DEF Grows, Present
<1>9. RowSound(entry', e)
  BY <1>5, <1>6 DEF RowSound
<1>10. CallSound(entry', q)
  BY <1>1, <1>3, <1>5, <1>6 DEF CallSound, Present
<1>11. period' \in [Periods -> PeriodStatus]
  BY DEF IInv, Types, InsertPosted
<1> QED BY <1>3, <1>4, <1>5, <1>6, <1>8, <1>9, <1>10, <1>11, CallMoves

LEMMA SaveLineKeeps == ASSUME IInv, NEW c \in Calls, SaveLine(c) PROVE IInv'
<1> DEFINE e == call[c].entry
           ls == call[c].lines
<1>1. /\ call[c] \in CallType /\ call[c].pc = "saveLine" /\ call[c].op = "inventory"
      /\ Len(ls) >= 1 /\ Present(entry, e) /\ entry[e].source = "inventory"
  BY DEF IInv, Types, CallSound, SaveLine
<1>2. e \in Entries /\ entry[e] \in EntryType /\ ls \in Seq(Line)
  BY <1>1 DEF IInv, Types, Present, CallType
<1>3. Head(ls) \in Line /\ Tail(ls) \in Seq(Line) /\ Len(Tail(ls)) = Len(ls) - 1
  BY <1>1, <1>2, HeadTailProperties, EmptySeq
<1> DEFINE added == entry[e].lines \o StoredLines(<<Head(ls)>>)
           row == [entry[e] EXCEPT !.lines = added]
<1>4. added \in Seq(Line)
  <2>1. <<Head(ls)>> \in Seq(Line)
    BY <1>3
  <2>2. StoredLines(<<Head(ls)>>) \in Seq(Line) /\ entry[e].lines \in Seq(Line)
    BY <1>2, <2>1, StoredType DEF EntryType
  <2> QED BY <2>2, ConcatProperties
<1> HIDE DEF added
<1>5. entry' = [entry EXCEPT ![e] = row] /\ period' = period
  BY <1>2 DEF SaveLine, added, IInv, Types
<1>6. /\ row \in EntryType /\ row.status = entry[e].status /\ row.reverses = entry[e].reverses
      /\ row.source = entry[e].source /\ row.period = entry[e].period
      /\ row.reversedBy = entry[e].reversedBy
  BY <1>2, <1>4 DEF EntryType
<1>7. PICK pc \in {"saveLink", "saveLine"} : pc = AfterLine(c)
  BY DEF AfterLine
<1>8. pc = "saveLine" => Len(Tail(ls)) >= 1
  <2>1. Len(ls) \in Nat
    BY <1>2, LenProperties
  <2>2. pc = "saveLine" => Len(ls) # 1
    BY <1>7 DEF AfterLine
  <2> HIDE DEF ls
  <2> QED BY <1>1, <1>3, <2>1, <2>2
<1> DEFINE q == [call[c] EXCEPT !.lines = Tail(ls), !.pc = pc]
<1>9. call' = [call EXCEPT ![c] = q]
  BY <1>7 DEF SaveLine, IInv, Types
<1>10. /\ q \in CallType /\ q.pc = pc /\ q.op = call[c].op /\ q.entry = e
       /\ q.lines = Tail(ls)
  BY <1>1, <1>3 DEF CallType, PCs
<1> HIDE DEF q, row
<1>11. Grows(entry, entry') => CallSound(entry', q)
  BY <1>1, <1>7, <1>8, <1>10 DEF CallSound, Grows, Present
<1>12. entry[e].status # "none"
  BY <1>1 DEF Present
<1> HIDE DEF e
<1>13. /\ entry[e].source = "api" => row.lines = entry[e].lines
       /\ row.status = "reversed" => /\ entry[e].status = "reversed"
                                     /\ row.reversedBy = entry[e].reversedBy
  BY <1>1, <1>6
<1>14. Present(entry, e) /\ e \in Entries
  BY <1>1, <1>2
<1>15. row.status # "none" /\ (entry[e].status # "draft" => row.status # "draft")
  BY <1>6, <1>12
<1> HIDE DEF ls
<1> QED BY <1>5, <1>6, <1>9, <1>10, <1>11, <1>13, <1>14, <1>15, SaveMoves

\* The end of it, and failures.
LEMMA EndingsKeep == ASSUME IInv, NEW c \in Calls, SaveLink(c) \/ Fail(c) PROVE IInv'
  BY Ends DEF SaveLink, Fail, InFlight, IInv, Types

-----------------------------------------------------------------------------
LEMMA InitSound == ASSUME Inputs \subseteq Seq(Line), Init PROVE IInv
<1>1. <<>> \in Seq(Line)
  BY EmptySeq
<1>2. NoRow \in EntryType /\ NoRow.reverses = NoEntry /\ NoRow.status = "none"
      /\ NoRow.lines = <<>>
  BY <1>1 DEF NoRow, EntryType, Ids
<1>3. StoredLines(<<>>) = <<>>
  <2>1. StoredLines(<<>>) \in Seq(Line) /\ DOMAIN StoredLines(<<>>) = {}
    BY <1>1, StoredType DEF StoredLines
  <2>2. Len(StoredLines(<<>>)) = 0
    BY <2>1, LenProperties
  <2> QED BY <2>1, <2>2, EmptySeq
<1>4. FreeCall \in CallType /\ FreeCall.pc = "free" /\ FreeCall.op = "create"
  BY <1>1 DEF FreeCall, CallType, Ops, PCs, Ids
<1>5. call \in [Calls -> CallType] /\ \A c \in Calls : CallSound(entry, call[c])
  BY <1>4 DEF Init, CallSound
<1>6. CASE entry = [e \in Entries |-> NoRow]
  BY <1>2, <1>3, <1>5, <1>6 DEF Init, IInv, Types, RowSound, StatusSound
<1>7. CASE \E first \in Entries, p \in Periods, s \in {"draft", "posted"}, ls \in Inputs :
             entry = [e \in Entries |->
                        IF e = first THEN NewEntry(s, p, "api", StoredLines(ls), NoEntry)
                                     ELSE NoRow]
  <2>1. PICK first \in Entries, p \in Periods, s \in {"draft", "posted"}, ls \in Inputs :
             entry = [e \in Entries |->
                        IF e = first THEN NewEntry(s, p, "api", StoredLines(ls), NoEntry)
                                     ELSE NoRow]
    BY <1>7
  <2> DEFINE row == NewEntry(s, p, "api", StoredLines(ls), NoEntry)
  <2>2. /\ row \in EntryType /\ row.status # "reversed" /\ row.reverses = NoEntry
        /\ StoredLines(row.lines) = row.lines
    BY StoredType DEF NewEntry, EntryType, Ids
  <2> HIDE DEF row
  <2>3. entry \in [Entries -> EntryType] /\ \A e \in Entries : entry[e] \in {row, NoRow}
    BY <1>2, <2>1, <2>2 DEF row
  <2>4. \A e \in Entries : RowSound(entry, e) /\ StatusSound(entry, e)
    BY <1>2, <1>3, <2>2, <2>3 DEF RowSound, StatusSound
  <2> QED BY <1>5, <2>3, <2>4 DEF Init, IInv, Types
<1> QED BY <1>6, <1>7 DEF Init

LEMMA NextSound == ASSUME IInv, [Next]_vars PROVE IInv'
<1>1. CASE UNCHANGED vars
  BY <1>1 DEF IInv, Types, vars
<1>2. ASSUME NEW c \in Calls,
             \/ AskCreate(c) \/ AskPost(c) \/ AskReverse(c)
             \/ AskClose(c) \/ AskReopen(c) \/ AskInventory(c)
             \/ ReadPeriod(c) \/ SavePeriod(c)
      PROVE  IInv'
  BY <1>2, AsksKeep, PeriodKeeps
<1>3. ASSUME NEW c \in Calls,
             \/ InsertEntry(c) \/ ReadEntry(c) \/ SavePosted(c)
             \/ ReadOriginal(c) \/ SaveOriginal(c)
      PROVE  IInv'
  BY <1>3, InsertKeeps, PostKeeps, ReverseKeeps
<1>4. ASSUME NEW c \in Calls, InsertPosted(c) \/ SaveLine(c) \/ SaveLink(c) \/ Fail(c)
      PROVE  IInv'
  BY <1>4, InsertPostedKeeps, SaveLineKeeps, EndingsKeep
<1>5. CASE Done
  BY <1>1, <1>5 DEF Done
<1> QED BY <1>1, <1>2, <1>3, <1>4, <1>5 DEF Next

LEMMA Inductive == ASSUME Inputs \subseteq Seq(Line) PROVE Spec => []IInv
  BY InitSound, NextSound, PTL DEF Spec

\* reverse() and post(): an entry that says reversed has a reversal in the books, and
\* names it, whatever failed half way and however often it was reversed.
THEOREM ReversedHasReversal ==
  ASSUME Inputs \subseteq Seq(Line) PROVE Spec => []ReversedIsBacked
<1>1. IInv => ReversedIsBacked
  BY DEF IInv, StatusSound, Backing, Present, ReversedIsBacked, Exists
<1> QED BY <1>1, Inductive, PTL

\* reverse() and create(): a reversal has the lines of its original with debit and credit
\* exchanged, rounding included, and stands in the same period.
THEOREM ReversalIsMirror ==
  ASSUME Inputs \subseteq Seq(Line) PROVE Spec => []ReversalsMirror
<1>1. IInv => ReversalsMirror
  BY DEF IInv, RowSound, Mirrored, ReversalsMirror, MirroredBy
<1> QED BY <1>1, Inductive, PTL

\* The types of the tables, and the places where calls wait.
THEOREM JournalTypeCorrect ==
  ASSUME Inputs \subseteq Seq(Line) PROVE Spec => []TypeOK
<1>1. IInv => TypeOK
  BY DEF IInv, Types, TypeOK, EntryType, CallType, Ids
<1> QED BY <1>1, Inductive, PTL

-----------------------------------------------------------------------------
\* What lines sum up to.

\* A set of numbers that is not empty, and finite, has a largest member.
LEMMA LargestIn ==
  ASSUME NEW S, IsFiniteSet(S), NEW s \in SUBSET S, s # {}, S \subseteq Int
  PROVE  Max(s) \in s
<1> SUFFICES ASSUME ~ \E x \in s : \A y \in s : x >= y PROVE FALSE
  BY DEF Max
<1> DEFINE F == {t \in SUBSET S : t # {} /\ ~ \E x \in t : \A y \in t : x >= y}
<1>1. PICK t \in F : \A u \in SUBSET t : u # t => u \notin F
  <2>1. F \in SUBSET SUBSET S /\ F # {}
    OBVIOUS
  <2> HIDE DEF F
  <2> QED BY <2>1, SmallestSubset
<1>2. t \in SUBSET S /\ t # {} /\ ~ \E x \in t : \A y \in t : x >= y
  BY <1>1
<1>3. PICK e \in t : e \in Int
  BY <1>2
<1>4. CASE t \ {e} = {}
  <2>1. \A y \in t : e >= y
    BY <1>3, <1>4
  <2> QED BY <1>2, <2>1
<1>5. CASE t \ {e} # {}
  <2>1. PICK x \in t \ {e} : \A y \in t \ {e} : x >= y
    BY <1>1, <1>2, <1>3, <1>5
  <2>2. x \in Int
    BY <1>2
  <2>3. CASE x >= e
    <3>1. \A y \in t : x >= y
      BY <2>1, <2>3
    <3> QED BY <1>2, <3>1
  <2>4. CASE e >= x
    <3>1. \A y \in t : e >= y
      BY <1>2, <1>3, <2>1, <2>2, <2>4
    <3> QED BY <1>2, <3>1
  <2> QED BY <1>3, <2>2, <2>3, <2>4
<1> QED BY <1>4, <1>5

\* The fold that Debits and Credits are, of a function.
FromLast(g, S, w) ==
  g = [s \in SUBSET S |-> IF s = {} THEN 0 ELSE g[s \ {Max(s)}] + w[Max(s)]]

FromTheLast(w, S) == (CHOOSE g : FromLast(g, S, w))[S]

LEMMA LargestIndex ==
  ASSUME NEW ls \in Seq(Line), NEW s \in SUBSET DOMAIN ls, s # {} PROVE Max(s) \in s
<1>1. DOMAIN ls = 1..Len(ls) /\ Len(ls) \in Nat
  BY LenProperties
<1>2. IsFiniteSet(DOMAIN ls) /\ DOMAIN ls \subseteq Int
  BY <1>1, FS_Interval
<1> QED BY <1>2, LargestIn

LEMMA DebitsFold ==
  ASSUME NEW ls \in Seq(Line)
  PROVE  Debits(ls) = FromTheLast([i \in DOMAIN ls |-> ls[i].debit], DOMAIN ls)
<1> DEFINE D == DOMAIN ls
           w == [i \in D |-> ls[i].debit]
<1> DEFINE G(g) == g = [s \in SUBSET D |->
                         IF s = {} THEN 0 ELSE g[s \ {Max(s)}] + ls[Max(s)].debit]
<1>1. Debits(ls) = (CHOOSE g : G(g))[D]
  BY DEF Debits, FoldLeft, MapThenFoldSet
<1>2. \A s \in SUBSET D : s # {} => w[Max(s)] = ls[Max(s)].debit
  BY LargestIndex
<1>3. \A g : [s \in SUBSET D |-> IF s = {} THEN 0 ELSE g[s \ {Max(s)}] + ls[Max(s)].debit]
           = [s \in SUBSET D |-> IF s = {} THEN 0 ELSE g[s \ {Max(s)}] + w[Max(s)]]
  <2> HIDE DEF w, D
  <2> QED BY <1>2
<1> HIDE DEF w, D
<1>4. \A g : G(g) <=> FromLast(g, D, w)
  BY <1>3 DEF FromLast
<1> HIDE DEF G
<1>5. Debits(ls) = FromTheLast(w, D)
  BY <1>1, <1>4 DEF FromTheLast
<1> QED BY <1>5 DEF w, D

LEMMA CreditsFold ==
  ASSUME NEW ls \in Seq(Line)
  PROVE  Credits(ls) = FromTheLast([i \in DOMAIN ls |-> ls[i].credit], DOMAIN ls)
<1> DEFINE D == DOMAIN ls
           w == [i \in D |-> ls[i].credit]
<1> DEFINE G(g) == g = [s \in SUBSET D |->
                         IF s = {} THEN 0 ELSE g[s \ {Max(s)}] + ls[Max(s)].credit]
<1>1. Credits(ls) = (CHOOSE g : G(g))[D]
  BY DEF Credits, FoldLeft, MapThenFoldSet
<1>2. \A s \in SUBSET D : s # {} => w[Max(s)] = ls[Max(s)].credit
  BY LargestIndex
<1>3. \A g : [s \in SUBSET D |-> IF s = {} THEN 0 ELSE g[s \ {Max(s)}] + ls[Max(s)].credit]
           = [s \in SUBSET D |-> IF s = {} THEN 0 ELSE g[s \ {Max(s)}] + w[Max(s)]]
  <2> HIDE DEF w, D
  <2> QED BY <1>2
<1> HIDE DEF w, D
<1>4. \A g : G(g) <=> FromLast(g, D, w)
  BY <1>3 DEF FromLast
<1> HIDE DEF G
<1>5. Credits(ls) = FromTheLast(w, D)
  BY <1>1, <1>4 DEF FromTheLast
<1> QED BY <1>5 DEF w, D

\* Over a finite set of indices that fold is the sum of SumTheorems.
LEMMA FoldIsTotal ==
  ASSUME NEW S, IsFiniteSet(S), S \subseteq Int, NEW w, \A x \in S : w[x] \in Int
  PROVE  FromTheLast(w, S) = Total(w, S)
<1>1. ASSUME NEW s \in SUBSET S, s # {}
      PROVE  Max(s) \in s /\ Total(w, s) = Total(w, s \ {Max(s)}) + w[Max(s)]
  <2>1. Max(s) \in s
    BY <1>1, LargestIn
  <2>2. IsFiniteSet(s) /\ IsFiniteSet(s \ {Max(s)})
    BY FS_Subset
  <2>3. Total(w, s) = w[Max(s)] + Total(w, s \ {Max(s)})
    BY <2>1, <2>2, TotalTake
  <2>4. Total(w, s \ {Max(s)}) \in Int /\ w[Max(s)] \in Int
    BY <2>1, <2>2, TotalInt
  <2> QED BY <2>1, <2>3, <2>4
<1> DEFINE h == [s \in SUBSET S |-> Total(w, s)]
<1>2. FromLast(h, S, w)
  <2>1. ASSUME NEW s \in SUBSET S
        PROVE  Total(w, s) = IF s = {} THEN 0 ELSE h[s \ {Max(s)}] + w[Max(s)]
    <3>1. CASE s = {}
      BY <3>1, TotalEmpty
    <3>2. CASE s # {}
      BY <1>1, <3>2
    <3> QED BY <3>1, <3>2
  <2>2. h = [s \in SUBSET S |-> IF s = {} THEN 0 ELSE h[s \ {Max(s)}] + w[Max(s)]]
    BY <2>1
  <2> HIDE DEF h
  <2> QED BY <2>2 DEF FromLast
<1>3. ASSUME NEW g, FromLast(g, S, w) PROVE g[S] = Total(w, S)
  <2> SUFFICES ASSUME g[S] # Total(w, S) PROVE FALSE
    OBVIOUS
  <2> DEFINE F == {s \in SUBSET S : g[s] # Total(w, s)}
  <2>1. PICK s \in F : \A t \in SUBSET s : t # s => t \notin F
    <3>1. F \in SUBSET SUBSET S /\ F # {}
      OBVIOUS
    <3> HIDE DEF F
    <3> QED BY <3>1, SmallestSubset
  <2>2. s \in SUBSET S /\ g[s] # Total(w, s)
    BY <2>1
  <2>3. g[s] = IF s = {} THEN 0 ELSE g[s \ {Max(s)}] + w[Max(s)]
    BY <1>3, <2>2 DEF FromLast
  <2>4. s # {}
    BY <2>2, <2>3, TotalEmpty
  <2>5. Max(s) \in s
    BY <1>1, <2>2, <2>4
  <2>6. g[s \ {Max(s)}] = Total(w, s \ {Max(s)})
    BY <2>1, <2>2, <2>5
  <2> QED BY <1>1, <2>2, <2>3, <2>4, <2>6
<1>4. FromLast(CHOOSE g : FromLast(g, S, w), S, w)
  BY <1>2
<1> QED BY <1>3, <1>4 DEF FromTheLast

\* What Debits and Credits are.
LEMMA Sides ==
  ASSUME NEW ls \in Seq(Line)
  PROVE  /\ IsFiniteSet(DOMAIN ls) /\ Cardinality(DOMAIN ls) = Len(ls) /\ Len(ls) \in Nat
         /\ \A i \in DOMAIN ls : ls[i].debit \in Nat /\ ls[i].credit \in Nat
         /\ Debits(ls) = Total([i \in DOMAIN ls |-> ls[i].debit], DOMAIN ls)
         /\ Credits(ls) = Total([i \in DOMAIN ls |-> ls[i].credit], DOMAIN ls)
         /\ Debits(ls) \in Int /\ Credits(ls) \in Int
<1> DEFINE D == DOMAIN ls
           d == [i \in D |-> ls[i].debit]
           k == [i \in D |-> ls[i].credit]
<1>1. D = 1..Len(ls) /\ Len(ls) \in Nat /\ \A i \in D : ls[i] \in Line
  BY LenProperties, ElementOfSeq
<1>2. IsFiniteSet(D) /\ Cardinality(D) = Len(ls) /\ D \subseteq Int
  BY <1>1, FS_Interval
<1>3. \A i \in D : d[i] \in Int /\ k[i] \in Int /\ ls[i].debit \in Nat /\ ls[i].credit \in Nat
  BY <1>1 DEF Line
<1>4. Debits(ls) = FromTheLast(d, D) /\ Credits(ls) = FromTheLast(k, D)
  BY DebitsFold, CreditsFold
<1>5. /\ FromTheLast(d, D) = Total(d, D) /\ FromTheLast(k, D) = Total(k, D)
      /\ Total(d, D) \in Int /\ Total(k, D) \in Int
  <2> HIDE DEF d, k, D
  <2> QED BY <1>2, <1>3, FoldIsTotal, TotalInt
<1> QED BY <1>1, <1>2, <1>3, <1>4, <1>5

\* Swapped lines balance when the lines do, and no lines do.
LEMMA SwappedBalance ==
  ASSUME NEW ls \in Seq(Line), Balanced(ls) PROVE Balanced(Swapped(ls))
<1> DEFINE sw == Swapped(ls)
           d  == [i \in DOMAIN ls |-> ls[i].debit]
           cr == [i \in DOMAIN ls |-> ls[i].credit]
           sd == [i \in DOMAIN sw |-> sw[i].debit]
           sc == [i \in DOMAIN sw |-> sw[i].credit]
<1>1. sw \in Seq(Line)
  BY SwappedType
<1>2. DOMAIN sw = DOMAIN ls /\ sd = cr /\ sc = d
  BY DEF Swapped
<1>3. Debits(sw) = FromTheLast(sd, DOMAIN sw) /\ Credits(sw) = FromTheLast(sc, DOMAIN sw)
  BY <1>1, DebitsFold, CreditsFold
<1>4. Debits(ls) = FromTheLast(d, DOMAIN ls) /\ Credits(ls) = FromTheLast(cr, DOMAIN ls)
  BY DebitsFold, CreditsFold
<1> HIDE DEF sw, d, cr, sd, sc
<1>5. Balanced(sw)
  BY <1>2, <1>3, <1>4 DEF Balanced
<1> QED BY <1>5 DEF sw

LEMMA NoneBalance == Balanced(<<>>)
<1> DEFINE e == <<>>
           d == [i \in DOMAIN e |-> e[i].debit]
           k == [i \in DOMAIN e |-> e[i].credit]
<1>1. e \in Seq(Line) /\ DOMAIN e = {}
  BY EmptySeq
<1>2. d = k
  BY <1>1
<1>3. Debits(e) = FromTheLast(d, DOMAIN e) /\ Credits(e) = FromTheLast(k, DOMAIN e)
  BY <1>1, DebitsFold, CreditsFold
<1> HIDE DEF e, d, k
<1>4. Balanced(e)
  BY <1>2, <1>3 DEF Balanced
<1> QED BY <1>4 DEF e

-----------------------------------------------------------------------------
\* Whole cents, which storing leaves as they are.

WholeLine == [debit : {n \in Nat : n % 2 = 0}, credit : {n \in Nat : n % 2 = 0}]

LEMMA WholeStays ==
  ASSUME NEW ls \in Seq(WholeLine)
  PROVE  ls \in Seq(Line) /\ StoredLines(ls) = ls /\ Swapped(ls) \in Seq(WholeLine)
<1>1. WholeLine \subseteq Line
  BY DEF WholeLine, Line
<1>2. Len(ls) \in Nat /\ DOMAIN ls = 1..Len(ls) /\ \A i \in DOMAIN ls : ls[i] \in WholeLine
  BY LenProperties, ElementOfSeq
<1>3. ls \in [1..Len(ls) -> WholeLine]
  BY <1>2, LenProperties
<1>4. ls \in [1..Len(ls) -> Line]
  BY <1>1, <1>3
<1>5. ls \in Seq(Line)
  BY <1>2, <1>4
<1>6. StoredLines(ls) = ls
  <2>1. \A i \in DOMAIN ls :
          [debit |-> Stored(ls[i].debit), credit |-> Stored(ls[i].credit)] = ls[i]
    BY <1>2 DEF WholeLine, Stored
  <2>2. StoredLines(ls) = [i \in DOMAIN ls |-> ls[i]]
    BY <2>1 DEF StoredLines
  <2> QED BY <1>2, <1>3, <2>2
<1>7. Swapped(ls) \in [1..Len(ls) -> WholeLine]
  BY <1>2 DEF Swapped, WholeLine
<1> QED BY <1>2, <1>5, <1>6, <1>7

\* What is stored is in whole cents, line for line.
LEMMA StoredWhole ==
  ASSUME NEW ls \in Seq(Line)
  PROVE  /\ StoredLines(ls) \in Seq(WholeLine) /\ DOMAIN StoredLines(ls) = DOMAIN ls
         /\ Len(StoredLines(ls)) = Len(ls)
<1>1. Len(ls) \in Nat /\ DOMAIN ls = 1..Len(ls) /\ \A i \in DOMAIN ls : ls[i] \in Line
  BY LenProperties, ElementOfSeq
<1>2. \A x \in Nat : Stored(x) \in Nat /\ Stored(x) % 2 = 0
  BY DEF Stored
<1>3. StoredLines(ls) \in [1..Len(ls) -> WholeLine]
  <2>1. ASSUME NEW i \in 1..Len(ls)
        PROVE  [debit |-> Stored(ls[i].debit), credit |-> Stored(ls[i].credit)] \in WholeLine
    <3>1. ls[i].debit \in Nat /\ ls[i].credit \in Nat
      BY <1>1 DEF Line
    <3>2. /\ Stored(ls[i].debit) \in Nat /\ Stored(ls[i].debit) % 2 = 0
          /\ Stored(ls[i].credit) \in Nat /\ Stored(ls[i].credit) % 2 = 0
      BY <1>2, <3>1
    <3> QED BY <3>2 DEF WholeLine
  <2> QED BY <1>1, <2>1 DEF StoredLines
<1>4. StoredLines(ls) \in Seq(WholeLine)
  BY <1>1, <1>3
<1>5. DOMAIN StoredLines(ls) = 1..Len(ls)
  BY <1>3
<1> QED BY <1>1, <1>4, <1>5, LenProperties

\* Storing lines that balance leaves them out of balance by half a cent a line at most.
LEMMA RoundedNearly ==
  ASSUME NEW ls \in Seq(Line), Balanced(ls) PROVE NearlyBalanced(StoredLines(ls))
<1> DEFINE st == StoredLines(ls)
           D == DOMAIN ls
           d  == [i \in D |-> ls[i].debit]
           k  == [i \in D |-> ls[i].credit]
           sd == [i \in D |-> st[i].debit]
           sk == [i \in D |-> st[i].credit]
           du == [i \in D |-> sd[i] - d[i]]
           ku == [i \in D |-> sk[i] - k[i]]
           u  == [i \in D |-> du[i] - ku[i]]
<1>1. st \in Seq(Line) /\ DOMAIN st = D /\ Len(st) = Len(ls)
  BY StoredType, StoredWhole
<1>2. /\ IsFiniteSet(D) /\ Cardinality(D) = Len(ls)
      /\ Debits(ls) = Total(d, D) /\ Credits(ls) = Total(k, D)
      /\ Debits(ls) \in Int /\ Credits(ls) \in Int
  BY Sides
<1>3. Debits(st) = Total(sd, D) /\ Credits(st) = Total(sk, D)
      /\ Debits(st) \in Int /\ Credits(st) \in Int
  <2> HIDE DEF st
  <2> QED BY <1>1, Sides
<1>4. \A i \in D : /\ ls[i].debit \in Nat /\ ls[i].credit \in Nat
                   /\ st[i].debit = Stored(ls[i].debit)
                   /\ st[i].credit = Stored(ls[i].credit)
  BY Sides DEF StoredLines
<1>5. \A x \in Nat : Stored(x) \in Nat /\ Stored(x) - x \in 0 .. 1
  BY DEF Stored
<1>6. ASSUME NEW i \in D
      PROVE  /\ d[i] \in Int /\ k[i] \in Int /\ sd[i] \in Int /\ sk[i] \in Int
             /\ du[i] \in 0 .. 1 /\ ku[i] \in 0 .. 1 /\ u[i] \in -1 .. 1
             /\ du[i] = sd[i] - d[i] /\ ku[i] = sk[i] - k[i] /\ u[i] = du[i] - ku[i]
  <2> DEFINE x == ls[i].debit
             y == ls[i].credit
  <2>1. x \in Nat /\ y \in Nat
    BY <1>4
  <2>2. d[i] = x /\ k[i] = y /\ sd[i] = Stored(x) /\ sk[i] = Stored(y)
    BY <1>4
  <2>3. du[i] = sd[i] - d[i] /\ ku[i] = sk[i] - k[i] /\ u[i] = du[i] - ku[i]
    OBVIOUS
  <2> HIDE DEF x, y, st, d, k, sd, sk, du, ku, u
  <2>4. /\ Stored(x) \in Nat /\ Stored(x) - x \in 0 .. 1
        /\ Stored(y) \in Nat /\ Stored(y) - y \in 0 .. 1
    BY <1>5, <2>1
  <2> QED BY <2>1, <2>2, <2>3, <2>4
<1>7. \A i \in D : /\ u[i] \in -1 .. 1 /\ u[i] \in Int /\ du[i] \in Int /\ ku[i] \in Int
                   /\ du[i] = sd[i] - d[i] /\ ku[i] = sk[i] - k[i] /\ u[i] = du[i] - ku[i]
                   /\ d[i] \in Int /\ k[i] \in Int /\ sd[i] \in Int /\ sk[i] \in Int
  BY <1>6
<1> HIDE DEF st, D, d, k, sd, sk, du, ku, u
<1>8. Total(sd, D) - Total(d, D) = Total(du, D) /\ Total(sk, D) - Total(k, D) = Total(ku, D)
  BY <1>2, <1>7, TotalDifference
<1>9. Total(du, D) - Total(ku, D) = Total(u, D)
  BY <1>2, <1>7, TotalDifference
<1>10. Total(u, D) \in -Len(ls) .. Len(ls)
  BY <1>2, <1>7, TotalOfSteps
<1>11. Total(d, D) = Total(k, D) /\ Total(d, D) \in Int
  BY <1>2 DEF Balanced
<1>12. Debits(st) - Credits(st) = Total(u, D)
  BY <1>3, <1>8, <1>9, <1>11
<1>13. NearlyBalanced(st)
  BY <1>1, <1>10, <1>12 DEF NearlyBalanced
<1> QED BY <1>13 DEF st

LEMMA BalancedNearly ==
  ASSUME NEW ls \in Seq(Line), Balanced(ls) PROVE NearlyBalanced(ls)
<1>1. PICK n \in Nat, x \in Int : n = Len(ls) /\ x = Debits(ls) /\ x = Credits(ls)
  BY Sides DEF Balanced
<1>2. x - x \in -n .. n
  OBVIOUS
<1> QED BY <1>1, <1>2 DEF NearlyBalanced

\* One amount rounds alike on both of its sides.
LEMMA OneAmountBalance ==
  ASSUME NEW ls \in Seq(Line), OneAmount(ls)
  PROVE  Balanced(StoredLines(ls)) /\ Len(StoredLines(ls)) >= 1
<1> DEFINE st == StoredLines(ls)
           D == DOMAIN st
           d == [i \in D |-> st[i].debit]
           k == [i \in D |-> st[i].credit]
<1>1. st \in Seq(Line) /\ D = {1, 2} /\ Len(st) = 2
  <2>1. DOMAIN ls = 1..2 /\ Len(ls) = 2
    BY LenProperties DEF OneAmount
  <2>2. 1..2 = {1, 2}
    OBVIOUS
  <2> QED BY <2>1, <2>2, StoredType, StoredWhole
<1>2. st[1].debit = st[2].credit /\ st[1].credit = st[2].debit
  BY <1>1, StoredWhole DEF StoredLines, OneAmount
<1>3. Debits(st) = Total(d, D) /\ Credits(st) = Total(k, D) /\ IsFiniteSet(D)
      /\ \A i \in D : st[i].debit \in Nat /\ st[i].credit \in Nat
  <2> HIDE DEF st
  <2> QED BY <1>1, Sides
<1>4. d[1] = k[2] /\ d[2] = k[1] /\ \A i \in {1, 2} : d[i] \in Int /\ k[i] \in Int
  BY <1>1, <1>2, <1>3
<1> HIDE DEF st, d, k
<1>5. {1, 2} \ {1} = {2} /\ IsFiniteSet({1, 2}) /\ 1 \in {1, 2}
  BY <1>1, <1>3
<1>6. Total(d, {1, 2}) = d[1] + Total(d, {2}) /\ Total(k, {1, 2}) = k[1] + Total(k, {2})
  <2>1. Total(d, {1, 2}) = d[1] + Total(d, {1, 2} \ {1})
    BY <1>4, <1>5, TotalTake
  <2>2. Total(k, {1, 2}) = k[1] + Total(k, {1, 2} \ {1})
    BY <1>4, <1>5, TotalTake
  <2> QED BY <1>5, <2>1, <2>2
<1>7. Total(d, {2}) = d[2] /\ Total(k, {2}) = k[2]
  BY <1>4, TotalOfOne
<1>8. Total(d, {1, 2}) = Total(k, {1, 2})
  BY <1>4, <1>6, <1>7
<1>9. Balanced(st)
  BY <1>1, <1>3, <1>8 DEF Balanced
<1> QED BY <1>1, <1>9 DEF st

\* Storing line by line is storing them all.
LEMMA StoredLineByLine ==
  ASSUME NEW ls \in Seq(Line), Len(ls) >= 1
  PROVE  /\ StoredLines(<<Head(ls)>>) = <<Head(StoredLines(ls))>>
         /\ StoredLines(Tail(ls)) = Tail(StoredLines(ls))
         /\ Tail(ls) \in Seq(Line)
<1>1. ls # <<>> /\ DOMAIN ls = 1..Len(ls) /\ Len(ls) \in Nat
  BY LenProperties, EmptySeq
<1>2. StoredLines(ls) \in Seq(Line) /\ Len(StoredLines(ls)) = Len(ls)
  BY StoredType, StoredWhole
<1>3. StoredLines(ls) # <<>>
  BY <1>1, <1>2, EmptySeq
<1>4. /\ Tail(ls) \in Seq(Line) /\ Len(Tail(ls)) = Len(ls) - 1
      /\ \A i \in 1..(Len(ls) - 1) : Tail(ls)[i] = ls[i + 1]
  BY <1>1, HeadTailProperties
<1>5. /\ Tail(StoredLines(ls)) \in Seq(Line) /\ Len(Tail(StoredLines(ls))) = Len(ls) - 1
      /\ \A i \in 1..(Len(ls) - 1) : Tail(StoredLines(ls))[i] = StoredLines(ls)[i + 1]
  BY <1>2, <1>3, HeadTailProperties
<1>6. /\ StoredLines(Tail(ls)) \in Seq(Line) /\ Len(StoredLines(Tail(ls))) = Len(ls) - 1
      /\ DOMAIN StoredLines(Tail(ls)) = DOMAIN Tail(ls)
  BY <1>4, StoredType, StoredWhole
<1>7. ASSUME NEW i \in 1..(Len(ls) - 1) PROVE StoredLines(Tail(ls))[i] = Tail(StoredLines(ls))[i]
  <2>1. i \in DOMAIN Tail(ls) /\ i + 1 \in DOMAIN ls
    BY <1>1, <1>4, LenProperties
  <2>2. Tail(ls)[i] = ls[i + 1] /\ Tail(StoredLines(ls))[i] = StoredLines(ls)[i + 1]
    BY <1>4, <1>5
  <2>3. StoredLines(Tail(ls))[i] = [debit |-> Stored(Tail(ls)[i].debit),
                                    credit |-> Stored(Tail(ls)[i].credit)]
    BY <2>1 DEF StoredLines
  <2>4. StoredLines(ls)[i + 1] = [debit |-> Stored(ls[i + 1].debit),
                                  credit |-> Stored(ls[i + 1].credit)]
    BY <2>1 DEF StoredLines
  <2> QED BY <2>2, <2>3, <2>4
<1>8. StoredLines(Tail(ls)) = Tail(StoredLines(ls))
  BY <1>5, <1>6, <1>7, SeqEqual
<1>9. Head(StoredLines(ls)) = [debit |-> Stored(Head(ls).debit), credit |-> Stored(Head(ls).credit)]
  <2>1. Head(ls) = ls[1] /\ Head(StoredLines(ls)) = StoredLines(ls)[1] /\ 1 \in DOMAIN ls
    BY <1>1
  <2> QED BY <2>1 DEF StoredLines
<1>10. StoredLines(<<Head(ls)>>) = <<[debit |-> Stored(Head(ls).debit),
                                     credit |-> Stored(Head(ls).credit)]>>
  BY DEF StoredLines
<1> QED BY <1>4, <1>8, <1>9, <1>10

\* One line taken from those that are left is one line more on those that are there.
LEMMA LineMoves ==
  ASSUME NEW a \in Seq(WholeLine), NEW b \in Seq(WholeLine), Len(b) >= 1
  PROVE  /\ <<Head(b)>> \in Seq(WholeLine) /\ Tail(b) \in Seq(WholeLine)
         /\ a \o <<Head(b)>> \in Seq(WholeLine)
         /\ (a \o <<Head(b)>>) \o Tail(b) = a \o b
         /\ Len(b) = 1 => a \o <<Head(b)>> = a \o b
<1>1. b # <<>>
  BY LenProperties, EmptySeq
<1>2. Head(b) \in WholeLine /\ Tail(b) \in Seq(WholeLine) /\ Len(Tail(b)) = Len(b) - 1
      /\ b = <<Head(b)>> \o Tail(b)
  BY <1>1, HeadTailProperties, ConcatEmptySeq
<1>3. <<Head(b)>> \in Seq(WholeLine)
  BY <1>2
<1>4. a \o <<Head(b)>> \in Seq(WholeLine)
  BY <1>3, ConcatProperties
<1>5. (a \o <<Head(b)>>) \o Tail(b) = a \o (<<Head(b)>> \o Tail(b))
  BY <1>2, <1>3, ConcatAssociative
<1>6. Len(b) = 1 => Tail(b) = <<>>
  <2> SUFFICES ASSUME Len(b) = 1 PROVE Tail(b) = <<>>
    OBVIOUS
  <2>1. Len(Tail(b)) = 0
    BY <1>2
  <2> QED BY <1>2, <2>1, EmptySeq
<1>7. (a \o <<Head(b)>>) \o <<>> = a \o <<Head(b)>>
  BY <1>4, ConcatEmptySeq
<1> QED BY <1>2, <1>3, <1>4, <1>5, <1>6, <1>7

-----------------------------------------------------------------------------
\* The inductive invariant of balance.  What is in the books is in whole cents, so that
\* storing it once more leaves it; what passed the check stays balanced until it is stored;
\* what is saved line by line balances together with what is left to save, and one call
\* alone saves it; and what does not balance but for its rounding has a call that writes it
\* or gave it up.
Writes(q, e) == q.op = "inventory" /\ q.entry = e /\ q.pc \in {"saveLine", "failed"}

RowBalanced(E, C, e) ==
  /\ E[e].lines \in Seq(WholeLine)
  /\ E[e].source = "api" => NearlyBalanced(E[e].lines)
  /\ E[e].source = "api" /\ E[e].reverses # NoEntry => Balanced(E[e].lines)
  /\ E[e].source # "api" => Balanced(E[e].lines) \/ \E c \in Calls : Writes(C[c], e)

CarriesBalance(E, q) ==
  /\ q.op \in {"create", "reverse"} /\ q.pc \in {"readPeriod", "insert"} => Balanced(q.lines)
  /\ q.op = "reverse" /\ q.pc \in {"readPeriod", "insert"} => q.lines \in Seq(WholeLine)
  /\ q.op = "inventory" /\ q.pc \in {"readPeriod", "insertPosted"} =>
       Balanced(StoredLines(q.lines))
  /\ q.pc = "saveLine" => Balanced(E[q.entry].lines \o StoredLines(q.lines))

BalanceIInv ==
  /\ Inputs \subseteq Seq(Line)
  /\ \A e \in Entries : RowBalanced(entry, call, e)
  /\ \A c \in Calls : CarriesBalance(entry, call[c])
  /\ \A c, d \in Calls : /\ call[c].pc = "saveLine" /\ call[d].pc = "saveLine"
                         /\ call[c].entry = call[d].entry
                         => c = d

\* What balance depends on in an entry stays as it is.
SameRow(E, F, e) ==
  F[e].lines = E[e].lines /\ F[e].source = E[e].source /\ F[e].reverses = E[e].reverses

\* A step in which c alone moves.
Moves(c, q, E, C, F, D) ==
  /\ D = [C EXCEPT ![c] = q]
  /\ CarriesBalance(F, q)
  /\ \A e \in Entries :
       \/ SameRow(E, F, e) /\ (Writes(C[c], e) => Writes(q, e))
       \/ RowBalanced(F, D, e)
  /\ \A d \in Calls : d # c /\ C[d].pc = "saveLine" =>
       /\ F[C[d].entry].lines = E[C[d].entry].lines
       /\ q.pc = "saveLine" => q.entry # C[d].entry

LEMMA BalanceMoves ==
  ASSUME IInv, BalanceIInv, NEW c \in Calls, NEW q, Moves(c, q, entry, call, entry', call')
  PROVE  BalanceIInv'
<1>1. call'[c] = q /\ \A d \in Calls : d # c => call'[d] = call[d]
  BY DEF IInv, Types, Moves
<1>2. ASSUME NEW e \in Entries PROVE RowBalanced(entry', call', e)
  <2>1. CASE SameRow(entry, entry', e) /\ (Writes(call[c], e) => Writes(q, e))
    <3>1. RowBalanced(entry, call, e)
      BY DEF BalanceIInv
    <3>2. (\E d \in Calls : Writes(call[d], e)) => \E d \in Calls : Writes(call'[d], e)
      BY <1>1, <2>1
    <3> QED BY <2>1, <3>1, <3>2 DEF RowBalanced, SameRow
  <2> QED BY <2>1 DEF Moves
<1>3. ASSUME NEW d \in Calls PROVE CarriesBalance(entry', call'[d])
  <2>1. CarriesBalance(entry, call[d])
    BY DEF BalanceIInv
  <2>2. CASE d = c
    BY <1>1, <2>2 DEF Moves
  <2>3. CASE d # c
    BY <1>1, <2>1, <2>3 DEF CarriesBalance, Moves
  <2> QED BY <2>2, <2>3
<1>4. ASSUME NEW b \in Calls, NEW d \in Calls, call'[b].pc = "saveLine",
             call'[d].pc = "saveLine", call'[b].entry = call'[d].entry
      PROVE  b = d
  <2>1. CASE b # c /\ d # c
    BY <1>1, <1>4, <2>1 DEF BalanceIInv
  <2>2. CASE b = c \/ d = c
    BY <1>1, <1>4, <2>2 DEF Moves
  <2> QED BY <2>1, <2>2
<1> QED BY <1>2, <1>3, <1>4 DEF BalanceIInv

\* The same when no line is written.
LEMMA BalanceStays ==
  ASSUME IInv, BalanceIInv, NEW c \in Calls, NEW q, call' = [call EXCEPT ![c] = q],
         CarriesBalance(entry, q), q.pc # "saveLine",
         \A e \in Entries :
           SameRow(entry, entry', e) /\ (Writes(call[c], e) => Writes(q, e))
  PROVE  BalanceIInv'
<1>1. CarriesBalance(entry', q)
  BY DEF CarriesBalance
<1>2. ASSUME NEW d \in Calls, call[d].pc = "saveLine"
      PROVE  entry'[call[d].entry].lines = entry[call[d].entry].lines
  BY <1>2 DEF IInv, CallSound, Present, SameRow
<1>3. Moves(c, q, entry, call, entry', call')
  BY <1>1, <1>2 DEF Moves
<1> QED BY <1>3, BalanceMoves

-----------------------------------------------------------------------------
\* The requests: what the client asks create() to write balances, or is refused.
LEMMA AskStays ==
  ASSUME IInv, BalanceIInv, NEW c \in Calls, NEW pc \in {"readPeriod", "readEntry", "readOriginal"},
         NEW op \in Ops, NEW p, NEW e, NEW ls, Ask(c, pc, op, p, e, ls),
         pc = "readPeriod" => op # "reverse",
         op = "create" => Balanced(ls),
         op = "inventory" => Balanced(StoredLines(ls))
  PROVE  BalanceIInv'
<1> DEFINE q == [FreeCall EXCEPT !.pc = pc, !.op = op, !.period = p, !.entry = e, !.lines = ls]
<1>1. q.pc = pc /\ q.op = op /\ q.lines = ls
  BY DEF FreeCall
<1>2. call' = [call EXCEPT ![c] = q] /\ entry' = entry /\ call[c].pc = "free"
  BY DEF Ask
<1> HIDE DEF q
<1>3. CarriesBalance(entry, q)
  BY <1>1 DEF CarriesBalance
<1> QED BY <1>1, <1>2, <1>3, BalanceStays DEF Writes, SameRow

LEMMA AsksBalance ==
  ASSUME IInv, BalanceIInv, NEW c \in Calls,
         \/ AskCreate(c) \/ AskPost(c) \/ AskReverse(c)
         \/ AskClose(c) \/ AskReopen(c) \/ AskInventory(c)
  PROVE  BalanceIInv'
<1>1. CASE AskCreate(c)
  <2>1. PICK p \in Periods, ls \in Inputs :
          Balanced(ls) /\ Ask(c, "readPeriod", "create", p, NoEntry, ls)
    BY <1>1 DEF AskCreate, Accepts
  <2> QED BY <2>1, AskStays DEF Ops
<1>2. CASE AskInventory(c)
  <2>1. PICK p \in Periods, ls \in Inputs :
          OneAmount(ls) /\ Ask(c, "readPeriod", "inventory", p, NoEntry, ls)
    BY <1>2 DEF AskInventory
  <2>2. Balanced(StoredLines(ls))
    BY <2>1, OneAmountBalance DEF BalanceIInv
  <2> QED BY <2>1, <2>2, AskStays DEF Ops
<1>3. CASE AskPost(c)
  <2>1. PICK e \in Entries : Ask(c, "readEntry", "post", NoPeriod, e, <<>>)
    BY <1>3 DEF AskPost
  <2> QED BY <2>1, AskStays DEF Ops
<1>4. CASE AskReverse(c)
  <2>1. PICK e \in Entries : Ask(c, "readOriginal", "reverse", NoPeriod, e, <<>>)
    BY <1>4 DEF AskReverse
  <2> QED BY <2>1, AskStays DEF Ops
<1>5. CASE AskClose(c)
  <2>1. PICK p \in Periods, op \in {"close", "closeForGood"} :
          Ask(c, "readPeriod", op, p, NoEntry, <<>>)
    BY <1>5 DEF AskClose
  <2> QED BY <2>1, AskStays DEF Ops
<1>6. CASE AskReopen(c)
  <2>1. PICK p \in Periods : Ask(c, "readPeriod", "reopen", p, NoEntry, <<>>)
    BY <1>6 DEF AskReopen
  <2> QED BY <2>1, AskStays DEF Ops
<1> QED BY <1>1, <1>2, <1>3, <1>4, <1>5, <1>6

\* Going on with what the call carries.
LEMMA GotoBalance ==
  ASSUME IInv, BalanceIInv, NEW c \in Calls, NEW pc \in PCs, Goto(c, pc),
         pc \notin {"saveLine", "readPeriod"},
         pc \in {"insert", "insertPosted"} => call[c].pc = "readPeriod",
         call[c].pc # "failed", call[c].pc = "saveLine" => pc = "failed",
         \A e \in Entries : SameRow(entry, entry', e)
  PROVE  BalanceIInv'
<1>1. PICK q \in CallType : /\ call' = [call EXCEPT ![c] = q]
                            /\ q.pc = pc /\ q.op = call[c].op
                            /\ q.entry = call[c].entry /\ q.lines = call[c].lines
  BY GotoMoves
<1>2. CarriesBalance(entry, call[c])
  BY DEF BalanceIInv
<1>3. CarriesBalance(entry, q)
  BY <1>1, <1>2 DEF CarriesBalance
<1>4. \A e \in Entries : Writes(call[c], e) => Writes(q, e)
  BY <1>1 DEF Writes
<1> QED BY <1>1, <1>3, <1>4, BalanceStays

LEMMA PeriodBalance ==
  ASSUME IInv, BalanceIInv, NEW c \in Calls, ReadPeriod(c) \/ SavePeriod(c) PROVE BalanceIInv'
<1>1. entry' = entry
  BY DEF ReadPeriod, SavePeriod
<1>2. CASE ReadPeriod(c)
  <2>1. PICK pc \in {"insert", "insertPosted", "savePeriod", "refused"} : Goto(c, pc)
    BY <1>2 DEF ReadPeriod, AfterPeriod
  <2> QED BY <1>1, <1>2, <2>1, GotoBalance DEF ReadPeriod, PCs, SameRow
<1>3. CASE SavePeriod(c)
  BY <1>1, <1>3, GotoBalance DEF SavePeriod, PCs, SameRow
<1> QED BY <1>2, <1>3

\* post() and reverse() save a status, and leave the lines.
LEMMA PostBalance ==
  ASSUME IInv, BalanceIInv, NEW c \in Calls, ReadEntry(c) \/ SavePosted(c) PROVE BalanceIInv'
<1>1. CarriesBalance(entry, call[c]) /\ call[c] \in CallType
  BY DEF BalanceIInv, IInv, Types
<1>2. CASE ReadEntry(c)
  <2>1. CASE entry[Target(c)].status = "draft"
    <3> DEFINE q == [call[c] EXCEPT !.pc = "savePosted",
                                    !.reversedBy = entry[Target(c)].reversedBy]
    <3>1. call' = [call EXCEPT ![c] = q] /\ entry' = entry /\ call[c].pc = "readEntry"
      BY <1>2, <2>1 DEF ReadEntry, IInv, Types
    <3>2. q.pc = "savePosted"
      BY <1>1 DEF CallType
    <3> HIDE DEF q
    <3>3. CarriesBalance(entry, q)
      BY <1>1, <3>2 DEF CarriesBalance
    <3> QED BY <3>1, <3>2, <3>3, BalanceStays DEF Writes, SameRow
  <2>2. CASE entry[Target(c)].status # "draft"
    BY <1>2, <2>2, GotoBalance DEF ReadEntry, PCs, SameRow
  <2> QED BY <2>1, <2>2
<1>3. CASE SavePosted(c)
  <2>1. PICK pc \in {"done", "saveOriginal"} : Goto(c, pc)
    BY <1>3 DEF SavePosted
  <2>2. \A e \in Entries : SameRow(entry, entry', e)
    BY <1>3 DEF SavePosted, IInv, Types, EntryType, SameRow
  <2> QED BY <1>3, <2>1, <2>2, GotoBalance DEF SavePosted, PCs
<1> QED BY <1>2, <1>3

\* reverse() lets create() check the swapped lines of its original, which rounding leaves.
LEMMA ReverseBalance ==
  ASSUME IInv, BalanceIInv, NEW c \in Calls, ReadOriginal(c) \/ SaveOriginal(c)
  PROVE  BalanceIInv'
<1>1. call[c] \in CallType /\ CallSound(entry, call[c])
  BY DEF IInv, Types
<1>2. CASE ReadOriginal(c)
  <2> DEFINE o == entry[call[c].entry]
  <2>1. CASE o.status = "posted" /\ Accepts(ReversedLines(o.lines))
    <3> DEFINE q == [call[c] EXCEPT !.pc = "readPeriod", !.period = o.period,
                                    !.lines = Swapped(o.lines)]
    <3>1. call' = [call EXCEPT ![c] = q] /\ entry' = entry /\ call[c].pc = "readOriginal"
      BY <1>2, <2>1 DEF ReadOriginal, ReversedLines, IInv, Types
    <3>2. q.pc = "readPeriod" /\ q.lines = Swapped(o.lines) /\ q.op = "reverse"
      BY <1>1, <3>1 DEF CallType, CallSound
    <3>3. o.lines \in Seq(WholeLine)
      BY <1>1, <3>1 DEF CallSound, Present, BalanceIInv, RowBalanced
    <3> HIDE DEF q, o
    <3>4. Swapped(o.lines) \in Seq(WholeLine) /\ Balanced(Swapped(o.lines))
      BY <2>1, <3>3, WholeStays DEF Accepts, ReversedLines
    <3>5. CarriesBalance(entry, q)
      BY <3>2, <3>4 DEF CarriesBalance
    <3> QED BY <3>1, <3>2, <3>5, BalanceStays DEF Writes, SameRow
  <2>2. CASE ~(o.status = "posted" /\ Accepts(ReversedLines(o.lines)))
    BY <1>2, <2>2, GotoBalance DEF ReadOriginal, PCs, SameRow
  <2> QED BY <2>1, <2>2
<1>3. CASE SaveOriginal(c)
  <2>1. \A e \in Entries : SameRow(entry, entry', e)
    BY <1>3 DEF SaveOriginal, IInv, Types, EntryType, SameRow
  <2> QED BY <1>3, <2>1, GotoBalance DEF SaveOriginal, PCs
<1> QED BY <1>2, <1>3

\* The end of it: a call that fails while it writes has given its entry up.
LEMMA EndingsBalance ==
  ASSUME IInv, BalanceIInv, NEW c \in Calls, SaveLink(c) \/ Fail(c) PROVE BalanceIInv'
  BY GotoBalance DEF SaveLink, Fail, InFlight, Ended, PCs, SameRow

-----------------------------------------------------------------------------
\* create(): entry and lines at once.
LEMMA InsertBalance ==
  ASSUME IInv, BalanceIInv, NEW c \in Calls, InsertEntry(c) PROVE BalanceIInv'
<1>1. /\ call[c] \in CallType /\ call[c].pc = "insert" /\ CarriesBalance(entry, call[c])
      /\ CallSound(entry, call[c])
  BY DEF IInv, Types, BalanceIInv, InsertEntry
<1> DEFINE ls == call[c].lines
           back == call[c].entry
<1>2. PICK f \in Entries :
        /\ ~Exists(f)
        /\ entry' = [entry EXCEPT ![f] =
             NewEntry("draft", call[c].period, "api", StoredLines(ls), back)]
        /\ call' = [call EXCEPT ![c].reversal = f, ![c].pc = AfterInsert(c)]
  BY DEF InsertEntry
<1>3. PICK pc \in {"done", "readEntry"} : pc = AfterInsert(c)
  BY DEF AfterInsert
<1> DEFINE q == [call[c] EXCEPT !.reversal = f, !.pc = pc]
<1>4. q.pc = pc /\ call' = [call EXCEPT ![c] = q]
  BY <1>1, <1>2, <1>3 DEF IInv, Types, CallType
<1>5. /\ ls \in Seq(Line) /\ Balanced(ls) /\ call[c].op \in {"create", "reverse"}
      /\ call[c].op = "reverse" => ls \in Seq(WholeLine)
      /\ call[c].op = "create" => back = NoEntry
  BY <1>1 DEF CarriesBalance, CallSound, CallType
<1>6. /\ entry'[f].lines = StoredLines(ls) /\ entry'[f].source = "api"
      /\ entry'[f].reverses = back
      /\ \A e \in Entries : e # f => entry'[e] = entry[e]
  BY <1>2 DEF NewEntry, IInv, Types
<1> HIDE DEF q, ls, back
<1>7. CarriesBalance(entry', q)
  BY <1>3, <1>4 DEF CarriesBalance
<1>8. RowBalanced(entry', call', f)
  <2>1. StoredLines(ls) \in Seq(WholeLine) /\ NearlyBalanced(StoredLines(ls))
    BY <1>5, StoredWhole, RoundedNearly
  <2>2. back # NoEntry => Balanced(StoredLines(ls))
    BY <1>5, WholeStays
  <2> QED BY <1>6, <2>1, <2>2 DEF RowBalanced
<1>9. ASSUME NEW d \in Calls, call[d].pc = "saveLine"
      PROVE  entry'[call[d].entry].lines = entry[call[d].entry].lines
  BY <1>2, <1>6, <1>9 DEF IInv, CallSound, Present, Exists
<1>10. \A e : ~Writes(call[c], e)
  BY <1>1 DEF Writes
<1>11. ASSUME NEW e \in Entries
       PROVE  \/ SameRow(entry, entry', e) /\ (Writes(call[c], e) => Writes(q, e))
              \/ RowBalanced(entry', call', e)
  BY <1>6, <1>8, <1>10 DEF SameRow
<1>12. q.pc # "saveLine"
  BY <1>3, <1>4
<1>13. Moves(c, q, entry, call, entry', call')
  BY <1>4, <1>7, <1>9, <1>11, <1>12 DEF Moves
<1> QED BY <1>13, BalanceMoves

\* generateJournalFromMovement() opens an entry without lines, and is alone to write to it.
LEMMA InsertPostedBalance ==
  ASSUME IInv, BalanceIInv, NEW c \in Calls, InsertPosted(c) PROVE BalanceIInv'
<1>1. /\ call[c] \in CallType /\ call[c].pc = "insertPosted"
      /\ CarriesBalance(entry, call[c]) /\ CallSound(entry, call[c])
  BY DEF IInv, Types, BalanceIInv, InsertPosted
<1>2. PICK f \in Entries :
        /\ ~Exists(f)
        /\ entry' = [entry EXCEPT ![f] =
             NewEntry("posted", call[c].period, "inventory", <<>>, NoEntry)]
        /\ call' = [call EXCEPT ![c].entry = f, ![c].pc = "saveLine"]
  BY DEF InsertPosted
<1> DEFINE q == [call[c] EXCEPT !.entry = f, !.pc = "saveLine"]
<1>3. /\ q.pc = "saveLine" /\ q.entry = f /\ q.lines = call[c].lines /\ q.op = call[c].op
      /\ call' = [call EXCEPT ![c] = q]
  BY <1>1, <1>2 DEF IInv, Types, CallType
<1>4. /\ StoredLines(call[c].lines) \in Seq(WholeLine) /\ call[c].op = "inventory"
      /\ Balanced(StoredLines(call[c].lines))
  BY <1>1, StoredWhole DEF CarriesBalance, CallSound, CallType
<1>5. /\ entry'[f].lines = <<>> /\ entry'[f].source = "inventory"
      /\ \A e \in Entries : e # f => entry'[e] = entry[e]
  BY <1>2 DEF NewEntry, IInv, Types
<1> HIDE DEF q
<1>6. /\ <<>> \o StoredLines(call[c].lines) = StoredLines(call[c].lines)
      /\ <<>> \in Seq(WholeLine)
  BY <1>4, ConcatEmptySeq, EmptySeq
<1>7. CarriesBalance(entry', q)
  BY <1>3, <1>4, <1>5, <1>6 DEF CarriesBalance
<1>8. RowBalanced(entry', call', f)
  BY <1>5, <1>6, NoneBalance DEF RowBalanced
<1>9. ASSUME NEW d \in Calls, call[d].pc = "saveLine"
      PROVE  /\ entry'[call[d].entry].lines = entry[call[d].entry].lines
             /\ f # call[d].entry
  BY <1>2, <1>5, <1>9 DEF IInv, CallSound, Present, Exists
<1>10. \A e : ~Writes(call[c], e)
  BY <1>1 DEF Writes
<1>11. ASSUME NEW e \in Entries
       PROVE  \/ SameRow(entry, entry', e) /\ (Writes(call[c], e) => Writes(q, e))
              \/ RowBalanced(entry', call', e)
  BY <1>5, <1>8, <1>10 DEF SameRow
<1>12. \A d \in Calls : d # c /\ call[d].pc = "saveLine" =>
         entry'[call[d].entry].lines = entry[call[d].entry].lines
  BY <1>9
<1>13. \A d \in Calls : d # c /\ call[d].pc = "saveLine" /\ q.pc = "saveLine" =>
         q.entry # call[d].entry
  BY <1>3, <1>9
<1>14. Moves(c, q, entry, call, entry', call')
  BY <1>3, <1>7, <1>11, <1>12, <1>13 DEF Moves
<1> QED BY <1>14, BalanceMoves

\* One line more is stored, one less is left: together they balance as before, and when
\* none is left the entry does.
LEMMA LineBalance ==
  ASSUME IInv, BalanceIInv, NEW c \in Calls, SaveLine(c) PROVE BalanceIInv'
<1> DEFINE f == call[c].entry
           raw == call[c].lines
           left == StoredLines(raw)
           there == entry[f].lines
<1>1. /\ call[c] \in CallType /\ call[c].pc = "saveLine" /\ call[c].op = "inventory"
      /\ f \in Entries /\ entry[f].source = "inventory" /\ raw \in Seq(Line)
      /\ Len(left) = Len(raw) /\ Len(raw) >= 1
      /\ StoredLines(<<Head(raw)>>) = <<Head(left)>> /\ StoredLines(Tail(raw)) = Tail(left)
      /\ left \in Seq(WholeLine)
  <2>1. /\ call[c] \in CallType /\ call[c].pc = "saveLine" /\ call[c].op = "inventory"
        /\ f \in Entries /\ entry[f].source = "inventory" /\ Len(raw) >= 1
    BY DEF IInv, Types, CallSound, Present, SaveLine
  <2>2. raw \in Seq(Line)
    BY <2>1 DEF CallType
  <2> HIDE DEF raw, f
  <2> QED BY <2>1, <2>2, StoredWhole, StoredLineByLine
<1>2. /\ left \in Seq(WholeLine) /\ there \in Seq(WholeLine) /\ Balanced(there \o left)
  BY <1>1 DEF BalanceIInv, RowBalanced, CarriesBalance
<1> DEFINE more == there \o <<Head(left)>>
<1>3. /\ <<Head(left)>> \in Seq(WholeLine) /\ Tail(left) \in Seq(WholeLine)
      /\ more \in Seq(WholeLine) /\ more \o Tail(left) = there \o left
      /\ Len(left) = 1 => more = there \o left
  <2>1. Len(left) >= 1 /\ left \in Seq(WholeLine) /\ there \in Seq(WholeLine)
    BY <1>1, <1>2
  <2> HIDE DEF left, there
  <2>2. /\ <<Head(left)>> \in Seq(WholeLine) /\ Tail(left) \in Seq(WholeLine)
        /\ there \o <<Head(left)>> \in Seq(WholeLine)
        /\ (there \o <<Head(left)>>) \o Tail(left) = there \o left
        /\ Len(left) = 1 => there \o <<Head(left)>> = there \o left
    BY <2>1, LineMoves
  <2> QED BY <2>2
<1>5. /\ entry'[f].lines = more /\ entry'[f].source = "inventory"
      /\ \A e \in Entries : e # f => entry'[e] = entry[e]
  BY <1>1 DEF SaveLine, IInv, Types, EntryType
<1>6. PICK pc \in {"saveLink", "saveLine"} : pc = AfterLine(c)
  BY DEF AfterLine
<1>7. pc = "saveLink" => Len(left) = 1
  BY <1>1, <1>6 DEF AfterLine
<1> DEFINE q == [call[c] EXCEPT !.lines = Tail(raw), !.pc = pc]
<1>8. /\ q.pc = pc /\ q.lines = Tail(raw) /\ q.entry = f /\ q.op = "inventory"
      /\ call' = [call EXCEPT ![c] = q]
  BY <1>1, <1>6 DEF SaveLine, IInv, Types, CallType
<1>9. call'[c] = q
  BY <1>8 DEF IInv, Types
<1> HIDE DEF q, more
<1>10. CarriesBalance(entry', q)
  BY <1>1, <1>2, <1>3, <1>5, <1>6, <1>8 DEF CarriesBalance
<1>11. RowBalanced(entry', call', f)
  <2>1. pc = "saveLine" => Writes(call'[c], f)
    BY <1>8, <1>9 DEF Writes
  <2>2. pc = "saveLink" => Balanced(more)
    BY <1>2, <1>3, <1>7
  <2>3. Balanced(more) \/ \E d \in Calls : Writes(call'[d], f)
    BY <1>6, <2>1, <2>2
  <2> HIDE DEF f
  <2> QED BY <1>3, <1>5, <2>3 DEF RowBalanced
<1>12. ASSUME NEW d \in Calls, d # c, call[d].pc = "saveLine"
       PROVE  call[d].entry # f /\ call[d].entry \in Entries
  BY <1>1, <1>12 DEF BalanceIInv, IInv, CallSound, Present
<1>13. \A e : e # f => ~Writes(call[c], e)
  BY DEF Writes
<1>14. ASSUME NEW e \in Entries
       PROVE  \/ SameRow(entry, entry', e) /\ (Writes(call[c], e) => Writes(q, e))
              \/ RowBalanced(entry', call', e)
  BY <1>5, <1>11, <1>13 DEF SameRow
<1>15. \A d \in Calls : d # c /\ call[d].pc = "saveLine" =>
         entry'[call[d].entry].lines = entry[call[d].entry].lines
  BY <1>5, <1>12
<1>16. \A d \in Calls : d # c /\ call[d].pc = "saveLine" /\ q.pc = "saveLine" =>
         q.entry # call[d].entry
  BY <1>5, <1>8, <1>12
<1> HIDE DEF f, raw, left, there
<1>17. Moves(c, q, entry, call, entry', call')
  BY <1>8, <1>10, <1>14, <1>15, <1>16 DEF Moves
<1> QED BY <1>17, BalanceMoves

-----------------------------------------------------------------------------
LEMMA InitBalance == ASSUME Inputs \subseteq Seq(Line), Init PROVE BalanceIInv
<1>1. <<>> \in Seq(WholeLine) /\ Balanced(<<>>)
  BY EmptySeq, NoneBalance
<1>2. /\ NoRow.lines = <<>> /\ FreeCall.pc = "free" /\ <<>> \in Seq(Line)
      /\ NearlyBalanced(<<>>)
  BY <1>1, EmptySeq, BalancedNearly DEF NoRow, FreeCall
<1>3. ASSUME NEW c \in Calls PROVE CarriesBalance(entry, call[c]) /\ call[c].pc = "free"
  BY <1>1, <1>2 DEF Init, CarriesBalance
<1>4. ASSUME NEW e \in Entries PROVE RowBalanced(entry, call, e)
  <2>1. CASE entry[e] = NoRow
    BY <1>1, <1>2, <2>1 DEF RowBalanced
  <2>2. CASE \E p \in Periods, s \in {"draft", "posted"},
               ls \in {l \in Inputs : Balanced(l)} :
             entry[e] = NewEntry(s, p, "api", StoredLines(ls), NoEntry)
    <3>1. PICK p \in Periods, s \in {"draft", "posted"}, ls \in Seq(Line) :
            Balanced(ls) /\ entry[e] = NewEntry(s, p, "api", StoredLines(ls), NoEntry)
      BY <2>2
    <3>2. StoredLines(ls) \in Seq(WholeLine) /\ NearlyBalanced(StoredLines(ls))
      BY <3>1, StoredWhole, RoundedNearly
    <3> QED BY <3>1, <3>2 DEF RowBalanced, NewEntry
  <2> QED BY <2>1, <2>2 DEF Init
<1> QED BY <1>3, <1>4 DEF BalanceIInv

LEMMA NextBalance == ASSUME IInv, BalanceIInv, [Next]_vars PROVE BalanceIInv'
<1>1. CASE UNCHANGED vars
  BY <1>1 DEF BalanceIInv, vars
<1>2. ASSUME NEW c \in Calls,
             \/ AskCreate(c) \/ AskPost(c) \/ AskReverse(c)
             \/ AskClose(c) \/ AskReopen(c) \/ AskInventory(c)
             \/ ReadPeriod(c) \/ SavePeriod(c)
      PROVE  BalanceIInv'
  BY <1>2, AsksBalance, PeriodBalance
<1>3. ASSUME NEW c \in Calls,
             \/ InsertEntry(c) \/ ReadEntry(c) \/ SavePosted(c)
             \/ ReadOriginal(c) \/ SaveOriginal(c)
      PROVE  BalanceIInv'
  BY <1>3, InsertBalance, PostBalance, ReverseBalance
<1>4. ASSUME NEW c \in Calls, InsertPosted(c) \/ SaveLine(c) \/ SaveLink(c) \/ Fail(c)
      PROVE  BalanceIInv'
  BY <1>4, InsertPostedBalance, LineBalance, EndingsBalance
<1>5. CASE Done
  BY <1>1, <1>5 DEF Done
<1> QED BY <1>1, <1>2, <1>3, <1>4, <1>5 DEF Next

LEMMA BalanceInductive ==
  ASSUME Inputs \subseteq Seq(Line) PROVE Spec => [](IInv /\ BalanceIInv)
<1>1. Init => IInv /\ BalanceIInv
  BY InitSound, InitBalance
<1>2. IInv /\ BalanceIInv /\ [Next]_vars => (IInv /\ BalanceIInv)'
  BY NextSound, NextBalance
<1> QED BY <1>1, <1>2, PTL DEF Spec

\* create() and reverse(): for any lines, whole cents or not, what create() stores is out of
\* balance by half a cent a line at most, and a reversal of what anyone had written, rounded
\* or half written, balances to the cent.
THEOREM RoundingIsBounded ==
  ASSUME Inputs \subseteq Seq(Line) PROVE Spec => []RoundingDoesNotCompound
<1>1. BalanceIInv => RoundingDoesNotCompound
  BY DEF BalanceIInv, RowBalanced, RoundingDoesNotCompound
<1> QED BY <1>1, BalanceInductive, PTL

\* generateJournalFromMovement() alone posts what is out of balance by more than rounding:
\* an entry it is still writing, or was writing when it failed.
THEOREM UnbalancedIsHalfWritten ==
  ASSUME Inputs \subseteq Seq(Line) PROVE Spec => []HalfWrittenOnlyByInventory
<1>1. BalanceIInv => HalfWrittenOnlyByInventory
  BY DEF BalanceIInv, RowBalanced, Writes, HalfWrittenOnlyByInventory
<1> QED BY <1>1, BalanceInductive, PTL
=============================================================================
