----------------------------- MODULE StatusRows -----------------------------
(***************************************************************************)
(* Services that keep a status in a row: a method reads the row (or all    *)
(* the rows of a query), decides on the copy, and saves it, each query in  *)
(* an await of its own.  Repository.save writes the whole copy back, over  *)
(* what other calls wrote in between, and inserts it again if the row was  *)
(* deleted; Repository.update writes columns.  Machines is the table of    *)
(* the services.  Refused calls change nothing and are left out.           *)
(***************************************************************************)
EXTENDS StatusTables, FiniteSets

CONSTANTS
  Ids,       \* rows; a behaviour is about the rows of one kind
  Calls,     \* calls in progress at once
  Machines,  \* for each kind its machine, see StatusTables
  Room,      \* for each kind how many rows are created
  Faulty     \* may queries fail and the process die?

ASSUME MachinesAssumption ==
  \A k \in DOMAIN Machines :
    /\ WellFormed(Machines[k]) /\ KeepsPromises(Machines[k])
    /\ KeepsFinal(Machines[k]) /\ KeepsOne(Machines[k])

VARIABLES
  kind,    \* the kind of the rows
  serial,  \* do calls wait for each other?
  row,     \* the table
  call,    \* the calls: the method, the copies it read, the rows still to save
  made     \* history: the methods that were accepted on a row

vars == <<kind, serial, row, call, made>>

-----------------------------------------------------------------------------
M == Machines[kind]
NoRow == Row("none", {})
Idle  == [busy |-> FALSE]

Exists(i) == row[i].status \notin {"none", Deleted}

\* A variant: the copy is not checked.
FitAny(st) == {i \in Ids : Exists(i)}

\* The rows the method reads and accepts.
Fit(st) == {i \in Ids : Exists(i) /\ Accepts(st, row[i])}

\* A variant: rows in the way are not looked for.
AlwaysFree(st) == TRUE

\* No row is in a status that the method does not want to find.
Free(st) == \A i \in Ids : row[i].status \notin st.unless

\* A call of st with the rows todo to save for the at-th time, and the copies of them; it
\* has found the other row or has none to look for, and saves it first.
Busy(st, todo, at, copy, found, other) ==
  [busy |-> TRUE, step |-> st, todo |-> todo, at |-> at, copy |-> copy,
   found |-> found, other |-> other]

HasRoom == Cardinality({i \in Ids : row[i] # NoRow}) < Room[kind]
MayStart(c) == ~call[c].busy /\ (serial => \A d \in Calls : ~call[d].busy)
AsideDone(c) == call[c].busy /\ call[c].found /\ call[c].other = {}

\* History: what was accepted on row i with op, of the methods that promises name.
Noted(i, op) == made[i] \cup ({op} \cap Promised(M))

\* A method that is to insert a row is called and looks for rows in the way.
Begin(c) ==
  /\ MayStart(c)
  /\ \E st \in M.fresh :
       /\ Free(st)
       /\ call' = [call EXCEPT ![c] = Busy(st, {}, 0, <<>>, st.aside = {}, {})]
  /\ UNCHANGED <<kind, serial, row, made>>

\* It inserts the row, and goes on with its copy when it has more saves to do.
Create(c) ==
  /\ AsideDone(c) /\ call[c].at = 0 /\ HasRoom
  /\ \E i \in Ids :
       /\ row[i] = NoRow
       /\ row' = [row EXCEPT ![i] = Written(call[c].step, 1, NoRow)]
       /\ made' = [made EXCEPT ![i] = Noted(i, call[c].step.op)]
       /\ call' = [call EXCEPT ![c] =
            IF Len(call[c].step.path) = 1 THEN Idle
            ELSE Busy(@.step, {i}, 2, [j \in {i} |-> row'[j]], TRUE, {})]
  /\ UNCHANGED <<kind, serial>>

\* The method is called, reads its rows and accepts them.
Read(c) ==
  /\ MayStart(c)
  /\ \E st \in M.steps :
       \E todo \in IF st.all THEN {Fit(st)} ELSE {{i} : i \in Fit(st)} :
         /\ todo # {} /\ Free(st)
         /\ call' = [call EXCEPT ![c] = 
              Busy(st, todo, 1, [i \in todo |-> row[i]], st.aside = {}, {})]
         /\ made' = [i \in Ids |-> IF i \in todo THEN Noted(i, st.op) ELSE made[i]]
  /\ UNCHANGED <<kind, serial, row>>

\* It looks for the other row, and reads the one it finds.
Find(c) ==
  /\ call[c].busy /\ ~call[c].found
  /\ \E st \in call[c].step.aside :
       LET others == Fit(st) \ call[c].todo IN
       \E other \in IF others = {} THEN {{}} ELSE {{j} : j \in others} :
         call' = [call EXCEPT ![c] =
           Busy(@.step, @.todo, @.at,
                [i \in other \cup DOMAIN @.copy |-> IF i \in other THEN row[i] ELSE @.copy[i]],
                TRUE, other)]
  /\ UNCHANGED <<kind, serial, row, made>>

\* It saves the other row.
PutAside(c) ==
  /\ call[c].busy
  /\ \E st \in call[c].step.aside, j \in call[c].other :
       row' = [row EXCEPT ![j] = Written(st, 1, call[c].copy[j])]
  /\ call' = [call EXCEPT ![c] = Busy(@.step, @.todo, @.at, @.copy, @.found, {})]
  /\ UNCHANGED <<kind, serial, made>>

\* What the save of row i writes: the copy, or columns of the row as it is.
Target(q, i) == IF q.step.columns THEN row[i] ELSE q.copy[i]

\* The save writes something: an update of columns has to find the row, and what its
\* WHERE demands of it.
Writes(q, i) ==
  q.step.columns => Exists(i) /\ (q.step.guarded => Accepts(q.step, row[i]))

After(q, i) ==
  IF q.at < Len(q.step.path)
    THEN Busy(q.step, q.todo, q.at + 1,
              [q.copy EXCEPT ![i] = Written(q.step, q.at, @)], q.found, q.other)
  ELSE IF q.todo = {i} THEN Idle
  ELSE Busy(q.step, q.todo \ {i}, q.at, q.copy, q.found, q.other)

Save(c) ==
  /\ AsideDone(c) /\ call[c].step.inserts = {}
  /\ \E i \in call[c].todo :
       /\ row' = IF Writes(call[c], i)
                 THEN [row EXCEPT ![i] = Written(call[c].step, call[c].at, Target(call[c], i))]
                 ELSE row
       /\ call' = [call EXCEPT ![c] = After(call[c], i)]
  /\ UNCHANGED <<kind, serial, made>>

\* A method that only reads its row inserts another.
Insert(c) ==
  /\ AsideDone(c) /\ HasRoom
  /\ \E r \in call[c].step.inserts, i \in Ids :
       /\ row[i] = NoRow
       /\ row' = [row EXCEPT ![i] = r]
       /\ made' = [made EXCEPT ![i] = Noted(i, call[c].step.op)]
  /\ call' = [call EXCEPT ![c] = Idle]
  /\ UNCHANGED <<kind, serial>>

\* The query fails or the process dies: the saves not done are lost.
Fail(c) ==
  /\ Faulty /\ call[c].busy
  /\ call' = [call EXCEPT ![c] = Idle]
  /\ UNCHANGED <<kind, serial, row, made>>

Init ==
  /\ kind \in DOMAIN Machines
  /\ serial \in BOOLEAN
  /\ row = [i \in Ids |-> NoRow]
  /\ call = [c \in Calls |-> Idle]
  /\ made = [i \in Ids |-> {}]

Next == \E c \in Calls :
  Begin(c) \/ Create(c) \/ Read(c) \/ Find(c) \/ PutAside(c) \/ Save(c) \/ Insert(c) \/ Fail(c)

Spec == Init /\ [][Next]_vars

-----------------------------------------------------------------------------
TypeOK ==
  /\ \A i \in Ids : row[i] = NoRow \/ row[i].status \in M.statuses \cup {Deleted}
  /\ \A c \in Calls : call[c].busy =>
       call[c].todo \subseteq DOMAIN call[c].copy /\ call[c].at \in 0..Len(call[c].step.path)

\* A status keeps its promises, whatever copies are saved over each other: the
\* approval behind "approved" was given, the date behind "closed" is set.
PromisesKept == \A i \in Ids : Exists(i) => Kept(M, row[i], made[i])

\* While calls wait for each other, no method leaves a final status.
FinalWhenSerial ==
  [][serial => \A i \in Ids :
       row[i].status \in M.final => row'[i].status = row[i].status]_vars

\* While calls wait for each other, one published version, one primary contact, one open
\* drawer at most: what the methods look for before they insert or promote a row is enough.
OneWhenSerial ==
  serial => Cardinality({i \in Ids : row[i].status \in M.single}) <= 1
=============================================================================
