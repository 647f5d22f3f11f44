---------------------------- MODULE StatusTables ----------------------------
(***************************************************************************)
(* Words for the tables of StatusRows: what one method of a service asks   *)
(* of the row it has read and what it writes.  A row is a status and the   *)
(* facts its other columns hold: dates that are set, flags that are true.  *)
(***************************************************************************)
EXTENDS Sequences, Naturals

Same    == "same"      \* the method does not touch the status
Deleted == "no row"    \* the row is not in the table any more

Row(status, has) == [status |-> status, has |-> has]

\* The method op accepts a row in one of the statuses from, and saves the row it
\* read with the status to and the facts adds.
Step(op, from, to, adds) ==
  [op |-> op, from |-> from, needs |-> {}, lacks |-> {},
   path |-> <<to>>, adds |-> adds, drops |-> {},
   columns |-> FALSE, guarded |-> FALSE, all |-> FALSE, inserts |-> {}, unless |-> {}, aside |-> {}]

\* The method op inserts a row.
New(op, status, has) == Step(op, {}, status, has)

Needing(st, facts)  == [st EXCEPT !.needs = facts]      \* refuses rows without the facts
Lacking(st, facts)  == [st EXCEPT !.lacks = facts]      \* refuses rows with one of the facts
Dropping(st, facts) == [st EXCEPT !.drops = facts]      \* sets their columns to null or false
Through(s, st)      == [st EXCEPT !.path = <<s>> \o @]  \* saves the row in status s before
ByColumns(st)       == [st EXCEPT !.columns = TRUE]     \* updates columns, does not save the row
WhereStill(st) == [st EXCEPT !.columns = TRUE, !.guarded = TRUE]  \* where it still accepts the row
OnAll(st)           == [st EXCEPT !.all = TRUE]         \* takes every row that passes, in a loop
Inserting(st, r)    == [st EXCEPT !.inserts = {r}]      \* leaves the row and inserts another
Unless(st, statuses) == [st EXCEPT !.unless = statuses] \* refused while a row is in one of them
Aside(st, from, to) ==                                  \* takes another row out of from before
  [st EXCEPT !.aside = {Step(st.op, from, to, {})}]

\* The method with the status of its argument: one step for each value it may have.
ToEach(op, from, statuses, adds) == {Step(op, from, s, adds) : s \in statuses}

\* What the method demands of a row it has read.
Accepts(st, r) ==
  /\ r.status \in st.from
  /\ st.needs \subseteq r.has
  /\ st.lacks \cap r.has = {}

\* The row r after the n-th save of the method; the last one writes the facts.
Written(st, n, r) ==
  Row(IF st.path[n] = Same THEN r.status ELSE st.path[n],
      IF n = Len(st.path) THEN (r.has \ st.drops) \cup st.adds ELSE r.has)

\* The methods of a service that a request, a job or another service calls.
Called(steps, ops) == {st \in steps : st.op \in ops}

\* A promise: a row in one of the statuses, with the facts given, has the facts has,
\* and the methods made were accepted on it before.
Promise(in, given, has, made) == [in |-> in, given |-> given, has |-> has, made |-> made]

\* statuses: those of the column; fresh: the insertions; steps: the other methods;
\* promises: what the statuses promise.
Machine(statuses, fresh, steps, promises) ==
  [statuses |-> statuses, fresh |-> fresh, steps |-> steps, promises |-> promises,
   final |-> {}, single |-> {}]

Ending(m, statuses) == [m EXCEPT !.final = statuses]    \* no method leaves them
OneIn(m, statuses)  == [m EXCEPT !.single = statuses]   \* one row at most is to be in one

-----------------------------------------------------------------------------
\* What a status of the machine m promises when the methods in done were accepted.
Kept(m, r, done) ==
  \A p \in m.promises : r.status \in p.in /\ p.given \subseteq r.has =>
    p.has \subseteq r.has /\ p.made \subseteq done

Methods(m) == m.fresh \cup m.steps
Asides(m) == UNION {st.aside : st \in Methods(m)}
Promised(m) == UNION {p.made : p \in m.promises}
Facts(m) == UNION ({st.adds : st \in Methods(m) \cup Asides(m)} \cup
                   {r.has : r \in UNION {st.inserts : st \in m.steps}})
RowsOf(m) == [status : m.statuses \cup {Deleted}, has : SUBSET Facts(m)]

\* The tables name statuses of the column; a loop over rows saves each once.
WellFormed(m) ==
  /\ Deleted \notin m.statuses /\ Same \notin m.statuses /\ "none" \notin m.statuses
  /\ \A p \in m.promises : p.in \subseteq m.statuses
  /\ \A st \in Methods(m) \cup Asides(m) :
       /\ st.path \in Seq(m.statuses \cup {Same, Deleted}) /\ Len(st.path) > 0
       /\ \A n \in 1..Len(st.path) - 1 : st.path[n] \in m.statuses
       /\ st.all \/ st.guarded => Len(st.path) = 1
       /\ \A r \in st.inserts : r \in RowsOf(m)
       /\ \A s, t \in st.aside : s = t
  /\ \A st \in m.fresh :
       /\ \A n \in DOMAIN st.path : st.path[n] \in m.statuses
       /\ st.needs = {} /\ st.inserts = {}
  /\ \A st \in Asides(m) : Len(st.path) = 1

\* A row as the n-th save of the method finds it in the copy.
Ready(st, n, r) ==
  IF n = 1 THEN Accepts(st, r)
  ELSE r.status = st.path[n - 1] /\ st.needs \subseteq r.has /\ st.lacks \cap r.has = {}

\* Taken one by one the methods keep the promises: on every row they accept, and, where
\* they update columns whatever the row is, on every row.
KeepsPromises(m) ==
  /\ \A st \in m.fresh : Kept(m, Written(st, 1, Row("none", {})), {st.op} \cap Promised(m))
  /\ \A st \in m.steps : \A r \in st.inserts : Kept(m, r, {st.op} \cap Promised(m))
  /\ \A st \in Methods(m) \cup Asides(m), done \in SUBSET Promised(m), r \in RowsOf(m) :
       \A n \in DOMAIN st.path :
         /\ st \in Asides(m) \/ {st.op} \cap Promised(m) \subseteq done
         /\ Kept(m, r, done)
         /\ IF st.columns /\ ~st.guarded THEN r.status # Deleted ELSE Ready(st, n, r)
         => Kept(m, Written(st, n, r), done)

\* Taken one by one the methods leave no final status.
KeepsFinal(m) ==
  /\ m.final \subseteq m.statuses
  /\ \A st \in Methods(m) \cup Asides(m), r \in RowsOf(m) :
       \A n \in DOMAIN st.path :
         r.status \in m.final /\ Ready(st, n, r) => Written(st, n, r).status = r.status

\* The method may bring a row into one of the statuses that one row at most is to be in.
Brings(m, st) ==
  \E n \in DOMAIN st.path :
    /\ st.path[n] \in m.single
    /\ IF n = 1 THEN st \in m.fresh \/ ~(st.from \subseteq m.single)
                ELSE st.path[n - 1] \notin m.single

\* A method that brings a row there takes one row, and is refused while another is there,
\* or finds any other that is there and puts it elsewhere.
KeepsOne(m) == m.single # {} =>
  /\ m.single \subseteq m.statuses
  /\ \A st \in Methods(m) :
       Brings(m, st) => ~st.all /\ (m.single \subseteq st.unless \/ st.aside # {})
  /\ \A st \in Asides(m) :
       /\ st.from = m.single /\ st.needs = {} /\ st.lacks = {}
       /\ st.path[1] \notin m.single \cup {Same}
  /\ \A st \in m.steps : \A r \in st.inserts : r.status \notin m.single
=============================================================================
