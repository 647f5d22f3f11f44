-------------------------- MODULE StatusRowsProofs --------------------------
(***************************************************************************)
(* PromisesKept for every table of machines, every number of rows and      *)
(* calls: a status keeps its promises under every interleaving of calls    *)
(* that save stale copies, and under every failure between two saves,      *)
(* when each method keeps them taken by itself (MachinesAssumption).       *)
(* While calls wait for each other, final statuses are final and what is   *)
(* to be unique is.                                                        *)
(***************************************************************************)
EXTENDS StatusRows, FiniteSetTheorems, TLAPS

-----------------------------------------------------------------------------
\* The inductive invariant.

\* A row, or the copy of one, whose promises are kept when the methods in done were accepted.
Sound(m, r, done) == r \in RowsOf(m) /\ r.status # Deleted /\ Kept(m, r, done)

\* The copies of a call are sound, and its method still accepts them; what is promised of
\* the method's acceptance was noted.
SoundCall(m, q, done) ==
  /\ q.step \in Methods(m)
  /\ q.at = 0 => q.step \in m.fresh /\ q.todo = {}
  /\ q.at # 0 => q.at \in DOMAIN q.step.path
  /\ q.todo \subseteq Ids /\ q.todo \subseteq DOMAIN q.copy
  /\ Len(q.step.path) > 1 => \A i, j \in q.todo : i = j
  /\ \A i \in q.todo :
       /\ Sound(m, q.copy[i], done[i])
       /\ Ready(q.step, q.at, q.copy[i])
       /\ {q.step.op} \cap Promised(m) \subseteq done[i]
  /\ \A st \in q.step.aside, j \in q.other :
       j \in Ids /\ Sound(m, q.copy[j], done[j]) /\ Accepts(st, q.copy[j])

RowsSound ==
  \A i \in Ids :
    /\ made[i] \subseteq Promised(M)
    /\ row[i] = NoRow \/ row[i] \in RowsOf(M)
    /\ Exists(i) => Kept(M, row[i], made[i])

CallsSound == \A c \in Calls : call[c].busy => SoundCall(M, call[c], made)

IInv ==
  /\ kind \in DOMAIN Machines
  /\ DOMAIN row = Ids /\ DOMAIN call = Calls /\ DOMAIN made = Ids
  /\ RowsSound
  /\ CallsSound

-----------------------------------------------------------------------------
\* Lemmas about a machine.

\* A sequence that is not of one element has a second.
LEMMA SecondOne ==
  ASSUME NEW S, NEW s \in Seq(S), 1 \in DOMAIN s, Len(s) # 1
  PROVE  1 < Len(s) /\ 2 \in DOMAIN s
<1> DEFINE n == Len(s)
<1>1. n \in Nat /\ DOMAIN s = 1..n /\ n # 1 /\ 1 \in 1..n
  OBVIOUS
<1> HIDE DEF n
<1>2. 1 < n /\ 2 \in 1..n
  BY <1>1
<1> QED BY <1>1, <1>2 DEF n

\* What was promised stays promised when more methods are accepted.
LEMMA KeptGrows ==
  ASSUME NEW m, NEW r, NEW a, NEW b, Kept(m, r, a), a \subseteq b
  PROVE  Kept(m, r, b)
BY DEF Kept

\* A method writes one of the statuses, or leaves the status or removes the row.
LEMMA PathKind ==
  ASSUME NEW m, WellFormed(m), NEW st \in Methods(m) \cup Asides(m), NEW n \in DOMAIN st.path
  PROVE  /\ st.path[n] \in m.statuses \cup {Same, Deleted}
         /\ Len(st.path) \in Nat /\ n \in Nat /\ 1 <= n /\ n <= Len(st.path)
         /\ n < Len(st.path) => st.path[n] \in m.statuses /\ n + 1 \in DOMAIN st.path
<1>1. st.path \in Seq(m.statuses \cup {Same, Deleted})
  BY DEF WellFormed
<1>2. \A k \in 1..Len(st.path) - 1 : st.path[k] \in m.statuses
  BY DEF WellFormed
<1> QED BY <1>1, <1>2

\* A method with several saves takes one row, and saves all of it.
LEMMA ManySaves ==
  ASSUME NEW m, WellFormed(m), NEW st \in Methods(m), Len(st.path) > 1
  PROVE  ~st.all /\ ~st.guarded
<1>1. st.all \/ st.guarded => Len(st.path) = 1
  BY DEF WellFormed
<1>2. st.path \in Seq(m.statuses \cup {Same, Deleted})
  BY DEF WellFormed
<1>3. Len(st.path) # 1
  <2> DEFINE n == Len(st.path)
  <2>1. n \in Nat /\ n > 1
    BY <1>2
  <2> HIDE DEF n
  <2>2. n # 1
    BY <2>1
  <2> QED BY <2>2 DEF n
<1> QED BY <1>1, <1>3, Zenon

\* An update that demands something of the row is the only save of its method.
LEMMA GuardedOnce ==
  ASSUME NEW m, WellFormed(m), NEW st \in Methods(m), st.guarded, NEW n \in DOMAIN st.path
  PROVE  n = 1
<1>1. st.path \in Seq(m.statuses \cup {Same, Deleted}) /\ Len(st.path) = 1
  BY DEF WellFormed
<1> QED BY <1>1

\* What a method writes is a row of the machine.
LEMMA WrittenKind ==
  ASSUME NEW m, WellFormed(m), NEW st \in Methods(m) \cup Asides(m), NEW n \in DOMAIN st.path,
         NEW r, r \in RowsOf(m) \/ (r = NoRow /\ st.path[n] # Same)
  PROVE  Written(st, n, r) \in RowsOf(m)
<1>1. st.adds \subseteq Facts(m)
  BY DEF Facts
<1>2. r.has \subseteq Facts(m) /\ (r.status \in m.statuses \cup {Deleted} \/ st.path[n] # Same)
  BY DEF RowsOf, NoRow, Row
<1>3. st.path[n] \in m.statuses \cup {Same, Deleted}
  BY PathKind
<1> QED BY <1>1, <1>2, <1>3 DEF Written, Row, RowsOf

\* The method keeps the promises of a row on which it was accepted.
LEMMA MethodKeeps ==
  ASSUME NEW m, KeepsPromises(m), NEW st \in Methods(m), NEW n \in DOMAIN st.path,
         NEW r, NEW done, Sound(m, r, done), done \subseteq Promised(m),
         {st.op} \cap Promised(m) \subseteq done,
         Ready(st, n, r) \/ (st.columns /\ ~st.guarded)
  PROVE  Kept(m, Written(st, n, r), done)
BY DEF KeepsPromises, Sound

\* So does the step that puts another row aside.
LEMMA AsideKeeps ==
  ASSUME NEW m, WellFormed(m), KeepsPromises(m), NEW st \in Asides(m),
         NEW r, NEW done, Sound(m, r, done), done \subseteq Promised(m), Accepts(st, r)
  PROVE  1 \in DOMAIN st.path /\ Kept(m, Written(st, 1, r), done)
<1>1. Len(st.path) = 1 /\ st.path \in Seq(m.statuses \cup {Same, Deleted})
  BY DEF WellFormed
<1>2. 1 \in DOMAIN st.path
  BY <1>1
<1>3. Ready(st, 1, r)
  BY DEF Ready
<1> QED BY <1>2, <1>3 DEF KeepsPromises, Sound

\* A copy that was saved for the n-th time is ready for the next save.
LEMMA NextReady ==
  ASSUME NEW m, WellFormed(m), NEW st \in Methods(m), NEW n \in DOMAIN st.path,
         n < Len(st.path), NEW r,
         (r = NoRow /\ st.needs = {}) \/ Ready(st, n, r)
  PROVE  Ready(st, n + 1, Written(st, n, r)) /\ Written(st, n, r).status # Deleted
<1>1. st.path[n] \in m.statuses /\ Same \notin m.statuses /\ Deleted \notin m.statuses /\ n \in Nat
      /\ Len(st.path) \in Nat /\ 1 <= n
  BY PathKind DEF WellFormed
<1>2. st.needs \subseteq r.has /\ st.lacks \cap r.has = {}
  BY DEF Ready, Accepts, NoRow, Row
<1>3. Written(st, n, r) = [status |-> st.path[n], has |-> r.has]
  BY <1>1 DEF Written, Row
<1> QED BY <1>1, <1>2, <1>3 DEF Ready

-----------------------------------------------------------------------------
\* Lemmas about a step.

\* Nothing a call relies on is lost when more methods are accepted.
LEMMA CallGrows ==
  ASSUME NEW m, NEW q, NEW a, NEW b, SoundCall(m, q, a), \A i \in Ids : a[i] \subseteq b[i]
  PROVE  SoundCall(m, q, b)
<1>1. \A i \in Ids : \A r : Sound(m, r, a[i]) => Sound(m, r, b[i])
  BY KeptGrows DEF Sound
<1>2. \A i \in q.todo : Sound(m, q.copy[i], b[i]) /\ {q.step.op} \cap Promised(m) \subseteq b[i]
  <2> SUFFICES ASSUME NEW i \in q.todo
               PROVE  Sound(m, q.copy[i], b[i]) /\ {q.step.op} \cap Promised(m) \subseteq b[i]
    OBVIOUS
  <2>1. i \in Ids /\ Sound(m, q.copy[i], a[i]) /\ {q.step.op} \cap Promised(m) \subseteq a[i]
    BY DEF SoundCall
  <2> QED BY <2>1, <1>1
<1>3. \A st \in q.step.aside, j \in q.other : Sound(m, q.copy[j], b[j])
  BY <1>1 DEF SoundCall
<1> QED BY <1>2, <1>3 DEF SoundCall

\* One call moves on, and some methods are accepted: the calls stay sound when that call does.
LEMMA CallMoves ==
  ASSUME IInv, NEW c \in Calls, NEW q, call' = [call EXCEPT ![c] = q],
         kind' = kind, \A i \in Ids : made[i] \subseteq made'[i],
         q.busy => SoundCall(M, q, made')
  PROVE  DOMAIN call' = Calls /\ CallsSound'
<1>1. DOMAIN call' = Calls /\ call'[c] = q /\ \A d \in Calls \ {c} : call'[d] = call[d]
  BY DEF IInv
<1>2. \A d \in Calls : call'[d].busy => SoundCall(Machines[kind], call'[d], made')
  <2> SUFFICES ASSUME NEW d \in Calls, call'[d].busy
               PROVE  SoundCall(Machines[kind], call'[d], made')
    OBVIOUS
  <2>1. CASE d = c
    BY <2>1, <1>1 DEF M
  <2>2. CASE d # c
    <3>1. SoundCall(Machines[kind], call[d], made) /\ call'[d] = call[d]
      BY <2>2, <1>1 DEF IInv, CallsSound, M
    <3> QED BY <3>1, CallGrows
  <2> QED BY <2>1, <2>2
<1> QED BY <1>1, <1>2 DEF CallsSound, M

\* The rows stay sound when those that are written are.
LEMMA RowsMove ==
  ASSUME IInv, kind' = kind,
         \A i \in Ids : made[i] \subseteq made'[i] /\ made'[i] \subseteq Promised(M),
         \A i \in Ids : \/ row'[i] = row[i]
                        \/ row'[i] \in RowsOf(M) /\ Kept(M, row'[i], made'[i])
  PROVE  RowsSound'
<1>1. \A i \in Ids : /\ row'[i] = NoRow \/ row'[i] \in RowsOf(Machines[kind])
                     /\ row'[i].status \notin {"none", Deleted} => Kept(Machines[kind], row'[i], made'[i])
  <2> SUFFICES ASSUME NEW i \in Ids
               PROVE  /\ row'[i] = NoRow \/ row'[i] \in RowsOf(Machines[kind])
                      /\ row'[i].status \notin {"none", Deleted} => Kept(Machines[kind], row'[i], made'[i])
    OBVIOUS
  <2>1. CASE row'[i] = row[i]
    BY <2>1, KeptGrows DEF IInv, RowsSound, Exists, M
  <2>2. CASE row'[i] \in RowsOf(M) /\ Kept(M, row'[i], made'[i])
    BY <2>2 DEF M
  <2> QED BY <2>1, <2>2
<1> QED BY <1>1 DEF RowsSound, Exists, M, NoRow

\* The machine of the rows is one of the table.
LEMMA MachineOfKind ==
  ASSUME IInv
  PROVE  WellFormed(M) /\ KeepsPromises(M) /\ KeepsFinal(M)
BY MachinesAssumption DEF IInv, M

\* A row that is there is a sound copy.
LEMMA RowIsSound ==
  ASSUME IInv, NEW i \in Ids, Exists(i)
  PROVE  Sound(M, row[i], made[i])
BY DEF IInv, RowsSound, Exists, Sound, NoRow, Row

\* What Noted adds is promised.
LEMMA NotedIsPromised ==
  ASSUME IInv, NEW i \in Ids, NEW op
  PROVE  /\ made[i] \subseteq Noted(i, op) /\ Noted(i, op) \subseteq Promised(M)
         /\ {op} \cap Promised(M) \subseteq Noted(i, op)
BY DEF IInv, RowsSound, Noted

-----------------------------------------------------------------------------
\* One lemma for each action.

LEMMA BeginKeeps == ASSUME IInv, NEW c \in Calls, Begin(c) PROVE IInv'
<1>1. PICK st \in M.fresh : call' = [call EXCEPT ![c] = Busy(st, {}, 0, <<>>, st.aside = {}, {})]
  BY DEF Begin
<1>2. kind' = kind /\ row' = row /\ made' = made
  BY DEF Begin
<1>3. SoundCall(M, Busy(st, {}, 0, <<>>, st.aside = {}, {}), made')
  BY DEF SoundCall, Busy, Methods
<1>4. DOMAIN call' = Calls /\ CallsSound'
  BY <1>1, <1>2, <1>3, CallMoves
<1>5. RowsSound'
  BY <1>2 DEF IInv, RowsSound, M, Exists
<1> QED BY <1>2, <1>4, <1>5 DEF IInv

LEMMA ReadKeeps == ASSUME IInv, NEW c \in Calls, Read(c) PROVE IInv'
<1>1. PICK st \in M.steps :
        \E todo \in IF st.all THEN {Fit(st)} ELSE {{i} : i \in Fit(st)} :
          /\ call' = [call EXCEPT ![c] =
               Busy(st, todo, 1, [i \in todo |-> row[i]], st.aside = {}, {})]
          /\ made' = [i \in Ids |-> IF i \in todo THEN Noted(i, st.op) ELSE made[i]]
  BY DEF Read
<1>2. PICK todo \in IF st.all THEN {Fit(st)} ELSE {{i} : i \in Fit(st)} :
          /\ call' = [call EXCEPT ![c] =
               Busy(st, todo, 1, [i \in todo |-> row[i]], st.aside = {}, {})]
          /\ made' = [i \in Ids |-> IF i \in todo THEN Noted(i, st.op) ELSE made[i]]
  BY <1>1
<1>3. kind' = kind /\ row' = row
  BY DEF Read
<1>4. todo \subseteq Fit(st) /\ (st.all \/ \A i, j \in todo : i = j)
  BY <1>2
<1>5. st \in Methods(M) /\ Len(st.path) > 0 /\ Len(st.path) \in Nat /\ 1 \in DOMAIN st.path
  BY MachineOfKind DEF WellFormed, Methods
<1>11. Len(st.path) > 1 => ~st.all
  BY <1>5, MachineOfKind, ManySaves
<1>6. \A i \in Ids : made[i] \subseteq made'[i] /\ made'[i] \subseteq Promised(M)
  BY <1>2, NotedIsPromised DEF IInv, RowsSound
<1>7. \A i \in todo : /\ i \in Ids /\ Accepts(st, row[i]) /\ Sound(M, row[i], made'[i])
                      /\ {st.op} \cap Promised(M) \subseteq made'[i]
  <2> SUFFICES ASSUME NEW i \in todo
               PROVE  /\ i \in Ids /\ Accepts(st, row[i]) /\ Sound(M, row[i], made'[i])
                      /\ {st.op} \cap Promised(M) \subseteq made'[i]
    OBVIOUS
  <2>1. i \in Ids /\ Exists(i) /\ Accepts(st, row[i])
    BY <1>4 DEF Fit
  <2>2. Sound(M, row[i], made[i])
    BY <2>1, RowIsSound
  <2>3. Sound(M, row[i], made'[i])
    BY <2>1, <2>2, <1>6, KeptGrows DEF Sound
  <2>4. made'[i] = Noted(i, st.op)
    BY <2>1, <1>2
  <2> QED BY <2>1, <2>3, <2>4, NotedIsPromised
<1> DEFINE q == Busy(st, todo, 1, [i \in todo |-> row[i]], st.aside = {}, {})
<1>8. SoundCall(M, q, made')
  <2>1. /\ q.step = st /\ q.todo = todo /\ q.at = 1 /\ q.other = {}
        /\ q.copy = [i \in todo |-> row[i]]
    BY DEF Busy
  <2> HIDE DEF q
  <2>2. \A i \in todo : q.copy[i] = row[i]
    BY <2>1
  <2>3. \A i \in todo : Ready(st, 1, row[i])
    BY <1>7 DEF Ready
  <2>4. \A i \in q.todo :
          /\ Sound(M, q.copy[i], made'[i]) /\ Ready(q.step, q.at, q.copy[i])
          /\ {q.step.op} \cap Promised(M) \subseteq made'[i]
    BY <1>7, <2>1, <2>2, <2>3
  <2>5. q.todo \subseteq Ids /\ q.todo \subseteq DOMAIN q.copy
    BY <1>7, <2>1
  <2>6. Len(q.step.path) > 1 => \A i, j \in q.todo : i = j
    <3>2. Len(st.path) > 1 => \A i, j \in todo : i = j
      BY <1>4, <1>11, Zenon
    <3> QED BY <3>2, <2>1
  <2> QED BY <1>5, <2>1, <2>4, <2>5, <2>6 DEF SoundCall
<1>9. DOMAIN call' = Calls /\ CallsSound'
  <2> HIDE DEF q
  <2>1. call' = [call EXCEPT ![c] = q]
    BY <1>2 DEF q
  <2> QED BY <2>1, <1>3, <1>6, <1>8, CallMoves
<1>10. RowsSound'
  BY <1>3, <1>6, RowsMove
<1> QED BY <1>2, <1>3, <1>9, <1>10 DEF IInv

LEMMA CreateKeeps == ASSUME IInv, NEW c \in Calls, Create(c) PROVE IInv'
<1> DEFINE st == call[c].step
<1>1. PICK i \in Ids :
        /\ row[i] = NoRow
        /\ row' = [row EXCEPT ![i] = Written(st, 1, NoRow)]
        /\ made' = [made EXCEPT ![i] = Noted(i, st.op)]
        /\ call' = [call EXCEPT ![c] =
             IF Len(st.path) = 1 THEN Idle
             ELSE Busy(st, {i}, 2, [j \in {i} |-> row'[j]], TRUE, {})]
  BY DEF Create
<1>2. kind' = kind /\ call[c].busy /\ call[c].at = 0
  BY DEF Create, AsideDone
<1>3. st \in M.fresh /\ st \in Methods(M)
  BY <1>2 DEF IInv, CallsSound, SoundCall
<1> HIDE DEF st
<1>4. WellFormed(M) /\ KeepsPromises(M)
  BY MachineOfKind
<1>5. /\ st.path \in Seq(M.statuses \cup {Same, Deleted}) /\ 1 \in DOMAIN st.path
      /\ \A n \in DOMAIN st.path : st.path[n] \in M.statuses
      /\ Len(st.path) \in Nat /\ st.needs = {}
  BY <1>3, <1>4 DEF WellFormed, Methods
<1>6. \A j \in Ids : made[j] \subseteq made'[j] /\ made'[j] \subseteq Promised(M)
  BY <1>1, NotedIsPromised DEF IInv, RowsSound
<1>7. made'[i] = Noted(i, st.op) /\ row'[i] = Written(st, 1, NoRow)
      /\ {st.op} \cap Promised(M) \subseteq made'[i]
  BY <1>1, NotedIsPromised DEF IInv
<1>8. row'[i] \in RowsOf(M)
  BY <1>3, <1>4, <1>5, <1>7, WrittenKind DEF WellFormed
<1>9. Kept(M, row'[i], made'[i])
  <2>1. Kept(M, Written(st, 1, NoRow), {st.op} \cap Promised(M))
    BY <1>3, <1>4 DEF KeepsPromises, NoRow
  <2> QED BY <2>1, <1>7, KeptGrows
<1>10. RowsSound'
  <2>1. \A j \in Ids : j # i => row'[j] = row[j]
    BY <1>1 DEF IInv
  <2> QED BY <2>1, <1>2, <1>6, <1>8, <1>9, RowsMove
<1>11. DOMAIN call' = Calls /\ CallsSound'
  <2>1. CASE Len(st.path) = 1
    <3>1. call' = [call EXCEPT ![c] = Idle]
      BY <1>1, <2>1
    <3> QED BY <3>1, <1>2, <1>6, CallMoves DEF Idle
  <2>2. CASE Len(st.path) # 1
    <3> DEFINE q == Busy(st, {i}, 2, [j \in {i} |-> row'[j]], TRUE, {})
    <3>1. call' = [call EXCEPT ![c] = q]
      BY <1>1, <2>2
    <3>2. /\ q.step = st /\ q.todo = {i} /\ q.at = 2 /\ q.other = {}
          /\ DOMAIN q.copy = {i} /\ q.copy[i] = row'[i]
      BY DEF Busy
    <3> HIDE DEF q
    <3>3. 1 < Len(st.path) /\ 2 \in DOMAIN st.path
      BY <1>5, <2>2, SecondOne
    <3>4. Ready(st, 2, row'[i]) /\ row'[i].status # Deleted
      BY <1>3, <1>4, <1>5, <1>7, <3>3, NextReady
    <3>5. Sound(M, row'[i], made'[i])
      BY <1>8, <1>9, <3>4 DEF Sound
    <3>6. SoundCall(M, q, made')
      BY <1>3, <1>7, <3>2, <3>3, <3>4, <3>5 DEF SoundCall
    <3> QED BY <3>1, <3>6, <1>2, <1>6, CallMoves
  <2> QED BY <2>1, <2>2
<1> QED BY <1>1, <1>2, <1>10, <1>11 DEF IInv

LEMMA FindKeeps == ASSUME IInv, NEW c \in Calls, Find(c) PROVE IInv'
<1> DEFINE q == call[c]
<1>1. PICK st \in q.step.aside :
        \E other \in IF Fit(st) \ q.todo = {} THEN {{}} ELSE {{j} : j \in Fit(st) \ q.todo} :
          call' = [call EXCEPT ![c] =
            Busy(q.step, q.todo, q.at,
                 [i \in other \cup DOMAIN q.copy |-> IF i \in other THEN row[i] ELSE q.copy[i]],
                 TRUE, other)]
  BY DEF Find
<1>2. PICK other \in IF Fit(st) \ q.todo = {} THEN {{}} ELSE {{j} : j \in Fit(st) \ q.todo} :
          call' = [call EXCEPT ![c] =
            Busy(q.step, q.todo, q.at,
                 [i \in other \cup DOMAIN q.copy |-> IF i \in other THEN row[i] ELSE q.copy[i]],
                 TRUE, other)]
  BY <1>1
<1>3. other \subseteq Fit(st) \ q.todo
  BY <1>2
<1>4. kind' = kind /\ row' = row /\ made' = made /\ q.busy
  BY DEF Find
<1>5. SoundCall(M, q, made)
  BY <1>4 DEF IInv, CallsSound
<1> HIDE DEF q
<1> DEFINE p == Busy(q.step, q.todo, q.at,
                 [i \in other \cup DOMAIN q.copy |-> IF i \in other THEN row[i] ELSE q.copy[i]],
                 TRUE, other)
<1>6. /\ p.step = q.step /\ p.todo = q.todo /\ p.at = q.at /\ p.other = other
      /\ p.copy = [i \in other \cup DOMAIN q.copy |-> IF i \in other THEN row[i] ELSE q.copy[i]]
  BY DEF Busy
<1>7. call' = [call EXCEPT ![c] = p]
  BY <1>2
<1> HIDE DEF p
<1>8. \A i \in q.todo : p.copy[i] = q.copy[i] /\ i \in DOMAIN p.copy
  BY <1>3, <1>5, <1>6 DEF SoundCall
<1>9. \A j \in other : p.copy[j] = row[j] /\ j \in Ids /\ Exists(j) /\ Accepts(st, row[j])
  BY <1>3, <1>6 DEF Fit
<1>10. \A j \in other : Sound(M, row[j], made[j])
  BY <1>9, RowIsSound
<1>11. \A s \in q.step.aside : s = st
  BY <1>5, MachineOfKind DEF SoundCall, WellFormed
<1>12. SoundCall(M, p, made')
  <2>1. \A i \in p.todo :
          /\ Sound(M, p.copy[i], made'[i]) /\ Ready(p.step, p.at, p.copy[i])
          /\ {p.step.op} \cap Promised(M) \subseteq made'[i]
    BY <1>4, <1>5, <1>6, <1>8 DEF SoundCall
  <2>2. \A s \in p.step.aside, j \in p.other :
          j \in Ids /\ Sound(M, p.copy[j], made'[j]) /\ Accepts(s, p.copy[j])
    BY <1>4, <1>6, <1>9, <1>10, <1>11
  <2>3. p.todo \subseteq Ids /\ p.todo \subseteq DOMAIN p.copy
    BY <1>5, <1>6, <1>8 DEF SoundCall
  <2> QED BY <1>5, <1>6, <2>1, <2>2, <2>3 DEF SoundCall
<1>13. DOMAIN call' = Calls /\ CallsSound'
  BY <1>4, <1>7, <1>12, CallMoves
<1>14. RowsSound'
  BY <1>4, RowsMove DEF IInv, RowsSound
<1> QED BY <1>4, <1>13, <1>14 DEF IInv

LEMMA PutAsideKeeps == ASSUME IInv, NEW c \in Calls, PutAside(c) PROVE IInv'
<1> DEFINE q == call[c]
<1>1. PICK st \in q.step.aside, j \in q.other :
        row' = [row EXCEPT ![j] = Written(st, 1, q.copy[j])]
  BY DEF PutAside
<1>2. /\ kind' = kind /\ made' = made /\ q.busy
      /\ call' = [call EXCEPT ![c] = Busy(q.step, q.todo, q.at, q.copy, q.found, {})]
  BY DEF PutAside
<1>3. SoundCall(M, q, made)
  BY <1>2 DEF IInv, CallsSound
<1> HIDE DEF q
<1>4. WellFormed(M) /\ KeepsPromises(M)
  BY MachineOfKind
<1>5. st \in Asides(M)
  BY <1>3 DEF SoundCall, Asides
<1>6. j \in Ids /\ Sound(M, q.copy[j], made[j]) /\ Accepts(st, q.copy[j])
      /\ made[j] \subseteq Promised(M)
  BY <1>3 DEF SoundCall, IInv, RowsSound
<1>7. 1 \in DOMAIN st.path /\ Kept(M, Written(st, 1, q.copy[j]), made[j])
  BY <1>4, <1>5, <1>6, AsideKeeps
<1>8. Written(st, 1, q.copy[j]) \in RowsOf(M)
  BY <1>4, <1>5, <1>6, <1>7, WrittenKind DEF Sound
<1>9. RowsSound'
  <2>1. row'[j] = Written(st, 1, q.copy[j]) /\ \A i \in Ids : i # j => row'[i] = row[i]
    BY <1>1, <1>6 DEF IInv
  <2> QED BY <2>1, <1>2, <1>7, <1>8, RowsMove DEF IInv, RowsSound
<1> DEFINE p == Busy(q.step, q.todo, q.at, q.copy, q.found, {})
<1>10. /\ p.step = q.step /\ p.todo = q.todo /\ p.at = q.at /\ p.copy = q.copy /\ p.other = {}
       /\ call' = [call EXCEPT ![c] = p]
  BY <1>2 DEF Busy
<1> HIDE DEF p
<1>11. SoundCall(M, p, made')
  BY <1>2, <1>3, <1>10 DEF SoundCall
<1>12. DOMAIN call' = Calls /\ CallsSound'
  BY <1>2, <1>10, <1>11, CallMoves
<1> QED BY <1>1, <1>2, <1>9, <1>12 DEF IInv

LEMMA InsertKeeps == ASSUME IInv, NEW c \in Calls, Insert(c) PROVE IInv'
<1> DEFINE q == call[c]
<1>1. PICK r \in q.step.inserts, i \in Ids :
        /\ row[i] = NoRow
        /\ row' = [row EXCEPT ![i] = r]
        /\ made' = [made EXCEPT ![i] = Noted(i, q.step.op)]
  BY DEF Insert
<1>2. kind' = kind /\ q.busy /\ call' = [call EXCEPT ![c] = Idle]
  BY DEF Insert, AsideDone
<1>3. q.step \in Methods(M)
  BY <1>2 DEF IInv, CallsSound, SoundCall
<1> HIDE DEF q
<1>4. WellFormed(M) /\ KeepsPromises(M)
  BY MachineOfKind
<1>5. q.step \in M.steps /\ r \in RowsOf(M)
  BY <1>1, <1>3, <1>4 DEF WellFormed, Methods
<1>6. \A j \in Ids : made[j] \subseteq made'[j] /\ made'[j] \subseteq Promised(M)
  BY <1>1, NotedIsPromised DEF IInv, RowsSound
<1>7. Kept(M, r, made'[i])
  <2>1. Kept(M, r, {q.step.op} \cap Promised(M))
    BY <1>4, <1>5 DEF KeepsPromises
  <2>2. {q.step.op} \cap Promised(M) \subseteq made'[i]
    BY <1>1, NotedIsPromised DEF IInv
  <2> QED BY <2>1, <2>2, KeptGrows
<1>8. RowsSound'
  <2>1. row'[i] = r /\ \A j \in Ids : j # i => row'[j] = row[j]
    BY <1>1 DEF IInv
  <2> QED BY <2>1, <1>2, <1>5, <1>6, <1>7, RowsMove
<1>9. DOMAIN call' = Calls /\ CallsSound'
  BY <1>2, <1>6, CallMoves DEF Idle
<1> QED BY <1>1, <1>2, <1>8, <1>9 DEF IInv

LEMMA FailKeeps == ASSUME IInv, NEW c \in Calls, Fail(c) PROVE IInv'
<1>1. kind' = kind /\ row' = row /\ made' = made /\ call' = [call EXCEPT ![c] = Idle]
  BY DEF Fail
<1>2. DOMAIN call' = Calls /\ CallsSound'
  BY <1>1, CallMoves DEF Idle
<1>3. RowsSound'
  BY <1>1, RowsMove DEF IInv, RowsSound
<1> QED BY <1>1, <1>2, <1>3 DEF IInv

LEMMA SaveKeeps == ASSUME IInv, NEW c \in Calls, Save(c) PROVE IInv'
<1> DEFINE q == call[c]
<1>1. PICK i \in q.todo :
        /\ row' = IF Writes(q, i) THEN [row EXCEPT ![i] = Written(q.step, q.at, Target(q, i))]
                  ELSE row
        /\ call' = [call EXCEPT ![c] = After(q, i)]
  BY DEF Save
<1>2. kind' = kind /\ made' = made /\ q.busy /\ q.other = {}
  BY DEF Save, AsideDone
<1>3. SoundCall(M, q, made)
  BY <1>2 DEF IInv, CallsSound
<1> HIDE DEF q
<1>4. WellFormed(M) /\ KeepsPromises(M)
  BY MachineOfKind
<1>5. /\ i \in Ids /\ i \in DOMAIN q.copy /\ Sound(M, q.copy[i], made[i])
      /\ Ready(q.step, q.at, q.copy[i]) /\ q.step \in Methods(M) /\ q.at \in DOMAIN q.step.path
      /\ {q.step.op} \cap Promised(M) \subseteq made[i] /\ made[i] \subseteq Promised(M)
  BY <1>1, <1>3 DEF SoundCall, IInv, RowsSound
<1>6. Kept(M, Written(q.step, q.at, q.copy[i]), made[i])
      /\ Written(q.step, q.at, q.copy[i]) \in RowsOf(M)
  BY <1>4, <1>5, MethodKeeps, WrittenKind DEF Sound
<1>7. ASSUME Writes(q, i)
      PROVE  /\ Kept(M, Written(q.step, q.at, Target(q, i)), made[i])
             /\ Written(q.step, q.at, Target(q, i)) \in RowsOf(M)
  <2>1. CASE ~q.step.columns
    BY <2>1, <1>6 DEF Target
  <2>2. CASE q.step.columns
    <3>1. Exists(i) /\ (q.step.guarded => Accepts(q.step, row[i])) /\ Target(q, i) = row[i]
      BY <2>2, <1>7 DEF Writes, Target
    <3>2. Sound(M, row[i], made[i])
      BY <1>5, <3>1, RowIsSound
    <3>3. Ready(q.step, q.at, row[i]) \/ (q.step.columns /\ ~q.step.guarded)
      <4>1. CASE q.step.guarded
        <5>1. q.at = 1
          BY <4>1, <1>4, <1>5, GuardedOnce
        <5> QED BY <5>1, <4>1, <3>1 DEF Ready
      <4>2. CASE ~q.step.guarded
        BY <4>2, <2>2
      <4> QED BY <4>1, <4>2
    <3> QED BY <3>1, <3>2, <3>3, <1>4, <1>5, MethodKeeps, WrittenKind DEF Sound
  <2> QED BY <2>1, <2>2
<1>8. RowsSound'
  <2>1. \A j \in Ids : row'[j] = row[j] \/ (row'[j] \in RowsOf(M) /\ Kept(M, row'[j], made'[j]))
    BY <1>1, <1>2, <1>5, <1>7 DEF IInv
  <2> QED BY <2>1, <1>2, RowsMove DEF IInv, RowsSound
<1>9. After(q, i).busy => SoundCall(M, After(q, i), made')
  <2>1. CASE q.at < Len(q.step.path)
    <3> DEFINE copy == [q.copy EXCEPT ![i] = Written(q.step, q.at, q.copy[i])]
               p == Busy(q.step, q.todo, q.at + 1, copy, q.found, q.other)
    <3>1. After(q, i) = p
      BY <2>1 DEF After
    <3>2. /\ p.step = q.step /\ p.todo = q.todo /\ p.at = q.at + 1 /\ p.other = {}
          /\ p.copy = copy
      BY <1>2 DEF Busy
    <3>3. DOMAIN copy = DOMAIN q.copy /\ copy[i] = Written(q.step, q.at, q.copy[i])
      BY <1>5
    <3> HIDE DEF p, copy
    <3>4. /\ q.at \in Nat /\ 1 <= q.at /\ Len(q.step.path) \in Nat
          /\ q.at + 1 \in DOMAIN q.step.path
      BY <1>4, <1>5, <2>1, PathKind
    <3>5. \A j \in q.todo : j = i
      <4>1. Len(q.step.path) > 1
        BY <2>1, <3>4
      <4> QED BY <4>1, <1>1, <1>3 DEF SoundCall
    <3>6. Ready(q.step, q.at + 1, copy[i]) /\ copy[i].status # Deleted
      BY <1>4, <1>5, <2>1, <3>3, NextReady
    <3>7. Sound(M, copy[i], made'[i])
      BY <1>2, <1>6, <3>3, <3>6 DEF Sound
    <3>8. q.at + 1 # 0
      BY <3>4
    <3>9. \A j \in p.todo :
            /\ Sound(M, p.copy[j], made'[j]) /\ Ready(p.step, p.at, p.copy[j])
            /\ {p.step.op} \cap Promised(M) \subseteq made'[j]
      BY <1>2, <1>5, <3>2, <3>5, <3>6, <3>7
    <3>10. p.todo \subseteq Ids /\ p.todo \subseteq DOMAIN p.copy
      BY <1>3, <3>2, <3>3 DEF SoundCall
    <3>11. \A j, k \in p.todo : j = k
      BY <3>2, <3>5
    <3> QED BY <1>5, <3>1, <3>2, <3>4, <3>8, <3>9, <3>10, <3>11 DEF SoundCall
  <2>2. CASE ~(q.at < Len(q.step.path)) /\ q.todo = {i}
    BY <2>2 DEF After, Idle
  <2>3. CASE ~(q.at < Len(q.step.path)) /\ q.todo # {i}
    <3> DEFINE p == Busy(q.step, q.todo \ {i}, q.at, q.copy, q.found, q.other)
    <3>1. After(q, i) = p
      BY <2>3 DEF After
    <3>2. /\ p.step = q.step /\ p.todo = q.todo \ {i} /\ p.at = q.at /\ p.other = {}
          /\ p.copy = q.copy
      BY <1>2 DEF Busy
    <3> HIDE DEF p
    <3>3. SoundCall(M, p, made')
      BY <1>2, <1>3, <3>2 DEF SoundCall
    <3> QED BY <3>1, <3>3
  <2> QED BY <2>1, <2>2, <2>3
<1>10. DOMAIN call' = Calls /\ CallsSound'
  BY <1>1, <1>2, <1>9, CallMoves
<1> QED BY <1>1, <1>2, <1>8, <1>10 DEF IInv

-----------------------------------------------------------------------------
\* Calls that wait for each other.

\* There is one call at most, and its copies are the rows as they are.
SerialInv ==
  serial => \A c \in Calls : call[c].busy =>
    /\ \A d \in Calls : call[d].busy => d = c
    /\ \A i \in call[c].todo : row[i] = call[c].copy[i]
    /\ \A j \in call[c].other : row[j] = call[c].copy[j] /\ j \notin call[c].todo

\* The only call moves on, and its copies are the rows again.
LEMMA SerialMoves ==
  ASSUME IInv, SerialInv, serial' = serial, NEW c \in Calls, NEW q,
         call[c].busy \/ MayStart(c),
         call' = [call EXCEPT ![c] = q],
         serial /\ q.busy => /\ \A i \in q.todo : row'[i] = q.copy[i]
                            /\ \A j \in q.other : row'[j] = q.copy[j] /\ j \notin q.todo
  PROVE  SerialInv'
<1>1. DOMAIN call' = Calls /\ call'[c] = q /\ \A d \in Calls \ {c} : call'[d] = call[d]
  BY DEF IInv
<1>2. serial => \A d \in Calls \ {c} : ~call[d].busy
  BY DEF SerialInv, MayStart
<1>3. serial => \A d \in Calls : call'[d].busy => d = c
  BY <1>1, <1>2
<1> QED BY <1>1, <1>3 DEF SerialInv

LEMMA SerialInductive == IInv /\ SerialInv /\ [Next]_vars => SerialInv'
<1> SUFFICES ASSUME IInv, SerialInv, [Next]_vars PROVE SerialInv'
  OBVIOUS
<1>1. ASSUME NEW c \in Calls, Begin(c) PROVE SerialInv'
  <2>1. PICK st \in M.fresh : call' = [call EXCEPT ![c] = Busy(st, {}, 0, <<>>, st.aside = {}, {})]
    BY <1>1 DEF Begin
  <2>2. Busy(st, {}, 0, <<>>, st.aside = {}, {}).todo = {} /\ Busy(st, {}, 0, <<>>, st.aside = {}, {}).other = {}
    BY DEF Busy
  <2> QED BY <1>1, <2>1, <2>2, SerialMoves DEF Begin
<1>2. ASSUME NEW c \in Calls, Create(c) PROVE SerialInv'
  <2>1. PICK i \in Ids :
          call' = [call EXCEPT ![c] =
             IF Len(call[c].step.path) = 1 THEN Idle
             ELSE Busy(call[c].step, {i}, 2, [j \in {i} |-> row'[j]], TRUE, {})]
    BY <1>2 DEF Create
  <2>2. call[c].busy /\ serial' = serial
    BY <1>2 DEF Create, AsideDone
  <2>3. CASE Len(call[c].step.path) = 1
    BY <2>1, <2>2, <2>3, SerialMoves DEF Idle
  <2>4. CASE Len(call[c].step.path) # 1
    <3> DEFINE q == Busy(call[c].step, {i}, 2, [j \in {i} |-> row'[j]], TRUE, {})
    <3>1. call' = [call EXCEPT ![c] = q]
      BY <2>1, <2>4
    <3>2. q.todo = {i} /\ q.copy[i] = row'[i] /\ q.other = {}
      BY DEF Busy
    <3> HIDE DEF q
    <3> QED BY <2>2, <3>1, <3>2, SerialMoves
  <2> QED BY <2>3, <2>4
<1>3. ASSUME NEW c \in Calls, Read(c) PROVE SerialInv'
  <2>1. PICK st \in M.steps, todo \in SUBSET Ids :
          call' = [call EXCEPT ![c] =
            Busy(st, todo, 1, [i \in todo |-> row[i]], st.aside = {}, {})]
    BY <1>3 DEF Read, Fit
  <2> DEFINE q == Busy(st, todo, 1, [i \in todo |-> row[i]], st.aside = {}, {})
  <2>2. q.todo = todo /\ q.copy = [i \in todo |-> row[i]] /\ q.other = {}
    BY DEF Busy
  <2>3. call' = [call EXCEPT ![c] = q] /\ MayStart(c) /\ serial' = serial /\ row' = row
    BY <1>3, <2>1 DEF Read
  <2> HIDE DEF q
  <2> QED BY <2>2, <2>3, SerialMoves
<1>4. ASSUME NEW c \in Calls, Find(c) PROVE SerialInv'
  <2> DEFINE p == call[c]
  <2>0. PICK st \in p.step.aside :
          \E other \in IF Fit(st) \ p.todo = {} THEN {{}} ELSE {{j} : j \in Fit(st) \ p.todo} :
            call' = [call EXCEPT ![c] =
              Busy(p.step, p.todo, p.at,
                   [i \in other \cup DOMAIN p.copy |-> IF i \in other THEN row[i] ELSE p.copy[i]],
                   TRUE, other)]
    BY <1>4 DEF Find
  <2>1. PICK other \in IF Fit(st) \ p.todo = {} THEN {{}} ELSE {{j} : j \in Fit(st) \ p.todo} :
            call' = [call EXCEPT ![c] =
              Busy(p.step, p.todo, p.at,
                   [i \in other \cup DOMAIN p.copy |-> IF i \in other THEN row[i] ELSE p.copy[i]],
                   TRUE, other)]
    BY <2>0
  <2>7. other \cap p.todo = {}
    BY <2>1
  <2>2. p.busy /\ serial' = serial /\ row' = row
    BY <1>4 DEF Find
  <2>3. SoundCall(M, p, made) /\ (serial => \A i \in p.todo : row[i] = p.copy[i])
    BY <2>2 DEF IInv, CallsSound, SerialInv
  <2> HIDE DEF p
  <2> DEFINE q == Busy(p.step, p.todo, p.at,
                   [i \in other \cup DOMAIN p.copy |-> IF i \in other THEN row[i] ELSE p.copy[i]],
                   TRUE, other)
  <2>4. /\ q.todo = p.todo /\ q.other = other
        /\ q.copy = [i \in other \cup DOMAIN p.copy |-> IF i \in other THEN row[i] ELSE p.copy[i]]
        /\ call' = [call EXCEPT ![c] = q]
    BY <2>1 DEF Busy
  <2> HIDE DEF q
  <2>5. \A i \in p.todo : q.copy[i] = p.copy[i]
    BY <2>7, <2>3, <2>4 DEF SoundCall
  <2>6. \A j \in other : q.copy[j] = row[j] /\ j \notin p.todo
    BY <2>7, <2>4
  <2>8. serial /\ q.busy => /\ \A i \in q.todo : row'[i] = q.copy[i]
                           /\ \A k \in q.other : row'[k] = q.copy[k] /\ k \notin q.todo
    BY <2>2, <2>3, <2>4, <2>5, <2>6
  <2>9. call[c].busy
    BY <2>2 DEF p
  <2> QED BY <2>2, <2>4, <2>8, <2>9, SerialMoves
<1>5. ASSUME NEW c \in Calls, PutAside(c) PROVE SerialInv'
  <2> DEFINE p == call[c]
  <2>1. PICK st \in p.step.aside, j \in p.other : row' = [row EXCEPT ![j] = Written(st, 1, p.copy[j])]
    BY <1>5 DEF PutAside
  <2>2. /\ p.busy /\ serial' = serial
        /\ call' = [call EXCEPT ![c] = Busy(p.step, p.todo, p.at, p.copy, p.found, {})]
    BY <1>5 DEF PutAside
  <2>3. SoundCall(M, p, made)
        /\ (serial => j \notin p.todo /\ \A i \in p.todo : row[i] = p.copy[i])
    BY <2>1, <2>2 DEF IInv, CallsSound, SerialInv
  <2> HIDE DEF p
  <2> DEFINE q == Busy(p.step, p.todo, p.at, p.copy, p.found, {})
  <2>4. q.todo = p.todo /\ q.other = {} /\ q.copy = p.copy /\ call' = [call EXCEPT ![c] = q]
    BY <2>2 DEF Busy
  <2> HIDE DEF q
  <2>5. serial => \A i \in p.todo : row'[i] = p.copy[i]
    BY <2>1, <2>3 DEF IInv, SoundCall
  <2>6. serial /\ q.busy => /\ \A i \in q.todo : row'[i] = q.copy[i]
                           /\ \A k \in q.other : row'[k] = q.copy[k] /\ k \notin q.todo
    BY <2>4, <2>5
  <2>7. call[c].busy
    BY <2>2 DEF p
  <2> QED BY <2>2, <2>4, <2>6, <2>7, SerialMoves
<1>6. ASSUME NEW c \in Calls, Save(c) PROVE SerialInv'
  <2> DEFINE p == call[c]
  <2>1. PICK i \in p.todo :
          /\ row' = IF Writes(p, i) THEN [row EXCEPT ![i] = Written(p.step, p.at, Target(p, i))]
                    ELSE row
          /\ call' = [call EXCEPT ![c] = After(p, i)]
    BY <1>6 DEF Save
  <2>2. p.busy /\ p.other = {} /\ serial' = serial
    BY <1>6 DEF Save, AsideDone
  <2>3. SoundCall(M, p, made) /\ (serial => \A j \in p.todo : row[j] = p.copy[j])
    BY <2>2 DEF IInv, CallsSound, SerialInv
  <2> HIDE DEF p
  <2>4. i \in Ids /\ i \in DOMAIN p.copy /\ Sound(M, p.copy[i], made[i]) /\ p.step \in Methods(M)
        /\ p.at \in DOMAIN p.step.path
    BY <2>1, <2>3 DEF SoundCall
  <2>5. \A j \in Ids : j # i => row'[j] = row[j]
    BY <2>1, <2>4 DEF IInv
  <2> DEFINE q == After(p, i)
  <2>6. serial /\ q.busy => /\ \A j \in q.todo : row'[j] = q.copy[j]
                           /\ \A k \in q.other : row'[k] = q.copy[k] /\ k \notin q.todo
    <3>1. CASE p.at < Len(p.step.path)
      <4>1. /\ q.todo = p.todo /\ q.other = {}
            /\ q.copy = [p.copy EXCEPT ![i] = Written(p.step, p.at, p.copy[i])]
        BY <2>2, <3>1 DEF After, Busy
      <4> HIDE DEF q
      <4>2. Len(p.step.path) > 1
        BY <2>4, <3>1, MachineOfKind, PathKind
      <4>3. ~p.step.guarded
        BY <2>4, <4>2, MachineOfKind, ManySaves
      <4>4. serial => row[i] = p.copy[i] /\ Exists(i)
        BY <2>1, <2>3, <2>4, MachineOfKind DEF Sound, RowsOf, Exists, WellFormed
      <4>5. serial => row'[i] = Written(p.step, p.at, p.copy[i])
        BY <2>1, <2>4, <4>3, <4>4 DEF Writes, Target, IInv
      <4>6. \A j \in p.todo : j = i
        BY <2>1, <2>3, <4>2 DEF SoundCall
      <4> QED BY <2>4, <4>1, <4>5, <4>6
    <3>2. CASE ~(p.at < Len(p.step.path)) /\ p.todo = {i}
      BY <3>2 DEF After, Idle
    <3>3. CASE ~(p.at < Len(p.step.path)) /\ p.todo # {i}
      <4>1. q.todo = p.todo \ {i} /\ q.other = {} /\ q.copy = p.copy
        BY <2>2, <3>3 DEF After, Busy
      <4> HIDE DEF q
      <4>2. p.todo \subseteq Ids
        BY <2>3 DEF SoundCall
      <4> QED BY <2>3, <2>5, <4>1, <4>2
    <3> QED BY <3>1, <3>2, <3>3
  <2>7. call[c].busy
    BY <2>2 DEF p
  <2> HIDE DEF q
  <2>8. call' = [call EXCEPT ![c] = q]
    BY <2>1 DEF q
  <2> QED BY <2>2, <2>6, <2>7, <2>8, SerialMoves
<1>7. ASSUME NEW c \in Calls, Insert(c) \/ Fail(c) PROVE SerialInv'
  <2>1. call[c].busy /\ serial' = serial /\ call' = [call EXCEPT ![c] = Idle]
    BY <1>7 DEF Insert, Fail, AsideDone
  <2> QED BY <2>1, SerialMoves DEF Idle
<1>8. CASE UNCHANGED vars
  BY <1>8 DEF vars, SerialInv
<1> QED BY <1>1, <1>2, <1>3, <1>4, <1>5, <1>6, <1>7, <1>8 DEF Next

-----------------------------------------------------------------------------
\* The theorems.

LEMMA InitSound == Init => IInv
BY DEF Init, IInv, RowsSound, CallsSound, Exists, NoRow, Row, Idle

LEMMA NextSound == IInv /\ [Next]_vars => IInv'
<1> SUFFICES ASSUME IInv, [Next]_vars PROVE IInv'
  OBVIOUS
<1>1. ASSUME NEW c \in Calls, Begin(c) \/ Create(c) \/ Read(c) \/ Find(c) PROVE IInv'
  BY <1>1, BeginKeeps, CreateKeeps, ReadKeeps, FindKeeps
<1>2. ASSUME NEW c \in Calls, PutAside(c) \/ Save(c) \/ Insert(c) \/ Fail(c) PROVE IInv'
  BY <1>2, PutAsideKeeps, SaveKeeps, InsertKeeps, FailKeeps
<1>3. CASE UNCHANGED vars
  BY <1>3 DEF IInv, RowsSound, CallsSound, vars, M, Exists
<1> QED BY <1>1, <1>2, <1>3 DEF Next

LEMMA Inductive == Spec => []IInv
BY InitSound, NextSound, PTL DEF Spec

\* The rows and the copies of calls have statuses of the column, and a call saves copies
\* it has.
THEOREM TypeCorrect == Spec => []TypeOK
<1>1. IInv => TypeOK
  <2> SUFFICES ASSUME IInv PROVE TypeOK
    OBVIOUS
  <2>1. \A i \in Ids : row[i] = NoRow \/ row[i].status \in M.statuses \cup {Deleted}
    BY DEF IInv, RowsSound, RowsOf
  <2>2. ASSUME NEW c \in Calls, call[c].busy
        PROVE  /\ call[c].todo \subseteq DOMAIN call[c].copy
               /\ call[c].at \in 0..Len(call[c].step.path)
    <3>1. SoundCall(M, call[c], made)
      BY <2>2 DEF IInv, CallsSound
    <3>2. call[c].step \in Methods(M) /\ call[c].todo \subseteq DOMAIN call[c].copy
      BY <3>1 DEF SoundCall
    <3>3. call[c].step.path \in Seq(M.statuses \cup {Same, Deleted})
      BY <3>2, MachineOfKind DEF WellFormed
    <3>4. call[c].at = 0 \/ call[c].at \in DOMAIN call[c].step.path
      BY <3>1 DEF SoundCall
    <3> QED BY <3>2, <3>3, <3>4
  <2> QED BY <2>1, <2>2 DEF TypeOK
<1> QED BY <1>1, Inductive, PTL

\* Every status keeps its promises, whatever calls overlap and whichever of them fail: the
\* saves of stale copies that the services make bring back old rows, never a status
\* without what stands behind it.
THEOREM StatusKeepsPromises == Spec => []PromisesKept
<1>1. IInv => PromisesKept
  BY DEF IInv, RowsSound, PromisesKept
<1> QED BY <1>1, Inductive, PTL

LEMMA FinalStays ==
  ASSUME IInv, SerialInv, [Next]_vars, serial, NEW i \in Ids, row[i].status \in M.final
  PROVE  row'[i].status = row[i].status
<1>1. /\ M.final \subseteq M.statuses /\ WellFormed(M) /\ KeepsFinal(M)
  BY MachineOfKind DEF KeepsFinal
<1>2. Exists(i) /\ row[i] # NoRow
  BY <1>1 DEF WellFormed, Exists, NoRow, Row
<1>3. row[i] \in RowsOf(M)
  BY <1>2 DEF IInv, RowsSound
<1>4. ASSUME NEW c \in Calls, Create(c) \/ Insert(c) PROVE row'[i] = row[i]
  <2>1. PICK j \in Ids : \E r : row[j] = NoRow /\ row' = [row EXCEPT ![j] = r]
    BY <1>4 DEF Create, Insert
  <2> QED BY <2>1, <1>2 DEF IInv
<1>5. ASSUME NEW c \in Calls, PutAside(c) PROVE row'[i].status = row[i].status
  <2> DEFINE p == call[c]
  <2>1. PICK st \in p.step.aside, j \in p.other : row' = [row EXCEPT ![j] = Written(st, 1, p.copy[j])]
    BY <1>5 DEF PutAside
  <2>2. p.busy
    BY <1>5 DEF PutAside
  <2>3. SoundCall(M, p, made) /\ row[j] = p.copy[j]
    BY <2>1, <2>2 DEF IInv, CallsSound, SerialInv
  <2> HIDE DEF p
  <2>4. st \in Asides(M) /\ j \in Ids /\ Accepts(st, p.copy[j])
    BY <2>1, <2>3 DEF SoundCall, Asides
  <2>5. CASE j = i
    <3>1. Ready(st, 1, row[i]) /\ 1 \in DOMAIN st.path
      <4>1. st.path \in Seq(M.statuses \cup {Same, Deleted}) /\ Len(st.path) = 1
        BY <1>1, <2>4 DEF WellFormed
      <4> QED BY <4>1, <2>3, <2>4, <2>5 DEF Ready
    <3>2. Written(st, 1, row[i]).status = row[i].status
      BY <1>1, <1>3, <2>4, <3>1 DEF KeepsFinal
    <3> QED BY <2>1, <2>3, <2>5, <3>2 DEF IInv
  <2>6. CASE j # i
    BY <2>1, <2>6 DEF IInv
  <2> QED BY <2>5, <2>6
<1>6. ASSUME NEW c \in Calls, Save(c) PROVE row'[i].status = row[i].status
  <2> DEFINE p == call[c]
  <2>1. PICK j \in p.todo :
          row' = IF Writes(p, j) THEN [row EXCEPT ![j] = Written(p.step, p.at, Target(p, j))] ELSE row
    BY <1>6 DEF Save
  <2>2. p.busy
    BY <1>6 DEF Save, AsideDone
  <2>3. SoundCall(M, p, made) /\ row[j] = p.copy[j]
    BY <2>1, <2>2 DEF IInv, CallsSound, SerialInv
  <2> HIDE DEF p
  <2>4. /\ p.step \in Methods(M) /\ p.at \in DOMAIN p.step.path /\ j \in Ids
        /\ Ready(p.step, p.at, row[j]) /\ Target(p, j) = row[j]
    BY <2>1, <2>3 DEF SoundCall, Target
  <2>5. CASE j = i
    <3>1. Written(p.step, p.at, row[i]).status = row[i].status
      BY <1>1, <1>3, <2>4, <2>5 DEF KeepsFinal
    <3> QED BY <2>1, <2>4, <2>5, <3>1 DEF IInv
  <2>6. CASE j # i
    BY <2>1, <2>6 DEF IInv
  <2> QED BY <2>5, <2>6
<1>7. ASSUME NEW c \in Calls, Begin(c) \/ Read(c) \/ Find(c) \/ Fail(c) PROVE row' = row
  BY <1>7 DEF Begin, Read, Find, Fail
<1>8. CASE UNCHANGED vars
  BY <1>8 DEF vars
<1> QED BY <1>4, <1>5, <1>6, <1>7, <1>8 DEF Next

\* While calls wait for each other no method leaves a final status: a revoked token, an
\* archived exam or a rejected change stays that.
LEMMA FinalStaysFinal == Spec => FinalWhenSerial
<1>1. Init => SerialInv
  BY DEF Init, SerialInv, Idle
<1>2. Spec => []SerialInv
  BY <1>1, Inductive, SerialInductive, PTL DEF Spec
<1>3. IInv /\ SerialInv /\ [Next]_vars =>
        [serial => \A i \in Ids : row[i].status \in M.final => row'[i].status = row[i].status]_vars
  BY FinalStays
<1> QED BY <1>2, <1>3, Inductive, PTL DEF Spec, FinalWhenSerial

-----------------------------------------------------------------------------
\* One row at most in a status that is to be single.

\* What the call of q knows of the rows R: a method that brings a row into such a status
\* takes one row, and once it has looked, no row is there but its own and the other it found.
Alone(m, q, R) ==
  /\ ~q.found => q.other = {}
  /\ \A i, j \in q.other : i = j
  /\ Brings(m, q.step) => \A i, j \in q.todo : i = j
  /\ Brings(m, q.step) /\ (q.found \/ m.single \subseteq q.step.unless) =>
       \A i \in Ids : R[i].status \in m.single => i \in q.todo \cup q.other

OneIsThere(m, R) ==
  \A i, j \in Ids : R[i].status \in m.single /\ R[j].status \in m.single => i = j

OneInv ==
  serial /\ M.single # {} =>
    OneIsThere(M, row) /\ \A c \in Calls : call[c].busy => Alone(M, call[c], row)

LEMMA OneOfKind ==
  ASSUME IInv, M.single # {}
  PROVE  /\ M.single \subseteq M.statuses
         /\ \A st \in Methods(M) :
              Brings(M, st) => ~st.all /\ (M.single \subseteq st.unless \/ st.aside # {})
         /\ \A st \in Asides(M) :
              /\ st.from = M.single /\ st.needs = {} /\ st.lacks = {}
              /\ st.path[1] \notin M.single \cup {Same}
         /\ \A st \in M.steps : \A r \in st.inserts : r.status \notin M.single
BY MachinesAssumption DEF IInv, M, KeepsOne

\* The only call moves on.
LEMMA OneMoves ==
  ASSUME IInv, SerialInv, OneInv, serial' = serial, kind' = kind, NEW c \in Calls, NEW q,
         call[c].busy \/ MayStart(c),
         call' = [call EXCEPT ![c] = q],
         serial /\ M.single # {} => OneIsThere(M, row') /\ (q.busy => Alone(M, q, row'))
  PROVE  OneInv'
<1>1. DOMAIN call' = Calls /\ call'[c] = q /\ \A d \in Calls \ {c} : call'[d] = call[d]
  BY DEF IInv
<1>2. serial => \A d \in Calls \ {c} : ~call[d].busy
  BY DEF SerialInv, MayStart
<1>3. serial => \A d \in Calls : call'[d].busy => d = c
  BY <1>1, <1>2
<1>4. M' = M
  BY DEF M
<1>5. serial /\ M.single # {} =>
        OneIsThere(M, row') /\ \A d \in Calls : call'[d].busy => Alone(M, call'[d], row')
  BY <1>1, <1>3
<1> QED BY <1>4, <1>5 DEF OneInv

\* Beginning, and reading: a method that looks first finds no row there.
LEMMA OneStartsWith ==
  ASSUME IInv, SerialInv, OneInv, NEW c \in Calls, MayStart(c),
         serial' = serial, kind' = kind, row' = row,
         NEW st \in Methods(M), NEW q, call' = [call EXCEPT ![c] = q],
         q.step = st, q.other = {}, q.found => st.aside = {},
         Free(st), st.all \/ \A i, j \in q.todo : i = j
  PROVE  OneInv'
<1>1. ASSUME serial, M.single # {} PROVE OneIsThere(M, row') /\ Alone(M, q, row')
  <2>1. OneIsThere(M, row)
    BY <1>1 DEF OneInv
  <2>2. Brings(M, st) => ~st.all /\ (M.single \subseteq st.unless \/ st.aside # {})
    BY <1>1, OneOfKind
  <2>3. M.single \subseteq st.unless => \A i \in Ids : row[i].status \notin M.single
    BY DEF Free
  <2>4. Brings(M, st) => \A i, j \in q.todo : i = j
    BY <2>2
  <2>5. Brings(M, st) /\ (q.found \/ M.single \subseteq st.unless) =>
          \A i \in Ids : row[i].status \notin M.single
    BY <2>2, <2>3
  <2> QED BY <2>1, <2>4, <2>5 DEF Alone
<1>2. serial /\ M.single # {} => OneIsThere(M, row') /\ (q.busy => Alone(M, q, row'))
  BY <1>1
<1> QED BY <1>2, OneMoves

LEMMA OneStarts ==
  ASSUME IInv, SerialInv, OneInv, NEW c \in Calls, Begin(c) \/ Read(c) PROVE OneInv'
<1>1. MayStart(c) /\ serial' = serial /\ kind' = kind /\ row' = row
  BY DEF Begin, Read
<1>2. CASE Begin(c)
  <2>1. PICK st \in M.fresh :
          Free(st) /\ call' = [call EXCEPT ![c] = Busy(st, {}, 0, <<>>, st.aside = {}, {})]
    BY <1>2 DEF Begin
  <2> DEFINE q == Busy(st, {}, 0, <<>>, st.aside = {}, {})
  <2>2. q.step = st /\ q.other = {} /\ (q.found => st.aside = {})
        /\ \A i, j \in q.todo : i = j
    BY DEF Busy
  <2>3. st \in Methods(M) /\ Free(st) /\ call' = [call EXCEPT ![c] = q]
    BY <2>1 DEF Methods
  <2> HIDE DEF q
  <2> QED BY <1>1, <2>2, <2>3, OneStartsWith
<1>3. CASE Read(c)
  <2>1. PICK st \in M.steps :
          \E todo \in IF st.all THEN {Fit(st)} ELSE {{i} : i \in Fit(st)} :
            /\ Free(st)
            /\ call' = [call EXCEPT ![c] =
                 Busy(st, todo, 1, [i \in todo |-> row[i]], st.aside = {}, {})]
    BY <1>3 DEF Read
  <2>2. PICK todo \in IF st.all THEN {Fit(st)} ELSE {{i} : i \in Fit(st)} :
            /\ Free(st)
            /\ call' = [call EXCEPT ![c] =
                 Busy(st, todo, 1, [i \in todo |-> row[i]], st.aside = {}, {})]
    BY <2>1
  <2> DEFINE q == Busy(st, todo, 1, [i \in todo |-> row[i]], st.aside = {}, {})
  <2>3. st.all \/ \A i, j \in todo : i = j
    BY <2>2
  <2>4. q.step = st /\ q.todo = todo /\ q.other = {} /\ (q.found => st.aside = {})
    BY DEF Busy
  <2>5. st \in Methods(M) /\ Free(st) /\ call' = [call EXCEPT ![c] = q]
    BY <2>1, <2>2 DEF Methods
  <2> HIDE DEF q
  <2>6. st.all \/ \A i, j \in q.todo : i = j
    BY <2>3, <2>4
  <2> QED BY <1>1, <2>4, <2>5, <2>6, OneStartsWith
<1> QED BY <1>2, <1>3

\* Looking for the other row: the one that is there is found.
LEMMA OneFinds == ASSUME IInv, SerialInv, OneInv, NEW c \in Calls, Find(c) PROVE OneInv'
<1> DEFINE p == call[c]
<1>1. PICK st \in p.step.aside :
        \E other \in IF Fit(st) \ p.todo = {} THEN {{}} ELSE {{j} : j \in Fit(st) \ p.todo} :
          call' = [call EXCEPT ![c] =
            Busy(p.step, p.todo, p.at,
                 [i \in other \cup DOMAIN p.copy |-> IF i \in other THEN row[i] ELSE p.copy[i]],
                 TRUE, other)]
  BY DEF Find
<1>2. PICK other \in IF Fit(st) \ p.todo = {} THEN {{}} ELSE {{j} : j \in Fit(st) \ p.todo} :
        call' = [call EXCEPT ![c] =
          Busy(p.step, p.todo, p.at,
               [i \in other \cup DOMAIN p.copy |-> IF i \in other THEN row[i] ELSE p.copy[i]],
               TRUE, other)]
  BY <1>1
<1>3. \/ Fit(st) \ p.todo = {} /\ other = {}
      \/ \E j \in Fit(st) \ p.todo : other = {j}
  BY <1>2
<1>4. p.busy /\ serial' = serial /\ kind' = kind /\ row' = row
  BY DEF Find
<1>5. SoundCall(M, p, made) /\ st \in Asides(M)
  BY <1>4, <1>1 DEF IInv, CallsSound, SoundCall, Asides
<1> HIDE DEF p
<1> DEFINE q == Busy(p.step, p.todo, p.at,
               [i \in other \cup DOMAIN p.copy |-> IF i \in other THEN row[i] ELSE p.copy[i]],
               TRUE, other)
<1>6. q.step = p.step /\ q.todo = p.todo /\ q.found = TRUE /\ q.other = other
      /\ call' = [call EXCEPT ![c] = q]
  BY <1>2 DEF Busy
<1> HIDE DEF q
<1>7. ASSUME serial, M.single # {} PROVE OneIsThere(M, row') /\ Alone(M, q, row')
  <2>1. OneIsThere(M, row) /\ Alone(M, p, row)
    BY <1>4, <1>7 DEF OneInv, p
  <2>2. st.from = M.single /\ st.needs = {} /\ st.lacks = {} /\ M.single \subseteq M.statuses
    BY <1>5, <1>7, OneOfKind
  <2>3. \A i \in Ids : row[i].status \in M.single => i \in Fit(st)
    BY <2>2, MachineOfKind DEF WellFormed, Fit, Exists, Accepts
  <2>4. \A i \in Fit(st) : i \in Ids /\ row[i].status \in M.single
    BY <2>2 DEF Fit, Accepts
  <2>5. \A i \in Ids : row[i].status \in M.single => i \in p.todo \cup other
    BY <1>3, <2>1, <2>3, <2>4 DEF OneIsThere
  <2>6. \A i, j \in other : i = j
    BY <1>3
  <2> QED BY <1>4, <1>6, <2>1, <2>5, <2>6 DEF Alone
<1>8. call[c].busy
  BY <1>4 DEF p
<1> QED BY <1>4, <1>6, <1>7, <1>8, OneMoves

\* Putting it aside: it leaves the status, and no row is there but the call's own.
LEMMA OneSteps == ASSUME IInv, SerialInv, OneInv, NEW c \in Calls, PutAside(c) PROVE OneInv'
<1> DEFINE p == call[c]
<1>1. PICK st \in p.step.aside, j \in p.other : row' = [row EXCEPT ![j] = Written(st, 1, p.copy[j])]
  BY DEF PutAside
<1>2. /\ p.busy /\ serial' = serial /\ kind' = kind
      /\ call' = [call EXCEPT ![c] = Busy(p.step, p.todo, p.at, p.copy, p.found, {})]
  BY DEF PutAside
<1>3. SoundCall(M, p, made)
  BY <1>2 DEF IInv, CallsSound
<1> HIDE DEF p
<1>4. st \in Asides(M) /\ j \in Ids
  BY <1>1, <1>3 DEF SoundCall, Asides
<1> DEFINE q == Busy(p.step, p.todo, p.at, p.copy, p.found, {})
<1>5. q.step = p.step /\ q.todo = p.todo /\ q.found = p.found /\ q.other = {}
      /\ call' = [call EXCEPT ![c] = q]
  BY <1>2 DEF Busy
<1> HIDE DEF q
<1>6. ASSUME serial, M.single # {} PROVE OneIsThere(M, row') /\ Alone(M, q, row')
  <2>1. OneIsThere(M, row) /\ Alone(M, p, row)
    BY <1>2, <1>6 DEF OneInv, p
  <2>2. st.path[1] \notin M.single \cup {Same}
    BY <1>4, <1>6, OneOfKind
  <2>3. row'[j].status \notin M.single /\ \A i \in Ids : i # j => row'[i] = row[i]
    BY <1>1, <1>4, <2>2 DEF Written, Row, IInv
  <2>4. \A i \in Ids : row'[i].status \in M.single => i # j /\ row[i].status \in M.single
    BY <2>3
  <2>5. p.found /\ \A i \in p.other : i = j
    BY <1>1, <2>1 DEF Alone
  <2>6. OneIsThere(M, row')
    BY <2>1, <2>4 DEF OneIsThere
  <2>7. Brings(M, q.step) => \A i \in Ids : row'[i].status \in M.single => i \in q.todo
    BY <1>5, <2>1, <2>4, <2>5 DEF Alone
  <2> QED BY <1>5, <2>1, <2>6, <2>7 DEF Alone
<1>7. call[c].busy
  BY <1>2 DEF p
<1> QED BY <1>2, <1>5, <1>6, <1>7, OneMoves

\* Saving: a row that comes into the status is the call's own, and the only one there.
LEMMA OneSaves == ASSUME IInv, SerialInv, OneInv, NEW c \in Calls, Save(c) PROVE OneInv'
<1> DEFINE p == call[c]
<1>1. PICK i \in p.todo :
        /\ row' = IF Writes(p, i) THEN [row EXCEPT ![i] = Written(p.step, p.at, Target(p, i))]
                  ELSE row
        /\ call' = [call EXCEPT ![c] = After(p, i)]
  BY DEF Save
<1>2. p.busy /\ p.found /\ p.other = {} /\ serial' = serial /\ kind' = kind
  BY DEF Save, AsideDone
<1>3. SoundCall(M, p, made) /\ (serial => row[i] = p.copy[i])
  BY <1>1, <1>2 DEF IInv, CallsSound, SerialInv
<1> HIDE DEF p
<1>4. /\ i \in Ids /\ p.step \in Methods(M) /\ Ready(p.step, p.at, p.copy[i])
      /\ p.at # 0 /\ p.at \in DOMAIN p.step.path
  BY <1>1, <1>3 DEF SoundCall
<1>5. p.step.path[p.at] \in M.statuses \cup {Same, Deleted} /\ p.at \in Nat
  BY <1>4, MachineOfKind, PathKind
<1> DEFINE q == After(p, i)
<1>6. /\ q.busy => /\ q.step = p.step /\ q.todo \subseteq p.todo /\ q.found = p.found
                   /\ q.other = {}
                   /\ p.todo = {i} => q.todo = {i}
      /\ call' = [call EXCEPT ![c] = q]
  BY <1>1, <1>2 DEF After, Busy, Idle
<1> HIDE DEF q
<1>7. ASSUME serial, M.single # {} PROVE OneIsThere(M, row') /\ (q.busy => Alone(M, q, row'))
  <2>1. OneIsThere(M, row) /\ Alone(M, p, row)
    BY <1>2, <1>7 DEF OneInv, p
  <2>2. Target(p, i) = row[i] /\ row[i] = p.copy[i]
    BY <1>3, <1>7 DEF Target
  <2>3. \A k \in Ids : k # i => row'[k] = row[k]
    BY <1>1, <1>4 DEF IInv
  <2>4. row'[i] = row[i] \/ row'[i] = Written(p.step, p.at, row[i])
    BY <1>1, <1>4, <2>2 DEF IInv
  <2>5. CASE Brings(M, p.step)
    <3>1. p.todo = {i}
      BY <1>1, <2>1, <2>5 DEF Alone
    <3>2. \A k \in Ids : row'[k].status \in M.single => k = i
      BY <1>2, <2>1, <2>3, <2>5, <3>1 DEF Alone
    <3> QED BY <1>6, <3>1, <3>2 DEF OneIsThere, Alone
  <2>6. CASE ~Brings(M, p.step)
    <3>1. row'[i].status \in M.single => row[i].status \in M.single
      <4> SUFFICES ASSUME row'[i] = Written(p.step, p.at, row[i]), row'[i].status \in M.single,
                          p.step.path[p.at] # Same
                   PROVE  row[i].status \in M.single
        BY <2>4 DEF Written, Row
      <4>1. p.step.path[p.at] \in M.single
        BY DEF Written, Row
      <4>2. CASE p.at = 1
        <5>1. p.step.from \subseteq M.single
          BY <1>4, <2>6, <4>1, <4>2 DEF Brings
        <5> QED BY <1>4, <2>2, <4>2, <5>1 DEF Ready, Accepts
      <4>3. CASE p.at # 1
        <5>1. p.step.path[p.at - 1] \in M.single
          BY <1>4, <2>6, <4>1, <4>3 DEF Brings
        <5> QED BY <1>4, <2>2, <4>3, <5>1 DEF Ready
      <4> QED BY <4>2, <4>3
    <3>2. \A k \in Ids : row'[k].status \in M.single => row[k].status \in M.single
      BY <2>3, <3>1
    <3>3. OneIsThere(M, row')
      BY <2>1, <3>2 DEF OneIsThere
    <3> QED BY <1>6, <2>6, <3>3 DEF Alone
  <2> QED BY <2>5, <2>6
<1>8. call[c].busy
  BY <1>2 DEF p
<1> QED BY <1>2, <1>6, <1>7, <1>8, OneMoves

\* Inserting a new row: none is there yet when it is to come there.
LEMMA OneCreates == ASSUME IInv, SerialInv, OneInv, NEW c \in Calls, Create(c) PROVE OneInv'
<1> DEFINE p == call[c]
           st == p.step
<1>1. PICK i \in Ids :
        /\ row' = [row EXCEPT ![i] = Written(st, 1, NoRow)]
        /\ call' = [call EXCEPT ![c] =
             IF Len(st.path) = 1 THEN Idle
             ELSE Busy(st, {i}, 2, [j \in {i} |-> row'[j]], TRUE, {})]
  BY DEF Create
<1>2. p.busy /\ p.found /\ p.other = {} /\ p.at = 0 /\ serial' = serial /\ kind' = kind
  BY DEF Create, AsideDone
<1>3. st \in M.fresh /\ st \in Methods(M) /\ p.todo = {}
  BY <1>2 DEF IInv, CallsSound, SoundCall
<1> HIDE DEF p, st
<1>4. st.path \in Seq(M.statuses \cup {Same, Deleted}) /\ Len(st.path) > 0
      /\ \A n \in DOMAIN st.path : st.path[n] \in M.statuses
      /\ Same \notin M.statuses
  BY <1>3, MachineOfKind DEF WellFormed
<1>5. 1 \in DOMAIN st.path
  BY <1>4
<1>6. row'[i].status = st.path[1] /\ \A k \in Ids : k # i => row'[k] = row[k]
  BY <1>1, <1>4, <1>5 DEF Written, Row, IInv
<1> DEFINE q == IF Len(st.path) = 1 THEN Idle
                ELSE Busy(st, {i}, 2, [j \in {i} |-> row'[j]], TRUE, {})
<1>7. /\ q.busy => q.step = st /\ q.todo = {i} /\ q.found = TRUE /\ q.other = {}
      /\ call' = [call EXCEPT ![c] = q]
  BY <1>1 DEF Busy, Idle
<1> HIDE DEF q
<1>8. ASSUME serial, M.single # {} PROVE OneIsThere(M, row') /\ (q.busy => Alone(M, q, row'))
  <2>1. OneIsThere(M, row) /\ Alone(M, p, row)
    BY <1>2, <1>8 DEF OneInv, p
  <2>2. CASE Brings(M, st)
    <3>1. \A k \in Ids : row'[k].status \in M.single => k = i
      BY <1>2, <1>3, <1>6, <2>1, <2>2 DEF Alone, st
    <3> QED BY <1>7, <3>1 DEF OneIsThere, Alone
  <2>3. CASE ~Brings(M, st)
    <3>1. row'[i].status \notin M.single
      BY <1>3, <1>5, <1>6, <2>3 DEF Brings
    <3>2. \A k \in Ids : row'[k].status \in M.single => row[k].status \in M.single
      BY <1>6, <3>1
    <3>3. OneIsThere(M, row')
      BY <2>1, <3>2 DEF OneIsThere
    <3> QED BY <1>7, <2>3, <3>3 DEF Alone
  <2> QED BY <2>2, <2>3
<1>9. call[c].busy
  BY <1>2 DEF p
<1> QED BY <1>2, <1>7, <1>8, <1>9, OneMoves

\* A successor that is inserted is not there, and a call that fails leaves the rows.
LEMMA OneEnds == ASSUME IInv, SerialInv, OneInv, NEW c \in Calls, Insert(c) \/ Fail(c) PROVE OneInv'
<1>1. /\ call[c].busy /\ serial' = serial /\ kind' = kind
      /\ call' = [call EXCEPT ![c] = Idle]
  BY DEF Insert, Fail, AsideDone
<1>2. ASSUME serial, M.single # {} PROVE OneIsThere(M, row')
  <2>1. OneIsThere(M, row)
    BY <1>2 DEF OneInv
  <2>2. CASE Insert(c)
    <3>1. PICK r \in call[c].step.inserts, i \in Ids : row' = [row EXCEPT ![i] = r]
      BY <2>2 DEF Insert
    <3>2. call[c].step \in Methods(M)
      BY <1>1 DEF IInv, CallsSound, SoundCall
    <3>3. call[c].step \in M.steps
      BY <3>1, <3>2, MachineOfKind DEF WellFormed, Methods
    <3>4. r.status \notin M.single
      BY <1>2, <3>1, <3>3, OneOfKind
    <3>5. \A k \in Ids : row'[k].status \in M.single => row[k].status \in M.single
      BY <3>1, <3>4 DEF IInv
    <3> QED BY <2>1, <3>5 DEF OneIsThere
  <2>3. CASE Fail(c)
    BY <2>1, <2>3 DEF Fail
  <2> QED BY <2>2, <2>3
<1> QED BY <1>1, <1>2, OneMoves DEF Idle

LEMMA OneInductive == IInv /\ SerialInv /\ OneInv /\ [Next]_vars => OneInv'
<1> SUFFICES ASSUME IInv, SerialInv, OneInv, [Next]_vars PROVE OneInv'
  OBVIOUS
<1>1. CASE UNCHANGED vars
  BY <1>1 DEF OneInv, M, vars
<1> QED BY <1>1, OneStarts, OneCreates, OneFinds, OneSteps, OneSaves, OneEnds DEF Next

\* While calls wait for each other one version is published, one contact primary, one drawer
\* open at most: what the methods look for first is enough, in every table.
LEMMA OneAtATime == Spec => []OneWhenSerial
<1>1. Init => SerialInv /\ OneInv
  <2> SUFFICES ASSUME Init PROVE SerialInv /\ OneInv
    OBVIOUS
  <2>1. \A c \in Calls : ~call[c].busy
    BY DEF Init, Idle
  <2>2. ASSUME M.single # {} PROVE OneIsThere(M, row)
    <3>1. M.single \subseteq M.statuses /\ "none" \notin M.statuses
      BY <2>2, InitSound, OneOfKind, MachineOfKind DEF WellFormed
    <3>2. \A i \in Ids : row[i].status = "none"
      BY DEF Init, NoRow, Row
    <3> QED BY <3>1, <3>2 DEF OneIsThere
  <2> QED BY <2>1, <2>2 DEF SerialInv, OneInv
<1>2. IInv /\ OneInv => OneWhenSerial
  <2> SUFFICES ASSUME IInv, OneInv, serial
               PROVE  Cardinality({i \in Ids : row[i].status \in M.single}) <= 1
    BY DEF OneWhenSerial
  <2> DEFINE S == {i \in Ids : row[i].status \in M.single}
  <2>1. CASE S = {}
    BY <2>1, FS_EmptySet
  <2>2. CASE S # {}
    <3>1. PICK i \in S : S = {i}
      BY <2>2 DEF OneInv, OneIsThere
    <3> HIDE DEF S
    <3>2. Cardinality(S) = 1
      BY <3>1, FS_Singleton
    <3>3. Cardinality(S) <= 1
      BY <3>2
    <3> QED BY <3>3 DEF S
  <2> QED BY <2>1, <2>2
<1> QED BY <1>1, <1>2, Inductive, SerialInductive, OneInductive, PTL DEF Spec
=============================================================================
