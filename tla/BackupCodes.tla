----------------------------- MODULE BackupCodes ----------------------------
(***************************************************************************)
(* MfaService for one user: the backup codes, kept as a list of hashes in  *)
(* the factor of type BACKUP_CODE.  A call reads a factor, compares hash   *)
(* after hash, and saves the factor it read.  Where serial is TRUE one     *)
(* call is served at a time, which nothing in the code ensures.            *)
(***************************************************************************)
EXTENDS Integers, FiniteSets, FiniteSetsExt

CONSTANTS
  Factors,  \* factors of that type; the bound on how many are created
  Codes,    \* the random codes; the bound on how many are drawn
  PerList,  \* codes in a list, 8 in the code
  Calls,
  Faulty

VARIABLES
  factor,   \* identity_mfa_factors of type BACKUP_CODE
  verifier, \* calls in progress
  drawn,    \* history: codes that were drawn
  handed,   \* history: the list handed out last
  used,     \* history: codes that were accepted
  serial    \* do calls wait for each other?

vars == <<factor, verifier, drawn, handed, used, serial>>

-----------------------------------------------------------------------------
NoRow == [stored |-> FALSE, list |-> {}]
Idle  == [pc |-> "idle"]

Stored  == {f \in Factors : factor[f].stored}
Turn(c) == verifier[c].pc = "idle" /\ (serial => \A d \in Calls : verifier[d].pc = "idle")

\* A call that is about to save the factor f with the list.
Holding(c, op, f, list, code) ==
  verifier' = [verifier EXCEPT ![c] =
                 [pc |-> "save", op |-> op, on |-> f, list |-> list, code |-> code]]

-----------------------------------------------------------------------------
\* setupMfaFactor() inserts a factor, of this type too, and has no list for it.
Setup(c) ==
  /\ Turn(c)
  /\ \E f \in Factors \ Stored : factor' = [factor EXCEPT ![f].stored = TRUE]
  /\ UNCHANGED <<verifier, drawn, handed, used>>

\* enableFactor() and disableFactor() save the factor they read; nothing here looks at
\* isActive.
Toggle(c) ==
  /\ Turn(c)
  /\ \E f \in Stored : Holding(c, "toggle", f, factor[f].list, {})
  /\ UNCHANGED <<factor, drawn, handed, used>>

\* generateBackupCodes() draws and hashes the codes, then looks for a factor.
Generate(c) ==
  /\ Turn(c)
  /\ \E list \in kSubset(PerList, Codes \ drawn) :
       /\ verifier' = [verifier EXCEPT ![c] = [pc |-> "find", list |-> list]]
       /\ drawn' = drawn \cup list
  /\ UNCHANGED <<factor, handed, used>>

\* The row that is replaced: one that is stored, any of them, or a new one.
FindFactor(c) ==
  /\ verifier[c].pc = "find"
  /\ \E f \in IF Stored = {} THEN Factors ELSE Stored :
       Holding(c, IF Stored = {} THEN "insert" ELSE "replace", f, verifier[c].list, {})
  /\ UNCHANGED <<factor, drawn, handed, used>>

\* A variant: the code stays in the list.
Unspent(list, code) == list

Spent(list, code) == list \ {code}

\* verifyBackupCode() with a code of the list; others change nothing.
Verify(c) ==
  /\ Turn(c)
  /\ \E f \in Stored : \E code \in factor[f].list :
       Holding(c, "verify", f, Spent(factor[f].list, code), {code})
  /\ UNCHANGED <<factor, drawn, handed, used>>

\* The save, after which the call answers: with the new codes, or that the code is right.
\* An inserted factor is a row of its own.
Save(c) ==
  LET call == verifier[c] IN
  /\ call.pc = "save"
  /\ \E f \in IF call.op = "insert" THEN Factors \ Stored ELSE {call.on} :
       factor' = [factor EXCEPT ![f] = [stored |-> TRUE, list |-> call.list]]
  /\ handed' = IF call.op \in {"insert", "replace"} THEN call.list ELSE handed
  /\ used' = used \cup call.code
  /\ verifier' = [verifier EXCEPT ![c] = Idle]
  /\ UNCHANGED drawn

\* A query fails or the process dies.
Fail(c) ==
  /\ Faulty /\ verifier[c].pc # "idle"
  /\ verifier' = [verifier EXCEPT ![c] = Idle]
  /\ UNCHANGED <<factor, drawn, handed, used>>

Init ==
  /\ factor = [f \in Factors |-> NoRow]
  /\ verifier = [c \in Calls |-> Idle]
  /\ drawn = {} /\ handed = {} /\ used = {}
  /\ serial \in BOOLEAN

Next ==
  /\ \E c \in Calls :
       Setup(c) \/ Toggle(c) \/ Generate(c) \/ FindFactor(c) \/ Verify(c) \/ Save(c) \/ Fail(c)
  /\ UNCHANGED serial

Spec == Init /\ [][Next]_vars

-----------------------------------------------------------------------------
TypeOK ==
  /\ factor \in [Factors -> [stored : BOOLEAN, list : SUBSET Codes]]
  /\ \A c \in Calls : verifier[c].pc \in {"idle", "find", "save"}
  /\ drawn \subseteq Codes /\ handed \subseteq drawn /\ used \subseteq drawn

OneFactor == Cardinality(Stored) <= 1

\* With one factor, the codes that are accepted are those handed out last: "Regenerate
\* backup codes (invalidates old ones)".
OldCodesAreInvalid == OneFactor => \A f \in Stored : factor[f].list \subseteq handed

\* Served one at a time and with one factor, a code that is accepted is of the list
\* handed out last, and was not accepted before, whichever queries fail.
CodesUsedOnce ==
  serial /\ OneFactor => \A f \in Stored : factor[f].list \subseteq handed \ used
=============================================================================
