----------------------------- MODULE Credentials ----------------------------
(***************************************************************************)
(* IdentityService and UserService for one phone number: registration, the *)
(* one-time code in Redis, login by password, and the password itself.     *)
(*                                                                         *)
(* Every query and every bcrypt call is awaited, and rows are saved from   *)
(* the copy a call has read; IdentityUser saves its credentials with it    *)
(* (cascade), so login() saves its copies of them twice.  Where            *)
(* serial is TRUE one call is served at a time, which the code does not    *)
(* ensure.                                                                 *)
(***************************************************************************)
EXTENDS Integers, FiniteSets

CONSTANTS
  Slots,       \* password credentials; the bound on how many are created
  Passwords,
  NoPassword,
  MaxFailures, \* failures after which a credential is locked, 5 in the code
  MaxWrong,    \* bound: logins with a wrong password
  Calls,
  Faulty

VARIABLES
  user,        \* status of the row in identity_users, "none" when there is none
  otp,         \* is the code in Redis?
  credential,  \* credentials of type PASSWORD
  login,       \* calls in progress
  history,     \* what was done: see Init
  serial       \* do calls wait for each other?

vars == <<user, otp, credential, login, history, serial>>

-----------------------------------------------------------------------------
NoRow == [hash |-> NoPassword, failures |-> 0, locked |-> FALSE]
Idle  == [pc |-> "idle"]

Stored      == {k \in Slots : credential[k] # NoRow}
Turn(c)     == login[c].pc = "idle" /\ (serial => \A d \in Calls : login[d].pc = "idle")
At(c, pc)   == login[c].pc = pc
Goto(c, pc) == login' = [login EXCEPT ![c] = [pc |-> pc]]
Done(c)     == login' = [login EXCEPT ![c] = Idle]

\* A call at pc with its copies of the credentials, about to save the row of k.
Holding(c, pc, k, rows) == login' = [login EXCEPT ![c] = [pc |-> pc, on |-> k, rows |-> rows]]

-----------------------------------------------------------------------------
\* register(): the phone number is looked for, the user is saved, the code is sent.
Register(c) ==
  /\ Turn(c) /\ user = "none"
  /\ Goto(c, "insert")
  /\ UNCHANGED <<user, otp, credential, history>>

\* The column of the phone number is unique.
InsertUser(c) ==
  /\ At(c, "insert")
  /\ IF user = "none" THEN user' = "pending" /\ Goto(c, "send")
     ELSE Done(c) /\ UNCHANGED user
  /\ UNCHANGED <<otp, credential, history>>

SendOtp(c) ==
  /\ At(c, "send")
  /\ otp' = TRUE
  /\ Done(c)
  /\ UNCHANGED <<user, credential, history>>

\* Redis drops the code after OTP_TTL_SECONDS.
Expire ==
  /\ otp
  /\ otp' = FALSE
  /\ UNCHANGED <<user, credential, login, history>>

\* verifyOtp() with the code that was sent: the user is activated, the code deleted,
\* then tokens are issued.
VerifyOtp(c) ==
  /\ Turn(c) /\ otp
  /\ Goto(c, "activate")
  /\ UNCHANGED <<user, otp, credential, history>>

Activate(c) ==
  /\ At(c, "activate")
  /\ user' = "active"
  /\ Goto(c, "forget")
  /\ UNCHANGED <<otp, credential, history>>

\* A variant: the code stays until it expires.
LeftInRedis(stored) == stored

Forgotten(stored) == FALSE

ForgetOtp(c) ==
  /\ At(c, "forget")
  /\ otp' = Forgotten(otp)
  /\ history' = [history EXCEPT !.verified = @ + 1]
  /\ Done(c)
  /\ UNCHANGED <<user, credential>>

-----------------------------------------------------------------------------
\* login() reads the user with the credentials, takes the first one, and compares.
Login(c) ==
  /\ Turn(c)
  /\ \E k \in Stored, p \in Passwords :
       IF p = credential[k].hash
       THEN Holding(c, "reset", k, credential) /\ UNCHANGED history
       ELSE /\ history.attempts < MaxWrong
            /\ Holding(c, "count", k, credential)
            /\ history' = [history EXCEPT !.attempts = @ + 1]
  /\ UNCHANGED <<user, otp, credential>>

\* A variant: locked one failure early.
CountedEarly(row) ==
  [row EXCEPT !.failures = @ + 1, !.locked = @ \/ row.failures + 2 >= MaxFailures]

\* The row that a wrong password saves; nothing in the code reads lockedUntil.
Counted(row) ==
  [row EXCEPT !.failures = @ + 1, !.locked = @ \/ row.failures + 1 >= MaxFailures]

CountFailure(c) ==
  /\ At(c, "count")
  /\ LET k == login[c].on IN credential' = [credential EXCEPT ![k] = Counted(login[c].rows[k])]
  /\ history' = [history EXCEPT !.wrong = @ + 1]
  /\ Done(c)
  /\ UNCHANGED <<user, otp>>

\* A variant: failures are counted over all logins.
Kept(row) == row

\* The row that the right password saves.
Cleared(row) == [row EXCEPT !.failures = 0]

ClearFailures(c) ==
  LET k == login[c].on
      row == Cleared(login[c].rows[k])
  IN /\ At(c, "reset")
     /\ credential' = [credential EXCEPT ![k] = row]
     /\ history' = [history EXCEPT !.wrong = 0]
     /\ Holding(c, "stamp", k, [login[c].rows EXCEPT ![k] = row])
     /\ UNCHANGED <<user, otp>>

\* lastLoginAt is saved with the user, and the user's credentials with it.  One that is
\* not among them would lose its user_id, which the column refuses: nothing is saved.
StampUser(c) ==
  LET rows == login[c].rows IN
  /\ At(c, "stamp")
  /\ credential' = IF \A k \in Stored : rows[k] # NoRow THEN rows ELSE credential
  /\ Done(c)
  /\ UNCHANGED <<user, otp, history>>

-----------------------------------------------------------------------------
\* setPassword() and changePassword() are for users with a token, and the first
\* token is that of verifyOtp().
SignedIn == history.verified > 0

\* A variant: a second password is inserted beside the first.
AnyPasswords == TRUE

\* No password is stored yet.
NonePassword == Stored = {}

SetPassword(c) ==
  /\ Turn(c) /\ SignedIn /\ user = "active" /\ NonePassword
  /\ Goto(c, "create")
  /\ UNCHANGED <<user, otp, credential, history>>

\* What the two methods leave: the password that was set, and no failure since.
PasswordSet(p) == [history EXCEPT !.password = p, !.wrong = 0]

InsertPassword(c) ==
  /\ At(c, "create")
  /\ \E k \in Slots \ Stored, p \in Passwords :
       /\ credential' = [credential EXCEPT ![k] = [NoRow EXCEPT !.hash = p]]
       /\ history' = PasswordSet(p)
  /\ Done(c)
  /\ UNCHANGED <<user, otp>>

\* The old password was right; the new one is hashed before the row is saved.
ChangePassword(c) ==
  /\ Turn(c) /\ SignedIn
  /\ \E k \in Stored, p \in Passwords :
       Holding(c, "change", k, [credential EXCEPT ![k] = [NoRow EXCEPT !.hash = p]])
  /\ UNCHANGED <<user, otp, credential, history>>

SavePassword(c) ==
  LET k == login[c].on IN
  /\ At(c, "change")
  /\ credential' = [credential EXCEPT ![k] = login[c].rows[k]]
  /\ history' = PasswordSet(login[c].rows[k].hash)
  /\ Done(c)
  /\ UNCHANGED <<user, otp>>

\* A query fails or the process dies: what was saved before stays.
Fail(c) ==
  /\ Faulty /\ ~At(c, "idle")
  /\ Done(c)
  /\ UNCHANGED <<user, otp, credential, history>>

Init ==
  /\ user = "none"
  /\ otp = FALSE
  /\ credential = [k \in Slots |-> NoRow]
  /\ login = [c \in Calls |-> Idle]
  /\ serial \in BOOLEAN
  /\ history = [verified |-> 0,            \* tokens issued for the code
                attempts |-> 0,            \* logins with a wrong password
                wrong    |-> 0,            \* those counted since the last right one
                password |-> NoPassword]   \* the last one that was set

Next ==
  /\ \/ Expire
     \/ \E c \in Calls :
          \/ Register(c) \/ InsertUser(c) \/ SendOtp(c) \/ VerifyOtp(c) \/ Activate(c)
          \/ ForgetOtp(c) \/ Login(c) \/ CountFailure(c) \/ ClearFailures(c) \/ StampUser(c)
          \/ SetPassword(c) \/ InsertPassword(c) \/ ChangePassword(c) \/ SavePassword(c)
          \/ Fail(c)
  /\ UNCHANGED serial

Spec == Init /\ [][Next]_vars

-----------------------------------------------------------------------------
TypeOK ==
  /\ user \in {"none", "pending", "active"} /\ otp \in BOOLEAN
  /\ credential \in [Slots -> [hash : Passwords \cup {NoPassword}, failures : 0..MaxWrong,
                               locked : BOOLEAN]]
  /\ \A c \in Calls : login[c].pc \in {"idle", "insert", "send", "activate", "forget",
                                       "count", "reset", "stamp", "create", "change"}

\* Whatever copies are saved over each other, a credential is locked only when that
\* many logins had a wrong password.
LockIsEarned == \A k \in Slots : credential[k].locked => history.attempts >= MaxFailures

\* Served one at a time, failed_attempts counts the wrong passwords since the last login
\* or change, whichever queries fail.
FailuresCounted == serial => \A k \in Stored : credential[k].failures = history.wrong

\* Served one at a time, the password that logs in is the one that was set last.
PasswordIsLastSet == serial => \A k \in Stored : credential[k].hash = history.password

\* Served one at a time, the code that was sent signs in once, whichever queries fail.
OtpUsedOnce == serial => history.verified <= 1
=============================================================================
