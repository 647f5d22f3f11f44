------------------------------ MODULE SecretsProofs -------------------------
(***************************************************************************)
(* Theorems about the passwords, one-time codes and backup codes of        *)
(* Retail, for any number of rows and calls, with failing queries: what    *)
(* holds however calls overlap, and what holds of calls served in turn.    *)
(***************************************************************************)
EXTENDS RetailProofs

LoginPCs == {"idle", "insert", "send", "activate", "forget",
        "count", "reset", "stamp", "create", "change"}

\* Where a call holds copies of the credentials.
Copying == {"count", "reset", "stamp", "change"}

CredentialRow == [hash : Passwords \cup {NoPassword}, failures : Nat, locked : BOOLEAN]

LoginHistory == [verified : Nat, attempts : Nat, wrong : Nat,
                password : Passwords \cup {NoPassword}]

-----------------------------------------------------------------------------
\* The inductive invariant.

\* A row, stored or a copy, counts no more failures than the n wrong logins there were,
\* and is locked by enough of them.
Within(r, n) == r.failures <= n /\ (r.locked => n >= MaxFailures)

AllWithin(rows, n) == rows \in [Items -> CredentialRow] /\ \A k \in Items : Within(rows[k], n)

\* The failure a call is about to count is none of those in its copy.
SoundLogin(q, n) ==
  /\ q.pc \in LoginPCs
  /\ q.pc \in Copying => q.on \in Items /\ AllWithin(q.rows, n)
  /\ q.pc = "count" => q.rows[q.on].failures + 1 <= n

SigningIInv ==
  /\ user \in {"none", "pending", "active"} /\ otp \in BOOLEAN
  /\ history \in LoginHistory /\ history.attempts <= MaxWrong
  /\ AllWithin(credential, history.attempts)
  /\ DOMAIN login = FewCalls
  /\ \A c \in FewCalls : SoundLogin(login[c], history.attempts)

-----------------------------------------------------------------------------
\* What the n wrong logins justify, more of them justify.
LEMMA WithinMore ==
  ASSUME NEW rows, NEW m \in Nat, NEW n \in Nat, m <= n, AllWithin(rows, m)
  PROVE  AllWithin(rows, n)
<1>1. \A k \in Items : rows[k].failures \in Nat
  BY DEF AllWithin, CredentialRow
<1> QED BY <1>1, RetailBoundsAssumption DEF AllWithin, Within

\* A step in which c alone moves, and wrong logins do not become fewer.
LEMMA LoginMoves ==
  ASSUME SigningIInv, NEW c \in FewCalls,
         user' \in {"none", "pending", "active"}, otp' \in BOOLEAN,
         history' \in LoginHistory, history'.attempts <= MaxWrong,
         history.attempts <= history'.attempts,
         AllWithin(credential', history'.attempts),
         DOMAIN login' = FewCalls, \A d \in FewCalls : d # c => login'[d] = login[d],
         SoundLogin(login'[c], history'.attempts)
  PROVE  SigningIInv'
<1>1. history.attempts \in Nat /\ history'.attempts \in Nat
  BY DEF SigningIInv, LoginHistory
<1>2. ASSUME NEW d \in FewCalls, d # c PROVE SoundLogin(login'[d], history'.attempts)
  <2>1. SoundLogin(login[d], history.attempts) /\ login'[d] = login[d]
    BY <1>2 DEF SigningIInv
  <2>2. login[d].pc \in Copying => AllWithin(login[d].rows, history'.attempts)
    BY <2>1, <1>1, WithinMore DEF SoundLogin, SigningIInv
  <2>3. login[d].pc = "count" => login[d].rows[login[d].on].failures \in Nat
    BY <2>1 DEF SoundLogin, Copying, AllWithin, CredentialRow
  <2> QED BY <2>1, <2>2, <2>3, <1>1 DEF SoundLogin
<1> QED BY <1>2, RetailBoundsAssumption DEF SigningIInv

\* What stays in a step that leaves the history alone.
LEMMA LoginStays ==
  ASSUME SigningIInv
  PROVE  /\ history \in LoginHistory /\ history.attempts \in Nat
         /\ history.attempts <= history.attempts /\ history.attempts <= MaxWrong
         /\ AllWithin(credential, history.attempts) /\ DOMAIN login = FewCalls
         /\ user \in {"none", "pending", "active"} /\ otp \in BOOLEAN
  BY DEF SigningIInv, LoginHistory

\* Steps that neither hold copies afterwards nor touch a credential.
LEMMA PlainKeeps ==
  ASSUME SigningIInv, NEW c \in FewCalls, NEW pc \in LoginPCs \ Copying,
         SigningIn!Goto(c, pc) \/ SigningIn!Done(c),
         user' \in {"none", "pending", "active"}, otp' \in BOOLEAN, UNCHANGED credential,
         history' \in LoginHistory, history'.attempts = history.attempts
  PROVE  SigningIInv'
<1>1. /\ DOMAIN login' = FewCalls /\ \A d \in FewCalls : d # c => login'[d] = login[d]
      /\ login'[c].pc \in LoginPCs \ Copying
  BY DEF SigningIInv, SigningIn!Goto, SigningIn!Done, SigningIn!Idle, LoginPCs, Copying
<1>2. SoundLogin(login'[c], history'.attempts)
  BY <1>1 DEF SoundLogin, Copying
<1> QED BY <1>1, <1>2, LoginStays, LoginMoves

\* A row with its password just set has no failures.
LEMMA FreshRow ==
  ASSUME SigningIInv, NEW k \in Items, NEW p \in Passwords
  PROVE  AllWithin([credential EXCEPT ![k] = [SigningIn!NoRow EXCEPT !.hash = p]],
                   history.attempts)
<1>1. SigningIn!NoRow \in CredentialRow /\ SigningIn!NoRow.failures = 0 /\ ~SigningIn!NoRow.locked
  BY DEF SigningIn!NoRow, CredentialRow
<1> HIDE DEF SigningIn!NoRow
<1> DEFINE r == [SigningIn!NoRow EXCEPT !.hash = p]
<1>2. r \in CredentialRow /\ r.failures = 0 /\ ~r.locked
  BY <1>1 DEF CredentialRow
<1>3. Within(r, history.attempts)
  BY <1>2, LoginStays DEF Within
<1> HIDE DEF r
<1>4. AllWithin([credential EXCEPT ![k] = r], history.attempts)
  BY <1>2, <1>3, LoginStays DEF AllWithin
<1> QED BY <1>4 DEF r

\* A call with copies that the wrong logins justify, when none is to be counted.
LEMMA HoldingSound ==
  ASSUME SigningIInv, NEW c \in FewCalls, NEW pc \in Copying \ {"count"}, NEW k \in Items,
         NEW rows, SigningIn!Holding(c, pc, k, rows), AllWithin(rows, history.attempts)
  PROVE  /\ DOMAIN login' = FewCalls /\ \A d \in FewCalls : d # c => login'[d] = login[d]
         /\ SoundLogin(login'[c], history.attempts)
  BY DEF SigningIInv, SigningIn!Holding, SoundLogin, Copying, LoginPCs

-----------------------------------------------------------------------------
\* The actions.

\* Registration and the one-time code touch no credential.
LEMMA RegistrationKeeps ==
  ASSUME SigningIInv, NEW c \in FewCalls,
         \/ SigningIn!Register(c) \/ SigningIn!InsertUser(c) \/ SigningIn!SendOtp(c)
         \/ SigningIn!VerifyOtp(c) \/ SigningIn!Activate(c)
         \/ SigningIn!ForgetOtp(c) \/ SigningIn!SetPassword(c) \/ SigningIn!Fail(c)
  PROVE  SigningIInv'
<1> USE LoginStays DEF LoginPCs, Copying
<1>1. CASE SigningIn!Register(c)
  BY <1>1, PlainKeeps, "insert" \in LoginPCs \ Copying DEF SigningIn!Register
<1>2. CASE SigningIn!InsertUser(c)
  BY <1>2, PlainKeeps, "send" \in LoginPCs \ Copying DEF SigningIn!InsertUser
<1>3. CASE SigningIn!SendOtp(c)
  BY <1>3, PlainKeeps, "idle" \in LoginPCs \ Copying DEF SigningIn!SendOtp
<1>4. CASE SigningIn!VerifyOtp(c)
  BY <1>4, PlainKeeps, "activate" \in LoginPCs \ Copying DEF SigningIn!VerifyOtp
<1>5. CASE SigningIn!Activate(c)
  BY <1>5, PlainKeeps, "forget" \in LoginPCs \ Copying DEF SigningIn!Activate
<1>6. CASE SigningIn!ForgetOtp(c)
  <2>1. history' \in LoginHistory /\ history'.attempts = history.attempts
    BY <1>6 DEF SigningIn!ForgetOtp, LoginHistory
  <2> QED BY <1>6, <2>1, PlainKeeps, "idle" \in LoginPCs \ Copying
         DEF SigningIn!ForgetOtp, SigningIn!Forgotten
<1>7. CASE SigningIn!SetPassword(c)
  BY <1>7, PlainKeeps, "create" \in LoginPCs \ Copying DEF SigningIn!SetPassword
<1>8. CASE SigningIn!Fail(c)
  BY <1>8, PlainKeeps, "idle" \in LoginPCs \ Copying DEF SigningIn!Fail
<1> QED BY <1>1, <1>2, <1>3, <1>4, <1>5, <1>6, <1>7, <1>8

LEMMA ExpireKeeps ==
  ASSUME SigningIInv, SigningIn!Expire
  PROVE  SigningIInv'
  BY RetailBoundsAssumption DEF SigningIInv, SigningIn!Expire

LEMMA LoginKeeps ==
  ASSUME SigningIInv, NEW c \in FewCalls, SigningIn!Login(c)
  PROVE  SigningIInv'
<1>1. PICK k \in Items, p \in Passwords :
        IF p = credential[k].hash
        THEN SigningIn!Holding(c, "reset", k, credential) /\ UNCHANGED history
        ELSE /\ history.attempts < MaxWrong
             /\ SigningIn!Holding(c, "count", k, credential)
             /\ history' = [history EXCEPT !.attempts = @ + 1]
  BY DEF SigningIn!Login, SigningIn!Stored
<1>2. user' = user /\ otp' = otp /\ credential' = credential
  BY DEF SigningIn!Login
<1>3. CASE p = credential[k].hash
  <2>1. SigningIn!Holding(c, "reset", k, credential) /\ history' = history
    BY <1>1, <1>3
  <2>2. /\ DOMAIN login' = FewCalls /\ \A d \in FewCalls : d # c => login'[d] = login[d]
        /\ SoundLogin(login'[c], history.attempts)
    BY <2>1, LoginStays, HoldingSound, "reset" \in Copying \ {"count"} DEF Copying
  <2> QED BY <2>1, <2>2, <1>2, LoginStays, LoginMoves
<1>4. CASE p # credential[k].hash
  <2> DEFINE n == history.attempts
  <2>1. /\ n < MaxWrong /\ SigningIn!Holding(c, "count", k, credential)
        /\ history' = [history EXCEPT !.attempts = n + 1]
    BY <1>1, <1>4
  <2>2. history' \in LoginHistory /\ history'.attempts = n + 1 /\ n \in Nat /\ n + 1 \in Nat
    BY <2>1, LoginStays DEF LoginHistory
  <2>3. n <= n + 1 /\ n + 1 <= MaxWrong
    BY <2>1, <2>2, RetailBoundsAssumption DEF SigningIInv
  <2>4. AllWithin(credential, n + 1)
    BY <2>2, <2>3, LoginStays, WithinMore DEF SigningIInv
  <2>5. credential[k].failures + 1 <= n + 1
    BY <2>2, LoginStays DEF AllWithin, Within, CredentialRow
  <2>6. /\ DOMAIN login' = FewCalls /\ \A d \in FewCalls : d # c => login'[d] = login[d]
        /\ login'[c] = [pc |-> "count", on |-> k, rows |-> credential]
    BY <2>1, LoginStays DEF SigningIn!Holding
  <2>7. SoundLogin(login'[c], n + 1)
    BY <2>4, <2>5, <2>6 DEF SoundLogin, LoginPCs, Copying
  <2> QED BY <2>2, <2>3, <2>4, <2>6, <2>7, <1>2, LoginStays, LoginMoves
<1> QED BY <1>3, <1>4

\* The row that a wrong password saves.
LEMMA CountedRow ==
  ASSUME NEW r \in CredentialRow
  PROVE  /\ SigningIn!Counted(r) \in CredentialRow
         /\ SigningIn!Counted(r).failures = r.failures + 1
         /\ SigningIn!Counted(r).locked => r.locked \/ r.failures + 1 >= MaxFailures
<1>1. PICK lock \in BOOLEAN : lock = (r.locked \/ r.failures + 1 >= MaxFailures)
  OBVIOUS
<1>2. PICK f \in Nat : f = r.failures + 1
  BY DEF CredentialRow
<1> DEFINE s == [r EXCEPT !.failures = f, !.locked = lock]
<1>3. SigningIn!Counted(r) = s
  BY <1>1, <1>2 DEF SigningIn!Counted
<1>4. s \in CredentialRow /\ s.failures = f /\ s.locked = lock
  BY DEF CredentialRow
<1> HIDE DEF s
<1> QED BY <1>1, <1>2, <1>3, <1>4

LEMMA CountFailureKeeps ==
  ASSUME SigningIInv, NEW c \in FewCalls, SigningIn!CountFailure(c)
  PROVE  SigningIInv'
<1> DEFINE k == login[c].on
           r == login[c].rows[k]
           n == history.attempts
<1>1. /\ login[c].pc = "count" /\ credential' = [credential EXCEPT ![k] = SigningIn!Counted(r)]
      /\ user' = user /\ otp' = otp
      /\ history' = [history EXCEPT !.wrong = @ + 1] /\ SigningIn!Done(c)
  BY DEF SigningIn!CountFailure, SigningIn!At
<1>2. k \in Items /\ r \in CredentialRow /\ Within(r, n) /\ r.failures + 1 <= n
  BY <1>1 DEF SigningIInv, SoundLogin, Copying, AllWithin
<1>3. /\ SigningIn!Counted(r) \in CredentialRow
         /\ SigningIn!Counted(r).failures = r.failures + 1
      /\ SigningIn!Counted(r).locked => r.locked \/ r.failures + 1 >= MaxFailures
  BY <1>2, CountedRow
<1>4. SigningIn!Counted(r) \in CredentialRow /\ Within(SigningIn!Counted(r), n)
  <2>1. r.failures \in Nat /\ n \in Nat /\ MaxFailures \in Nat
    BY <1>2, LoginStays, RetailBoundsAssumption DEF CredentialRow, SigningIInv
  <2> QED BY <1>2, <1>3, <2>1 DEF Within
<1>5. AllWithin(credential', n)
  BY <1>1, <1>2, <1>4, LoginStays DEF AllWithin
<1>6. history' \in LoginHistory /\ history'.attempts = n
  BY <1>1, LoginStays DEF LoginHistory
<1>7. /\ DOMAIN login' = FewCalls /\ \A d \in FewCalls : d # c => login'[d] = login[d]
      /\ SoundLogin(login'[c], n)
  BY <1>1, LoginStays DEF SigningIn!Done, SigningIn!Idle,
         SoundLogin, LoginPCs, Copying
<1> QED BY <1>1, <1>5, <1>6, <1>7, LoginStays, LoginMoves

LEMMA ClearFailuresKeeps ==
  ASSUME SigningIInv, NEW c \in FewCalls, SigningIn!ClearFailures(c)
  PROVE  SigningIInv'
<1> DEFINE k == login[c].on
           r == login[c].rows[k]
           n == history.attempts
           rows == [login[c].rows EXCEPT ![k] = SigningIn!Cleared(r)]
<1>1. /\ login[c].pc = "reset" /\ credential' = [credential EXCEPT ![k] = SigningIn!Cleared(r)]
      /\ user' = user /\ otp' = otp
      /\ history' = [history EXCEPT !.wrong = 0] /\ SigningIn!Holding(c, "stamp", k, rows)
  BY DEF SigningIn!ClearFailures, SigningIn!At
<1>2. k \in Items /\ r \in CredentialRow /\ Within(r, n) /\ AllWithin(login[c].rows, n)
  BY <1>1 DEF SigningIInv, SoundLogin, Copying, AllWithin
<1>3. SigningIn!Cleared(r) = [hash |-> r.hash, failures |-> 0, locked |-> r.locked]
  BY <1>2 DEF SigningIn!Cleared, CredentialRow
<1>4. SigningIn!Cleared(r) \in CredentialRow /\ Within(SigningIn!Cleared(r), n)
  BY <1>2, <1>3, LoginStays DEF CredentialRow, Within
<1>5. AllWithin(credential', n) /\ AllWithin(rows, n)
  BY <1>1, <1>2, <1>4, LoginStays DEF AllWithin
<1>6. history' \in LoginHistory /\ history'.attempts = n
  BY <1>1, LoginStays DEF LoginHistory
<1>7. /\ DOMAIN login' = FewCalls /\ \A d \in FewCalls : d # c => login'[d] = login[d]
      /\ SoundLogin(login'[c], n)
  <2>1. "stamp" \in Copying \ {"count"}
    BY DEF Copying
  <2> HIDE DEF rows
  <2> QED BY <1>1, <1>2, <1>5, <2>1, HoldingSound
<1> QED BY <1>1, <1>5, <1>6, <1>7, LoginStays, LoginMoves

LEMMA StampUserKeeps ==
  ASSUME SigningIInv, NEW c \in FewCalls, SigningIn!StampUser(c)
  PROVE  SigningIInv'
<1>1. login[c].pc = "stamp" /\ credential' \in {login[c].rows, credential}
  BY DEF SigningIn!StampUser, SigningIn!At
<1>2. AllWithin(credential', history.attempts)
  BY <1>1, LoginStays DEF SigningIInv, SoundLogin, Copying
<1>3. /\ DOMAIN login' = FewCalls /\ \A d \in FewCalls : d # c => login'[d] = login[d]
      /\ SoundLogin(login'[c], history.attempts)
  BY LoginStays DEF SigningIn!StampUser, SigningIn!Done, SigningIn!Idle,
         SoundLogin, LoginPCs, Copying
<1>4. user' = user /\ otp' = otp /\ history' = history
  BY DEF SigningIn!StampUser
<1> QED BY <1>2, <1>3, <1>4, LoginStays, LoginMoves

LEMMA InsertPasswordKeeps ==
  ASSUME SigningIInv, NEW c \in FewCalls, SigningIn!InsertPassword(c)
  PROVE  SigningIInv'
<1>1. PICK k \in Items, p \in Passwords :
        /\ credential' = [credential EXCEPT ![k] = [SigningIn!NoRow EXCEPT !.hash = p]]
        /\ history' = SigningIn!PasswordSet(p)
  BY DEF SigningIn!InsertPassword
<1>2. AllWithin(credential', history.attempts)
  BY <1>1, FreshRow
<1>3. history' \in LoginHistory /\ history'.attempts = history.attempts
  BY <1>1, LoginStays DEF SigningIn!PasswordSet, LoginHistory
<1>4. /\ DOMAIN login' = FewCalls /\ \A d \in FewCalls : d # c => login'[d] = login[d]
      /\ SoundLogin(login'[c], history.attempts)
  BY LoginStays DEF SigningIn!InsertPassword, SigningIn!Done, SigningIn!Idle,
         SoundLogin, LoginPCs, Copying
<1>5. user' = user /\ otp' = otp
  BY DEF SigningIn!InsertPassword
<1> QED BY <1>2, <1>3, <1>4, <1>5, LoginStays, LoginMoves

LEMMA ChangePasswordKeeps ==
  ASSUME SigningIInv, NEW c \in FewCalls, SigningIn!ChangePassword(c)
  PROVE  SigningIInv'
<1>1. PICK k \in Items, p \in Passwords :
        SigningIn!Holding(c, "change", k,
          [credential EXCEPT ![k] = [SigningIn!NoRow EXCEPT !.hash = p]])
  BY DEF SigningIn!ChangePassword, SigningIn!Stored
<1> DEFINE rows == [credential EXCEPT ![k] = [SigningIn!NoRow EXCEPT !.hash = p]]
<1>2. AllWithin(rows, history.attempts)
  BY FreshRow
<1>3. SigningIn!Holding(c, "change", k, rows) /\ "change" \in Copying \ {"count"}
  BY <1>1 DEF Copying
<1> HIDE DEF rows
<1>4. /\ DOMAIN login' = FewCalls /\ \A d \in FewCalls : d # c => login'[d] = login[d]
      /\ SoundLogin(login'[c], history.attempts)
  BY <1>2, <1>3, HoldingSound
<1>5. user' = user /\ otp' = otp /\ credential' = credential /\ history' = history
  BY DEF SigningIn!ChangePassword
<1> QED BY <1>4, <1>5, LoginStays, LoginMoves

LEMMA SavePasswordKeeps ==
  ASSUME SigningIInv, NEW c \in FewCalls, SigningIn!SavePassword(c)
  PROVE  SigningIInv'
<1> DEFINE k == login[c].on
           r == login[c].rows[k]
           n == history.attempts
<1>1. /\ login[c].pc = "change" /\ credential' = [credential EXCEPT ![k] = r]
      /\ user' = user /\ otp' = otp /\ history' = SigningIn!PasswordSet(r.hash)
      /\ SigningIn!Done(c)
  BY DEF SigningIn!SavePassword, SigningIn!At
<1>2. k \in Items /\ r \in CredentialRow /\ Within(r, n)
  BY <1>1 DEF SigningIInv, SoundLogin, Copying, AllWithin
<1>3. AllWithin(credential', n)
  BY <1>1, <1>2, LoginStays DEF AllWithin
<1>4. history' \in LoginHistory /\ history'.attempts = n
  BY <1>1, <1>2, LoginStays DEF SigningIn!PasswordSet, LoginHistory, CredentialRow
<1>5. /\ DOMAIN login' = FewCalls /\ \A d \in FewCalls : d # c => login'[d] = login[d]
      /\ SoundLogin(login'[c], n)
  BY <1>1, LoginStays DEF SigningIn!Done, SigningIn!Idle,
         SoundLogin, LoginPCs, Copying
<1> QED BY <1>1, <1>3, <1>4, <1>5, LoginStays, LoginMoves

-----------------------------------------------------------------------------
LEMMA SigningInitSound == SigningIn!Init => SigningIInv
<1> SUFFICES ASSUME SigningIn!Init PROVE SigningIInv
  OBVIOUS
<1>1. history \in LoginHistory /\ history.attempts = 0 /\ 0 <= MaxWrong
  BY RetailBoundsAssumption DEF SigningIn!Init, LoginHistory
<1>2. SigningIn!NoRow \in CredentialRow /\ Within(SigningIn!NoRow, 0)
  BY DEF SigningIn!NoRow, CredentialRow, Within
<1>3. AllWithin(credential, history.attempts)
  BY <1>1, <1>2 DEF SigningIn!Init, AllWithin
<1>4. DOMAIN login = FewCalls /\ \A c \in FewCalls : SoundLogin(login[c], history.attempts)
  BY DEF SigningIn!Init, SigningIn!Idle,
         SoundLogin, LoginPCs, Copying
<1> QED BY <1>1, <1>3, <1>4 DEF SigningIn!Init, SigningIInv

LEMMA SigningNextSound == SigningIInv /\ [SigningIn!Next]_(SigningIn!vars) => SigningIInv'
<1> SUFFICES ASSUME SigningIInv, [SigningIn!Next]_(SigningIn!vars) PROVE SigningIInv'
  OBVIOUS
<1>1. CASE SigningIn!Expire
  BY <1>1, ExpireKeeps
<1>2. ASSUME NEW c \in FewCalls,
             \/ SigningIn!Register(c) \/ SigningIn!InsertUser(c) \/ SigningIn!SendOtp(c)
             \/ SigningIn!VerifyOtp(c) \/ SigningIn!Activate(c)
             \/ SigningIn!ForgetOtp(c) \/ SigningIn!SetPassword(c) \/ SigningIn!Fail(c)
      PROVE  SigningIInv'
  BY <1>2, RegistrationKeeps
<1>3. ASSUME NEW c \in FewCalls,
             \/ SigningIn!Login(c) \/ SigningIn!CountFailure(c)
             \/ SigningIn!ClearFailures(c) \/ SigningIn!StampUser(c)
      PROVE  SigningIInv'
  BY <1>3, LoginKeeps, CountFailureKeeps, ClearFailuresKeeps, StampUserKeeps
<1>4. ASSUME NEW c \in FewCalls,
             \/ SigningIn!InsertPassword(c) \/ SigningIn!ChangePassword(c)
             \/ SigningIn!SavePassword(c)
      PROVE  SigningIInv'
  BY <1>4, InsertPasswordKeeps, ChangePasswordKeeps, SavePasswordKeeps
<1>5. CASE UNCHANGED SigningIn!vars
  BY <1>5 DEF SigningIInv, SigningIn!vars
<1> QED BY <1>1, <1>2, <1>3, <1>4, <1>5 DEF SigningIn!Next

LEMMA SigningInductive == Spec => []SigningIInv
<1>1. Init => SigningIInv
  BY SigningInitSound DEF Init
<1>2. SigningIInv /\ [Next]_vars => SigningIInv'
  BY SigningNextSound DEF Next, TransferStep, AccountStep, LoginStep, CodeStep, vars, loginVars,
     SigningIn!vars, Moving!Next, Keeping!Next, Verifying!Next
<1> QED BY <1>1, <1>2, PTL DEF Spec

\* login(): a lock is earned by that many wrong passwords, however many calls overlap and
\* whichever copies are saved last.
THEOREM LocksAreEarned == Spec => []LockIsEarned
<1>1. SigningIInv => LockIsEarned
  BY DEF SigningIInv, AllWithin, Within, SigningIn!LockIsEarned, LockIsEarned
<1> QED BY <1>1, SigningInductive, PTL

\* The types, and that no copy counts more failures than there were.
LEMMA CredentialsTypeCorrect == SigningIInv => SigningIn!TypeOK
<1> SUFFICES ASSUME SigningIInv PROVE SigningIn!TypeOK
  OBVIOUS
<1>1. \A k \in Items : credential[k].failures \in 0..MaxWrong
  BY LoginStays, RetailBoundsAssumption DEF SigningIInv, AllWithin, Within, CredentialRow
<1>2. credential \in [Items -> [hash : Passwords \cup {NoPassword}, failures : 0..MaxWrong,
                                locked : BOOLEAN]]
  BY <1>1 DEF SigningIInv, AllWithin, CredentialRow
<1>3. \A c \in FewCalls : login[c].pc \in LoginPCs
  BY DEF SigningIInv, SoundLogin
<1> QED BY <1>2, <1>3 DEF SigningIInv, SigningIn!TypeOK, LoginPCs


-----------------------------------------------------------------------------
\* The password and the code, with one call at a time.

\* What a call has read is still so: its copies are the rows, and the row it changes is
\* stored.
UpToDate(q) ==
  /\ q.pc \in {"count", "reset", "stamp"} => q.rows = credential
  /\ q.pc \in {"count", "reset", "change"} => q.on \in SigningIn!Stored
  /\ q.pc = "change" => q.rows[q.on].failures = 0
  /\ q.pc = "create" => SigningIn!Stored = {}
  /\ q.pc \in {"insert", "send", "activate", "forget"} => history.verified = 0
  /\ q.pc = "forget" => user # "none"

\* There is one password, the last that was set, with the failures since; the code is
\* gone when it was used, and none is sent for a user that is there.
Recorded ==
  /\ \A j, k \in SigningIn!Stored : j = k
  /\ \A k \in SigningIn!Stored :
       credential[k].failures = history.wrong /\ credential[k].hash = history.password
  /\ history.verified <= 1
  /\ history.verified = 1 => ~otp /\ user # "none"

LoginsInTurn ==
  serial =>
    /\ \A c, d \in FewCalls : login[c].pc # "idle" /\ login[d].pc # "idle" => c = d
    /\ \A c \in FewCalls : UpToDate(login[c])
    /\ Recorded

TurnsIInv == SigningIInv /\ LoginsInTurn

\* A call that takes its turn is alone.
LEMMA LoginAlone ==
  ASSUME TurnsIInv, serial, NEW c \in FewCalls, login[c].pc # "idle" \/ SigningIn!Turn(c)
  PROVE  /\ \A d \in FewCalls : d # c => login[d].pc = "idle"
         /\ UpToDate(login[c]) /\ Recorded
         /\ history \in LoginHistory /\ DOMAIN login = FewCalls
         /\ credential \in [Items -> CredentialRow]
         /\ history.verified \in Nat /\ history.wrong \in Nat
  BY DEF TurnsIInv, LoginsInTurn, SigningIn!Turn, SigningIInv, AllWithin, LoginHistory

\* A step of c to q.
LEMMA TurnKept ==
  ASSUME TurnsIInv, serial' = serial, NEW c \in FewCalls, NEW q,
         login' = [login EXCEPT ![c] = q],
         serial => /\ \A d \in FewCalls : d # c => login[d].pc = "idle"
                   /\ UpToDate(q)' /\ Recorded'
  PROVE  LoginsInTurn'
<1> SUFFICES ASSUME serial
    PROVE  /\ \A d, e \in FewCalls : login'[d].pc # "idle" /\ login'[e].pc # "idle" => d = e
           /\ \A d \in FewCalls : UpToDate(login[d])'
           /\ Recorded'
  BY DEF LoginsInTurn
<1>1. /\ \A d \in FewCalls : d # c => login'[d] = login[d] /\ login'[d].pc = "idle"
      /\ login'[c] = q
  BY DEF TurnsIInv, SigningIInv
<1>2. ASSUME NEW d \in FewCalls PROVE UpToDate(login[d])'
  <2>1. CASE d = c
    BY <2>1, <1>1 DEF UpToDate
  <2>2. CASE d # c
    BY <2>2, <1>1 DEF UpToDate
  <2> QED BY <2>1, <2>2
<1> QED BY <1>1, <1>2

\* Steps that leave the password alone.
LEMMA RegistrationInTurn ==
  ASSUME TurnsIInv, serial' = serial, NEW c \in FewCalls,
         \/ SigningIn!Register(c) \/ SigningIn!InsertUser(c) \/ SigningIn!SendOtp(c)
         \/ SigningIn!VerifyOtp(c) \/ SigningIn!Activate(c) \/ SigningIn!ForgetOtp(c)
         \/ SigningIn!SetPassword(c) \/ SigningIn!Fail(c)
  PROVE  LoginsInTurn'
<1>1. credential' = credential /\ SigningIn!Stored' = SigningIn!Stored
  BY DEF SigningIn!Register, SigningIn!InsertUser, SigningIn!SendOtp, SigningIn!VerifyOtp,
         SigningIn!Activate, SigningIn!ForgetOtp, SigningIn!SetPassword, SigningIn!Fail,
         SigningIn!Stored
<1>2. CASE SigningIn!Register(c) \/ SigningIn!VerifyOtp(c) \/ SigningIn!SetPassword(c)
  <2>1. PICK q : /\ login' = [login EXCEPT ![c] = q] /\ UNCHANGED <<user, history, otp>>
                 /\ \/ q.pc = "insert" /\ user = "none"
                    \/ q.pc = "activate" /\ otp
                    \/ q.pc = "create" /\ SigningIn!Stored = {}
    <3> DEFINE q(pc) == [pc |-> pc]
    <3>1. CASE SigningIn!Register(c)
      BY <3>1, q("insert").pc = "insert" DEF SigningIn!Register, SigningIn!Goto
    <3>2. CASE SigningIn!VerifyOtp(c)
      BY <3>2, q("activate").pc = "activate" DEF SigningIn!VerifyOtp, SigningIn!Goto
    <3>3. CASE SigningIn!SetPassword(c)
      BY <3>3, q("create").pc = "create"
         DEF SigningIn!SetPassword, SigningIn!Goto, SigningIn!NonePassword
    <3> QED BY <1>2, <3>1, <3>2, <3>3
  <2>2. ASSUME serial
        PROVE  /\ \A d \in FewCalls : d # c => login[d].pc = "idle"
               /\ UpToDate(q)' /\ Recorded'
    <3>1. SigningIn!Turn(c)
      BY <1>2 DEF SigningIn!Register, SigningIn!VerifyOtp, SigningIn!SetPassword
    <3>2. /\ \A d \in FewCalls : d # c => login[d].pc = "idle"
          /\ Recorded /\ history.verified \in Nat
      BY <2>2, <3>1, LoginAlone
    <3> QED BY <2>1, <3>2, <1>1 DEF UpToDate, Recorded
  <2> QED BY <2>1, <2>2, TurnKept
<1>3. CASE \/ SigningIn!InsertUser(c) \/ SigningIn!SendOtp(c)
           \/ SigningIn!Activate(c) \/ SigningIn!ForgetOtp(c)
  <2>1. PICK q : /\ login' = [login EXCEPT ![c] = q]
                 /\ \/ /\ q.pc \in {"idle", "send"} /\ login[c].pc = "insert"
                       /\ UNCHANGED <<otp, history>> /\ user' # "none"
                    \/ /\ q.pc = "idle" /\ login[c].pc = "send" /\ UNCHANGED <<user, history>>
                    \/ /\ q.pc = "forget" /\ login[c].pc = "activate"
                       /\ UNCHANGED <<otp, history>> /\ user' # "none"
                    \/ /\ q.pc = "idle" /\ login[c].pc = "forget" /\ ~otp' /\ UNCHANGED user
                       /\ history' = [history EXCEPT !.verified = @ + 1]
    <3> DEFINE q(pc) == [pc |-> pc]
    <3>1. CASE SigningIn!InsertUser(c)
      BY <3>1, q("idle").pc = "idle", q("send").pc = "send"
         DEF SigningIn!InsertUser, SigningIn!Goto, SigningIn!Done, SigningIn!At, SigningIn!Idle
    <3>2. CASE SigningIn!SendOtp(c)
      BY <3>2, q("idle").pc = "idle"
         DEF SigningIn!SendOtp, SigningIn!Done, SigningIn!At, SigningIn!Idle
    <3>3. CASE SigningIn!Activate(c)
      BY <3>3, q("forget").pc = "forget" DEF SigningIn!Activate, SigningIn!Goto, SigningIn!At
    <3>4. CASE SigningIn!ForgetOtp(c)
      BY <3>4, q("idle").pc = "idle"
         DEF SigningIn!ForgetOtp, SigningIn!Forgotten, SigningIn!Done, SigningIn!At,
             SigningIn!Idle
    <3> QED BY <1>3, <3>1, <3>2, <3>3, <3>4
  <2>2. ASSUME serial
        PROVE  /\ \A d \in FewCalls : d # c => login[d].pc = "idle"
               /\ UpToDate(q)' /\ Recorded'
    <3>1. login[c].pc # "idle"
      BY <2>1
    <3>2. /\ \A d \in FewCalls : d # c => login[d].pc = "idle"
          /\ UpToDate(login[c]) /\ Recorded /\ history \in LoginHistory
      BY <2>2, <3>1, LoginAlone
    <3>3. /\ history'.wrong = history.wrong /\ history'.password = history.password
          /\ history'.verified = IF login[c].pc = "forget" THEN 1 ELSE history.verified
      BY <2>1, <3>2 DEF LoginHistory, UpToDate
    <3> QED BY <2>1, <3>2, <3>3, <1>1 DEF UpToDate, Recorded
  <2> QED BY <2>1, <2>2, TurnKept
<1>4. CASE SigningIn!Fail(c)
  <2>1. PICK q : /\ login' = [login EXCEPT ![c] = q] /\ q.pc = "idle"
                 /\ UNCHANGED <<user, otp, history>> /\ login[c].pc # "idle"
    BY <1>4 DEF SigningIn!Fail, SigningIn!Done, SigningIn!At, SigningIn!Idle
  <2>2. serial => /\ \A d \in FewCalls : d # c => login[d].pc = "idle"
                  /\ Recorded
    BY <2>1, LoginAlone
  <2>3. serial => UpToDate(q)' /\ Recorded'
    BY <2>1, <2>2, <1>1 DEF UpToDate, Recorded
  <2> QED BY <2>1, <2>2, <2>3, TurnKept
<1> QED BY <1>2, <1>3, <1>4

\* What a call is after a step.
LEMMA DoneCall ==
  ASSUME NEW c, SigningIn!Done(c)
  PROVE  \E q : login' = [login EXCEPT ![c] = q] /\ q.pc = "idle"
<1>1. SigningIn!Idle.pc = "idle"
  BY DEF SigningIn!Idle
<1> QED BY <1>1 DEF SigningIn!Done

LEMMA HoldingCall ==
  ASSUME NEW c, NEW pc, NEW k, NEW rows, SigningIn!Holding(c, pc, k, rows)
  PROVE  \E q : /\ login' = [login EXCEPT ![c] = q]
                /\ q.pc = pc /\ q.on = k /\ q.rows = rows
<1> DEFINE q == [pc |-> pc, on |-> k, rows |-> rows]
<1>1. q.pc = pc /\ q.on = k /\ q.rows = rows
  OBVIOUS
<1> QED BY <1>1 DEF SigningIn!Holding

LEMMA LoginInTurn ==
  ASSUME TurnsIInv, serial' = serial, NEW c \in FewCalls, SigningIn!Login(c)
  PROVE  LoginsInTurn'
<1>1. PICK k \in SigningIn!Stored, pc \in {"reset", "count"} :
        /\ SigningIn!Holding(c, pc, k, credential)
        /\ history' = history \/ history' = [history EXCEPT !.attempts = @ + 1]
  BY DEF SigningIn!Login
<1>2. PICK q : /\ login' = [login EXCEPT ![c] = q]
               /\ q.pc = pc /\ q.on = k /\ q.rows = credential
  BY <1>1, HoldingCall
<1>3. /\ UNCHANGED <<user, otp, credential>> /\ SigningIn!Stored' = SigningIn!Stored
      /\ SigningIn!Turn(c)
  BY DEF SigningIn!Login, SigningIn!Stored
<1>4. ASSUME serial
      PROVE  /\ \A d \in FewCalls : d # c => login[d].pc = "idle"
             /\ UpToDate(q)' /\ Recorded'
  <2>1. /\ \A d \in FewCalls : d # c => login[d].pc = "idle"
        /\ Recorded /\ history \in LoginHistory
    BY <1>3, <1>4, LoginAlone
  <2>2. /\ history'.wrong = history.wrong /\ history'.password = history.password
        /\ history'.verified = history.verified
    BY <1>1, <2>1 DEF LoginHistory
  <2> QED BY <1>2, <1>3, <2>1, <2>2 DEF UpToDate, Recorded
<1> QED BY <1>2, <1>4, TurnKept

\* A save of the row k: what it leaves is the password that is recorded.
LEMMA SavedInTurn ==
  ASSUME TurnsIInv, serial, NEW k \in Items, NEW r,
         credential' = [credential EXCEPT ![k] = r], Recorded,
         k \in SigningIn!Stored \/ SigningIn!Stored = {},
         r.failures = history'.wrong, r.hash = history'.password,
         history'.verified = history.verified, UNCHANGED <<user, otp>>
  PROVE  Recorded'
<1>1. credential'[k] = r
  BY DEF TurnsIInv, SigningIInv, AllWithin
<1>2. \A j \in Items : j # k => credential'[j] = credential[j]
  BY DEF TurnsIInv, SigningIInv, AllWithin
<1>3. \A j \in SigningIn!Stored' : j = k
  BY <1>2 DEF SigningIn!Stored, Recorded
<1> QED BY <1>1, <1>3 DEF Recorded

LEMMA CountFailureInTurn ==
  ASSUME TurnsIInv, serial' = serial, NEW c \in FewCalls, SigningIn!CountFailure(c)
  PROVE  LoginsInTurn'
<1> DEFINE k == login[c].on
           r == login[c].rows[k]
<1>1. /\ login[c].pc = "count" /\ credential' = [credential EXCEPT ![k] = SigningIn!Counted(r)]
      /\ UNCHANGED <<user, otp>> /\ history' = [history EXCEPT !.wrong = @ + 1]
  BY DEF SigningIn!CountFailure, SigningIn!At
<1>2. PICK q : login' = [login EXCEPT ![c] = q] /\ q.pc = "idle"
  BY DoneCall DEF SigningIn!CountFailure
<1>3. ASSUME serial
      PROVE  /\ \A d \in FewCalls : d # c => login[d].pc = "idle"
             /\ UpToDate(q)' /\ Recorded'
  <2>1. /\ \A d \in FewCalls : d # c => login[d].pc = "idle"
        /\ UpToDate(login[c]) /\ Recorded /\ history \in LoginHistory
        /\ credential \in [Items -> CredentialRow]
    BY <1>1, <1>3, LoginAlone
  <2>2. k \in SigningIn!Stored /\ k \in Items /\ r = credential[k] /\ r \in CredentialRow
    BY <1>1, <2>1 DEF UpToDate, SigningIn!Stored
  <2>3. /\ SigningIn!Counted(r).failures = r.failures + 1
        /\ SigningIn!Counted(r).hash = r.hash
    <3>1. SigningIn!Counted(r).failures = r.failures + 1
      BY <2>2, CountedRow
    <3>2. PICK f, l : SigningIn!Counted(r) = [r EXCEPT !.failures = f, !.locked = l]
      BY DEF SigningIn!Counted
    <3>3. [r EXCEPT !.failures = f, !.locked = l].hash = r.hash
      BY <2>2 DEF CredentialRow
    <3> QED BY <3>1, <3>2, <3>3
  <2>4. /\ history'.wrong = history.wrong + 1 /\ history'.password = history.password
        /\ history'.verified = history.verified
    BY <1>1, <2>1 DEF LoginHistory
  <2>5. r.failures = history.wrong /\ r.hash = history.password
    BY <2>1, <2>2 DEF Recorded
  <2>6. /\ SigningIn!Counted(r).failures = history'.wrong
        /\ SigningIn!Counted(r).hash = history'.password
    BY <2>3, <2>4, <2>5
  <2>7. Recorded'
    BY <1>1, <1>3, <2>1, <2>2, <2>4, <2>6, SavedInTurn
  <2> QED BY <1>2, <2>1, <2>7 DEF UpToDate
<1> QED BY <1>2, <1>3, TurnKept

LEMMA ClearFailuresInTurn ==
  ASSUME TurnsIInv, serial' = serial, NEW c \in FewCalls, SigningIn!ClearFailures(c)
  PROVE  LoginsInTurn'
<1> DEFINE k == login[c].on
           r == login[c].rows[k]
<1>1. PICK rows : rows = [login[c].rows EXCEPT ![k] = SigningIn!Cleared(r)]
  OBVIOUS
<1>2. /\ login[c].pc = "reset" /\ credential' = [credential EXCEPT ![k] = SigningIn!Cleared(r)]
      /\ UNCHANGED <<user, otp>> /\ history' = [history EXCEPT !.wrong = 0]
      /\ SigningIn!Holding(c, "stamp", k, rows)
  BY <1>1 DEF SigningIn!ClearFailures, SigningIn!At
<1>3. PICK q : login' = [login EXCEPT ![c] = q] /\ q.pc = "stamp" /\ q.rows = rows
  BY <1>2, HoldingCall
<1>4. ASSUME serial
      PROVE  /\ \A d \in FewCalls : d # c => login[d].pc = "idle"
             /\ UpToDate(q)' /\ Recorded'
  <2>1. /\ \A d \in FewCalls : d # c => login[d].pc = "idle"
        /\ UpToDate(login[c]) /\ Recorded /\ history \in LoginHistory
        /\ credential \in [Items -> CredentialRow]
    BY <1>2, <1>4, LoginAlone
  <2>2. /\ k \in SigningIn!Stored /\ k \in Items /\ r = credential[k] /\ r \in CredentialRow
        /\ rows = credential'
    BY <1>1, <1>2, <2>1 DEF UpToDate, SigningIn!Stored
  <2>3. SigningIn!Cleared(r) = [hash |-> r.hash, failures |-> 0, locked |-> r.locked]
    BY <2>2 DEF SigningIn!Cleared, CredentialRow
  <2>4. /\ history'.wrong = 0 /\ history'.password = history.password
        /\ history'.verified = history.verified
    BY <1>2, <2>1 DEF LoginHistory
  <2>5. r.hash = history.password
    BY <2>1, <2>2 DEF Recorded
  <2>6. SigningIn!Cleared(r).failures = 0 /\ SigningIn!Cleared(r).hash = r.hash
    BY <2>3
  <2>7. Recorded'
    BY <1>2, <1>4, <2>1, <2>2, <2>4, <2>5, <2>6, SavedInTurn
  <2>8. q.rows = credential'
    BY <1>3, <2>2
  <2> QED BY <1>3, <2>1, <2>7, <2>8 DEF UpToDate
<1> QED BY <1>3, <1>4, TurnKept

LEMMA StampUserInTurn ==
  ASSUME TurnsIInv, serial' = serial, NEW c \in FewCalls, SigningIn!StampUser(c)
  PROVE  LoginsInTurn'
<1>1. /\ login[c].pc = "stamp" /\ credential' \in {login[c].rows, credential}
      /\ UNCHANGED <<user, otp, history>>
  BY DEF SigningIn!StampUser, SigningIn!At
<1>2. PICK q : login' = [login EXCEPT ![c] = q] /\ q.pc = "idle"
  BY DoneCall DEF SigningIn!StampUser
<1>3. ASSUME serial
      PROVE  /\ \A d \in FewCalls : d # c => login[d].pc = "idle"
             /\ UpToDate(q)' /\ Recorded'
  <2>1. /\ \A d \in FewCalls : d # c => login[d].pc = "idle"
        /\ UpToDate(login[c]) /\ Recorded
    BY <1>1, <1>3, LoginAlone
  <2>2. credential' = credential /\ SigningIn!Stored' = SigningIn!Stored
    BY <1>1, <2>1 DEF UpToDate, SigningIn!Stored
  <2> QED BY <1>1, <1>2, <2>1, <2>2 DEF UpToDate, Recorded
<1> QED BY <1>2, <1>3, TurnKept

LEMMA InsertPasswordInTurn ==
  ASSUME TurnsIInv, serial' = serial, NEW c \in FewCalls, SigningIn!InsertPassword(c)
  PROVE  LoginsInTurn'
<1>1. PICK k \in Items, p \in Passwords :
        /\ credential' = [credential EXCEPT ![k] = [SigningIn!NoRow EXCEPT !.hash = p]]
        /\ history' = SigningIn!PasswordSet(p)
  BY DEF SigningIn!InsertPassword
<1>2. PICK r : /\ credential' = [credential EXCEPT ![k] = r]
               /\ r.failures = 0 /\ r.hash = p
  <2> DEFINE r == [SigningIn!NoRow EXCEPT !.hash = p]
  <2>1. r.failures = 0 /\ r.hash = p
    BY DEF SigningIn!NoRow
  <2> QED BY <1>1, <2>1
<1>3. PICK q : login' = [login EXCEPT ![c] = q] /\ q.pc = "idle"
  BY DoneCall DEF SigningIn!InsertPassword
<1>4. login[c].pc = "create" /\ UNCHANGED <<user, otp>>
  BY DEF SigningIn!InsertPassword, SigningIn!At
<1>5. ASSUME serial
      PROVE  /\ \A d \in FewCalls : d # c => login[d].pc = "idle"
             /\ UpToDate(q)' /\ Recorded'
  <2>1. /\ \A d \in FewCalls : d # c => login[d].pc = "idle"
        /\ UpToDate(login[c]) /\ Recorded /\ history \in LoginHistory
    BY <1>4, <1>5, LoginAlone
  <2>2. /\ history'.wrong = 0 /\ history'.password = p
        /\ history'.verified = history.verified
    BY <1>1, <2>1 DEF LoginHistory, SigningIn!PasswordSet
  <2>3. SigningIn!Stored = {}
    BY <1>4, <2>1 DEF UpToDate
  <2>4. Recorded'
    BY <1>2, <1>4, <1>5, <2>1, <2>2, <2>3, SavedInTurn
  <2> QED BY <1>3, <2>1, <2>4 DEF UpToDate
<1> QED BY <1>3, <1>5, TurnKept

LEMMA ChangePasswordInTurn ==
  ASSUME TurnsIInv, serial' = serial, NEW c \in FewCalls, SigningIn!ChangePassword(c)
  PROVE  LoginsInTurn'
<1>1. PICK k \in SigningIn!Stored, p \in Passwords :
        SigningIn!Holding(c, "change", k,
                          [credential EXCEPT ![k] = [SigningIn!NoRow EXCEPT !.hash = p]])
  BY DEF SigningIn!ChangePassword
<1>2. PICK q : /\ login' = [login EXCEPT ![c] = q] /\ q.pc = "change" /\ q.on = k
               /\ q.rows = [credential EXCEPT ![k] = [SigningIn!NoRow EXCEPT !.hash = p]]
  BY <1>1, HoldingCall
<1>3. /\ UNCHANGED <<user, otp, credential, history>> /\ SigningIn!Turn(c)
      /\ SigningIn!Stored' = SigningIn!Stored
  BY DEF SigningIn!ChangePassword, SigningIn!Stored
<1>4. ASSUME serial
      PROVE  /\ \A d \in FewCalls : d # c => login[d].pc = "idle"
             /\ UpToDate(q)' /\ Recorded'
  <2>1. /\ \A d \in FewCalls : d # c => login[d].pc = "idle"
        /\ Recorded /\ credential \in [Items -> CredentialRow]
    BY <1>3, <1>4, LoginAlone
  <2>2. q.rows[k].failures = 0
    BY <1>2, <2>1 DEF SigningIn!NoRow, SigningIn!Stored
  <2> QED BY <1>2, <1>3, <2>1, <2>2 DEF UpToDate, Recorded
<1> QED BY <1>2, <1>4, TurnKept

LEMMA SavePasswordInTurn ==
  ASSUME TurnsIInv, serial' = serial, NEW c \in FewCalls, SigningIn!SavePassword(c)
  PROVE  LoginsInTurn'
<1> DEFINE k == login[c].on
           r == login[c].rows[k]
<1>1. /\ login[c].pc = "change" /\ credential' = [credential EXCEPT ![k] = r]
      /\ UNCHANGED <<user, otp>> /\ history' = SigningIn!PasswordSet(r.hash)
  BY DEF SigningIn!SavePassword, SigningIn!At
<1>2. PICK q : login' = [login EXCEPT ![c] = q] /\ q.pc = "idle"
  BY DoneCall DEF SigningIn!SavePassword
<1>3. ASSUME serial
      PROVE  /\ \A d \in FewCalls : d # c => login[d].pc = "idle"
             /\ UpToDate(q)' /\ Recorded'
  <2>1. /\ \A d \in FewCalls : d # c => login[d].pc = "idle"
        /\ UpToDate(login[c]) /\ Recorded /\ history \in LoginHistory
    BY <1>1, <1>3, LoginAlone
  <2>2. k \in SigningIn!Stored /\ k \in Items /\ r.failures = 0
    BY <1>1, <2>1 DEF UpToDate, SigningIn!Stored
  <2>3. /\ history'.wrong = 0 /\ history'.password = r.hash
        /\ history'.verified = history.verified
    BY <1>1, <2>1 DEF LoginHistory, SigningIn!PasswordSet
  <2>4. Recorded'
    BY <1>1, <1>3, <2>1, <2>2, <2>3, SavedInTurn
  <2> QED BY <1>2, <2>1, <2>4 DEF UpToDate
<1> QED BY <1>2, <1>3, TurnKept

LEMMA TurnsInitSound == SigningIn!Init => LoginsInTurn
<1> SUFFICES ASSUME SigningIn!Init PROVE LoginsInTurn
  OBVIOUS
<1>1. \A c \in FewCalls : login[c].pc = "idle"
  BY DEF SigningIn!Init, SigningIn!Idle
<1>2. SigningIn!Stored = {}
  BY DEF SigningIn!Init, SigningIn!Stored
<1>3. history.verified = 0
  BY DEF SigningIn!Init
<1> QED BY <1>1, <1>2, <1>3 DEF LoginsInTurn, UpToDate, Recorded

LEMMA TurnsNextSound == TurnsIInv /\ [SigningIn!Next]_(SigningIn!vars) => LoginsInTurn'
<1> SUFFICES ASSUME TurnsIInv, [SigningIn!Next]_(SigningIn!vars) PROVE LoginsInTurn'
  OBVIOUS
<1>1. serial' = serial
  BY DEF SigningIn!Next, SigningIn!vars
<1>2. CASE SigningIn!Expire \/ UNCHANGED SigningIn!vars
  <2>1. /\ user' = user /\ credential' = credential /\ login' = login /\ history' = history
        /\ ~otp => ~otp'
        /\ SigningIn!Stored' = SigningIn!Stored
    BY <1>2 DEF SigningIn!Expire, SigningIn!vars, SigningIn!Stored
  <2>2. \A c \in FewCalls : UpToDate(login[c]) => UpToDate(login[c])'
    BY <2>1 DEF UpToDate
  <2>3. Recorded => Recorded'
    BY <2>1 DEF Recorded
  <2> QED BY <1>1, <2>1, <2>2, <2>3 DEF TurnsIInv, LoginsInTurn
<1>3. ASSUME NEW c \in FewCalls,
             \/ SigningIn!Register(c) \/ SigningIn!InsertUser(c) \/ SigningIn!SendOtp(c)
             \/ SigningIn!VerifyOtp(c) \/ SigningIn!Activate(c) \/ SigningIn!ForgetOtp(c)
             \/ SigningIn!SetPassword(c) \/ SigningIn!Fail(c)
      PROVE  LoginsInTurn'
  BY <1>1, <1>3, RegistrationInTurn
<1>4. ASSUME NEW c \in FewCalls,
             \/ SigningIn!Login(c) \/ SigningIn!CountFailure(c)
             \/ SigningIn!ClearFailures(c) \/ SigningIn!StampUser(c)
      PROVE  LoginsInTurn'
  BY <1>1, <1>4, LoginInTurn, CountFailureInTurn, ClearFailuresInTurn, StampUserInTurn
<1>5. ASSUME NEW c \in FewCalls,
             \/ SigningIn!InsertPassword(c) \/ SigningIn!ChangePassword(c)
             \/ SigningIn!SavePassword(c)
      PROVE  LoginsInTurn'
  BY <1>1, <1>5, InsertPasswordInTurn, ChangePasswordInTurn, SavePasswordInTurn
<1> QED BY <1>2, <1>3, <1>4, <1>5 DEF SigningIn!Next

LEMMA TurnsInductive == Spec => []TurnsIInv
<1>1. Init => TurnsIInv
  BY SigningInitSound, TurnsInitSound DEF Init, TurnsIInv
<1>2. TurnsIInv /\ [Next]_vars => TurnsIInv'
  BY SigningNextSound, TurnsNextSound
     DEF TurnsIInv, Next, TransferStep, AccountStep, LoginStep, CodeStep, vars, loginVars,
         SigningIn!vars, Moving!Next, Keeping!Next, Verifying!Next
<1> QED BY <1>1, <1>2, PTL DEF Spec

\* login() with one call at a time: failed_attempts is the number of wrong passwords since
\* the last login or change, whichever queries fail.
THEOREM FailuresAreCounted == Spec => []FailuresCounted
<1>1. TurnsIInv => FailuresCounted
  BY DEF TurnsIInv, LoginsInTurn, Recorded, SigningIn!FailuresCounted, FailuresCounted
<1> QED BY <1>1, TurnsInductive, PTL

\* setPassword() and changePassword() with one call at a time: what login() compares with
\* is the password that was set last.
LEMMA LastPasswordLogsIn == Spec => []PasswordIsLastSet
<1>1. TurnsIInv => PasswordIsLastSet
  BY DEF TurnsIInv, LoginsInTurn, Recorded, SigningIn!PasswordIsLastSet, PasswordIsLastSet
<1> QED BY <1>1, TurnsInductive, PTL

-----------------------------------------------------------------------------
\* The backup codes.

CodesRow == [stored : BOOLEAN, list : SUBSET Codes]

\* What a call holds was drawn.
CodeShape(q) ==
  /\ q.pc \in {"idle", "find", "save"}
  /\ q.pc \in {"find", "save"} => q.list \subseteq drawn
  /\ q.pc = "save" => q.code \subseteq drawn /\ q.on \in Items

CodesTyped ==
  /\ factor \in [Items -> CodesRow] /\ IsFiniteSet(Verifying!Stored)
  /\ \A f \in Items : factor[f].list \subseteq drawn
  /\ \A f \in Items : ~factor[f].stored => factor[f].list = {}
  /\ drawn \subseteq Codes /\ handed \subseteq drawn /\ used \subseteq drawn
  /\ DOMAIN verifier = FewCalls /\ \A c \in FewCalls : CodeShape(verifier[c])

\* There is at most one factor.
Single == \A f, g \in Verifying!Stored : f = g

\* A list about to be handed out has no code that was used; one that a call has read was
\* handed out, and lacks the code the call has accepted.
Unused(q) ==
  /\ q.pc = "find" => q.list \cap used = {}
  /\ q.pc = "save" /\ q.op \in {"insert", "replace"} => q.list \cap used = {} /\ q.code = {}
  /\ q.pc = "save" /\ q.op \notin {"insert", "replace"} =>
       /\ q.on \in Verifying!Stored
       /\ Single => q.list \subseteq handed \ (used \cup q.code)

ListsUnused == Single => \A f \in Verifying!Stored : factor[f].list \subseteq handed \ used

CodesInTurn ==
  serial =>
    /\ \A c, d \in FewCalls : verifier[c].pc # "idle" /\ verifier[d].pc # "idle" => c = d
    /\ \A c \in FewCalls : Unused(verifier[c])
    /\ ListsUnused

VerifyingIInv == CodesTyped /\ CodesInTurn

\* The property counts the factors.
LEMMA OneIsSingle ==
  ASSUME CodesTyped, Verifying!OneFactor
  PROVE  Single
<1>1. Cardinality(Verifying!Stored) <= 1
  BY DEF Verifying!OneFactor, Verifying!Cardinality, Cardinality, Verifying!IsFiniteSet,
         IsFiniteSet
<1>2. SUFFICES ASSUME NEW f \in Verifying!Stored, NEW g \in Verifying!Stored, f # g PROVE FALSE
  BY DEF Single
<1>3. IsFiniteSet({f}) /\ Cardinality({f}) = 1
  BY FS_Singleton
<1>4. IsFiniteSet({f} \cup {g}) /\ Cardinality({f} \cup {g}) = 2
  BY <1>2, <1>3, FS_AddElement
<1>5. {f} \cup {g} \in SUBSET Verifying!Stored
  OBVIOUS
<1>6. Cardinality({f} \cup {g}) <= Cardinality(Verifying!Stored)
  BY <1>5, FS_Subset DEF CodesTyped
<1>7. Cardinality(Verifying!Stored) \in Nat
  BY FS_CardinalityType DEF CodesTyped
<1> QED BY <1>1, <1>4, <1>6, <1>7

LEMMA CodesAlone ==
  ASSUME VerifyingIInv, serial, NEW c \in FewCalls,
         verifier[c].pc # "idle" \/ Verifying!Turn(c)
  PROVE  /\ \A d \in FewCalls : d # c => verifier[d].pc = "idle"
         /\ Unused(verifier[c]) /\ ListsUnused
  BY DEF VerifyingIInv, CodesInTurn, Verifying!Turn

\* A step of c to q that saves nothing: more codes may be drawn.
LEMMA CodesRead ==
  ASSUME VerifyingIInv, serial' = serial, NEW c \in FewCalls, NEW q,
         verifier' = [verifier EXCEPT ![c] = q], UNCHANGED <<factor, handed, used>>,
         drawn \subseteq drawn', drawn' \subseteq Codes, CodeShape(q)',
         serial => (\A d \in FewCalls : d # c => verifier[d].pc = "idle") /\ Unused(q)
  PROVE  VerifyingIInv'
<1>1. /\ factor' = factor /\ handed' = handed /\ used' = used
      /\ Verifying!Stored' = Verifying!Stored /\ Single' = Single
  BY DEF Verifying!Stored, Single
<1>2. /\ \A d \in FewCalls : d # c => verifier'[d] = verifier[d]
      /\ verifier'[c] = q /\ DOMAIN verifier' = FewCalls
  BY DEF VerifyingIInv, CodesTyped
<1>3. ASSUME NEW d \in FewCalls PROVE CodeShape(verifier[d])'
  <2>1. CASE d = c
    BY <2>1, <1>2 DEF CodeShape
  <2>2. CASE d # c
    BY <2>2, <1>2 DEF CodeShape, VerifyingIInv, CodesTyped
  <2> QED BY <2>1, <2>2
<1>4. CodesTyped'
  BY <1>1, <1>2, <1>3 DEF VerifyingIInv, CodesTyped
<1>5. ASSUME serial PROVE CodesInTurn'
  <2>1. ListsUnused'
    BY <1>1, <1>5 DEF VerifyingIInv, CodesInTurn, ListsUnused
  <2>2. ASSUME NEW d \in FewCalls PROVE Unused(verifier[d])'
    <3>1. CASE d = c
      BY <3>1, <1>1, <1>2, <1>5 DEF Unused
    <3>2. CASE d # c
      BY <3>2, <1>2, <1>5 DEF Unused
    <3> QED BY <3>1, <3>2
  <2>3. \A d, e \in FewCalls : verifier'[d].pc # "idle" /\ verifier'[e].pc # "idle" => d = e
    BY <1>2, <1>5
  <2> QED BY <2>1, <2>2, <2>3 DEF CodesInTurn
<1> QED BY <1>4, <1>5 DEF VerifyingIInv, CodesInTurn

LEMMA HoldingCode ==
  ASSUME NEW c, NEW op, NEW f, NEW list, NEW code, Verifying!Holding(c, op, f, list, code)
  PROVE  \E q : /\ verifier' = [verifier EXCEPT ![c] = q]
                /\ q.pc = "save" /\ q.op = op /\ q.on = f /\ q.list = list /\ q.code = code
<1> DEFINE q == [pc |-> "save", op |-> op, on |-> f, list |-> list, code |-> code]
<1>1. q.pc = "save" /\ q.op = op /\ q.on = f /\ q.list = list /\ q.code = code
  OBVIOUS
<1> QED BY <1>1 DEF Verifying!Holding

LEMMA ToggleKeeps ==
  ASSUME VerifyingIInv, serial' = serial, NEW c \in FewCalls, Verifying!Toggle(c)
  PROVE  VerifyingIInv'
<1>1. PICK f \in Verifying!Stored : Verifying!Holding(c, "toggle", f, factor[f].list, {})
  BY DEF Verifying!Toggle
<1>2. PICK q : /\ verifier' = [verifier EXCEPT ![c] = q] /\ q.pc = "save" /\ q.op = "toggle"
               /\ q.on = f /\ q.list = factor[f].list /\ q.code = {}
  BY <1>1, HoldingCode
<1>3. UNCHANGED <<factor, handed, used>> /\ drawn' = drawn /\ Verifying!Turn(c)
  BY DEF Verifying!Toggle
<1>4. CodeShape(q)'
  BY <1>2, <1>3 DEF CodeShape, VerifyingIInv, CodesTyped, Verifying!Stored
<1>5. serial => (\A d \in FewCalls : d # c => verifier[d].pc = "idle") /\ Unused(q)
  BY <1>2, <1>3, CodesAlone DEF Unused, ListsUnused
<1> QED BY <1>2, <1>3, <1>4, <1>5, CodesRead DEF VerifyingIInv, CodesTyped

LEMMA VerifyKeeps ==
  ASSUME VerifyingIInv, serial' = serial, NEW c \in FewCalls, Verifying!Verify(c)
  PROVE  VerifyingIInv'
<1>0. PICK f \in Verifying!Stored : \E code \in factor[f].list :
        Verifying!Holding(c, "verify", f, Verifying!Spent(factor[f].list, code), {code})
  BY DEF Verifying!Verify
<1>1. PICK code \in factor[f].list :
        Verifying!Holding(c, "verify", f, Verifying!Spent(factor[f].list, code), {code})
  BY <1>0
<1>2. PICK q : /\ verifier' = [verifier EXCEPT ![c] = q] /\ q.pc = "save" /\ q.op = "verify"
               /\ q.on = f /\ q.list = Verifying!Spent(factor[f].list, code)
               /\ q.code = {code}
  BY <1>1, HoldingCode
<1>3. UNCHANGED <<factor, handed, used>> /\ drawn' = drawn /\ Verifying!Turn(c)
  BY DEF Verifying!Verify
<1>4. q.list = factor[f].list \ {code}
  BY <1>2 DEF Verifying!Spent
<1>5. CodeShape(q)'
  BY <1>2, <1>3, <1>4 DEF CodeShape, VerifyingIInv, CodesTyped, Verifying!Stored
<1>6. serial => (\A d \in FewCalls : d # c => verifier[d].pc = "idle") /\ Unused(q)
  BY <1>2, <1>3, <1>4, CodesAlone DEF Unused, ListsUnused
<1> QED BY <1>2, <1>3, <1>5, <1>6, CodesRead DEF VerifyingIInv, CodesTyped

LEMMA GenerateKeeps ==
  ASSUME VerifyingIInv, serial' = serial, NEW c \in FewCalls, Verifying!Generate(c)
  PROVE  VerifyingIInv'
<1>1. PICK list \in SUBSET (Codes \ drawn) :
        /\ verifier' = [verifier EXCEPT ![c] = [pc |-> "find", list |-> list]]
        /\ drawn' = drawn \cup list
  BY DEF Verifying!Generate, Verifying!kSubset
<1>2. PICK q : /\ verifier' = [verifier EXCEPT ![c] = q] /\ q.pc = "find" /\ q.list = list
  <2> DEFINE q == [pc |-> "find", list |-> list]
  <2>1. q.pc = "find" /\ q.list = list
    OBVIOUS
  <2> QED BY <1>1, <2>1
<1>3. UNCHANGED <<factor, handed, used>> /\ Verifying!Turn(c)
  BY DEF Verifying!Generate
<1>4. drawn \subseteq drawn' /\ drawn' \subseteq Codes
  BY <1>1 DEF VerifyingIInv, CodesTyped
<1>5. CodeShape(q)'
  BY <1>1, <1>2 DEF CodeShape
<1>6. serial => (\A d \in FewCalls : d # c => verifier[d].pc = "idle") /\ Unused(q)
  BY <1>1, <1>2, <1>3, CodesAlone DEF Unused, VerifyingIInv, CodesTyped
<1> QED BY <1>2, <1>3, <1>4, <1>5, <1>6, CodesRead

LEMMA FindKeeps ==
  ASSUME VerifyingIInv, serial' = serial, NEW c \in FewCalls, Verifying!FindFactor(c)
  PROVE  VerifyingIInv'
<1>1. PICK f \in Items, op \in {"insert", "replace"} :
        Verifying!Holding(c, op, f, verifier[c].list, {})
  BY DEF Verifying!FindFactor, Verifying!Stored
<1>2. PICK q : /\ verifier' = [verifier EXCEPT ![c] = q] /\ q.pc = "save" /\ q.op = op
               /\ q.on = f /\ q.list = verifier[c].list /\ q.code = {}
  BY <1>1, HoldingCode
<1>3. UNCHANGED <<factor, handed, used>> /\ drawn' = drawn /\ verifier[c].pc = "find"
  BY DEF Verifying!FindFactor
<1>4. CodeShape(q)'
  BY <1>2, <1>3 DEF CodeShape, VerifyingIInv, CodesTyped
<1>5. serial => (\A d \in FewCalls : d # c => verifier[d].pc = "idle") /\ Unused(q)
  BY <1>2, <1>3, CodesAlone DEF Unused
<1> QED BY <1>2, <1>3, <1>4, <1>5, CodesRead DEF VerifyingIInv, CodesTyped

LEMMA VerifyingFailKeeps ==
  ASSUME VerifyingIInv, serial' = serial, NEW c \in FewCalls, Verifying!Fail(c)
  PROVE  VerifyingIInv'
<1>1. PICK q : verifier' = [verifier EXCEPT ![c] = q] /\ q.pc = "idle"
  <2>1. Verifying!Idle.pc = "idle"
    BY DEF Verifying!Idle
  <2> QED BY <2>1 DEF Verifying!Fail
<1>2. /\ UNCHANGED <<factor, handed, used>> /\ drawn' = drawn /\ verifier[c].pc # "idle"
  BY DEF Verifying!Fail
<1>3. CodeShape(q)'
  BY <1>1 DEF CodeShape
<1>4. serial => (\A d \in FewCalls : d # c => verifier[d].pc = "idle") /\ Unused(q)
  BY <1>1, <1>2, CodesAlone DEF Unused
<1> QED BY <1>1, <1>2, <1>3, <1>4, CodesRead DEF VerifyingIInv, CodesTyped

-----------------------------------------------------------------------------
\* The steps that change a factor.

LEMMA SetupKeeps ==
  ASSUME VerifyingIInv, serial' = serial, NEW c \in FewCalls, Verifying!Setup(c)
  PROVE  VerifyingIInv'
<1>1. PICK f \in Items \ Verifying!Stored : factor' = [factor EXCEPT ![f].stored = TRUE]
  BY DEF Verifying!Setup
<1>2. /\ verifier' = verifier /\ drawn' = drawn /\ handed' = handed /\ used' = used
      /\ Verifying!Turn(c)
  BY DEF Verifying!Setup
<1>3. /\ factor \in [Items -> CodesRow] /\ factor[f].list = {}
      /\ \A g \in Items : g # f => factor'[g] = factor[g]
      /\ factor'[f].stored = TRUE /\ factor'[f].list = {} /\ factor' \in [Items -> CodesRow]
  BY <1>1 DEF VerifyingIInv, CodesTyped, CodesRow, Verifying!Stored
<1>4. Verifying!Stored' = Verifying!Stored \cup {f}
  BY <1>3 DEF Verifying!Stored
<1>5. CodesTyped'
  <2>1. IsFiniteSet(Verifying!Stored')
    BY <1>4, FS_AddElement DEF VerifyingIInv, CodesTyped
  <2>2. \A d \in FewCalls : CodeShape(verifier[d])'
    BY <1>2 DEF VerifyingIInv, CodesTyped, CodeShape
  <2> QED BY <1>2, <1>3, <2>1, <2>2 DEF VerifyingIInv, CodesTyped
<1>6. ASSUME serial PROVE CodesInTurn'
  <2>1. Single' => Single
    BY <1>4 DEF Single
  <2>2. ListsUnused /\ \A d \in FewCalls : verifier[d].pc = "idle"
    BY <1>2, <1>6, CodesAlone DEF Verifying!Turn
  <2>3. ListsUnused'
    BY <1>2, <1>3, <1>4, <2>1, <2>2 DEF ListsUnused, Verifying!Stored
  <2> QED BY <1>2, <2>2, <2>3 DEF CodesInTurn, Unused
<1> QED BY <1>5, <1>6 DEF VerifyingIInv, CodesInTurn

LEMMA CodesSaveKeeps ==
  ASSUME VerifyingIInv, serial' = serial, NEW c \in FewCalls, Verifying!Save(c)
  PROVE  VerifyingIInv'
<1> DEFINE call == verifier[c]
<1>1. /\ call.pc = "save" /\ drawn' = drawn /\ used' = used \cup call.code
      /\ handed' = IF call.op \in {"insert", "replace"} THEN call.list ELSE handed
  BY DEF Verifying!Save
<1>2. call.list \subseteq drawn /\ call.code \subseteq drawn /\ call.on \in Items
  BY <1>1 DEF VerifyingIInv, CodesTyped, CodeShape
<1>3. PICK f \in Items :
        /\ factor' = [factor EXCEPT ![f] = [stored |-> TRUE, list |-> call.list]]
        /\ call.op # "insert" => f = call.on
  BY <1>2 DEF Verifying!Save
<1>4. PICK q : verifier' = [verifier EXCEPT ![c] = q] /\ q.pc = "idle"
  <2>1. Verifying!Idle.pc = "idle"
    BY DEF Verifying!Idle
  <2> QED BY <2>1 DEF Verifying!Save
<1>5. /\ \A g \in Items : g # f => factor'[g] = factor[g]
      /\ factor'[f].stored = TRUE /\ factor'[f].list = call.list
      /\ factor' \in [Items -> CodesRow]
  <2>1. factor \in [Items -> CodesRow] /\ call.list \subseteq Codes
    BY <1>2 DEF VerifyingIInv, CodesTyped
  <2> QED BY <1>3, <2>1 DEF CodesRow
<1>6. Verifying!Stored' = Verifying!Stored \cup {f}
  BY <1>5 DEF Verifying!Stored
<1>7. /\ \A d \in FewCalls : d # c => verifier'[d] = verifier[d]
      /\ verifier'[c].pc = "idle" /\ DOMAIN verifier' = FewCalls
  BY <1>4 DEF VerifyingIInv, CodesTyped
<1>8. CodesTyped'
  <2>1. IsFiniteSet(Verifying!Stored')
    BY <1>6, FS_AddElement DEF VerifyingIInv, CodesTyped
  <2>2. ASSUME NEW d \in FewCalls PROVE CodeShape(verifier[d])'
    <3>1. CASE d = c
      BY <3>1, <1>7 DEF CodeShape
    <3>2. CASE d # c
      BY <3>2, <1>1, <1>7 DEF VerifyingIInv, CodesTyped, CodeShape
    <3> QED BY <3>1, <3>2
  <2>3. \A g \in Items : /\ factor'[g].list \subseteq drawn'
                         /\ ~factor'[g].stored => factor'[g].list = {}
    BY <1>1, <1>2, <1>5 DEF VerifyingIInv, CodesTyped
  <2>4. drawn' \subseteq Codes /\ handed' \subseteq drawn' /\ used' \subseteq drawn'
    BY <1>1, <1>2 DEF VerifyingIInv, CodesTyped
  <2> QED BY <1>5, <1>7, <2>1, <2>2, <2>3, <2>4 DEF CodesTyped
<1>9. ASSUME serial PROVE CodesInTurn'
  <2>1. Single' => Single /\ Verifying!Stored' = {f}
    BY <1>6 DEF Single
  <2>2. /\ \A d \in FewCalls : d # c => verifier[d].pc = "idle"
        /\ Unused(call)
    BY <1>1, <1>9, CodesAlone
  <2>3. ASSUME Single' PROVE call.list \subseteq handed' \ used'
    BY <2>1, <2>2, <2>3, <1>1 DEF Unused
  <2>4. ListsUnused'
    BY <1>5, <2>1, <2>3 DEF ListsUnused
  <2>5. \A d \in FewCalls : verifier'[d].pc = "idle"
    BY <1>7, <2>2
  <2> QED BY <2>4, <2>5 DEF CodesInTurn, Unused
<1> QED BY <1>8, <1>9 DEF VerifyingIInv, CodesInTurn

LEMMA VerifyingInitSound == Verifying!Init => VerifyingIInv
<1> SUFFICES ASSUME Verifying!Init PROVE VerifyingIInv
  OBVIOUS
<1>1. /\ factor \in [Items -> CodesRow]
      /\ \A f \in Items : factor[f].stored = FALSE /\ factor[f].list = {}
  BY DEF Verifying!Init, Verifying!NoRow, CodesRow
<1>2. Verifying!Stored = {}
  BY <1>1 DEF Verifying!Stored
<1>3. \A c \in FewCalls : verifier[c].pc = "idle"
  BY DEF Verifying!Init, Verifying!Idle
<1>4. drawn = {} /\ handed = {} /\ used = {} /\ DOMAIN verifier = FewCalls
  BY DEF Verifying!Init
<1>5. CodesTyped
  BY <1>1, <1>2, <1>3, <1>4, FS_EmptySet DEF CodesTyped, CodeShape
<1>6. CodesInTurn
  BY <1>2, <1>3 DEF CodesInTurn, Unused, ListsUnused
<1> QED BY <1>5, <1>6 DEF VerifyingIInv

LEMMA VerifyingNextSound ==
  VerifyingIInv /\ [Verifying!Next]_(Verifying!vars) => VerifyingIInv'
<1> SUFFICES ASSUME VerifyingIInv, [Verifying!Next]_(Verifying!vars) PROVE VerifyingIInv'
  OBVIOUS
<1>1. CASE UNCHANGED Verifying!vars
  <2>1. /\ factor' = factor /\ verifier' = verifier /\ drawn' = drawn /\ handed' = handed
        /\ used' = used /\ serial' = serial /\ Verifying!Stored' = Verifying!Stored
    BY <1>1 DEF Verifying!vars, Verifying!Stored
  <2>2. CodesTyped'
    BY <2>1 DEF VerifyingIInv, CodesTyped, CodeShape
  <2>3. CodesInTurn'
    BY <2>1 DEF VerifyingIInv, CodesInTurn, Unused, ListsUnused, Single
  <2> QED BY <2>2, <2>3 DEF VerifyingIInv
<1>2. ASSUME serial' = serial, NEW c \in FewCalls,
             \/ Verifying!Setup(c) \/ Verifying!Toggle(c) \/ Verifying!Generate(c)
             \/ Verifying!FindFactor(c) \/ Verifying!Verify(c) \/ Verifying!Save(c)
             \/ Verifying!Fail(c)
      PROVE  VerifyingIInv'
  BY <1>2, SetupKeeps, ToggleKeeps, GenerateKeeps, FindKeeps, VerifyKeeps, CodesSaveKeeps,
     VerifyingFailKeeps
<1> QED BY <1>1, <1>2 DEF Verifying!Next

LEMMA CodesInductive == Spec => []VerifyingIInv
<1>1. Init => VerifyingIInv
  BY VerifyingInitSound DEF Init
<1>2. VerifyingIInv /\ [Next]_vars => VerifyingIInv'
  BY VerifyingNextSound DEF Next, TransferStep, AccountStep, LoginStep, CodeStep, vars,
     codeVars, Verifying!vars, Moving!Next, Keeping!Next, SigningIn!Next
<1> QED BY <1>1, <1>2, PTL DEF Spec

LEMMA CodesTypeCorrect == VerifyingIInv => Verifying!TypeOK
  BY DEF VerifyingIInv, CodesTyped, CodesRow, CodeShape, Verifying!TypeOK

\* verifyOtp() and verifyBackupCode() with one call at a time: the code that was sent signs
\* in once; a backup code that is accepted is of the list handed out last and was not
\* accepted before, whichever queries fail.
THEOREM SecretsAreUsedOnce == Spec => []SecretsUsedOnce
<1>1. TurnsIInv => SigningIn!OtpUsedOnce
  BY DEF TurnsIInv, LoginsInTurn, Recorded, SigningIn!OtpUsedOnce
<1>2. VerifyingIInv => Verifying!CodesUsedOnce
  BY OneIsSingle DEF VerifyingIInv, CodesInTurn, ListsUnused, Verifying!CodesUsedOnce
<1>3. TurnsIInv /\ VerifyingIInv => SecretsUsedOnce
  BY <1>1, <1>2 DEF SecretsUsedOnce
<1> QED BY <1>3, TurnsInductive, CodesInductive, PTL

\* The rows and calls of the four services keep their types.
THEOREM RetailTypeCorrect == Spec => []TypeOK
<1>1. MovingIInv /\ KeepingIInv /\ SigningIInv /\ VerifyingIInv => TypeOK
  BY TransfersTypeCorrect, AccountsTypeCorrect, CredentialsTypeCorrect, CodesTypeCorrect
     DEF TypeOK
<1> QED BY <1>1, TransfersInductive, AccountsInductive, SigningInductive, CodesInductive, PTL

=============================================================================
