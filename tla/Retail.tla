------------------------------- MODULE Retail ------------------------------
(***************************************************************************)
(* What a retail customer uses: transfers (RetailTransfers), accounts      *)
(* (RetailAccounts), the password and the one-time code (Credentials) and  *)
(* the backup codes (BackupCodes).  The services run in one process beside *)
(* each other and share no row: a transfer moves no balance.               *)
(***************************************************************************)
EXTENDS Integers, FiniteSets

CONSTANTS
  Items,    \* the ids of the rows: transfers, accounts, credentials, factors
  Calls, Horizon, \* of RetailTransfers
  FewCalls, \* the calls of each of the other services
  Passwords, NoPassword, MaxFailures, MaxWrong,
  Codes, PerList,
  Faulty    \* may queries fail?

ASSUME RetailCallsAssumption == IsFiniteSet(Calls) /\ IsFiniteSet(FewCalls)
ASSUME RetailBoundsAssumption == Horizon \in Nat /\ MaxFailures \in Nat /\ MaxWrong \in Nat
ASSUME PasswordsAssumption == NoPassword \notin Passwords

VARIABLES
  transfer, transferCall, today, account, accountCall,
  user, otp, credential, login, history,
  factor, verifier, drawn, handed, used,
  serial    \* do the calls of a service wait for each other?  (not those on accounts)

transferVars == <<transfer, transferCall, today>>
accountVars  == <<account, accountCall>>
loginVars    == <<user, otp, credential, login, history>>
codeVars     == <<factor, verifier, drawn, handed, used>>
vars         == <<transferVars, accountVars, loginVars, codeVars, serial>>

Moving    == INSTANCE RetailTransfers WITH Transfers <- Items, call <- transferCall
Keeping   == INSTANCE RetailAccounts
               WITH Accounts <- Items, Calls <- FewCalls, call <- accountCall
SigningIn == INSTANCE Credentials WITH Slots <- Items, Calls <- FewCalls
Verifying == INSTANCE BackupCodes WITH Factors <- Items, Calls <- FewCalls

Init == Moving!Init /\ Keeping!Init /\ SigningIn!Init /\ Verifying!Init

TransferStep == Moving!Next /\ UNCHANGED <<accountVars, loginVars, codeVars>>
AccountStep  == Keeping!Next /\ UNCHANGED <<transferVars, loginVars, codeVars, serial>>
LoginStep    == SigningIn!Next /\ UNCHANGED <<transferVars, accountVars, codeVars>>
CodeStep     == Verifying!Next /\ UNCHANGED <<transferVars, accountVars, loginVars>>

Next == TransferStep \/ AccountStep \/ LoginStep \/ CodeStep

Spec == Init /\ [][Next]_vars

-----------------------------------------------------------------------------
\* The services keep the types of their rows and calls.
TypeOK == Moving!TypeOK /\ Keeping!TypeOK /\ SigningIn!TypeOK /\ Verifying!TypeOK

\* executeTransfer() after modifyTransfer() and the cancellations: see RetailTransfers.
RevivedOnlyIfModified == Moving!RevivedOnlyIfModified

\* executeTransfer() with one call at a time per transfer: see RetailTransfers.
ExecutedOnce == Moving!ExecutedOnce

\* executeTransfer() and the cancellations, with one call at a time per transfer:
\* see RetailTransfers.
CompletedOrCancelled == [][Moving!CompletedOrCancelledStep]_vars

\* closeAccount() and updateStatus(): see RetailAccounts.
ClosedIsDated == Keeping!ClosedIsDated

\* chargeMonthlyFee() beside whatever else saves the account: see RetailAccounts.
FeesLostOnlyByOverlap == Keeping!FeesLostOnlyByOverlap

\* login() with a wrong password, in any order of saves: see Credentials.
LockIsEarned == SigningIn!LockIsEarned

\* login() with one call at a time: see Credentials.
FailuresCounted == SigningIn!FailuresCounted

\* setPassword(), changePassword() and login() with one call at a time: see Credentials.
PasswordIsLastSet == SigningIn!PasswordIsLastSet

\* verifyOtp() and verifyBackupCode() with one call at a time, what is sent or handed out
\* to be used once: see Credentials and BackupCodes.
SecretsUsedOnce == SigningIn!OtpUsedOnce /\ Verifying!CodesUsedOnce

\* generateBackupCodes() beside verifyBackupCode(): see BackupCodes.
OldCodesAreInvalid == Verifying!OldCodesAreInvalid
=============================================================================
