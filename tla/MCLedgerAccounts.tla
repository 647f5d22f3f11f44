-------------------------- MODULE MCLedgerAccounts --------------------------
(***************************************************************************)
(* Small instances of LedgerAccounts for TLC.                              *)
(***************************************************************************)
EXTENDS LedgerAccounts, TLC

\* A cent is two half cents: a cent; a cent and a half.
MCWhole   == {2}
MCSubCent == {3}

\* Accounts, users and requests are never compared but for equality.
Symmetry ==
  Permutations(Accounts) \cup Permutations(Users) \cup Permutations(Requests)
=============================================================================
