--------------------------- MODULE MCGeneralLedger --------------------------
(***************************************************************************)
(* Small instances of GeneralLedger for TLC.                               *)
(***************************************************************************)
EXTENDS GeneralLedger, TLC

Debit(n)  == [debit |-> n, credit |-> 0]
Credit(n) == [debit |-> 0, credit |-> n]

\* One amount on both sides, not whole cents; twice half a cent against a cent,
\* whose stored lines do not balance; and lines that never balanced.
MCLines == {<<Debit(3), Credit(3)>>, <<Debit(1), Debit(1), Credit(2)>>,
            <<Debit(6), Credit(2)>>}

Symmetry == Permutations(Periods) \cup Permutations(Entries) \cup Permutations(Calls)
=============================================================================
