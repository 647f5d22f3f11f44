------------------------------ MODULE MCRecords -----------------------------
(***************************************************************************)
(* Two calls and two rows for every kind of row of the tables.  Kinds with *)
(* a limit on rows, and those whose methods insert successors, have two    *)
(* rows created; the others one.  One kind per behaviour: a call touches   *)
(* rows of one repository, or its steps are listed with the kind.          *)
(***************************************************************************)
EXTENDS StatusRows, RegulatoryTables, PrivacyTables, ComplianceTables, OperationsTables,
        TradeTables, CustomerTables, LendingTables, BranchTables, IdentityTables,
        PlatformTables, AccountTables, TLC

CONSTANT Tables    \* AllTables; TLC evaluates what a constant stands for once

AllTables ==
  Regulatory @@ Privacy @@ Compliance @@ Operations @@ Trade @@ Customer @@ Lending @@
  Branch @@ Identity @@ Platform @@ Account

AllMachines == AllTables

Rooms == [k \in DOMAIN AllTables |->
  IF AllTables[k].single # {} \/ \E st \in AllTables[k].steps : st.inserts # {} THEN 2 ELSE 1]

Symmetry == Permutations(Calls) \cup Permutations(Ids)
=============================================================================
