------------------------------ MODULE MCRetail -----------------------------
(***************************************************************************)
(* Small instances of Retail for TLC.  The interleavings of services that  *)
(* share nothing say nothing: a behaviour picks one of the services, and   *)
(* the others stay in their initial states.                                *)
(***************************************************************************)
EXTENDS Retail, TLC

CONSTANT Parts   \* the services a behaviour may pick
VARIABLE part

\* Calls on accounts wait for nothing.
MCInit == Init /\ part \in Parts /\ (part = "accounts" => ~serial)

MCNext ==
  /\ UNCHANGED part
  /\ \/ part = "transfers" /\ TransferStep
     \/ part = "accounts" /\ AccountStep
     \/ part = "logins" /\ LoginStep
     \/ part = "codes" /\ CodeStep

MCSpec == MCInit /\ [][MCNext]_<<part, vars>>

Symmetry == Permutations(Items) \cup Permutations(Calls) \cup Permutations(FewCalls)
=============================================================================
