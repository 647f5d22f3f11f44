----------------------------- MODULE MCBusiness ----------------------------
(***************************************************************************)
(* Small instances of Business for TLC.  The interleavings of services     *)
(* that share nothing say nothing: a behaviour picks one of the services,  *)
(* and the others stay in their initial states.                            *)
(***************************************************************************)
EXTENDS Business, TLC

CONSTANT Parts   \* the services a behaviour may pick
VARIABLE part

MCInit == Init /\ part \in Parts /\ (deletes => part = "webhooks")

MCNext ==
  /\ UNCHANGED part
  /\ \/ part = "payments" /\ PaymentStep
     \/ part = "payroll" /\ PayrollStep
     \/ part = "webhooks" /\ WebhookStep

MCSpec == MCInit /\ [][MCNext]_<<part, vars>>

FairSpec == MCSpec /\ Roll!Fairness /\ Hooks!Fairness

Symmetry == Permutations(Items) \cup Permutations(Calls) \cup Permutations(Workers)
=============================================================================
