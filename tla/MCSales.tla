------------------------------ MODULE MCSales ------------------------------
(***************************************************************************)
(* Small instances of Sales for TLC.  The interleavings of services that   *)
(* share nothing say nothing: a behaviour picks one of the two, and the    *)
(* other stays in its initial state.                                       *)
(***************************************************************************)
EXTENDS Sales, TLC

CONSTANT Parts   \* the services a behaviour may pick
VARIABLE part

MCInit == Init /\ part \in Parts

MCNext ==
  /\ UNCHANGED part
  /\ \/ part = "points" /\ PointStep
     \/ part = "goods" /\ StockStep

MCSpec == MCInit /\ [][MCNext]_<<part, vars>>

Symmetry == Permutations(Items) \cup Permutations(Enrollments) \cup Permutations(Calls)
=============================================================================
