------------------------------ MODULE MCHandover ------------------------------
(***************************************************************************)
(* Two profiles for TLC: one for a pool of nodes of its own, control       *)
(* planes included, and one for all other nodes, control planes not to be  *)
(* prepared.                                                               *)
(***************************************************************************)
EXTENDS Handover

mcProfiles == {1, 2}
mcMode == [p \in mcProfiles |-> IF p = 1 THEN "labelSelector" ELSE "allNodes"]
mcPrep == [p \in mcProfiles |-> p = 1]

\* The profile for all other nodes is the one that is edited.
mcEdited == {2}

\* Failures around the import, the operator's interventions at a node that is
\* prepared, and at one that boots.
mcFaultSets == { {"status", "write"}, {"edit", "move"}, {"boot", "delete"} }
=============================================================================
