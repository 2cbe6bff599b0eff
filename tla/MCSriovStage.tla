---------------------------- MODULE MCSriovStage ----------------------------
(***************************************************************************)
(* Two PFs for TLC, in the firmware mixes that matter.                     *)
(***************************************************************************)
EXTENDS SriovStage

CONSTANTS p0, p1

ports == {p0, p1}
mcDemands == {1, 2}

\* One port that clamps at a power cycle, one that loads at some boots only.
mixedFirmware == [p \in ports |-> IF p = p0 THEN "clamped" ELSE "either"]

allFaults == {"query", "note", "restart", "boot", "cycle", "edit"}
mcFaultSets == {allFaults, {"boot", "cycle", "note"}}
=============================================================================
