--------------------------- MODULE NodePrepPhases ---------------------------
(***************************************************************************)
(* The vocabulary every module of the project shares: the NodePrep phases  *)
(* (api/v1alpha1/types.go), their order, and the pure decision functions   *)
(* of the controller (internal/controller/decisions.go).  Constant-level   *)
(* operators only; nothing here has state.                                 *)
(***************************************************************************)
EXTENDS Integers

\* The Go zero value: no phase yet, no label, a policy left out.
Unset == ""

\* The stages that have steps, in the order the walk visits them.
WalkStages == {"Provisioning", "Flashing", "Configuring", "Finalizing"}

Phases == WalkStages \cup {"Pending", "Ready", "Failed", "ColdRebootRequired"}

StepStates == {"Pending", "Done", "Blocked", "Failed"}

\* Position of a phase in the walk; anything that is not a position is -1.
stageRank ==
  [p \in Phases |->
    CASE p = "Pending"      -> 0
      [] p = "Provisioning" -> 1
      [] p = "Flashing"     -> 2
      [] p = "Configuring"  -> 3
      [] p = "Finalizing"   -> 4
      [] p = "Ready"        -> 5
      [] OTHER              -> -1]

\* A bug: Finalizing has no successor.
nextStage_Endless ==
  [p \in WalkStages |->
    CASE p = "Provisioning" -> "Flashing"
      [] p = "Flashing"     -> "Configuring"
      [] p = "Configuring"  -> "Finalizing"
      [] OTHER              -> ""]

\* The stage after p.
nextStage ==
  [p \in WalkStages |->
    CASE p = "Provisioning" -> "Flashing"
      [] p = "Flashing"     -> "Configuring"
      [] p = "Configuring"  -> "Finalizing"
      [] p = "Finalizing"   -> "Ready"]

\* The cold overlay parks the Finalizing walk without stopping it.
walkStageFor(p) == IF p = "ColdRebootRequired" THEN "Finalizing" ELSE p

\* The phases a bash-era label value is imported at, an absent one included.
FromLegacy ==
  [v \in {Unset, "init", "inithw", "config", "precomplete", "complete"} |->
    CASE v = Unset                         -> "Pending"
      [] v = "init"                        -> "Provisioning"
      [] v = "inithw"                      -> "Flashing"
      [] v = "config"                      -> "Configuring"
      [] v \in {"precomplete", "complete"} -> "Finalizing"]

ImportedPhases == {FromLegacy[v] : v \in DOMAIN FromLegacy}

-----------------------------------------------------------------------------
(* Controller decisions. *)

\* maxFlashes <= 0 is an unlimited window.
AdmitFlashing(busyOthers, maxFlashes) ==
  maxFlashes <= 0 \/ busyOthers < maxFlashes

AdmitControlPlane(busyOthers, maxConcurrent, strategy) ==
  strategy = "background" \/ busyOthers < maxConcurrent

\* Does a control-plane NodePrep consume the maintenance window?
BusyControlPlane(phase, maintenanceAdmitted) ==
  \/ phase \in {"Flashing", "Configuring", "Finalizing"}
  \/ phase \in {"Pending", "Provisioning"} /\ maintenanceAdmitted = "True"

\* expected - quorum(expected), never below one.
CPMaxConcurrent(expected) ==
  LET spare == expected - (expected \div 2 + 1)
  IN  IF expected < 1 \/ spare < 1 THEN 1 ELSE spare

\* A bug: a Ready phase is taken for a verified boot.
TaintShouldExist_Ready(phase, bootVerified, taintsOn) ==
  taintsOn /\ phase # "Ready"

\* The taint is released by a verified boot of a Ready node only.
TaintShouldExist(phase, bootVerified, taintsOn) ==
  taintsOn /\ ~(phase = "Ready" /\ bootVerified)

\* "Set", "Remove" or "None"; an empty policy means manage.
WorkerLabelDecision(phase, bootVerified, bootIDMatch, policy) ==
  CASE policy \notin {Unset, "manage"}                    -> "None"
    [] policy \in {Unset, "manage"} /\ phase = "Ready"
         /\ bootVerified /\ bootIDMatch                   -> "Set"
    [] OTHER                                              -> "Remove"
=============================================================================
