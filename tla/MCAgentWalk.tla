----------------------------- MODULE MCAgentWalk -----------------------------
(***************************************************************************)
(* A walk for TLC with one step of every kind, laid over the stages the    *)
(* way stepDefs lays the real ones; the grub tail of aptPackages is a step *)
(* of its own.                                                             *)
(***************************************************************************)
EXTENDS AgentWalk

mcSteps == {"aptPackages", "grubParams", "lldpdConfig", "mlxconfig",
            "sriovNumVFs", "kubeletState"}

mcStageOf ==
  [s \in mcSteps |->
    CASE s \in {"aptPackages", "grubParams", "lldpdConfig"} -> "Provisioning"
      [] s = "mlxconfig" -> "Configuring"
      [] OTHER           -> "Finalizing"]

mcKind ==
  [s \in mcSteps |->
    CASE s = "aptPackages" -> "install"
      [] s = "grubParams"  -> "cmdline"
      [] s = "mlxconfig"   -> "latch"
      [] s = "sriovNumVFs" -> "runtime"
      [] OTHER             -> "plain"]

mcOrder ==
  [s \in mcSteps |->
    CASE s = "aptPackages"  -> 1
      [] s = "grubParams"   -> 2
      [] s = "lldpdConfig"  -> 3
      [] s = "mlxconfig"    -> 4
      [] s = "sriovNumVFs"  -> 5
      [] OTHER              -> 6]

mcCritical == {"mlxconfig", "sriovNumVFs"}

\* The second generation changes the firmware demand, the VF count and the
\* kubelet state, and leaves the packages alone.
mcWant ==
  [g \in 1..2 |-> [s \in mcSteps |->
    IF s \in {"aptPackages", "grubParams", "lldpdConfig"} THEN 1 ELSE g]]

\* The environments: every fault, the faults that forget nothing, and those
\* that leave the process and its reboot command alone.
mcFaultSets ==
  { {"stepFail", "transient", "partial", "patch", "boot", "restart",
     "rebootCmd", "edit", "resume", "revoke", "condPatch"},
    {"stepFail", "transient", "patch", "boot", "rebootCmd", "revoke"},
    Enduring }
=============================================================================
