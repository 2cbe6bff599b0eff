------------------------------ MODULE SriovStage ------------------------------
(***************************************************************************)
(* How a VF count reaches the firmware of the Mellanox PFs: mlxconfig      *)
(* writes NUM_OF_VFS in Configuring (internal/agent/steps_mellanox.go,     *)
(* stepMlxconfig), and in Finalizing sriovNumVFs (internal/agent/steps.go, *)
(* stepSriovNumVFs) creates the VFs or, while sriov_totalvfs is short,     *)
(* drives the sriov-nv-stage machine: wait for the apply reboot, ask for   *)
(* one warm reboot that loads the value, then halt for a power cycle.      *)
(*                                                                         *)
(* A poll cycle is one step here (AgentWalk cuts it at its writes); these  *)
(* two are the only steps of their stages, and the other stages are left   *)
(* out.  The firmware is external: what a boot loads is its choice, within *)
(* its class.  Host mutations and -allow-reboot are on; eswitch flips and  *)
(* failures of the sysfs writes are not modelled.                          *)
(***************************************************************************)
EXTENDS NodePrepPhases, FiniteSets

CONSTANTS
  PFs,        \* the PFs the profile gives VFs to
  Firmware,   \* Firmware[p]: what a boot does to p's running ceiling
  Demands,    \* the VF counts a profile may ask for
  Clamp,      \* the ceiling a clamping firmware never exceeds
  MaxFaults,  \* bound: faults in one behaviour
  FaultSets   \* the environments: each a set of faults, see FaultKinds

\* "warm" loads the value at any boot, "either" may or may not, "cold" only at
\* a power cycle, "clamped" at a power cycle and at most up to Clamp.
FirmwareClasses == {"warm", "either", "cold", "clamped"}

FaultKinds ==
  { "query",    \* mlxconfig fails on a device
    "note",     \* patches of an annotation fail, which is only logged
    "restart",  \* the agent restarts while no reboot is armed
    "boot",     \* the node reboots for a reason of its own
    "cycle",    \* a power cycle nobody asked for
    "edit" }    \* the operator edits the profile

HostWide == "host"  \* a request that names no PF

ASSUME FirmwareAssumption ==
  /\ IsFiniteSet(PFs) /\ HostWide \notin PFs
  /\ Firmware \in [PFs -> FirmwareClasses]

ASSUME DemandAssumption ==
  /\ Demands \in SUBSET (Nat \ {0}) /\ Demands # {}
  /\ Clamp \in Demands \cup {0}

ASSUME BoundsAssumption ==
  /\ MaxFaults \in Nat
  /\ FaultSets \in SUBSET SUBSET FaultKinds

VARIABLES
  phase, mlx, sriov,  \* status.phase and the ledger entries of the two steps
  reboots,            \* status.reboots.total
  coldCond,           \* the ColdRebootRequired condition
  stage,              \* the sriov-nv-stage annotation, one entry per PF
  rewound,            \* the sriov-rewound annotation
  want,               \* the profile's VF count per PF
  nv, loaded, vfs,    \* NUM_OF_VFS in the NV, sriov_totalvfs, sriov_numvfs
  pending,            \* the recorded MlxConfigApplied requests, by PF
  armed,              \* RebootRequired: a reboot is on its way
  warmLoads, unnoted, \* reboots fired for a PF, and stages of it that could not
                      \* be recorded, since its NUM_OF_VFS was written or its
                      \* demand was met
  faults, faultsLeft  \* the environment of this behaviour, and its bound

status   == <<phase, mlx, sriov, reboots, coldCond>>
notes    == <<stage, rewound>>
firmware == <<nv, loaded, vfs>>
memory   == <<pending, armed>>
history  == <<warmLoads, unnoted>>
vars == <<status, notes, want, firmware, memory, history, faults, faultsLeft>>

\* A step that meets these faults, which count as one.
Suffer(kinds) ==
  IF kinds = {} THEN UNCHANGED <<faults, faultsLeft>>
  ELSE /\ kinds \subseteq faults /\ faultsLeft > 0
       /\ faultsLeft' = faultsLeft - 1
       /\ UNCHANGED faults

\* What failed in a pass: the mlxconfig of some devices, the record of some notes.
PassFaults(failed, lost) ==
  {f \in {"query", "note"} : IF f = "query" THEN failed # {} ELSE lost # {}}

NoStage == [state |-> Unset, nv |-> 0, reboots |-> 0]

\* A bug: a stage recorded against a stale boot count.
Stage_Stale(state, n) == [state |-> state, nv |-> n, reboots |-> reboots - 1]

Stage(state, n) == [state |-> state, nv |-> n, reboots |-> reboots]

Init ==
  \* a walk of its own, or one imported past Configuring
  /\ phase \in {"Configuring", "Finalizing"}
  /\ mlx = "Pending" /\ sriov = "Pending" /\ reboots = 0 /\ coldCond = FALSE
  /\ stage = [p \in PFs |-> NoStage] /\ rewound = FALSE
  /\ want \in [PFs -> Demands]
  /\ nv \in [PFs -> Demands \cup {0}]
  /\ loaded \in {l \in [PFs -> Demands \cup {0}] : \A p \in PFs : l[p] <= nv[p]}
  /\ vfs = [p \in PFs |-> 0]
  /\ pending = {} /\ armed = FALSE
  /\ warmLoads = [p \in PFs |-> 0] /\ unnoted = [p \in PFs |-> 0]
  /\ faults \in FaultSets /\ faultsLeft = MaxFaults
-----------------------------------------------------------------------------
(* The walk around the two steps *)

\* syncColdPhase, at the top of the cycle.
ColdOverlay ==
  IF coldCond /\ phase = "Finalizing" THEN "ColdRebootRequired"
  ELSE IF ~coldCond /\ phase = "ColdRebootRequired" THEN "Finalizing"
  ELSE phase

\* checkpointReboot at the end of the cycle: a quiet pass fires what reqs asks.
Checkpoint(reqs, quiet) ==
  IF quiet /\ reqs # {} THEN armed' = TRUE /\ pending' = {}
                        ELSE armed' = armed /\ pending' = reqs
Fired(reqs, quiet) == IF quiet THEN reqs ELSE {}
-----------------------------------------------------------------------------
(* Configuring: stepMlxconfig *)

\* fwResetOncePerChip, best effort, detaches the VFs of the chips it resets.
FwReset(v) == {u \in [PFs -> Demands \cup {0}] : \A p \in PFs : u[p] \in {v[p], 0}}

\* Devices whose NV differs from the profile are written and staged, except
\* those mlxconfig fails on: at the query, after the reset to the default, or
\* after the set.  One failure fails the step, and the request for the devices
\* that were written is never recorded.  A stage that cannot be recorded (lost)
\* fails nothing.
Mlxconfig(failed, lost) ==
  LET drifted == {p \in PFs : nv[p] # want[p]}
      written == drifted \ failed
      result  == IF failed # {} THEN "Failed"
                 ELSE IF written # {} THEN "Blocked" ELSE "Done"
      reqs    == IF failed = {} /\ written # {} THEN pending \cup {HostWide}
                 ELSE pending
      anew(p) == p \in written \/ nv'[p] # nv[p]
  IN  /\ lost \subseteq written
      /\ nv' \in {n \in [PFs -> Demands \cup {0}] : \A p \in PFs :
                    n[p] \in IF p \in written THEN {want[p]}
                            ELSE IF p \in drifted THEN {nv[p], 0, want[p]}
                            ELSE {nv[p]}}
      /\ stage' = [p \in PFs |-> IF p \in written \ lost
                                 THEN Stage("staged", want[p]) ELSE stage[p]]
      /\ warmLoads' = [p \in PFs |-> IF anew(p) THEN 0 ELSE warmLoads[p]]
      /\ unnoted'   = [p \in PFs |-> IF anew(p) THEN 0 ELSE unnoted[p]]
      /\ mlx' = result
      /\ phase' = IF result = "Done" /\ reqs = {} THEN "Finalizing" ELSE phase
      /\ Checkpoint(reqs, result = mlx /\ failed = {})
      /\ vfs' \in IF result = "Blocked" THEN FwReset(vfs) ELSE {vfs}
      /\ UNCHANGED <<sriov, reboots, coldCond, rewound, want, loaded>>

ConfigurePass ==
  /\ phase = "Configuring" /\ ~armed
  /\ mlx # "Done"
  /\ \E failed, lost \in SUBSET PFs : /\ Suffer(PassFaults(failed, lost))
                                     /\ Mlxconfig(failed, lost)

\* A stage whose steps are all Done advances unless a request is recorded.
LeaveConfiguring ==
  /\ phase = "Configuring" /\ ~armed
  /\ mlx = "Done"
  /\ phase' = IF pending = {} THEN "Finalizing" ELSE phase
  /\ Checkpoint(pending, TRUE)
  /\ Suffer({})
  /\ UNCHANGED <<mlx, sriov, reboots, coldCond, notes, want, firmware, history>>
-----------------------------------------------------------------------------
(* Finalizing: stepSriovNumVFs and its stage machine.  Its operators take     *)
(* "unread", the PFs whose NV this pass could not query.                      *)

\* A bug: the demand is compared with the NV, not with what is running.
Short_Configured == {p \in PFs : nv[p] < want[p]}

\* The PFs whose sriov_totalvfs is below the demand.
Short == {p \in PFs : loaded[p] < want[p]}

\* A bug: a value found in the NV is not recognised.
Anchored_Never(p, unread) == FALSE

\* A value already in the NV but never loaded is anchored as a load.
Anchored(p, unread) ==
  /\ stage[p].state = Unset \/ stage[p].nv < want[p]
  /\ p \notin unread /\ nv[p] >= want[p]

stageOf(p, unread) ==
  IF Anchored(p, unread) THEN Stage("load", nv[p]) ELSE stage[p]

\* A bug: the boot clock stands still.
Passed_Never(st) == FALSE

\* A state recorded at an earlier boot count is over.
Passed(st) == reboots > st.reboots

sriovTotalvfsOutcome(p, unread) ==
  LET st == stageOf(p, unread)
  IN  CASE st.state = Unset \/ st.nv < want[p]        -> "NeedsApply"
        [] st.nv >= want[p] /\ st.state = "staged" ->
             IF Passed(st) THEN "WarmLoad" ELSE "StagedWait"
        [] st.nv >= want[p] /\ st.state = "load"   ->
             IF Passed(st) THEN "WarmSpent" ELSE "WarmLoad"
        [] st.nv >= want[p] /\ st.state = "cold"   ->
             IF Passed(st) THEN "ColdSpent" ELSE "ColdHold"

\* The stage to persist; the PFs whose demand is met lose their entry.
nextStageOf(p, unread) ==
  LET st  == stageOf(p, unread)
      out == sriovTotalvfsOutcome(p, unread)
  IN  IF p \notin Short THEN NoStage
      ELSE IF out = "WarmLoad" /\ st.state = "staged" THEN Stage("load", st.nv)
      ELSE IF out = "WarmSpent" THEN Stage("cold", st.nv)
      ELSE st

ColdPFs(unread) == {p \in Short :
  sriovTotalvfsOutcome(p, unread) \in {"WarmSpent", "ColdHold", "ColdSpent"}}
LoadPFs(unread) == {p \in Short : sriovTotalvfsOutcome(p, unread) = "WarmLoad"}
OwedPFs(unread) == {p \in Short : sriovTotalvfsOutcome(p, unread) = "NeedsApply"}

\* A cold halt voids the requests of its PF and those that name none.
dropPendingReboots(cold) ==
  (pending \ cold) \ (IF cold # {} THEN {HostWide} ELSE {})

\* The requests a pass leaves.
Requests(unread) == dropPendingReboots(ColdPFs(unread)) \cup LoadPFs(unread)

\* NeedsApply hands the walk back to Configuring, once per NodePrep.
Rewinds(unread) ==
  /\ OwedPFs(unread) # {} /\ ColdPFs(unread) = {}
  /\ ColdOverlay = "Finalizing" /\ ~rewound

\* One pass: VFs are created where the ceiling allows, the machine moves on
\* every other PF, and the condition is written once for all of them.  What the
\* pass asks does not wait for what it records: of the stages that change, and
\* of the note of a rewind (HostWide), those in lost do not reach the API.
Finalize(unread, lost) ==
  LET given  == [p \in PFs |-> IF p \in Short THEN vfs[p] ELSE want[p]]
      moved  == {p \in PFs : nextStageOf(p, unread) # stage[p]}
      result == IF Short = {} THEN "Done" ELSE "Blocked"
      fired  == IF Rewinds(unread) THEN {}
                ELSE Fired(Requests(unread), result = sriov)
  IN  /\ lost \subseteq moved \cup (IF Rewinds(unread) THEN {HostWide} ELSE {})
      /\ vfs' \in IF LoadPFs(unread) \cap moved = {} THEN {given}
                  ELSE FwReset(given)
      /\ stage' = [p \in PFs |-> IF p \in lost THEN stage[p]
                                 ELSE nextStageOf(p, unread)]
      /\ coldCond' = (ColdPFs(unread) # {})
      /\ sriov' = result
      /\ warmLoads' = [p \in PFs |-> IF p \notin Short THEN 0
                          ELSE warmLoads[p] + (IF p \in fired THEN 1 ELSE 0)]
      /\ unnoted' = [p \in PFs |-> IF p \notin Short THEN 0
                          ELSE unnoted[p] + (IF p \in lost THEN 1 ELSE 0)]
      /\ IF Rewinds(unread)
         THEN /\ phase' = "Configuring" /\ mlx' = "Pending"
              /\ rewound' = (HostWide \notin lost)
              /\ Checkpoint({}, FALSE)
         ELSE /\ phase' = IF result = "Done" THEN "Ready" ELSE ColdOverlay
              /\ Checkpoint(Requests(unread), result = sriov)
              /\ UNCHANGED <<mlx, rewound>>
      /\ UNCHANGED <<reboots, want, nv, loaded>>

FinalizePass ==
  /\ walkStageFor(phase) = "Finalizing" /\ ~armed
  /\ sriov # "Done"
  /\ \E unread \in SUBSET Short, lost \in SUBSET (PFs \cup {HostWide}) :
       /\ Suffer(PassFaults(unread, lost))
       /\ Finalize(unread, lost)

Agent == ConfigurePass \/ LeaveConfiguring \/ FinalizePass
-----------------------------------------------------------------------------
(* Boots *)

\* What a boot may load on p.
Loads(p, power) ==
  CASE Firmware[p] = "warm"    -> {nv[p]}
    [] Firmware[p] = "either"  -> IF power THEN {nv[p]} ELSE {nv[p], loaded[p]}
    [] Firmware[p] = "cold"    -> IF power THEN {nv[p]} ELSE {loaded[p]}
    [] Firmware[p] = "clamped" -> IF ~power THEN {loaded[p]}
                                  ELSE IF nv[p] <= Clamp THEN {nv[p]}
                                  ELSE {Clamp}

\* The new boot, its agent and its boot protocol.
Boot(power) ==
  /\ loaded' \in {l \in [PFs -> Demands \cup {0}] :
                    \A p \in PFs : l[p] \in Loads(p, power)}
  /\ vfs' = [p \in PFs |-> 0]
  /\ reboots' = reboots + 1
  /\ sriov' = IF sriov = "Done" THEN "Pending" ELSE sriov
  /\ pending' = {} /\ armed' = FALSE
  /\ UNCHANGED <<phase, mlx, coldCond, notes, want, nv, history>>

RebootFires == armed /\ Boot(FALSE) /\ Suffer({})

NaturalBoot == phase # "Ready" /\ Boot(FALSE) /\ Suffer({"boot"})

\* The operator does what the ColdRebootRequired condition asks: after every
\* fresh halt, and again while a power cycle would still load something.
PowerCycle ==
  /\ coldCond
  /\ \E p \in PFs : /\ stage[p].state = "cold"
                    /\ \/ stage[p].reboots = reboots
                       \/ loaded[p] \notin Loads(p, TRUE)
  /\ Boot(TRUE)
  /\ Suffer({})

UnaskedPowerCycle == phase # "Ready" /\ Boot(TRUE) /\ Suffer({"cycle"})

AgentRestart ==
  /\ ~armed /\ pending # {}
  /\ pending' = {}
  /\ Suffer({"restart"})
  /\ UNCHANGED <<status, notes, want, firmware, armed, history>>

\* An edit of the demand, or of anything else in the profile, re-opens the walk
\* (both patches of the profile reset) and drops the recorded requests.
EditProfile ==
  /\ ~armed
  /\ want' \in [PFs -> Demands]
  /\ phase' = "Configuring" /\ mlx' = "Pending" /\ sriov' = "Pending"
  /\ pending' = {}
  /\ Suffer({"edit"})
  /\ UNCHANGED <<reboots, coldCond, notes, firmware, armed, history>>

Next ==
  \/ Agent
  \/ RebootFires \/ NaturalBoot \/ PowerCycle \/ UnaskedPowerCycle
  \/ AgentRestart \/ EditProfile

Spec == Init /\ [][Next]_vars

(***************************************************************************)
(* Fairness: the agent polls, an armed reboot fires, and the operator      *)
(* follows the condition.  The last is an assumption about people; the     *)
(* properties that need it say so.                                         *)
(***************************************************************************)
FairSpec ==
  Spec /\ WF_vars(Agent) /\ WF_vars(RebootFires) /\ WF_vars(PowerCycle)
-----------------------------------------------------------------------------
(* Properties *)

Counts == Demands \cup {0}

\* Every variable has its type.
TypeOK ==
  /\ phase \in {"Configuring", "Finalizing", "ColdRebootRequired", "Ready"}
  /\ mlx \in StepStates /\ sriov \in StepStates
  /\ reboots \in Nat /\ coldCond \in BOOLEAN
  /\ stage \in [PFs -> [state : {Unset, "staged", "load", "cold"},
                        nv : Counts, reboots : Nat]]
  /\ rewound \in BOOLEAN
  /\ want \in [PFs -> Demands] /\ nv \in [PFs -> Counts]
  /\ loaded \in [PFs -> Counts] /\ vfs \in [PFs -> Counts]
  /\ pending \in SUBSET (PFs \cup {HostWide}) /\ armed \in BOOLEAN
  /\ warmLoads \in [PFs -> Nat] /\ unnoted \in [PFs -> Nat]
  /\ faults \in FaultSets /\ faultsLeft \in 0..MaxFaults

\* "The machine requests exactly one warm load reboot" for a written value
\* (steps.go, sriovTotalvfsOutcome), whatever boots, restarts, edits and
\* rewinds come in between, and at most one more for each pass that could not
\* record the stage of the PF: the annotation is the clock, and a pass that
\* fails to wind it (setSriovStage) asks for the reboot all the same.
OneWarmLoad == \A p \in PFs : warmLoads[p] <= 1 + unnoted[p]

\* No VF is promised that the running firmware does not expose.
VFsFitCeiling ==
  phase = "Ready" => \A p \in PFs : vfs[p] = want[p] /\ want[p] <= loaded[p]

\* No agent reboot is armed on a node that waits for its power cycle (steps.go,
\* blockedSriovShort: "from warmSpent on halts the reboot cycle for good").
ColdHaltStopsReboots == [][ ~armed /\ armed' => ~coldCond' ]_vars

\* ... but for the load of a sibling: past Configuring every reboot that the
\* agent arms is for a PF that is short of its demand and whose one load belongs
\* to this boot, or whose stage could not be recorded.
ArmedForALoad ==
  [][ ~armed /\ armed' /\ phase # "Configuring" =>
        \E p \in Short : \/ /\ stage'[p].state = "load"
                            /\ stage'[p].reboots = reboots
                            /\ stage'[p].nv >= want[p]
                         \/ unnoted'[p] > 0 ]_vars

\* With an operator who follows the condition, and as long as no request is lost
\* and no demand changes on the way, every walk ends Ready, or with a firmware
\* that clamps the count below the demand and says so (steps.go,
\* blockedSriovShort).
StagesConverge ==
  faults \subseteq {"boot", "cycle", "note"} =>
    <>[]( \/ phase = "Ready"
          \/ coldCond /\ \E p \in PFs : Firmware[p] = "clamped" /\ want[p] > Clamp )
=============================================================================
