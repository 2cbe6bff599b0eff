------------------------------ MODULE Admission ------------------------------
(***************************************************************************)
(* The fleet windows: the controller's serial reconciles                   *)
(* (internal/controller/controller.go: lifecycle and                       *)
(* refreshAdmissionConditions) grant FlashAdmitted and MaintenanceAdmitted *)
(* as conditions on each NodePrep, and the agents of all nodes read them   *)
(* at the gate of runStage (internal/agent/agent.go).                      *)
(*                                                                         *)
(* A reconcile reads one NodePrep, lists the fleet twice and patches the   *)
(* whole conditions array back; an agent cycle reads its NodePrep, acts on *)
(* what it read and, on a boot or a verification, also patches the whole   *)
(* array back.  Nothing locks the two against each other, so the model     *)
(* keeps every read and every write a step of its own.                     *)
(*                                                                         *)
(* The steps of a stage are one pass here (AgentWalk has them).  The       *)
(* expected control-plane count is a constant: KubeadmControlPlane scaling *)
(* is not modelled.                                                        *)
(***************************************************************************)
EXTENDS NodePrepPhases, FiniteSets

CONSTANTS
  Nodes,          \* the nodes the profile selects
  ControlPlanes,  \* those that carry the control-plane role
  Imports,        \* Imports[n]: the phase the legacy label of n stands for
  Expected,       \* expectedControlPlaneCount
  MaxFlash,       \* policy.maxConcurrentFlashes, <= 0 is unlimited
  Strategy,       \* controlPlane.strategy
  MaxFaults,      \* bound: faults taken from Faults in one behaviour
  Faults          \* the faults the environment may inject, see FaultKinds

FaultKinds ==
  { "hold",      \* a pass ends with its stage held (a step retries)
    "boot",      \* a node boots: the agent rewrites its conditions
    "listFail",  \* a List of the NodePreps fails
    "patch",     \* the controller's condition patch fails
    "fail",      \* a step exhausts its budget
    "resume",    \* the operator resumes Failed NodePreps (costs nothing:
                 \* the failure did)
    "cold",      \* firmware NV needs a manual power cycle
    "edit" }     \* the operator edits the profile

ASSUME FleetAssumption ==
  /\ IsFiniteSet(Nodes)
  /\ ControlPlanes \in SUBSET Nodes
  /\ Imports \in [Nodes -> ImportedPhases]
  /\ Expected \in Nat

ASSUME PolicyAssumption ==
  /\ MaxFlash \in Int
  /\ Strategy \in {"serial", "background"}

ASSUME BoundsAssumption ==
  /\ MaxFaults \in Nat
  /\ Faults \in SUBSET FaultKinds

VARIABLES
  phase,       \* status.phase, "Absent" before adoption
  cond,        \* the two admission conditions of status.conditions
  reopen,      \* the profile's generation is ahead of the observed one
  ctl,         \* the reconcile in progress
  apc,         \* is the agent inside a cycle?
  seen,        \* the conditions that cycle read
  prepping,    \* has the agent worked on the host since it was last Ready?
  faultsLeft

vars == <<phase, cond, reopen, ctl, apc, seen, prepping, faultsLeft>>

Statuses == {"Absent", "True", "False"}

\* A bug: a new NodePrep carries conditions that are neither absent nor set.
NoConditions_Unset == [flash |-> "Unset", maint |-> "Unset"]

NoConditions == [flash |-> "Absent", maint |-> "Absent"]
NoReconcile == [pc |-> "idle"]

Spend(f) == /\ f \in Faults
            /\ faultsLeft > 0
            /\ faultsLeft' = faultsLeft - 1

NoFault == faultsLeft' = faultsLeft

Init ==
  /\ phase = [n \in Nodes |-> "Absent"]
  /\ cond = [n \in Nodes |-> NoConditions]
  /\ reopen = [n \in Nodes |-> FALSE]
  /\ ctl = NoReconcile
  /\ apc = [n \in Nodes |-> "idle"]
  /\ seen = [n \in Nodes |-> NoConditions]
  /\ prepping = [n \in Nodes |-> FALSE]
  /\ faultsLeft = MaxFaults
-----------------------------------------------------------------------------
(* What a reconcile counts in its List of the fleet *)

\* Flashing nodes other than n.
countBusyFlashers(n) ==
  Cardinality({m \in Nodes \ {n} : phase[m] = "Flashing"})

\* A bug: a peer waiting for admission is counted as well.
BusyCP_Waiting == {n \in ControlPlanes :
  phase[n] \in WalkStages \cup {"Pending"}}

\* The control planes that consume the maintenance window.
BusyCP == {n \in ControlPlanes : BusyControlPlane(phase[n], cond[n].maint)}

\* A bug: a member counts itself.
countBusyControlPlanes_Self(n) == Cardinality(BusyCP)

countBusyControlPlanes(n) == Cardinality(BusyCP \ {n})

maxCP == CPMaxConcurrent(Expected)
-----------------------------------------------------------------------------
(* The controller: one reconcile at a time *)

\* adoptNode: the NodePrep is created at Pending or at its imported phase,
\* with no conditions, and the same reconcile goes on to lifecycle.
Adopt(n) ==
  /\ ctl = NoReconcile
  /\ phase[n] = "Absent"
  /\ phase' = [phase EXCEPT ![n] = Imports[n]]
  /\ prepping' = [prepping EXCEPT
       ![n] = stageRank[Imports[n]] > stageRank["Provisioning"]]
  /\ ctl' = [pc |-> "flash", node |-> n, phase |-> Imports[n],
             read |-> NoConditions, cond |-> NoConditions]
  /\ NoFault
  /\ UNCHANGED <<cond, reopen, apc, seen>>

BeginReconcile(n) ==
  /\ ctl = NoReconcile
  /\ phase[n] # "Absent"
  /\ ctl' = [pc |-> "flash", node |-> n, phase |-> phase[n],
             read |-> cond[n], cond |-> cond[n]]
  /\ NoFault
  /\ UNCHANGED <<phase, cond, reopen, apc, seen, prepping>>

\* FlashAdmitted is refreshed in Provisioning and Flashing only.  A List that
\* fails counts nobody.
RefreshFlash ==
  /\ ctl.pc = "flash"
  /\ \E busy \in {countBusyFlashers(ctl.node), 0} :
       /\ \/ busy = countBusyFlashers(ctl.node) /\ NoFault
          \/ busy # countBusyFlashers(ctl.node) /\ Spend("listFail")
       /\ ctl' = [ctl EXCEPT
            !.pc = "maint",
            !.cond.flash =
               IF ctl.phase \notin {"Provisioning", "Flashing"} THEN @
               ELSE IF AdmitFlashing(busy, MaxFlash) THEN "True" ELSE "False"]
  /\ UNCHANGED <<phase, cond, reopen, apc, seen, prepping>>

\* MaintenanceAdmitted is refreshed in every phase, on control planes only.
\* A List that fails holds the admission.
RefreshMaintenance ==
  /\ ctl.pc = "maint"
  /\ LET refreshed(status) ==
           ctl' = [ctl EXCEPT !.pc = "patch", !.cond.maint = status]
         admit == AdmitControlPlane(countBusyControlPlanes(ctl.node),
                                    maxCP, Strategy)
     IN  \/ ctl.node \notin ControlPlanes /\ refreshed(ctl.cond.maint) /\ NoFault
         \/ /\ ctl.node \in ControlPlanes
            /\ refreshed(IF admit THEN "True" ELSE "False")
            /\ NoFault
         \/ /\ ctl.node \in ControlPlanes
            /\ refreshed("False")
            /\ Spend("listFail")
  /\ UNCHANGED <<phase, cond, reopen, apc, seen, prepping>>

\* The whole array is patched when an admission changed or when the Ready
\* condition (not modelled) did.
PatchConditions ==
  /\ ctl.pc = "patch"
  /\ ctl' = NoReconcile
  /\ \/ cond' = [cond EXCEPT ![ctl.node] = ctl.cond] /\ NoFault
     \/ ctl.cond = ctl.read /\ UNCHANGED cond /\ NoFault
     \/ Spend("patch") /\ UNCHANGED cond
  /\ UNCHANGED <<phase, reopen, apc, seen, prepping>>
-----------------------------------------------------------------------------
(* The agents *)

ReadNodePrep(n) ==
  /\ apc[n] = "idle" /\ phase[n] # "Absent"
  /\ apc' = [apc EXCEPT ![n] = "cycle"]
  /\ seen' = [seen EXCEPT ![n] = cond[n]]
  /\ NoFault
  /\ UNCHANGED <<phase, cond, reopen, ctl, prepping>>

EndCycle(n) ==
  /\ apc' = [apc EXCEPT ![n] = "idle"]
  /\ seen' = [seen EXCEPT ![n] = NoConditions]

MoveTo(n, p) == phase' = [phase EXCEPT ![n] = p] /\ EndCycle(n)

Working(n) == prepping' = [prepping EXCEPT ![n] = TRUE]

\* A profile edit re-opens the walk from any phase.
ReopenForProfile(n) ==
  /\ apc[n] = "cycle" /\ reopen[n]
  /\ reopen' = [reopen EXCEPT ![n] = FALSE]
  /\ MoveTo(n, "Provisioning")
  /\ NoFault
  /\ UNCHANGED <<cond, ctl, prepping>>

\* The boot protocol patches the conditions this cycle read.
SyncBoot(n) ==
  /\ apc[n] = "cycle" /\ ~reopen[n]
  /\ Spend("boot")
  /\ cond' = [cond EXCEPT ![n] = seen[n]]
  /\ UNCHANGED <<phase, reopen, ctl, apc, seen, prepping>>

\* A Failed NodePrep waits, or is resumed.
RestOrResume(n) ==
  /\ apc[n] = "cycle" /\ ~reopen[n]
  /\ phase[n] = "Failed"
  /\ \/ "resume" \in Faults /\ MoveTo(n, "Provisioning")
     \/ EndCycle(n) /\ UNCHANGED phase
  /\ NoFault
  /\ UNCHANGED <<cond, reopen, ctl, prepping>>

\* A Ready node is verified again; a changed verdict is written with the
\* conditions this cycle read.
VerifyReady(n) ==
  /\ apc[n] = "cycle" /\ ~reopen[n]
  /\ phase[n] = "Ready"
  /\ cond' \in {cond, [cond EXCEPT ![n] = seen[n]]}
  /\ EndCycle(n)
  /\ NoFault
  /\ UNCHANGED <<phase, reopen, ctl, prepping>>

StartWalk(n) ==
  /\ apc[n] = "cycle" /\ ~reopen[n]
  /\ phase[n] = "Pending"
  /\ MoveTo(n, "Provisioning")
  /\ NoFault
  /\ UNCHANGED <<cond, reopen, ctl, prepping>>

\* A bug: an absent MaintenanceAdmitted is consent too.
GateOpen_AbsentIsConsent(n) ==
  /\ seen[n].flash # "False"
  /\ n \in ControlPlanes => seen[n].maint # "False"

\* An absent FlashAdmitted is consent, an absent MaintenanceAdmitted is not.
GateOpen(n) ==
  /\ seen[n].flash # "False"
  /\ n \in ControlPlanes => seen[n].maint = "True"

HoldAtGate(n) ==
  /\ apc[n] = "cycle" /\ ~reopen[n]
  /\ phase[n] = "Provisioning" /\ ~GateOpen(n)
  /\ EndCycle(n)
  /\ NoFault
  /\ UNCHANGED <<phase, cond, reopen, ctl, prepping>>

\* A stage pass: the stage completes, is held by a step, or fails the walk.
\* Only Provisioning is gated.
RunStage(n) ==
  /\ apc[n] = "cycle" /\ ~reopen[n]
  /\ phase[n] \in {"Provisioning", "Flashing", "Configuring"}
  /\ phase[n] = "Provisioning" => GateOpen(n)
  /\ Working(n)
  /\ \/ MoveTo(n, nextStage[phase[n]]) /\ NoFault
     \/ EndCycle(n) /\ UNCHANGED phase /\ Spend("hold")
     \/ MoveTo(n, "Failed") /\ Spend("fail")
  /\ UNCHANGED <<cond, reopen, ctl>>

\* A pass of Finalizing; its success writes BootVerified with the conditions
\* this cycle read, then the phase (EnterReady).
Finalize(n) ==
  /\ apc[n] = "cycle" /\ ~reopen[n]
  /\ phase[n] = "Finalizing"
  /\ \/ /\ apc' = [apc EXCEPT ![n] = "verified"]
        /\ cond' = [cond EXCEPT ![n] = seen[n]]
        /\ NoFault
        /\ UNCHANGED <<phase, seen>>
     \/ EndCycle(n) /\ Spend("hold") /\ UNCHANGED <<phase, cond>>
     \/ MoveTo(n, "Failed") /\ Spend("fail") /\ UNCHANGED cond
     \/ MoveTo(n, "ColdRebootRequired") /\ Spend("cold") /\ UNCHANGED cond
  /\ UNCHANGED <<reopen, ctl, prepping>>

EnterReady(n) ==
  /\ apc[n] = "verified"
  /\ MoveTo(n, "Ready")
  /\ prepping' = [prepping EXCEPT ![n] = FALSE]
  /\ NoFault
  /\ UNCHANGED <<cond, reopen, ctl>>

\* The operator power-cycles a cold-halted node and the walk resumes, or it
\* stays parked.
ColdHalt(n) ==
  /\ apc[n] = "cycle" /\ ~reopen[n]
  /\ phase[n] = "ColdRebootRequired"
  /\ \/ MoveTo(n, "Finalizing")
     \/ EndCycle(n) /\ UNCHANGED phase
  /\ NoFault
  /\ UNCHANGED <<cond, reopen, ctl, prepping>>

\* One profile serves the fleet: an edit re-opens every adopted node.
EditProfile ==
  /\ Spend("edit")
  /\ reopen' = [n \in Nodes |-> phase[n] # "Absent"]
  /\ UNCHANGED <<phase, cond, ctl, apc, seen, prepping>>
-----------------------------------------------------------------------------
Controller == RefreshFlash \/ RefreshMaintenance \/ PatchConditions

Agent(n) ==
  \/ ReadNodePrep(n)
  \/ ReopenForProfile(n) \/ SyncBoot(n) \/ RestOrResume(n) \/ VerifyReady(n)
  \/ StartWalk(n) \/ HoldAtGate(n) \/ RunStage(n) \/ Finalize(n)
  \/ EnterReady(n) \/ ColdHalt(n)

Next ==
  \/ \E n \in Nodes : Adopt(n) \/ BeginReconcile(n) \/ Agent(n)
  \/ Controller
  \/ EditProfile

Spec == Init /\ [][Next]_vars

(***************************************************************************)
(* Fairness.  The informer's 30 s resync delivers every node again and     *)
(* again, one reconcile after the other, so each node is reconciled        *)
(* infinitely often (strong: the controller is busy with others in         *)
(* between); a reconcile is bounded by reconcileTimeout; every agent polls.*)
(***************************************************************************)
FairSpec ==
  /\ Spec
  /\ WF_vars(Controller)
  /\ \A n \in Nodes : /\ SF_vars(Adopt(n) \/ BeginReconcile(n))
                      /\ WF_vars(Agent(n))
-----------------------------------------------------------------------------
(* Properties *)

Conditions == [flash : Statuses, maint : Statuses]
Reconcile == [pc : {"flash", "maint", "patch"}, node : Nodes,
              phase : Phases, read : Conditions, cond : Conditions]

\* Every variable has its type.
TypeOK ==
  /\ phase \in [Nodes -> Phases \cup {"Absent"}]
  /\ cond \in [Nodes -> Conditions]
  /\ reopen \in [Nodes -> BOOLEAN]
  /\ ctl \in Reconcile \cup {NoReconcile}
  /\ apc \in [Nodes -> {"idle", "cycle", "verified"}]
  /\ seen \in [Nodes -> Conditions]
  /\ prepping \in [Nodes -> BOOLEAN]
  /\ faultsLeft \in 0..MaxFaults

MidPrep == {n \in ControlPlanes : prepping[n]}

\* The quorum window: at most expected - quorum(expected) control planes are
\* being worked on, from the first pass through the gate until Ready
\* (controller/README.md: "at most expected - quorum(expected) members
\* mid-prep", "holds the rest until it reaches Ready with boot verified").
ControlPlaneWindow ==
  Strategy = "serial" => Cardinality(MidPrep) <= maxCP

\* A grant is not withdrawn from a control plane whose Provisioning has begun:
\* a half-prepped member that is held again would leave the window to a peer.
GrantStands ==
  [][ \A n \in ControlPlanes :
        Strategy = "serial" /\ prepping[n] /\ phase[n] = "Provisioning"
          /\ cond[n].maint = "True"
        => cond'[n].maint = "True" ]_vars

\* The flash window: at most maxConcurrentFlashes nodes are in Flashing
\* (decisions.go: "at most max nodes flash concurrently").
FlashWindow ==
  MaxFlash > 0 =>
    Cardinality({n \in Nodes : phase[n] = "Flashing"}) <= MaxFlash

\* The windows never deadlock: a queued node gets through its gate, whatever
\* its peers do, including failing or halting for a power cycle (decisions.go,
\* BusyControlPlane: "counting them deadlocks the window, since every member
\* would wait on every other").
QueuedNodeProceeds ==
  \A n \in Nodes : phase[n] = "Provisioning" ~> phase[n] # "Provisioning"
=============================================================================
