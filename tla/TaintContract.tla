---------------------------- MODULE TaintContract ----------------------------
(***************************************************************************)
(* One node seen by the controller and by its agent: who may schedule on   *)
(* it (the nodeprep taint), whether the SR-IOV daemon may run (the         *)
(* worker-role label) and whether Cluster API may touch its Machine (the   *)
(* pause annotation).                                                      *)
(*                                                                         *)
(* The controller (internal/controller/controller.go, lifecycle) decides   *)
(* from an informer copy of the Node and one read of the NodePrep, then    *)
(* writes the Node, the Machine and the conditions array one after the     *)
(* other.  The agent (internal/agent/agent.go) works from its own read.    *)
(* The node may boot between any two of these steps.                       *)
(*                                                                         *)
(* The walk is one phase here: AgentWalk has its stages.                   *)
(***************************************************************************)
EXTENDS NodePrepPhases

CONSTANTS
  TaintsOn,     \* policy.TaintsOn()
  LabelPolicy,  \* policy.workerRoleLabel
  MaxFaults,    \* bound: faults taken from Faults in one behaviour
  Faults        \* the faults the environment may inject, see FaultKinds

FaultKinds ==
  { "boot",        \* the node reboots for a reason of its own
    "restart",     \* the agent process restarts
    "drift",       \* the host drifts: a critical body no longer returns Done
    "nodeWrite",   \* a Node or Machine write fails, three times in a row
    "lostUpdate",  \* the controller's conditions array overwrites the agent's
    "walkFail",    \* a step exhausts its budget
    "resume",      \* the operator resumes a Failed NodePrep
    "edit",        \* the operator edits the profile
    "deselect",    \* the profile stops selecting the node
    "policy",      \* the operator switches policy.capiPause off
    "span" }       \* a reconcile may outlast a boot; it is bounded by
                   \* reconcileTimeout, which a virtual machine's boot is not

ASSUME PolicyAssumption ==
  /\ TaintsOn \in BOOLEAN
  /\ LabelPolicy \in {Unset, "manage", "ignore"}

ASSUME BoundsAssumption ==
  /\ MaxFaults \in Nat
  /\ Faults \in SUBSET FaultKinds

VARIABLES
  \* the API server: the Node, its Machine, the NodePrep, the profile
  node,        \* [boot (as kubelet last posted it), taint, label]
  paused,      \* the Machine's pause annotation
  phase, bootId, conds,
  capiPause, selected, reopen,
  \* the host
  boot, verifiedBoot,  \* the running boot; the last boot a verify passed on
  healthy,             \* would the critical bodies return Done?
  \* the controller
  cache,       \* the informer's copy of the Node
  ctl,         \* the reconcile in progress
  \* the agent process
  apc, seen, verifyDue, timer,
  \* history: the record under which the controller last wrote conditions it
  \* had read under an earlier one
  carried,
  faultsLeft

np    == <<phase, bootId, conds>>
prof  == <<capiPause, selected, reopen>>
host  == <<boot, verifiedBoot, healthy>>
agent == <<apc, seen, verifyDue, timer>>
vars  == <<node, paused, np, prof, host, cache, ctl, agent, carried,
           faultsLeft>>

Spend(f) == /\ f \in Faults
            /\ faultsLeft > 0
            /\ faultsLeft' = faultsLeft - 1

NoFault == faultsLeft' = faultsLeft

Idle == [pc |-> "idle"]
NoConds == [bootVerified |-> FALSE, rebootRequired |-> FALSE]

Init ==
  /\ node = [boot |-> 1, taint |-> FALSE, label |-> FALSE]
  /\ cache = node /\ paused = FALSE
  /\ phase = "Provisioning" /\ bootId = 0 /\ conds = NoConds
  /\ capiPause \in BOOLEAN /\ selected = TRUE /\ reopen = FALSE
  /\ boot = 1 /\ verifiedBoot = 0 /\ healthy = TRUE
  /\ ctl = Idle /\ carried = 0
  /\ apc = "idle" /\ seen = NoConds /\ verifyDue = TRUE /\ timer = FALSE
  /\ faultsLeft = MaxFaults
-----------------------------------------------------------------------------
(* The controller *)

\* A bug: the release is spelt in a way the write does not know.
PauseDecision_Unpause ==
  IF ~capiPause THEN "None" ELSE IF phase = "Ready" THEN "Unpause" ELSE "Pause"

\* The Machine is paused until Ready; a policy without capiPause leaves it.
PauseDecision ==
  IF ~capiPause THEN "None" ELSE IF phase = "Ready" THEN "Clear" ELSE "Pause"

\* A reconcile starts from the informer's Node and a fresh read of the
\* NodePrep, and decides at once what the Node should carry.
BeginReconcile ==
  /\ ctl = Idle
  /\ selected
  /\ LET match == bootId # 0 /\ bootId = cache.boot
         want  == TaintShouldExist(phase, conds.bootVerified, TaintsOn)
     IN  ctl' = [pc    |-> "node",
                 seen  |-> cache,
                 taint |-> want \/ (~match /\ TaintsOn),
                 label |-> WorkerLabelDecision(phase, conds.bootVerified,
                                               match, LabelPolicy),
                 pause |-> PauseDecision,
                 bootId |-> bootId,
                 conds |-> conds]
  /\ NoFault
  /\ UNCHANGED <<node, paused, np, prof, host, cache, agent, carried>>

Labelled(cur) == CASE ctl.label = "Set"    -> TRUE
                   [] ctl.label = "Remove" -> FALSE
                   [] OTHER                -> cur

\* A bug: the fast path forgets the labels.
UpToDate_TaintOnly(n) == n.taint = ctl.taint

\* The fast path: the informer's copy already says what was decided.
UpToDate(n) == n.taint = ctl.taint /\ n.label = Labelled(n.label)

\* Otherwise the Node is read again and updated; three failed updates give up
\* until the next reconcile.
ApplyNodeChanges ==
  /\ ctl.pc = "node"
  /\ ctl' = [ctl EXCEPT !.pc = "pause"]
  /\ \/ UpToDate(ctl.seen) /\ UNCHANGED node /\ NoFault
     \/ /\ ~UpToDate(ctl.seen)
        /\ node' = [node EXCEPT !.taint = ctl.taint, !.label = Labelled(@)]
        /\ NoFault
     \/ ~UpToDate(ctl.seen) /\ UNCHANGED node /\ Spend("nodeWrite")
  /\ UNCHANGED <<paused, np, prof, host, cache, agent, carried>>

\* The Machine follows the policy and the phase read when the reconcile began.
ReconcileCAPAPause ==
  /\ ctl.pc = "pause"
  /\ ctl' = [ctl EXCEPT !.pc = "conds"]
  /\ \/ /\ paused' = CASE ctl.pause = "Pause" -> TRUE
                        [] ctl.pause = "Clear" -> FALSE
                        [] OTHER               -> paused
        /\ NoFault
     \/ UNCHANGED paused /\ Spend("nodeWrite")
  /\ UNCHANGED <<node, np, prof, host, cache, agent, carried>>

\* patchConditions writes the array read at the start of the reconcile.
\* Fields the agent has not touched since are unaffected by it; fields it
\* has touched are set back.
PatchConditions ==
  /\ ctl.pc = "conds"
  /\ ctl' = Idle
  /\ \/ UNCHANGED conds /\ NoFault
     \/ conds # ctl.conds /\ conds' = ctl.conds /\ Spend("lostUpdate")
  /\ carried' = IF conds' # conds /\ ctl.bootId # bootId THEN bootId
                ELSE carried
  /\ UNCHANGED <<node, paused, phase, bootId, prof, host, cache, agent>>

\* A bug: the Machine of a node no profile selects is forgotten.
Deadopt_Forgets ==
  /\ ctl = Idle
  /\ ~selected
  /\ NoFault
  /\ UNCHANGED <<node, paused, np, prof, host, cache, ctl, agent, carried>>

\* A node no profile selects keeps its NodePrep; its Machine is released.
Deadopt ==
  /\ ctl = Idle
  /\ ~selected
  /\ paused' = FALSE
  /\ NoFault
  /\ UNCHANGED <<node, np, prof, host, cache, ctl, agent, carried>>

SyncCache ==
  /\ cache # node
  /\ cache' = node
  /\ NoFault
  /\ UNCHANGED <<node, paused, np, prof, host, ctl, agent, carried>>

Controller ==
  \/ BeginReconcile \/ ApplyNodeChanges \/ ReconcileCAPAPause
  \/ PatchConditions \/ Deadopt
-----------------------------------------------------------------------------
(* The agent *)

GoTo(p) == apc' = p /\ UNCHANGED <<seen, verifyDue, timer>>

ReadNodePrep ==
  /\ apc = "idle"
  /\ apc' = "cycle" /\ seen' = conds
  /\ NoFault
  /\ UNCHANGED <<node, paused, np, prof, host, cache, ctl, verifyDue,
                 timer, carried>>

ReopenForProfile ==
  /\ apc = "cycle" /\ reopen
  /\ reopen' = FALSE
  /\ phase' = "Provisioning"
  /\ GoTo("idle")
  /\ NoFault
  /\ UNCHANGED <<node, paused, bootId, conds, capiPause, selected, host, cache,
                 ctl, carried>>

\* Bugs: a condition survives the boot.
BootConds_KeepsVerified(c) == [c EXCEPT !.rebootRequired = FALSE]

\* On a new boot both conditions are cleared, with the new boot id.
BootConds(c) == NoConds

SyncBoot ==
  /\ apc = "cycle" /\ ~reopen
  /\ bootId # boot
  /\ bootId' = boot
  /\ conds' = IF bootId = 0 THEN seen ELSE BootConds(seen)
  /\ seen' = conds'
  /\ NoFault
  /\ UNCHANGED <<node, paused, phase, prof, host, cache, ctl, apc, verifyDue,
                 timer, carried>>

PastBootProtocol == apc = "cycle" /\ ~reopen /\ bootId = boot

Resume ==
  /\ PastBootProtocol
  /\ phase = "Failed"
  /\ \/ phase' = "Provisioning" /\ Spend("resume")
     \/ UNCHANGED phase /\ NoFault
  /\ GoTo("idle")
  /\ UNCHANGED <<node, paused, bootId, conds, prof, host, cache, ctl, carried>>

HoldForReboot ==
  /\ PastBootProtocol
  /\ phase # "Failed" /\ seen.rebootRequired
  /\ GoTo("idle")
  /\ NoFault
  /\ UNCHANGED <<node, paused, np, prof, host, cache, ctl, carried>>

\* The stages up to Finalizing end, fail, or ask for a reboot.
Walk ==
  /\ PastBootProtocol
  /\ phase = "Provisioning" /\ ~seen.rebootRequired
  /\ \/ phase' = "Finalizing" /\ NoFault /\ GoTo("idle")
     \/ phase' = "Failed" /\ Spend("walkFail") /\ GoTo("idle")
     \/ UNCHANGED phase /\ Spend("boot") /\ GoTo("request")
  /\ UNCHANGED <<node, paused, bootId, conds, prof, host, cache, ctl, carried>>

\* patchCondition reads the array afresh, and then writes it.
RequestReboot ==
  /\ apc = "request"
  /\ apc' = "required" /\ seen' = conds
  /\ NoFault
  /\ UNCHANGED <<node, paused, np, prof, host, cache, ctl, verifyDue,
                 timer, carried>>

RequireReboot ==
  /\ apc = "required"
  /\ apc' = "idle" /\ timer' = TRUE
  /\ conds' = [seen EXCEPT !.rebootRequired = TRUE]
  /\ NoFault
  /\ UNCHANGED <<node, paused, phase, bootId, prof, host, cache, ctl, seen,
                 verifyDue, carried>>

\* Boot verification in Finalizing and, when due, in Ready; only the latter
\* starts the interval.  The verdict is written by the next action.
BootVerify ==
  /\ PastBootProtocol
  /\ ~seen.rebootRequired
  /\ phase = "Finalizing" \/ (phase = "Ready" /\ verifyDue)
  /\ \/ healthy /\ apc' = "passed" /\ verifiedBoot' = boot
     \/ ~healthy /\ apc' = "failed" /\ UNCHANGED verifiedBoot
  /\ NoFault
  /\ verifyDue' = (verifyDue /\ phase # "Ready")
  /\ UNCHANGED <<node, paused, np, prof, boot, healthy, cache, ctl, seen,
                 timer, carried>>

\* finalizeAndVerify always writes the verdict; verifyReady only when it
\* differs from what the cycle read.
RecordVerify ==
  /\ apc \in {"passed", "failed"}
  /\ apc' = IF phase = "Finalizing" /\ apc = "passed" THEN "ready" ELSE "idle"
  /\ conds' = IF phase = "Ready" /\ seen.bootVerified = (apc = "passed")
              THEN conds
              ELSE [seen EXCEPT !.bootVerified = (apc = "passed")]
  /\ NoFault
  /\ UNCHANGED <<node, paused, phase, bootId, prof, host, cache, ctl, seen,
                 verifyDue, timer, carried>>

EnterReady ==
  /\ apc = "ready"
  /\ phase' = "Ready"
  /\ GoTo("idle")
  /\ NoFault
  /\ UNCHANGED <<node, paused, bootId, conds, prof, host, cache, ctl, carried>>

RestReady ==
  /\ PastBootProtocol
  /\ phase = "Ready" /\ ~seen.rebootRequired /\ ~verifyDue
  /\ GoTo("idle")
  /\ NoFault
  /\ UNCHANGED <<node, paused, np, prof, host, cache, ctl, carried>>

\* bootVerifyInterval has passed.
VerifyInterval ==
  /\ ~verifyDue
  /\ verifyDue' = TRUE
  /\ NoFault
  /\ UNCHANGED <<node, paused, np, prof, host, cache, ctl, apc, seen,
                 timer, carried>>

Agent ==
  \/ ReadNodePrep \/ ReopenForProfile \/ SyncBoot \/ Resume
  \/ HoldForReboot \/ Walk \/ RequestReboot \/ RequireReboot
  \/ BootVerify \/ RecordVerify \/ EnterReady \/ RestReady
-----------------------------------------------------------------------------
(* The node and the operator *)

NewProcess ==
  apc' = "idle" /\ seen' = NoConds /\ verifyDue' = TRUE /\ timer' = FALSE

NewBoot ==
  /\ ctl = Idle \/ "span" \in Faults
  /\ boot' = boot + 1
  /\ NewProcess
  /\ UNCHANGED <<node, paused, np, prof, verifiedBoot, healthy, cache,
                 ctl, carried>>

RebootFires == timer /\ NewBoot /\ NoFault
NaturalBoot == NewBoot /\ Spend("boot")

AgentRestart ==
  /\ ~timer  \* a restart inside the grace period is a fault of AgentWalk
  /\ NewProcess
  /\ Spend("restart")
  /\ UNCHANGED <<node, paused, np, prof, host, cache, ctl, carried>>

\* A host may drift for good; somebody may repair it.
HostDrifts ==
  /\ \/ healthy /\ healthy' = FALSE /\ Spend("drift")
     \/ ~healthy /\ healthy' = TRUE /\ NoFault
  /\ UNCHANGED <<node, paused, np, prof, boot, verifiedBoot, cache, ctl,
                 agent, carried>>

\* Kubelet posts the boot id with its first node status.
PostStatus ==
  /\ node.boot # boot
  /\ node' = [node EXCEPT !.boot = boot]
  /\ NoFault
  /\ UNCHANGED <<paused, np, prof, host, cache, ctl, agent, carried>>

Operator ==
  /\ \/ Spend("edit") /\ reopen' = TRUE /\ UNCHANGED <<capiPause, selected>>
     \/ Spend("deselect") /\ selected' = FALSE /\ UNCHANGED <<capiPause, reopen>>
     \/ Spend("policy") /\ capiPause' = FALSE /\ reopen' = TRUE
          /\ UNCHANGED selected
  /\ UNCHANGED <<node, paused, np, host, cache, ctl, agent, carried>>

Environment ==
  \/ SyncCache \/ VerifyInterval
  \/ RebootFires \/ NaturalBoot \/ AgentRestart \/ HostDrifts \/ PostStatus
  \/ Operator

Next == Controller \/ Agent \/ Environment

Spec == Init /\ [][Next]_vars

(***************************************************************************)
(* Fairness: the resync reconciles the node again and again, the agent     *)
(* polls, kubelet posts its status, watches are delivered, an armed reboot *)
(* fires and the verify interval passes.                                   *)
(***************************************************************************)
FairSpec ==
  /\ Spec
  /\ WF_vars(Controller) /\ WF_vars(Agent)
  /\ WF_vars(SyncCache) /\ WF_vars(PostStatus)
  /\ WF_vars(RebootFires) /\ WF_vars(VerifyInterval)
-----------------------------------------------------------------------------
(* Properties *)

CondsType == [bootVerified : BOOLEAN, rebootRequired : BOOLEAN]
NodeType == [boot : Nat \ {0}, taint : BOOLEAN, label : BOOLEAN]
ReconcileType ==
  [pc : {"node", "pause", "conds"}, seen : NodeType, taint : BOOLEAN,
   label : {"Set", "Remove", "None"}, pause : {"Pause", "Clear", "None"},
   bootId : Nat, conds : CondsType]

\* Every variable has its type.
TypeOK ==
  /\ node \in NodeType /\ cache \in NodeType /\ paused \in BOOLEAN
  /\ phase \in {"Provisioning", "Finalizing", "Ready", "Failed"}
  /\ bootId \in Nat /\ conds \in CondsType
  /\ capiPause \in BOOLEAN /\ selected \in BOOLEAN /\ reopen \in BOOLEAN
  /\ boot \in Nat \ {0} /\ verifiedBoot \in Nat /\ healthy \in BOOLEAN
  /\ ctl \in ReconcileType \cup {Idle}
  /\ apc \in {"idle", "cycle", "request", "required", "passed", "failed",
              "ready"}
  /\ seen \in CondsType /\ verifyDue \in BOOLEAN /\ timer \in BOOLEAN
  /\ carried \in Nat /\ faultsLeft \in 0..MaxFaults

\* BootVerified vouches for the recorded boot: next to the running boot's id
\* it says that a verification passed on this boot (controller/README.md:
\* released "only when the node reaches Ready with boot-verify passed on the
\* current boot").  One thing alone can make it lie: a reconcile that read the
\* conditions before this boot was recorded and wrote them back afterwards.
VerifiedIsThisBoot ==
  conds.bootVerified /\ bootId = boot => verifiedBoot = boot \/ carried = boot

Sound == verifiedBoot = boot /\ healthy

\* Conditions of one boot have been written under the record of the next.
CarriedOver == carried # 0

\* A node whose running boot is not verified, or has drifted, does not stay
\* offered: the front-run, the agent's boot sync or a failed verify brings the
\* taint back and takes the worker-role label, or a verify passes
\* (controller.go, lifecycle; decisions.go, WorkerLabelDecision).
OfferWithdrawn ==
  /\ TaintsOn /\ selected /\ ~node.taint /\ ~Sound
       ~> node.taint \/ Sound \/ ~selected \/ CarriedOver
  /\ LabelPolicy # "ignore" /\ selected /\ node.label /\ ~Sound
       ~> ~node.label \/ Sound \/ ~selected \/ CarriedOver

\* In the end the Node and the Machine say what the NodePrep says, whatever
\* order the writes came in.
Owned == ~(phase = "Ready" /\ conds.bootVerified)
ContractSettles ==
  <>[](selected =>
         /\ TaintsOn => node.taint = Owned
         /\ LabelPolicy # "ignore" => node.label = ~Owned
         /\ capiPause => paused = (phase # "Ready"))

\* A requested reboot is over once its boot is recorded: RebootRequired does
\* not outlive it (agent.go, cycle: "The boot_id change clears the condition
\* above and re-verification resumes the walk").
WalkResumes == conds.rebootRequired ~> ~conds.rebootRequired


\* The Machine is not left paused once its node is Ready or no longer
\* selected (controller/README.md: "paused ... while prepping and unpaused at
\* Ready"; "de-adoption releases the Machine").
MachineReleased ==
  /\ (phase = "Ready" ~> ~paused \/ phase # "Ready")
  /\ (~selected ~> ~paused)
=============================================================================
