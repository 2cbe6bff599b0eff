------------------------------- MODULE Handover -------------------------------
(***************************************************************************)
(* How one node passes from the bash scripts to nodeprep.  In the bash era *)
(* nodeprep-v106.sh moves the spectrocloud.com/nodeprep label and the      *)
(* legacy controller (software/nodeprep-controller) answers Node events:   *)
(* it pauses the Machine, removes the taint, manages the worker label.     *)
(* Then the scripts and the legacy controller are removed, in one step     *)
(* with the arrival of the new controller (design, section 9.1), which     *)
(* matches the node to a profile, adopts it (internal/controller/          *)
(* controller.go) and imports the label as the phase to begin at.          *)
(*                                                                         *)
(* The controller and the agent's cycle are cut at every read and write of *)
(* the NodePrep: both patch it by name, with no resourceVersion.  A stage  *)
(* is one step of the agent (AgentWalk has its inside), which holds no     *)
(* gate (Admission); boots of the nodeprep era, and informer copies that   *)
(* lag, are in TaintContract: here Ready is verified, and a reconcile acts *)
(* on the Node it began with.                                              *)
(***************************************************************************)
EXTENDS NodePrepPhases, Sequences, FiniteSetsExt

CONSTANTS
  Profiles,   \* profile names: numbers, which the controller sorts
  Mode,       \* Mode[p]: selection.mode of a profile
  Prep,       \* Prep[p]: controlPlane.prep
  Edited,     \* bound: the profiles that the operator edits
  MaxFaults,  \* bound: faults in one behaviour
  FaultSets   \* the environments: each a set of faults, see FaultKinds

Modes == {"labelSelector", "allWorkers", "allNodes"}

FaultKinds ==
  { "boot",    \* a node the bash completed boots again
    "write",   \* a write to the Node or the Machine fails, with its retries
    "status",  \* the status patch of an adoption fails
    "move",    \* the operator moves the node to another pool
    "edit",    \* the operator edits a profile
    "delete",  \* the operator deletes the NodePrep
    "twins" }  \* two profiles have a generation number in common

ASSUME ProfilesAssumption ==
  /\ Profiles \in SUBSET Nat /\ Profiles # {} /\ 0 \notin Profiles
  /\ Mode \in [Profiles -> Modes]
  /\ Prep \in [Profiles -> BOOLEAN]

ASSUME BoundsAssumption ==
  /\ Edited \in SUBSET Profiles
  /\ MaxFaults \in Nat
  /\ FaultSets \in SUBSET SUBSET FaultKinds

VARIABLES
  era,          \* "bash" or "nodeprep"
  node,         \* the Node: legacy label, worker label, taint, role, pool
  paused,       \* the Machine's annotation
  events, lctl, \* the legacy informer's queue; the event being handled
  ctl,          \* the new controller's reconcile in progress
  gen, compat,  \* the profiles' generations; policy.labelCompat
  np,           \* the NodePrep: profileRef, phase, observed generation
  agt,          \* the agent's cycle in progress, with the NodePrep it read
  served,       \* history: for whom each stage was last completed
  healed,       \* history: the agent healed a node that the scripts had begun
  faults, faultsLeft

bash    == <<events, lctl>>
desired == <<gen, compat>>
done    == <<served, healed>>
vars == <<era, node, paused, bash, ctl, desired, np, agt, done, faults,
          faultsLeft>>

NoProfile == 0

\* What the node's own labels say: the pool of a profile, no pool, excluded.
NoPool   == 0
Excluded == -1
Pools    == {p \in Profiles : Mode[p] = "labelSelector"} \cup {NoPool, Excluded}

\* Who completed a stage: nobody, the scripts, or the agent for a profile at a
\* generation.
nobody    == <<NoProfile, 0>>
byBash    == <<NoProfile, 1>>
Absent    == [ref |-> NoProfile, phase |-> Unset, gen |-> 0]
exists    == np.ref # NoProfile
idle      == [pc |-> "idle"]

Spend(f) == /\ f \in faults
            /\ faultsLeft > 0
            /\ faultsLeft' = faultsLeft - 1
            /\ UNCHANGED faults

NoFault == UNCHANGED <<faults, faultsLeft>>

\* A write lands, or fails with all of its retries.
Lands == NoFault
Fails == Spend("write")

\* Roles: a control plane may have been freed of its control-plane taint.
isControlPlane(n) == n.role # "worker"

WorkerLabelApplies(n) == n.role # "taintedCP"

Init ==
  /\ era = "bash"
  /\ node \in [legacy : {Unset}, worker : BOOLEAN, taint : {TRUE},
               role : {"worker", "openCP", "taintedCP"},
               pool : {NoPool}]
  /\ paused = FALSE
  /\ events = <<>> /\ lctl = idle
  /\ ctl = idle
  \* no number of edits makes the generations meet, unless they begin equal
  /\ faults \in FaultSets /\ faultsLeft = MaxFaults
  /\ gen = [p \in Profiles |->
              IF "twins" \in faults THEN 1 ELSE p * (MaxFaults + 1)]
  /\ compat = FALSE
  /\ np = Absent
  /\ agt = idle
  /\ served = [q \in WalkStages |-> nobody]
  /\ healed = FALSE
-----------------------------------------------------------------------------
(* The bash scripts: nodeprep-v106.sh *)

\* The scripts complete stages and then move the label.
Label(v, stages) ==
  /\ era = "bash"
  /\ served' = [q \in WalkStages |-> IF q \in stages THEN byBash ELSE served[q]]
  /\ UNCHANGED <<era, paused, lctl, ctl, desired, np, agt, healed>>
  /\ LET n == [node EXCEPT !.legacy = v,
                           !.taint = @ /\ ~(v = "complete" /\ isControlPlane(node))]
     IN  node' = n /\ events' = Append(events, n)

BashStage ==
  /\ \/ node.legacy = Unset /\ Label("init", {})
     \/ node.legacy = "init" /\ Label("config", {"Provisioning", "Flashing"})
     \/ node.legacy = "config" /\ Label("precomplete", {"Configuring"})
     \/ node.legacy = "precomplete" /\ Label("complete", {"Finalizing"})
  /\ NoFault

\* The complete stage runs again at every boot.
BashBoot ==
  /\ node.legacy = "complete"
  /\ Label("precomplete", {})
  /\ Spend("boot")
-----------------------------------------------------------------------------
(* The legacy controller: one event at a time, decided on the event's copy *)

HandleEvent ==
  /\ era = "bash"
  /\ lctl = idle /\ events # <<>>
  /\ lctl' = [pc |-> "pause", seen |-> Head(events)]
  /\ events' = Tail(events)
  /\ NoFault
  /\ UNCHANGED <<era, node, paused, ctl, desired, np, agt, done>>

\* There is no resync, but kubelet touches the Node for ever.
Heartbeat ==
  /\ era = "bash"
  /\ lctl = idle /\ events = <<>>
  /\ events' = <<node>>
  /\ NoFault
  /\ UNCHANGED <<era, node, paused, lctl, ctl, desired, np, agt, done>>

\* A bug: the Machine is paused for every labelled node.
reconcileMachinePauseAnnotation_Sticky ==
  /\ era = "bash"
  /\ lctl.pc = "pause"
  /\ paused' = (paused \/ lctl.seen.legacy # Unset) /\ NoFault
  /\ lctl' = [lctl EXCEPT !.pc = "taint"]
  /\ UNCHANGED <<era, node, events, ctl, desired, np, agt, done>>

reconcileMachinePauseAnnotation ==
  /\ era = "bash"
  /\ lctl.pc = "pause"
  /\ \/ /\ paused' = IF lctl.seen.legacy = Unset THEN paused
                     ELSE lctl.seen.legacy # "complete"
        /\ Lands
     \/ UNCHANGED paused /\ Fails
  /\ lctl' = [lctl EXCEPT !.pc = "taint"]
  /\ UNCHANGED <<era, node, events, ctl, desired, np, agt, done>>

\* One of the three node updates of handleNode, which the event's copy gates.
LegacyWrite(pc, next, wanted, n) ==
  /\ era = "bash"
  /\ lctl.pc = pc
  /\ lctl' = IF next = "idle" THEN idle ELSE [lctl EXCEPT !.pc = next]
  /\ \/ /\ wanted /\ n # node
        /\ node' = n /\ events' = Append(events, n)
        /\ Lands
     \/ /\ ~(wanted /\ n # node)
        /\ UNCHANGED <<node, events>> /\ NoFault
     \/ /\ wanted /\ n # node
        /\ UNCHANGED <<node, events>> /\ Fails
  /\ UNCHANGED <<era, paused, ctl, desired, np, agt, done>>

removeTaintIfComplete ==
  LegacyWrite("taint", "unlabel",
              lctl.seen.legacy = "complete" /\ lctl.seen.taint,
              [node EXCEPT !.taint = FALSE])

removeWorkerRoleLabel ==
  LegacyWrite("unlabel", "label",
              lctl.seen.legacy = "precomplete" /\ lctl.seen.worker,
              [node EXCEPT !.worker = FALSE])

addWorkerRoleLabel ==
  LegacyWrite("label", "idle",
              lctl.seen.legacy = "complete" /\ ~lctl.seen.worker,
              [node EXCEPT !.worker = TRUE])

LegacyController ==
  \/ HandleEvent \/ reconcileMachinePauseAnnotation \/ removeTaintIfComplete
  \/ removeWorkerRoleLabel \/ addWorkerRoleLabel

\* The operator labels the node for a profile, or not; the scripts and the
\* legacy controller go, the new controller lists the Nodes.
Rollout ==
  /\ era = "bash"
  /\ era' = "nodeprep"
  /\ events' = <<>> /\ lctl' = idle
  /\ \E pool \in Pools : node' = [node EXCEPT !.pool = pool]
  /\ compat' \in BOOLEAN
  /\ NoFault
  /\ UNCHANGED <<paused, ctl, gen, np, agt, done>>
-----------------------------------------------------------------------------
(* The new controller: selection *)

matchesSelection(p, n) ==
  CASE n.pool = Excluded            -> FALSE
    [] n.pool # Excluded            ->
         CASE Mode[p] = "allWorkers"    -> ~isControlPlane(n)
           [] Mode[p] = "allNodes"      -> TRUE
           [] Mode[p] = "labelSelector" -> n.pool = p

\* The first profile, by name, that selects the node.
matchProfile(n) ==
  LET matching == {p \in Profiles : matchesSelection(p, n)}
  IN  IF matching = {} THEN NoProfile ELSE Min(matching)

Frozen(n, p) == isControlPlane(n) /\ ~Prep[p]

Reconciling(p) ==
  /\ era = "nodeprep" /\ ctl = idle
  /\ p = matchProfile(node)
  /\ UNCHANGED <<era, bash, desired, agt, done>>

\* A bug: a Machine is released only while its NodePrep is unfinished.
Deadopt_Unready ==
  /\ Reconciling(NoProfile) /\ exists /\ np.phase # "Ready" /\ paused
  /\ paused' = FALSE /\ Lands
  /\ UNCHANGED <<node, ctl, np>>

\* The node matches no profile: its NodePrep stays, its Machine is released.
Deadopt ==
  /\ Reconciling(NoProfile) /\ exists /\ paused
  /\ \/ paused' = FALSE /\ Lands
     \/ UNCHANGED paused /\ Fails
  /\ UNCHANGED <<node, ctl, np>>

\* Bugs: the label names a stage that is done; it is not read.
importPhase_Done(v) == IF v = "init" THEN "Flashing" ELSE FromLegacy[v]
importPhase_Ignored(v) == "Pending"

\* The phase a legacy label is imported at; an unknown label starts over.
importPhase(v) == IF v \in DOMAIN FromLegacy THEN FromLegacy[v] ELSE "Pending"

\* A bug: the phase itself is mirrored, which the scripts do not know.
LegacyFor_Phase == [q \in Phases |-> q]

\* The bash value of a phase; Failed, which has none, does not occur here.
LegacyFor ==
  [q \in Phases \ {"Failed"} |->
    CASE q \in {"Pending", "Provisioning"}          -> "init"
      [] q = "Flashing"                             -> "inithw"
      [] q = "Configuring"                          -> "config"
      [] q \in {"Finalizing", "ColdRebootRequired"} -> "precomplete"
      [] q = "Ready"                                -> "complete"]

\* What lifecycle wants of Node n at phase q.
Desired(n, q) ==
  [n EXCEPT !.taint  = TaintShouldExist(q, TRUE, TRUE),
            !.legacy = IF compat THEN LegacyFor[q] ELSE Unset,
            !.worker = IF ~WorkerLabelApplies(n) THEN @
                       ELSE WorkerLabelDecision(q, TRUE, TRUE, "manage") = "Set"]

\* A reconcile on its way: what it read, and whether the Node has to change.
Lifecycle(pc, q, g) ==
  [pc |-> pc, phase |-> q, gen |-> g, dirty |-> node # Desired(node, q)]

\* First write of adoptNode.  The API server drops the status.
Create ==
  \E p \in Profiles :
    /\ Reconciling(p) /\ ~Frozen(node, p) /\ ~exists
    /\ np' = [Absent EXCEPT !.ref = p]
    /\ ctl' = Lifecycle("status", importPhase(node.legacy), gen[p])
    /\ NoFault
    /\ UNCHANGED <<node, paused>>

\* Second write of adoptNode.  When it fails the reconcile ends, and no later
\* one imports the label.
InitialStatus ==
  /\ ctl.pc = "status"
  /\ \/ /\ exists
        /\ np' = [np EXCEPT !.phase = ctl.phase, !.gen = ctl.gen]
        /\ ctl' = [ctl EXCEPT !.pc = "node"]
        /\ NoFault
     \/ /\ UNCHANGED np
        /\ ctl' = idle
        /\ \/ ~exists /\ NoFault
           \/ Spend("status")
  /\ UNCHANGED <<era, node, paused, bash, desired, agt, done>>

\* A bug: a reconcile that changes no reference ends early.
FollowSelection_OnChange ==
  \E p \in Profiles :
    /\ Reconciling(p) /\ ~Frozen(node, p) /\ exists /\ np.ref # p
    /\ np' = [np EXCEPT !.ref = p]
    /\ ctl' = Lifecycle("node", IF np.phase = Unset THEN "Pending" ELSE np.phase,
                         np.gen)
    /\ NoFault
    /\ UNCHANGED <<node, paused>>

\* An adopted node: the reference follows the selection, nothing else does.
FollowSelection ==
  \E p \in Profiles :
    /\ Reconciling(p) /\ ~Frozen(node, p) /\ exists
    /\ np' = [np EXCEPT !.ref = p]
    /\ ctl' = Lifecycle("node", IF np.phase = Unset THEN "Pending" ELSE np.phase,
                         np.gen)
    /\ NoFault
    /\ UNCHANGED <<node, paused>>

\* applyNodeChanges: nothing to do for the copy, or the Node as it is changes.
applyNodeChanges ==
  /\ ctl.pc = "node"
  /\ ctl' = [ctl EXCEPT !.pc = "pause"]
  /\ \/ ctl.dirty /\ node' = Desired(node, ctl.phase) /\ Lands
     \/ ctl.dirty /\ UNCHANGED node /\ Fails
     \/ ~ctl.dirty /\ UNCHANGED node /\ NoFault
  /\ UNCHANGED <<era, paused, bash, desired, np, agt, done>>

reconcileCAPAPause ==
  /\ ctl.pc = "pause"
  /\ ctl' = idle
  /\ \/ paused' = (ctl.phase # "Ready") /\ Lands
     \/ UNCHANGED paused /\ Fails
  /\ UNCHANGED <<era, node, bash, desired, np, agt, done>>

Controller ==
  \/ Deadopt \/ Create \/ InitialStatus \/ FollowSelection
  \/ applyNodeChanges \/ reconcileCAPAPause
-----------------------------------------------------------------------------
(* The agent: a cycle reads the NodePrep once and patches it by name *)

AgentStep == /\ NoFault
             /\ UNCHANGED <<era, node, paused, bash, ctl, desired>>

\* A patch of the status lands on whatever NodePrep has the name by now.
PatchStatus(n) == np' = IF exists THEN n ELSE np

ReadNodePrep ==
  /\ era = "nodeprep" /\ agt = idle /\ exists
  /\ agt' = [pc |-> IF np.phase = Unset THEN "heal" ELSE "profile", seen |-> np]
  /\ AgentStep
  /\ UNCHANGED <<np, done>>

\* An empty phase is healed, whatever the profile says, and whatever the
\* controller has written since.
Heal ==
  /\ agt.pc = "heal"
  /\ PatchStatus([np EXCEPT !.phase = "Pending"])
  /\ agt' = IF exists THEN [pc |-> "profile",
                             seen |-> [agt.seen EXCEPT !.phase = "Pending"]]
            ELSE idle
  /\ healed' = (healed \/ \E q \in WalkStages : exists /\ served[q] = byBash)
  /\ AgentStep
  /\ UNCHANGED served

\* The profile: the generation it has, the one the NodePrep was read with.
Observed == gen[agt.seen.ref] = agt.seen.gen

\* Nothing to write: the node is frozen, or Ready is verified.
Hold ==
  /\ agt.pc = "profile"
  /\ \/ Frozen(node, agt.seen.ref)
     \/ Observed /\ agt.seen.phase = "Ready"
  /\ agt' = idle
  /\ AgentStep
  /\ UNCHANGED <<np, done>>

\* A profile edit: generations are compared, names are not.  First patch: the
\* ledger is reset and the generation observed.
Reopen ==
  /\ agt.pc = "profile"
  /\ ~Frozen(node, agt.seen.ref) /\ ~Observed
  /\ PatchStatus([np EXCEPT !.gen = gen[agt.seen.ref]])
  /\ agt' = IF exists THEN [agt EXCEPT !.pc = "phase"] ELSE idle
  /\ AgentStep
  /\ UNCHANGED done

\* A bug: the generation is observed and the phase is kept.
ReopenPhase_Forgotten ==
  /\ agt.pc = "phase"
  /\ agt' = idle
  /\ AgentStep
  /\ UNCHANGED <<np, done>>

\* Second patch: the walk starts over.
ReopenPhase ==
  /\ agt.pc = "phase"
  /\ PatchStatus([np EXCEPT !.phase = "Provisioning"])
  /\ agt' = idle
  /\ AgentStep
  /\ UNCHANGED done

\* A stage of the phase that was read, for the profile that was read.
Walk ==
  /\ agt.pc = "profile"
  /\ ~Frozen(node, agt.seen.ref) /\ Observed
  /\ \/ /\ agt.seen.phase = "Pending"
        /\ PatchStatus([np EXCEPT !.phase = "Provisioning"])
        /\ UNCHANGED served
     \/ /\ agt.seen.phase \in WalkStages
        /\ PatchStatus([np EXCEPT !.phase = nextStage[agt.seen.phase]])
        /\ served' = [served EXCEPT ![agt.seen.phase] =
                         <<agt.seen.ref, agt.seen.gen>>]
  /\ agt' = idle
  /\ AgentStep
  /\ UNCHANGED healed

Agent == ReadNodePrep \/ Heal \/ Hold \/ Reopen \/ ReopenPhase \/ Walk
-----------------------------------------------------------------------------
(* The operator *)

MoveNode ==
  /\ era = "nodeprep"
  /\ \E pool \in Pools \ {node.pool} :
       node' = [node EXCEPT !.pool = pool]
  /\ Spend("move")
  /\ UNCHANGED <<era, paused, bash, ctl, desired, np, agt, done>>

EditProfile ==
  /\ era = "nodeprep"
  /\ \E p \in Edited : gen' = [gen EXCEPT ![p] = @ + 1]
  /\ Spend("edit")
  /\ UNCHANGED <<era, node, paused, bash, ctl, compat, np, agt, done>>

DeleteNodePrep ==
  /\ exists
  /\ np' = Absent
  /\ Spend("delete")
  /\ UNCHANGED <<era, node, paused, bash, ctl, desired, agt, done>>

Next ==
  \/ BashStage \/ BashBoot \/ LegacyController \/ Heartbeat
  \/ Rollout
  \/ Controller \/ Agent
  \/ MoveNode \/ EditProfile \/ DeleteNodePrep

Spec == Init /\ [][Next]_vars

(***************************************************************************)
(* Fairness: each program takes its steps and events arrive.  The roll-out *)
(* itself, the scripts and the operator are not fair.                      *)
(***************************************************************************)
FairSpec ==
  /\ Spec
  /\ WF_vars(LegacyController) /\ WF_vars(Heartbeat)
  /\ WF_vars(Controller) /\ WF_vars(Agent)
-----------------------------------------------------------------------------
(* Properties *)

Roles    == {"worker", "openCP", "taintedCP"}
Labels   == {Unset, "init", "inithw", "config", "precomplete", "complete"}
Reached  == WalkStages \cup {"Pending", "Ready"}   \* nothing fails or parks here

Nodes == [legacy : Labels, worker : BOOLEAN, taint : BOOLEAN, role : Roles,
          pool : Pools]

\* Who can have completed a stage, and for which generation.
Servings == (Profiles \cup {NoProfile}) \X Nat

Events     == [pc : {"pause", "taint", "unlabel", "label"}, seen : Nodes]
Reconciles == [pc : {"status", "node", "pause"}, phase : Reached, gen : Nat,
               dirty : BOOLEAN]

NodePreps == [ref : Profiles \cup {NoProfile}, phase : Reached \cup {Unset},
              gen : Nat]

\* A cycle of the agent: what comes next, and the NodePrep it began with.
Cycles == [pc : {"heal", "profile", "phase"},
           seen : {n \in NodePreps : n.ref # NoProfile}]

\* Every variable has its type.
TypeOK ==
  /\ era \in {"bash", "nodeprep"} /\ paused \in BOOLEAN /\ compat \in BOOLEAN
  /\ node \in Nodes
  /\ events \in Seq(Nodes)
  /\ lctl \in {idle} \cup Events
  /\ ctl \in {idle} \cup Reconciles
  /\ np \in NodePreps
  /\ agt \in {idle} \cup Cycles
  /\ agt.pc \in {"profile", "phase"} => agt.seen.phase # Unset
  /\ gen \in [Profiles -> Nat]
  /\ served \in [WalkStages -> Servings] /\ healed \in BOOLEAN
  /\ faults \in FaultSets /\ faultsLeft \in 0..MaxFaults

Fresh == ~exists \/ np.phase = Unset

\* However the import, a failed initial status, edits and moves interleave, no
\* stage is skipped: what lies before the phase has been done, by the scripts
\* or by the agent (controller.go, adoptNode; phases.go, FromLegacy).
NoStageSkipped ==
  ~Fresh => \A q \in WalkStages :
    stageRank[q] < stageRank[np.phase] => served[q] # nobody

\* A Ready node was prepared for the profile and the generation it is Ready
\* for, or by the scripts (agent.go, profile edit: "a new profile generation
\* invalidates every step"), once the two patches of a re-opening are both
\* written.  Two ways round it are excluded: a move between profiles that have
\* a generation in common, and a NodePrep deleted while the label still tells
\* of work done before an edit.
ReadyServesProfile ==
  /\ np.phase = "Ready" /\ gen[np.ref] = np.gen
  /\ agt.pc # "phase"
  /\ ~({"twins", "move"} \subseteq faults)
  /\ "delete" \notin faults
  => \A q \in WalkStages : served[q] \in {byBash, <<np.ref, np.gen>>}

\* What the scripts finished is not done again but for the last stage, which
\* every import repeats, as long as the profile stays what it is and the agent
\* has not healed a NodePrep that it read before the initial status was written
\* (controller.go, adoptNode: "the initial phase has to be written through the
\* subresource").
ImportSaysWhatIsDone ==
  [][ faults \cap {"edit", "move", "delete"} = {} /\ ~healed
      => \A q \in WalkStages \ {"Finalizing"} :
           served[q] = byBash => served'[q] = byBash ]_vars

\* In the bash era a completed node opens: untainted, labelled, Machine
\* released (nodeprep-controller/main.go, handleNode).
CompleteOpens ==
  <>[](era = "bash" /\ node.legacy = "complete") =>
    <>[](~node.taint /\ node.worker /\ ~paused)

Claimed == /\ era = "nodeprep" /\ matchProfile(node) # NoProfile
           /\ ~Frozen(node, matchProfile(node))

\* A node that a profile claims, and may prepare, gets to Ready, and Node and
\* Machine with it, whatever the bash era left (controller.go, reconcileNode).
ClaimedNodeOpens ==
  <>[](Claimed /\ exists) =>
    <>[]( /\ np.phase = "Ready" /\ np.ref = matchProfile(node)
          /\ ~node.taint /\ ~paused
          /\ WorkerLabelApplies(node) => node.worker
          /\ node.legacy = IF compat THEN "complete" ELSE Unset )

\* "A stale pause annotation would block CAPI from reconciling the Machine
\* forever" (controller.go, reconcileNode): a de-adopted node's Machine is
\* released and stays so.
UnclaimedMachineFreed ==
  <>[](era = "nodeprep" /\ matchProfile(node) = NoProfile /\ exists) => <>[]~paused
=============================================================================
