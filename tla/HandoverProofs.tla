---------------------------- MODULE HandoverProofs ----------------------------
(***************************************************************************)
(* Proofs about the passage of one node from the scripts to nodeprep, for  *)
(* any profiles, their selection modes and preparation of control planes,  *)
(* any faults and bound:                                                   *)
(*                                                                         *)
(*   TypeCorrect      every variable keeps its type                        *)
(*   NothingSkipped   NoStageSkipped                                       *)
(*   ReadyIsPrepared  ReadyServesProfile                                   *)
(*   ImportIsTrusted  ImportSaysWhatIsDone                                 *)
(*                                                                         *)
(* Four places name a phase: the label, a reconcile on its way, the        *)
(* NodePrep and the copy that the agent's cycle began with.  ClaimsInv     *)
(* says of each that what lies before it was done, ImportInv that what the *)
(* scripts did lies before it.  ReadyServesProfile needs to know to whom a *)
(* generation belongs: the ranges of the profiles' generations never meet  *)
(* (GenInv), so that a stage completed for a generation that some profile  *)
(* still has was completed for that profile (Prepared, and CopyPrepared of *)
(* the agent's copy), and the agent that walks while the imported status   *)
(* is on its way has done so for no older one (StatusOnItsWay).  When that *)
(* status lands under a cycle, it observes no newer generation than the    *)
(* cycle did (Behind).                                                     *)
(***************************************************************************)
EXTENDS Handover, TLAPS

\* The zero value is no phase and no label of the scripts.
LEMMA UnsetDistinct ==
  Unset \notin {"Pending", "Provisioning", "Flashing", "Configuring", "Finalizing",
                "Ready", "init", "inithw", "config", "precomplete", "complete"}
BY Zenon DEF Unset

\* A step that spends a fault, or none, leaves the environment and a budget.
LEMMA SpendType ==
  ASSUME TypeOK, NEW f, Spend(f) \/ NoFault
  PROVE  /\ faults' = faults /\ faultsLeft' \in 0..MaxFaults
         /\ faultsLeft' \in {faultsLeft, faultsLeft - 1}
BY BoundsAssumption DEF Spend, NoFault, TypeOK

\* Every phase that the model reaches has a label of the scripts.
LEMMA LegacyForType ==
  ASSUME NEW q \in Reached PROVE LegacyFor[q] \in Labels
BY DEF LegacyFor, Labels, Reached, Phases, WalkStages

\* What lifecycle wants of a Node is a Node.
LEMMA DesiredType ==
  ASSUME NEW n \in Nodes, NEW q \in Reached
  PROVE  /\ Desired(n, q) \in Nodes
         /\ Desired(n, q).pool = n.pool /\ Desired(n, q).role = n.role
         /\ Desired(n, q).legacy = IF compat THEN LegacyFor[q] ELSE Unset
<1>1. /\ LegacyFor[q] \in Labels /\ Unset \in Labels
      /\ TaintShouldExist(q, TRUE, TRUE) \in BOOLEAN
  BY LegacyForType DEF Labels, TaintShouldExist
<1> QED
  BY <1>1 DEF Desired, Nodes

\* An imported phase is one that the model reaches.
LEMMA ImportType ==
  ASSUME NEW v \in Labels
  PROVE  importPhase(v) \in Reached /\ importPhase(v) = FromLegacy[v]
BY DEF importPhase, FromLegacy, Labels, Reached, WalkStages

\* A serving is a pair.
LEMMA ServingPairs ==
  /\ nobody \in Servings /\ byBash \in Servings
  /\ \A p \in Profiles : \A g \in Nat : <<p, g>> \in Servings
  /\ \A s \in Servings : s = <<s[1], s[2]>>
BY DEF nobody, byBash, Servings, NoProfile

\* A reconcile that sets out is a reconcile.
LEMMA LifecycleType ==
  ASSUME NEW pc \in {"status", "node", "pause"}, NEW q \in Reached, NEW g \in Nat
  PROVE  Lifecycle(pc, q, g) \in Reconciles
BY DEF Lifecycle, Reconciles

\* A label of the scripts is written to the Node and sent to the informer.
LEMMA LabelType ==
  ASSUME TypeOK, NEW v \in Labels, NEW stages, Label(v, stages)
  PROVE  /\ node' \in Nodes /\ events' \in Seq(Nodes) /\ node'.legacy = v
         /\ node'.pool = node.pool /\ node'.role = node.role
         /\ served' \in [WalkStages -> Servings]
         /\ UNCHANGED <<era, paused, lctl, ctl, desired, np, agt, healed>>
         /\ era = "bash"
<1> DEFINE n == [node EXCEPT !.legacy = v,
                             !.taint = @ /\ ~(v = "complete" /\ isControlPlane(node))]
<1>1. n \in Nodes /\ n.legacy = v /\ n.pool = node.pool /\ n.role = node.role
  BY DEF TypeOK, Nodes
<1>2. node' = n /\ events' = Append(events, n)
  BY DEF Label
<1>3. events' \in Seq(Nodes)
  BY <1>1, <1>2 DEF TypeOK
<1>4. served' \in [WalkStages -> Servings]
  BY ServingPairs DEF Label, TypeOK
<1> HIDE DEF n
<1> QED
  BY <1>1, <1>2, <1>3, <1>4 DEF Label

\* An update of the legacy controller leaves label, pool and role alone.
LEMMA LegacyWriteType ==
  ASSUME TypeOK, NEW pc \in {"taint", "unlabel", "label"},
         NEW next \in {"unlabel", "label", "idle"}, NEW wanted, NEW n \in Nodes,
         n.legacy = node.legacy /\ n.pool = node.pool /\ n.role = node.role,
         LegacyWrite(pc, next, wanted, n)
  PROVE  /\ node' \in Nodes /\ events' \in Seq(Nodes)
         /\ lctl' \in {idle} \cup Events
         /\ node'.legacy = node.legacy
         /\ node'.pool = node.pool /\ node'.role = node.role
         /\ \E f : Spend(f) \/ NoFault
         /\ UNCHANGED <<era, paused, ctl, desired, np, agt, done>>
<1>1. lctl \in Events
  BY DEF LegacyWrite, TypeOK, idle
<1>2. lctl' \in {idle} \cup Events
  BY <1>1 DEF LegacyWrite, Events
<1>3. /\ node' = n \/ node' = node
      /\ events' = Append(events, n) \/ events' = events
  BY DEF LegacyWrite
<1>4. \E f : Spend(f) \/ NoFault
  BY DEF LegacyWrite, Lands, Fails
<1> QED
  <2>1. node' \in Nodes /\ events' \in Seq(Nodes)
    <3>1. node \in Nodes /\ events \in Seq(Nodes)
      BY DEF TypeOK
    <3>2. Append(events, n) \in Seq(Nodes)
      BY <3>1
    <3> QED
      BY <1>3, <3>1, <3>2
  <2>2. /\ node'.legacy = node.legacy
        /\ node'.pool = node.pool /\ node'.role = node.role
    BY <1>3
  <2>3. UNCHANGED <<era, paused, ctl, desired, np, agt, done>>
    BY DEF LegacyWrite
  <2> QED
    BY <1>2, <1>4, <2>1, <2>2, <2>3

\* A node of the bash era is well typed.
LEMMA InitType == Init => TypeOK
<1> SUFFICES ASSUME Init PROVE TypeOK
  OBVIOUS
<1>1. node \in Nodes
  BY DEF Init, Nodes, Labels, Roles, Pools
<1>2. np \in NodePreps
  BY DEF Init, Absent, NodePreps
<1>3. gen \in [Profiles -> Nat]
  BY ProfilesAssumption, BoundsAssumption DEF Init
<1>4. served \in [WalkStages -> Servings]
  BY ServingPairs DEF Init
<1>5. faultsLeft \in 0..MaxFaults
  BY BoundsAssumption DEF Init
<1>6. /\ era = "bash" /\ paused = FALSE /\ compat = FALSE /\ events = <<>>
      /\ lctl = idle /\ ctl = idle /\ faults \in FaultSets
      /\ agt = idle /\ healed = FALSE /\ agt.pc = "idle"
  BY DEF Init, idle
<1> QED
  <2>1. lctl \in {idle} \cup Events /\ ctl \in {idle} \cup Reconciles
    BY <1>6
  <2>2. events \in Seq(Nodes)
    BY <1>6
  <2> QED
    BY <1>1, <1>2, <1>3, <1>4, <1>5, <1>6, <2>1, <2>2 DEF TypeOK

\* A cycle that has begun has read a NodePrep.
LEMMA CopyType ==
  ASSUME TypeOK, agt # idle \/ agt.pc \in {"heal", "profile", "phase"}
  PROVE  /\ agt \in Cycles /\ agt # idle
         /\ agt.seen.ref \in Profiles /\ agt.seen.gen \in Nat
         /\ agt.seen.phase \in Reached \cup {Unset}
         /\ agt.pc \in {"profile", "phase"} => agt.seen.phase # Unset
<1>1. agt \in Cycles
  BY DEF TypeOK, idle
<1>2. agt # idle
  BY <1>1 DEF Cycles, idle
<1> QED
  BY <1>1, <1>2 DEF Cycles, NodePreps, TypeOK

\* What the agent's cycle leaves alone, and that a patch keeps the reference.
LEMMA AgentKeeps ==
  ASSUME TypeOK, Agent
  PROVE  /\ UNCHANGED <<era, node, paused, events, lctl, ctl, gen, compat>> /\ NoFault
         /\ np' \in NodePreps /\ np'.ref = np.ref /\ (exists' <=> exists)
         /\ ~exists => np' = np
<1>1. /\ AgentStep
      /\ \/ np' = np
         \/ \E q \in Reached, g \in Nat :
              \/ PatchStatus([np EXCEPT !.phase = q])
              \/ PatchStatus([np EXCEPT !.gen = g])
  <2>1. CASE ReadNodePrep \/ Hold
    BY <2>1 DEF ReadNodePrep, Hold
  <2>2. CASE Heal \/ ReopenPhase
    BY <2>2 DEF Heal, ReopenPhase, Reached, WalkStages
  <2>3. CASE Reopen
    <3>1. gen[agt.seen.ref] \in Nat
      BY <2>3, CopyType DEF Reopen, TypeOK
    <3> QED
      BY <2>3, <3>1 DEF Reopen, Reached
  <2>4. CASE Walk
    BY <2>4 DEF Walk, Reached, WalkStages, nextStage
  <2> QED
    BY <2>1, <2>2, <2>3, <2>4 DEF Agent
<1>2. np' = np \/ (exists /\ np' \in NodePreps /\ np'.ref = np.ref)
  BY <1>1 DEF PatchStatus, TypeOK, NodePreps
<1> QED
  BY <1>1, <1>2 DEF AgentStep, exists, bash, desired, TypeOK

\* The agent keeps the types of its copy and of the history.
LEMMA AgentType ==
  ASSUME TypeOK, Agent
  PROVE  /\ UNCHANGED <<era, node, paused, bash, ctl, desired>> /\ NoFault
         /\ np' \in NodePreps
         /\ agt' \in {idle} \cup Cycles
         /\ agt'.pc \in {"profile", "phase"} => agt'.seen.phase # Unset
         /\ served' \in [WalkStages -> Servings] /\ healed' \in BOOLEAN
<1>1. agt' = idle => /\ agt' \in {idle} \cup Cycles
                     /\ ~(agt'.pc \in {"profile", "phase"})
  BY DEF idle
<1>2. CASE ReadNodePrep
  <2>1. agt' \in Cycles /\ (agt'.pc # "heal" => agt'.seen.phase # Unset)
    BY <1>2 DEF ReadNodePrep, Cycles, TypeOK, exists
  <2> QED
    BY <1>2, <2>1, AgentKeeps DEF ReadNodePrep, bash, desired, done, TypeOK
<1>3. CASE Heal
  <2>1. agt \in Cycles
    BY <1>3, CopyType DEF Heal
  <2>2. [agt.seen EXCEPT !.phase = "Pending"] \in {n \in NodePreps : n.ref # NoProfile}
    BY <2>1 DEF Cycles, NodePreps, Reached
  <2>3. agt' \in {idle} \cup Cycles /\ (agt' # idle => agt'.seen.phase # Unset)
    BY <1>3, <2>1, <2>2, UnsetDistinct DEF Heal, Cycles, NodePreps
  <2> QED
    BY <1>1, <1>3, <2>3, AgentKeeps DEF Heal, bash, desired, TypeOK
<1>4. CASE Hold \/ ReopenPhase
  BY <1>1, <1>4, AgentKeeps DEF Hold, ReopenPhase, bash, desired, done, TypeOK
<1>5. CASE Reopen
  <2>1. agt \in Cycles /\ agt.seen.phase # Unset
    BY <1>5, CopyType DEF Reopen
  <2>2. agt' \in {idle} \cup Cycles /\ (agt' # idle => agt'.seen.phase # Unset)
    BY <1>5, <2>1 DEF Reopen, Cycles
  <2> QED
    BY <1>1, <1>5, <2>2, AgentKeeps DEF Reopen, bash, desired, done, TypeOK
<1>6. CASE Walk
  <2>1. agt.seen.ref \in Profiles /\ agt.seen.gen \in Nat
    BY <1>6, CopyType DEF Walk
  <2>2. served' \in [WalkStages -> Servings]
    BY <1>6, <2>1, ServingPairs DEF Walk, TypeOK
  <2> QED
    BY <1>1, <1>6, <2>2, AgentKeeps DEF Walk, bash, desired, TypeOK
<1> QED
  BY <1>2, <1>3, <1>4, <1>5, <1>6 DEF Agent

\* ... and remains so whoever moves, in either era.
LEMMA NextType == ASSUME TypeOK, [Next]_vars PROVE TypeOK'
<1> USE DEF vars, bash, desired, done
<1>1. CASE UNCHANGED vars
  BY <1>1 DEF TypeOK
<1>2. CASE BashStage \/ BashBoot
  <2>1. PICK v \in Labels, stages \in SUBSET WalkStages : Label(v, stages)
    BY <1>2 DEF BashStage, BashBoot, Labels, WalkStages
  <2>2. \E f : Spend(f) \/ NoFault
    BY <1>2 DEF BashStage, BashBoot
  <2> QED
    BY <2>1, <2>2, LabelType, SpendType DEF TypeOK
<1>3. CASE HandleEvent
  <2>1. /\ Head(events) \in Nodes /\ Tail(events) \in Seq(Nodes)
    BY <1>3 DEF HandleEvent, TypeOK
  <2>2. lctl' \in Events /\ events' \in Seq(Nodes)
    BY <1>3, <2>1 DEF HandleEvent, Events
  <2> QED
    BY <1>3, <2>2, SpendType DEF HandleEvent, TypeOK
<1>4. CASE Heartbeat
  <2>1. events' \in Seq(Nodes)
    BY <1>4 DEF Heartbeat, TypeOK
  <2> QED
    BY <1>4, <2>1, SpendType DEF Heartbeat, TypeOK
<1>5. CASE reconcileMachinePauseAnnotation
  <2>1. lctl \in Events
    BY <1>5 DEF reconcileMachinePauseAnnotation, TypeOK, idle
  <2>2. lctl' \in Events
    BY <1>5, <2>1 DEF reconcileMachinePauseAnnotation, Events
  <2>3. paused' \in BOOLEAN /\ \E f : Spend(f) \/ NoFault
    BY <1>5 DEF reconcileMachinePauseAnnotation, TypeOK, Lands, Fails
  <2> QED
    BY <1>5, <2>2, <2>3, SpendType DEF reconcileMachinePauseAnnotation, TypeOK
<1>6. CASE removeTaintIfComplete \/ removeWorkerRoleLabel \/ addWorkerRoleLabel
  <2>1. PICK pc \in {"taint", "unlabel", "label"} :
        \E next \in {"unlabel", "label", "idle"} : \E n \in Nodes : \E wanted :
          /\ n.legacy = node.legacy /\ n.pool = node.pool /\ n.role = node.role
          /\ LegacyWrite(pc, next, wanted, n)
    <3>1. /\ [node EXCEPT !.taint = FALSE] \in Nodes
          /\ [node EXCEPT !.worker = TRUE] \in Nodes
          /\ [node EXCEPT !.worker = FALSE] \in Nodes
      BY DEF TypeOK, Nodes
    <3> QED
      BY <1>6, <3>1
      DEF removeTaintIfComplete, removeWorkerRoleLabel, addWorkerRoleLabel, TypeOK, Nodes
  <2> QED
    BY <2>1, LegacyWriteType, SpendType DEF TypeOK
<1>7. CASE Rollout
  <2>1. node' \in Nodes
    BY <1>7 DEF Rollout, TypeOK, Nodes
  <2> QED
    BY <1>7, <2>1, SpendType DEF Rollout, TypeOK
<1>8. CASE Deadopt
  <2>1. paused' \in BOOLEAN /\ \E f : Spend(f) \/ NoFault
    BY <1>8 DEF Deadopt, TypeOK, Lands, Fails
  <2> QED
    BY <1>8, <2>1, SpendType DEF Deadopt, Reconciling, TypeOK
<1>9. CASE Create
  <2>1. PICK p \in Profiles :
          /\ Reconciling(p) /\ np' = [Absent EXCEPT !.ref = p]
          /\ ctl' = Lifecycle("status", importPhase(node.legacy), gen[p])
          /\ NoFault /\ UNCHANGED <<node, paused>>
    BY <1>9 DEF Create
  <2>2. np' \in NodePreps
    BY <2>1 DEF Absent, NodePreps
  <2>3. ctl' \in Reconciles
    BY <2>1, ImportType, LifecycleType DEF TypeOK, Nodes
  <2> QED
    BY <2>1, <2>2, <2>3, SpendType DEF Reconciling, TypeOK
<1>10. CASE InitialStatus
  <2>1. ctl \in Reconciles
    BY <1>10 DEF InitialStatus, TypeOK, idle
  <2>2. ctl' \in {idle} \cup Reconciles
    BY <1>10, <2>1 DEF InitialStatus, Reconciles
  <2>3. np' \in NodePreps
    BY <1>10, <2>1 DEF InitialStatus, TypeOK, Reconciles, NodePreps
  <2>4. \E f : Spend(f) \/ NoFault
    BY <1>10 DEF InitialStatus
  <2> QED
    BY <1>10, <2>2, <2>3, <2>4, SpendType DEF InitialStatus, TypeOK
<1>11. CASE FollowSelection
  <2>1. PICK p \in Profiles :
          /\ Reconciling(p) /\ np' = [np EXCEPT !.ref = p]
          /\ ctl' = Lifecycle("node", IF np.phase = Unset THEN "Pending" ELSE np.phase,
                              np.gen)
          /\ NoFault /\ UNCHANGED <<node, paused>>
    BY <1>11 DEF FollowSelection
  <2>2. np' \in NodePreps
    BY <2>1 DEF TypeOK, NodePreps
  <2>3. ctl' \in Reconciles
    BY <2>1, LifecycleType DEF TypeOK, Reached, NodePreps
  <2> QED
    BY <2>1, <2>2, <2>3, SpendType DEF Reconciling, TypeOK
<1>12. CASE applyNodeChanges
  <2>1. ctl \in Reconciles
    BY <1>12 DEF applyNodeChanges, TypeOK, idle
  <2>2. ctl' \in Reconciles
    BY <1>12, <2>1 DEF applyNodeChanges, Reconciles
  <2>3. node' \in Nodes
    BY <1>12, <2>1, DesiredType DEF applyNodeChanges, TypeOK, Reconciles
  <2>4. \E f : Spend(f) \/ NoFault
    BY <1>12 DEF applyNodeChanges, Lands, Fails
  <2> QED
    BY <1>12, <2>2, <2>3, <2>4, SpendType DEF applyNodeChanges, TypeOK
<1>13. CASE reconcileCAPAPause
  <2>1. paused' \in BOOLEAN /\ \E f : Spend(f) \/ NoFault
    BY <1>13 DEF reconcileCAPAPause, TypeOK, Lands, Fails
  <2> QED
    BY <1>13, <2>1, SpendType DEF reconcileCAPAPause, TypeOK
<1>14. CASE Agent
  BY <1>14, AgentType, SpendType DEF TypeOK
<1>15. CASE MoveNode
  <2>1. node' \in Nodes
    BY <1>15 DEF MoveNode, TypeOK, Nodes
  <2> QED
    BY <1>15, <2>1, SpendType DEF MoveNode, TypeOK
<1>16. CASE EditProfile
  <2>1. gen' \in [Profiles -> Nat]
    BY <1>16, BoundsAssumption DEF EditProfile, TypeOK
  <2> QED
    BY <1>16, <2>1, SpendType DEF EditProfile, TypeOK
<1>17. CASE DeleteNodePrep
  <2>1. np' \in NodePreps
    BY <1>17 DEF DeleteNodePrep, Absent, NodePreps
  <2> QED
    BY <1>17, <2>1, SpendType DEF DeleteNodePrep, TypeOK
<1> QED
  BY <1>1, <1>2, <1>3, <1>4, <1>5, <1>6, <1>7, <1>8, <1>9, <1>10, <1>11, <1>12,
     <1>13, <1>14, <1>15, <1>16, <1>17
  DEF Next, LegacyController, Controller

\* Every variable of the model keeps its type: the queue holds Nodes, the two
\* controllers are where their code can be, no phase is reached that the scripts
\* have no label for.
THEOREM TypeCorrect == Spec => []TypeOK
<1>1. TypeOK /\ [Next]_vars => TypeOK'
  BY NextType
<1> QED
  BY InitType, <1>1, PTL DEF Spec

-----------------------------------------------------------------------------
(* Facts about the vocabulary *)

\* The phases in their order.
LEMMA Ranks ==
  /\ stageRank["Pending"] = 0      /\ stageRank["Provisioning"] = 1
  /\ stageRank["Flashing"] = 2     /\ stageRank["Configuring"] = 3
  /\ stageRank["Finalizing"] = 4   /\ stageRank["Ready"] = 5
BY DEF stageRank, Phases, WalkStages

\* The phase that each label is imported at.
LEMMA Imports ==
  /\ FromLegacy[Unset] = "Pending"          /\ FromLegacy["init"] = "Provisioning"
  /\ FromLegacy["inithw"] = "Flashing"      /\ FromLegacy["config"] = "Configuring"
  /\ FromLegacy["precomplete"] = "Finalizing"
  /\ FromLegacy["complete"] = "Finalizing"
BY UnsetDistinct DEF FromLegacy

\* The stage after a stage is one further.
LEMMA NextRank ==
  ASSUME NEW q \in WalkStages
  PROVE  /\ nextStage[q] \in Reached \ {Unset}
         /\ stageRank[nextStage[q]] = stageRank[q] + 1
BY Ranks, UnsetDistinct DEF nextStage, WalkStages, Reached

\* The label that mirrors a phase claims no more than the phase, but for a stage
\* that comes first.
LEMMA MirrorClaims ==
  ASSUME NEW q \in Reached
  PROVE  \/ stageRank[FromLegacy[LegacyFor[q]]] <= stageRank[q]
         \/ stageRank[FromLegacy[LegacyFor[q]]] = 1
<1>1. \A r \in Phases \ {"Failed"} : LegacyFor[r] \in
        (IF r \in {"Pending", "Provisioning"} THEN {"init"}
         ELSE IF r = "Flashing" THEN {"inithw"}
         ELSE IF r = "Configuring" THEN {"config"}
         ELSE IF r = "Ready" THEN {"complete"} ELSE {"precomplete"})
  BY DEF LegacyFor, Phases, WalkStages
<1>2. q \in Phases \ {"Failed"}
  BY DEF Reached, Phases, WalkStages
<1> QED
  BY <1>1, <1>2, Ranks, Imports DEF Reached, WalkStages

\* Nobody, the scripts and a profile are told apart.
LEMMA Servings0 ==
  /\ byBash # nobody
  /\ \A p \in Profiles : \A g \in Nat : <<p, g>> # nobody /\ <<p, g>> # byBash
BY ProfilesAssumption DEF byBash, nobody, NoProfile

\* The environment is chosen once, and its budget is only spent.
LEMMA FaultsStep ==
  ASSUME TypeOK, [Next]_vars
  PROVE  /\ faults' = faults
         /\ faultsLeft' \in {faultsLeft, faultsLeft - 1}
<1> SUFFICES ASSUME ~(faults' = faults /\ faultsLeft' \in {faultsLeft, faultsLeft - 1})
             PROVE  FALSE
  OBVIOUS
<1> USE DEF NoFault, Spend, Lands, Fails
<1>1. ~UNCHANGED vars
  BY DEF vars
<1>2. ~(BashStage \/ BashBoot \/ HandleEvent \/ Heartbeat \/ Rollout)
  BY DEF BashStage, BashBoot, HandleEvent, Heartbeat, Rollout
<1>3. ~(reconcileMachinePauseAnnotation \/ removeTaintIfComplete
        \/ removeWorkerRoleLabel \/ addWorkerRoleLabel)
  BY DEF reconcileMachinePauseAnnotation, removeTaintIfComplete,
         removeWorkerRoleLabel, addWorkerRoleLabel, LegacyWrite
<1>4. ~(Deadopt \/ Create \/ InitialStatus \/ FollowSelection)
  BY DEF Deadopt, Create, InitialStatus, FollowSelection
<1>5. ~(applyNodeChanges \/ reconcileCAPAPause)
  BY DEF applyNodeChanges, reconcileCAPAPause
<1>6. ~Agent
  BY AgentKeeps
<1>7. ~(MoveNode \/ EditProfile \/ DeleteNodePrep)
  BY DEF MoveNode, EditProfile, DeleteNodePrep
<1> QED
  BY <1>1, <1>2, <1>3, <1>4, <1>5, <1>6, <1>7
  DEF Next, LegacyController, Controller

\* The steps that move neither the NodePrep nor what decides about it.
Bystanders ==
  \/ UNCHANGED vars
  \/ HandleEvent \/ Heartbeat \/ reconcileMachinePauseAnnotation
  \/ removeTaintIfComplete \/ removeWorkerRoleLabel \/ addWorkerRoleLabel
  \/ Deadopt

\* They write Node and Machine only: no label, pool or role of the Node.
LEMMA BystandersMoveNothing ==
  ASSUME TypeOK, Bystanders
  PROVE  /\ UNCHANGED <<era, ctl, gen, compat, np, agt, served, healed>>
         /\ node'.legacy = node.legacy
         /\ node'.pool = node.pool /\ node'.role = node.role
<1> USE DEF vars, bash, desired, done
<1>1. CASE UNCHANGED vars
  BY <1>1
<1>2. CASE HandleEvent \/ Heartbeat \/ reconcileMachinePauseAnnotation
  BY <1>2 DEF HandleEvent, Heartbeat, reconcileMachinePauseAnnotation
<1>3. CASE removeTaintIfComplete \/ removeWorkerRoleLabel \/ addWorkerRoleLabel
  <2>1. node' \in {node, [node EXCEPT !.taint = FALSE], [node EXCEPT !.worker = FALSE],
                   [node EXCEPT !.worker = TRUE]}
    BY <1>3 DEF removeTaintIfComplete, removeWorkerRoleLabel, addWorkerRoleLabel,
                LegacyWrite
  <2>2. UNCHANGED <<era, ctl, gen, compat, np, agt, served, healed>>
    BY <1>3 DEF removeTaintIfComplete, removeWorkerRoleLabel, addWorkerRoleLabel,
                LegacyWrite
  <2> QED
    BY <2>1, <2>2 DEF TypeOK, Nodes
<1>4. CASE Deadopt
  BY <1>4 DEF Deadopt, Reconciling
<1> QED
  BY <1>1, <1>2, <1>3, <1>4 DEF Bystanders

-----------------------------------------------------------------------------
(* No stage is skipped *)

\* The stages before phase q have been done by somebody.
Claim(q) == \A s \in WalkStages : stageRank[s] < stageRank[q] => served[s] # nobody

\* In the bash era there is no NodePrep, no new controller and no agent.
BashAlone == era = "bash" => np = Absent /\ ctl = idle /\ agt = idle

\* The label on the Node, a reconcile on its way, the NodePrep and the agent's
\* copy of it: each names a phase, and each tells the truth.
ClaimsInv ==
  /\ BashAlone
  /\ exists \/ np = Absent
  /\ Claim(FromLegacy[node.legacy])
  /\ ctl # idle => Claim(ctl.phase)
  /\ np.phase # Unset => Claim(np.phase)
  /\ agt # idle /\ agt.seen.phase # Unset => Claim(agt.seen.phase)

\* Nothing lies before the first two phases.
LEMMA FirstClaims == Claim("Pending") /\ Claim("Provisioning")
BY Ranks DEF Claim, WalkStages

\* A phase claims what a later one claims.
LEMMA ClaimLess ==
  ASSUME NEW p \in Reached, NEW q \in Reached, stageRank[p] <= stageRank[q], Claim(q)
  PROVE  Claim(p)
<1>1. \A r \in Reached : stageRank[r] \in Nat
  BY Ranks DEF Reached, WalkStages
<1>2. \A s \in WalkStages : stageRank[s] \in Nat
  BY Ranks DEF WalkStages
<1> QED
  BY <1>1, <1>2 DEF Claim

\* What was done is never undone, so a claim stays true.
LEMMA ClaimStays ==
  ASSUME NEW q, Claim(q), \A s \in WalkStages : served[s] # nobody => served'[s] # nobody
  PROVE  Claim(q)'
BY DEF Claim

\* A stage that somebody did stays done.
LEMMA ServedStays ==
  ASSUME TypeOK, [Next]_vars
  PROVE  \A s \in WalkStages : served[s] # nobody => served'[s] # nobody
<1> USE DEF vars, bash, desired, done
<1>1. CASE Bystanders
  BY <1>1, BystandersMoveNothing
<1>2. CASE BashStage \/ BashBoot
  <2>1. PICK v, stages : Label(v, stages)
    BY <1>2 DEF BashStage, BashBoot
  <2> QED
    BY <2>1, Servings0 DEF Label
<1>3. CASE Rollout \/ Create \/ InitialStatus \/ FollowSelection \/ applyNodeChanges
           \/ reconcileCAPAPause
  BY <1>3 DEF Rollout, Create, InitialStatus, FollowSelection, applyNodeChanges,
              reconcileCAPAPause, Reconciling
<1>4. CASE (Agent /\ ~Walk) \/ MoveNode \/ EditProfile \/ DeleteNodePrep
  BY <1>4 DEF Agent, ReadNodePrep, Heal, Hold, Reopen, ReopenPhase, MoveNode,
              EditProfile, DeleteNodePrep
<1>5. CASE Walk
  <2>1. agt.seen.ref \in Profiles /\ agt.seen.gen \in Nat
    BY <1>5, CopyType DEF Walk
  <2> QED
    BY <1>5, <2>1, Servings0 DEF Walk, TypeOK
<1> QED
  BY <1>1, <1>2, <1>3, <1>4, <1>5
  DEF Next, LegacyController, Controller, Bystanders

\* A node without a label claims nothing.
LEMMA ClaimsInit == Init => ClaimsInv
<1> SUFFICES ASSUME Init PROVE ClaimsInv
  OBVIOUS
<1>1. /\ node.legacy = Unset /\ np = Absent /\ ctl = idle /\ np.phase = Unset
      /\ agt = idle
  BY DEF Init, Absent
<1>2. Claim(FromLegacy[node.legacy])
  BY <1>1, Imports, FirstClaims
<1> QED
  BY <1>1, <1>2 DEF ClaimsInv, BashAlone

\* The agent names the phase it read, its first two phases, or the one after a
\* stage that it has completed.
LEMMA AgentClaims ==
  ASSUME TypeOK, ClaimsInv, Agent, \A q : Claim(q) => Claim(q)'
  PROVE  /\ (np.phase # Unset => Claim(np.phase))'
         /\ (agt # idle /\ agt.seen.phase # Unset => Claim(agt.seen.phase))'
<1>1. Claim("Pending")' /\ Claim("Provisioning")'
  BY FirstClaims
<1>2. CASE ReadNodePrep \/ Hold
  BY <1>2 DEF ReadNodePrep, Hold, ClaimsInv
<1>3. CASE Heal \/ ReopenPhase \/ Reopen
  <2>1. \/ np' = np
        \/ np'.phase \in {"Pending", "Provisioning"}
        \/ np'.phase = np.phase
    BY <1>3 DEF Heal, Reopen, ReopenPhase, PatchStatus, TypeOK, NodePreps
  <2>2. agt \in Cycles /\ agt # idle
    BY <1>3, CopyType DEF Heal, Reopen, ReopenPhase
  <2>3. \/ agt' = idle
        \/ agt'.seen.phase = "Pending"
        \/ agt'.seen = agt.seen
    BY <1>3, <2>2 DEF Heal, Reopen, ReopenPhase, Cycles, NodePreps
  <2> QED
    BY <1>1, <2>1, <2>2, <2>3 DEF ClaimsInv
<1>4. CASE Walk
  <2>1. /\ agt \in Cycles /\ agt # idle /\ agt.seen.phase # Unset
        /\ agt.seen.ref \in Profiles /\ agt.seen.gen \in Nat /\ agt' = idle
    BY <1>4, CopyType DEF Walk
  <2>2. \/ np' = np
        \/ np'.phase = "Provisioning"
        \/ \E q \in WalkStages :
             /\ agt.seen.phase = q /\ np'.phase = nextStage[q]
             /\ served' = [served EXCEPT ![q] = <<agt.seen.ref, agt.seen.gen>>]
    BY <1>4 DEF Walk, PatchStatus, TypeOK, NodePreps
  <2>3. ASSUME NEW q \in WalkStages, agt.seen.phase = q,
               served' = [served EXCEPT ![q] = <<agt.seen.ref, agt.seen.gen>>]
        PROVE  Claim(nextStage[q])'
    <3>1. served'[q] # nobody
      BY <2>1, <2>3, Servings0 DEF TypeOK
    <3>2. \A s \in WalkStages : stageRank[s] < stageRank[q] + 1
                                => s = q \/ stageRank[s] < stageRank[q]
      BY <2>3, Ranks DEF WalkStages
    <3>3. Claim(q)'
      BY <2>1, <2>3 DEF ClaimsInv
    <3> QED
      BY <3>1, <3>2, <3>3, NextRank DEF Claim
  <2>4. CASE np' = np
    BY <2>1, <2>4 DEF ClaimsInv
  <2>5. CASE np'.phase = "Provisioning"
    BY <1>1, <2>1, <2>5
  <2>6. CASE \E q \in WalkStages :
             /\ agt.seen.phase = q /\ np'.phase = nextStage[q]
             /\ served' = [served EXCEPT ![q] = <<agt.seen.ref, agt.seen.gen>>]
    <3>1. PICK q \in WalkStages :
             /\ agt.seen.phase = q /\ np'.phase = nextStage[q]
             /\ served' = [served EXCEPT ![q] = <<agt.seen.ref, agt.seen.gen>>]
      BY <2>6
    <3>2. Claim(nextStage[q])'
      BY <2>3, <3>1
    <3> QED
      BY <2>1, <3>1, <3>2
  <2> QED
    BY <2>2, <2>4, <2>5, <2>6
<1> QED
  BY <1>2, <1>3, <1>4 DEF Agent

\* Whoever names a phase names one that has been reached.
LEMMA ClaimsStep ==
  ASSUME TypeOK, ClaimsInv, [Next]_vars PROVE ClaimsInv'
<1> USE DEF vars, bash, desired, done
<1>0. \A q : Claim(q) => Claim(q)'
  BY ServedStays, ClaimStays
<1>1. CASE Bystanders
  BY <1>0, <1>1, BystandersMoveNothing DEF ClaimsInv, BashAlone, exists
<1>2. CASE BashStage \/ BashBoot
  <2>1. /\ np' = np /\ ctl' = ctl /\ era' = era /\ era = "bash"
        /\ np = Absent /\ ctl = idle /\ np'.phase = Unset
        /\ agt' = agt /\ agt = idle
    BY <1>2 DEF BashStage, BashBoot, Label, ClaimsInv, BashAlone, Absent
  <2>2. Claim(FromLegacy[node.legacy])'
    <3>1. CASE node.legacy = Unset /\ Label("init", {})
      <4>1. FromLegacy[node.legacy]' = "Provisioning"
        BY <3>1, LabelType, Imports DEF Labels
      <4> QED
        BY <1>0, <4>1, FirstClaims
    <3>2. CASE node.legacy = "init" /\ Label("config", {"Provisioning", "Flashing"})
      <4>1. FromLegacy[node.legacy]' = "Configuring"
        BY <3>2, LabelType, Imports DEF Labels
      <4>2. served'["Provisioning"] = byBash /\ served'["Flashing"] = byBash
        BY <3>2 DEF Label, WalkStages
      <4> QED
        BY <4>1, <4>2, Servings0, Ranks DEF Claim, WalkStages
    <3>3. CASE node.legacy = "config" /\ Label("precomplete", {"Configuring"})
      <4>1. /\ FromLegacy[node.legacy]' = "Finalizing"
            /\ FromLegacy[node.legacy] = "Configuring"
        BY <3>3, LabelType, Imports DEF Labels
      <4>2. served'["Configuring"] = byBash
        BY <3>3 DEF Label, WalkStages
      <4>3. Claim("Configuring")'
        BY <1>0, <4>1 DEF ClaimsInv
      <4> QED
        BY <4>1, <4>2, <4>3, Servings0, Ranks DEF Claim, WalkStages
    <3>4. CASE \/ node.legacy = "precomplete" /\ Label("complete", {"Finalizing"})
               \/ node.legacy = "complete" /\ Label("precomplete", {})
      <4>1. /\ FromLegacy[node.legacy]' = "Finalizing"
            /\ FromLegacy[node.legacy] = "Finalizing"
        BY <3>4, LabelType, Imports DEF Labels
      <4> QED
        BY <1>0, <4>1 DEF ClaimsInv
    <3> QED
      BY <1>2, <3>1, <3>2, <3>3, <3>4 DEF BashStage, BashBoot
  <2> QED
    BY <2>1, <2>2 DEF ClaimsInv, BashAlone
<1>3. CASE Rollout \/ MoveNode \/ EditProfile
  <2>1. /\ np' = np /\ ctl' = ctl /\ agt' = agt /\ era' = "nodeprep"
        /\ node'.legacy = node.legacy
    BY <1>3 DEF Rollout, MoveNode, EditProfile, TypeOK, Nodes
  <2> QED
    BY <1>0, <2>1 DEF ClaimsInv, BashAlone, exists
<1>4. CASE Create
  <2>1. PICK p \in Profiles :
          /\ np' = [Absent EXCEPT !.ref = p]
          /\ ctl' = Lifecycle("status", importPhase(node.legacy), gen[p])
          /\ UNCHANGED <<node, agt>> /\ era' = "nodeprep"
    BY <1>4 DEF Create, Reconciling
  <2>2. np'.ref = p /\ np'.phase = Unset /\ ctl'.phase = FromLegacy[node.legacy]
    BY <2>1, ImportType DEF Absent, Lifecycle, TypeOK, Nodes
  <2>3. exists'
    BY <2>2, ProfilesAssumption DEF exists, NoProfile
  <2> QED
    BY <1>0, <2>1, <2>2, <2>3 DEF ClaimsInv, BashAlone
<1>5. CASE InitialStatus
  <2>1. /\ UNCHANGED <<era, node, agt>> /\ ctl # idle /\ era # "bash"
    BY <1>5 DEF InitialStatus, ClaimsInv, BashAlone, idle
  <2>2. ctl' # idle => ctl'.phase = ctl.phase
    BY <1>5, <2>1 DEF InitialStatus, TypeOK, Reconciles
  <2>3. \/ np' = np
        \/ exists /\ np'.ref = np.ref /\ np'.phase = ctl.phase
    BY <1>5, <2>1 DEF InitialStatus, TypeOK, NodePreps
  <2>4. exists' \/ np' = Absent
    BY <2>3 DEF ClaimsInv, exists
  <2>5. np'.phase # Unset => Claim(np'.phase)
    BY <2>1, <2>3 DEF ClaimsInv
  <2> QED
    BY <1>0, <2>1, <2>2, <2>4, <2>5 DEF ClaimsInv, BashAlone
<1>6. CASE FollowSelection
  <2>1. PICK p \in Profiles :
          /\ np' = [np EXCEPT !.ref = p]
          /\ ctl' = Lifecycle("node", IF np.phase = Unset THEN "Pending" ELSE np.phase,
                              np.gen)
          /\ UNCHANGED <<node, agt>> /\ era' = "nodeprep"
    BY <1>6 DEF FollowSelection, Reconciling
  <2>2. /\ np'.ref = p /\ np'.phase = np.phase
        /\ ctl'.phase = IF np.phase = Unset THEN "Pending" ELSE np.phase
    BY <2>1 DEF Lifecycle, TypeOK, NodePreps
  <2>3. exists'
    BY <2>2, ProfilesAssumption DEF exists, NoProfile
  <2> QED
    BY <1>0, <2>1, <2>2, <2>3, FirstClaims DEF ClaimsInv, BashAlone
<1>7. CASE applyNodeChanges
  <2>1. /\ UNCHANGED <<era, np, agt>> /\ ctl \in Reconciles /\ era # "bash"
        /\ ctl'.phase = ctl.phase
    BY <1>7 DEF applyNodeChanges, TypeOK, Reconciles, ClaimsInv, BashAlone, idle
  <2>2. \/ node'.legacy = node.legacy
        \/ node'.legacy = Unset
        \/ node'.legacy = LegacyFor[ctl.phase]
    BY <1>7, <2>1, DesiredType DEF applyNodeChanges, Reconciles, TypeOK
  <2>3. ctl.phase \in Reached /\ Claim(ctl.phase)
    BY <2>1 DEF ClaimsInv, Reconciles, idle
  <2>4. Claim(FromLegacy[LegacyFor[ctl.phase]])
    <3>1. LegacyFor[ctl.phase] \in Labels
      BY <2>3, LegacyForType
    <3>2. FromLegacy[LegacyFor[ctl.phase]] \in Reached
      BY <3>1, ImportType
    <3>3. stageRank[FromLegacy[LegacyFor[ctl.phase]]] = 1
          => Claim(FromLegacy[LegacyFor[ctl.phase]])
      BY Ranks DEF Claim, WalkStages
    <3> QED
      BY <2>3, <3>2, <3>3, MirrorClaims, ClaimLess
  <2>5. Claim(FromLegacy[node'.legacy])
    BY <2>2, <2>4, Imports, FirstClaims DEF ClaimsInv
  <2> QED
    BY <1>0, <2>1, <2>3, <2>5 DEF ClaimsInv, BashAlone, exists
<1>8. CASE reconcileCAPAPause
  BY <1>0, <1>8 DEF reconcileCAPAPause, ClaimsInv, BashAlone, exists
<1>9. CASE Agent
  <2>1. /\ UNCHANGED <<era, node, ctl>> /\ era # "bash"
        /\ exists' <=> exists
        /\ ~exists => np' = np
    <3>1. era # "bash"
      BY <1>9 DEF ClaimsInv, BashAlone, Agent, ReadNodePrep, Heal, Hold, Reopen,
                  ReopenPhase, Walk, idle
    <3> QED
      BY <1>9, <3>1, AgentKeeps
  <2>2. /\ (np.phase # Unset => Claim(np.phase))'
        /\ (agt # idle /\ agt.seen.phase # Unset => Claim(agt.seen.phase))'
    BY <1>0, <1>9, AgentClaims
  <2>3. exists' \/ np' = Absent
    BY <2>1 DEF ClaimsInv
  <2> QED
    BY <1>0, <2>1, <2>2, <2>3 DEF ClaimsInv, BashAlone
<1>10. CASE DeleteNodePrep
  <2>1. /\ UNCHANGED <<era, node, ctl, agt>> /\ np' = Absent /\ np'.phase = Unset
        /\ exists
    BY <1>10 DEF DeleteNodePrep, Absent
  <2>2. era # "bash"
    BY <2>1 DEF ClaimsInv, BashAlone, exists, Absent
  <2> QED
    BY <1>0, <2>1, <2>2 DEF ClaimsInv, BashAlone
<1> QED
  BY <1>1, <1>2, <1>3, <1>4, <1>5, <1>6, <1>7, <1>8, <1>9, <1>10
  DEF Next, LegacyController, Controller, Bystanders

\* No stage is skipped, however the import, a failed initial status, edits,
\* moves and deletions interleave (controller.go, adoptNode).
THEOREM NothingSkipped == Spec => []NoStageSkipped
<1>1. TypeOK /\ ClaimsInv /\ [Next]_vars => TypeOK' /\ ClaimsInv'
  BY NextType, ClaimsStep
<1>2. Init => TypeOK /\ ClaimsInv
  BY InitType, ClaimsInit
<1>3. ClaimsInv => NoStageSkipped
  BY DEF ClaimsInv, NoStageSkipped, Fresh, Claim
<1> QED
  BY <1>1, <1>2, <1>3, PTL DEF Spec

-----------------------------------------------------------------------------
(* Ready serves the profile *)

\* The generation a profile begins at, where no two profiles share one.
First(p) == p * (MaxFaults + 1)

\* No number of edits makes the generations of two profiles meet.
LEMMA FirstApart ==
  /\ \A p \in Profiles : First(p) \in Nat /\ First(p) > 0
  /\ \A p \in Profiles : \A q \in Profiles :
       p # q => First(p) + MaxFaults < First(q) \/ First(q) + MaxFaults < First(p)
<1>0. MaxFaults \in Nat /\ Profiles \subseteq Nat /\ 0 \notin Profiles
  BY ProfilesAssumption, BoundsAssumption
<1>1. \A p \in Nat : First(p) \in Nat /\ First(p + 1) = First(p) + MaxFaults + 1
  BY <1>0 DEF First
<1>2. \A p \in Nat, d \in Nat : First(p) <= First(p + d)
  BY <1>0 DEF First
<1>3. \A p \in Nat, q \in Nat : p < q => First(p) + MaxFaults < First(q)
  <2> TAKE p \in Nat, q \in Nat
  <2> HAVE p < q
  <2>1. q - (p + 1) \in Nat /\ (p + 1) + (q - (p + 1)) = q
    OBVIOUS
  <2>2. First(p + 1) <= First((p + 1) + (q - (p + 1)))
    BY <1>2, <2>1
  <2>3. First(p + 1) <= First(q)
    BY <2>1, <2>2
  <2>4. First(p) \in Nat /\ First(q) \in Nat /\ First(p + 1) = First(p) + MaxFaults + 1
    BY <1>1
  <2> HIDE DEF First
  <2> QED
    BY <1>0, <2>3, <2>4
<1>4. \A p \in Profiles : First(p) > 0
  <2> TAKE p \in Profiles
  <2>1. p - 1 \in Nat /\ p = (p - 1) + 1
    BY <1>0
  <2>2. First(p) = First(p - 1) + MaxFaults + 1 /\ First(p - 1) \in Nat
    BY <1>1, <2>1
  <2> HIDE DEF First
  <2> QED
    BY <1>0, <2>2
<1> HIDE DEF First
<1>5. \A p \in Profiles : First(p) \in Nat /\ First(p) > 0
  BY <1>0, <1>1, <1>4
<1>6. ASSUME NEW p \in Profiles, NEW q \in Profiles, p # q
      PROVE  First(p) + MaxFaults < First(q) \/ First(q) + MaxFaults < First(p)
  <2>1. p \in Nat /\ q \in Nat /\ (p < q \/ q < p)
    BY <1>0, <1>6
  <2> QED
    BY <1>3, <2>1
<1> QED
  BY <1>5, <1>6


Kept  == "delete" \notin faults
Moved == "move" \in faults
Apart == "twins" \notin faults

\* The environments in which a generation tells the profile.
Safe == Kept /\ ~("twins" \in faults /\ "move" \in faults)

\* Generations that a profile can have, in the budget that is left.
GenInv ==
  \A p \in Profiles :
    /\ gen[p] > 0
    /\ Apart => gen[p] >= First(p) /\ gen[p] + faultsLeft <= First(p) + MaxFaults

\* A generation that profile p has had.
Seen(p, g) == g > 0 /\ g <= gen[p] /\ (Apart => First(p) <= g)

\* ... and one that a profile has, which the node can come to be Ready for.
Live(g) == \E p \in Profiles : gen[p] = g /\ (~Apart => p = np.ref)

\* Generations that the NodePrep can have observed: none yet, or one of its
\* profile, where a generation does not tell which.
Observable(g) ==
  g = 0 \/ \E p \in Profiles : Seen(p, g) /\ (~Apart => p = np.ref)

ObservedSeen == Observable(np.gen) /\ (agt # idle => Observable(agt.seen.gen))

\* Stage q was completed by the scripts, or for the profile of generation g.
Owned(q, g) ==
  \/ served[q] = byBash
  \/ /\ served[q][2] = g /\ served[q][1] \in Profiles
     /\ IF Apart THEN First(served[q][1]) <= g /\ g <= First(served[q][1]) + MaxFaults
        ELSE served[q][1] = np.ref

ByBash == \A q \in WalkStages : served[q] \in {nobody, byBash}

\* A node that is not moved stays with its profile.
RefInv == ~Moved /\ exists => np.ref = matchProfile(node)

\* The agent's cycle and the NodePrep have the profile in common, unless a
\* generation tells them apart.
SameRef == agt # idle => exists /\ (~Apart => agt.seen.ref = np.ref)

\* An observation that is no older than the status on its way.
Later(g) == g = 0 \/ (ctl.gen <= g /\ g <= gen[np.ref])

\* While the imported phase is on its way, the agent may have begun by itself,
\* for the generation on its way or a later one.
StatusOnItsWay ==
  ctl # idle /\ ctl.pc = "status" =>
    /\ exists /\ Seen(np.ref, ctl.gen)
    /\ Later(np.gen)
    /\ agt # idle => agt.seen.ref = np.ref /\ Later(agt.seen.gen)
    /\ \A q \in WalkStages :
         \/ served[q] \in {nobody, byBash}
         \/ /\ served[q][1] = np.ref /\ served[q][2] >= ctl.gen
            /\ served[q][2] <= gen[np.ref]

\* What has been observed under a cycle is what the cycle read, or an older
\* generation of the same profile.
Behind ==
  agt.pc \in {"heal", "profile"} =>
    \/ np.gen = agt.seen.gen
    \/ agt.seen.gen = 0
    \/ \E p \in Profiles :
         /\ Seen(p, np.gen) /\ Seen(p, agt.seen.gen)
         /\ np.gen < agt.seen.gen
         /\ ~Apart => p = np.ref

\* The stages before phase q were completed for the profile of generation g.
DoneFor(q, g) ==
  Live(g) => \A s \in WalkStages : stageRank[s] < stageRank[q] => Owned(s, g)

\* Between the two patches of a re-opening, the generation is ahead of the phase.
Prepared == agt.pc # "phase" /\ np.phase # Unset => DoneFor(np.phase, np.gen)

CopyPrepared == agt.pc = "profile" => DoneFor(agt.seen.phase, agt.seen.gen)

PreparedInv ==
  /\ GenInv
  /\ Safe => /\ RefInv /\ SameRef /\ StatusOnItsWay /\ ObservedSeen /\ Behind
             /\ Prepared /\ CopyPrepared
             /\ ~exists => ByBash

\* Nobody has prepared anything, and generations begin apart.
LEMMA PreparedInit == Init => PreparedInv
<1> SUFFICES ASSUME Init PROVE PreparedInv
  OBVIOUS
<1>1. /\ np.phase = Unset /\ np.gen = 0 /\ np.ref = NoProfile /\ ctl = idle
      /\ agt = idle /\ agt.pc = "idle"
      /\ faultsLeft = MaxFaults /\ \A q \in WalkStages : served[q] = nobody
  BY DEF Init, Absent, idle
<1>2. \A p \in Profiles : gen[p] = IF "twins" \in faults THEN 1 ELSE First(p)
  BY DEF Init, First
<1>3. GenInv
  BY <1>1, <1>2, FirstApart, BoundsAssumption DEF GenInv, Apart
<1> QED
  BY <1>1, <1>3 DEF PreparedInv, RefInv, SameRef, StatusOnItsWay, ObservedSeen,
                    Observable, Behind, Prepared, CopyPrepared, ByBash, exists

\* Where generations are apart, one tells its profile.
LEMMA OneOwner ==
  ASSUME TypeOK, GenInv, Apart, NEW p \in Profiles, NEW q \in Profiles,
         NEW g \in Nat, First(p) <= g, g <= First(p) + MaxFaults,
         First(q) <= g, g <= First(q) + MaxFaults
  PROVE  p = q
BY FirstApart, BoundsAssumption

\* A generation that a profile has had lies in its range.
LEMMA SeenRange ==
  ASSUME TypeOK, GenInv, Apart, NEW p \in Profiles, NEW g \in Nat, Seen(p, g)
  PROVE  First(p) <= g /\ g <= First(p) + MaxFaults
BY FirstApart, BoundsAssumption DEF Seen, GenInv, TypeOK

\* Generations grow by edits only, and each edit costs a fault.
LEMMA GenStep ==
  ASSUME TypeOK, GenInv, [Next]_vars
  PROVE  /\ GenInv'
         /\ \A p \in Profiles : gen'[p] >= gen[p]
         /\ gen' = gen \/ EditProfile
<1> USE DEF vars, bash, desired, done
<1>0. /\ faults' = faults /\ faultsLeft' \in {faultsLeft, faultsLeft - 1}
      /\ faultsLeft \in Nat
      /\ \A p \in Profiles : gen[p] \in Nat /\ First(p) \in Nat
  BY FaultsStep, FirstApart, BoundsAssumption DEF TypeOK
<1>1. CASE gen' = gen
  BY <1>0, <1>1, BoundsAssumption DEF GenInv, Apart
<1>2. CASE EditProfile
  <2>1. PICK p \in Profiles : gen' = [gen EXCEPT ![p] = @ + 1]
    BY <1>2, BoundsAssumption DEF EditProfile
  <2>2. faultsLeft' = faultsLeft - 1
    BY <1>2 DEF EditProfile, Spend
  <2>3. \A q \in Profiles : gen'[q] = IF q = p THEN gen[q] + 1 ELSE gen[q]
    BY <2>1 DEF TypeOK
  <2> QED
    BY <1>0, <1>2, <2>2, <2>3, BoundsAssumption DEF GenInv, Apart
<1>3. gen' = gen \/ EditProfile
  <2>1. Bystanders => gen' = gen
    BY BystandersMoveNothing
  <2>2. BashStage \/ BashBoot => gen' = gen
    BY DEF BashStage, BashBoot, Label
  <2>3. Rollout \/ Create \/ InitialStatus \/ FollowSelection \/ applyNodeChanges
        \/ reconcileCAPAPause => gen' = gen
    BY DEF Rollout, Create, InitialStatus, FollowSelection, applyNodeChanges,
           reconcileCAPAPause, Reconciling
  <2>4. Agent \/ MoveNode \/ DeleteNodePrep => gen' = gen
    BY AgentKeeps DEF MoveNode, DeleteNodePrep
  <2> QED
    BY <2>1, <2>2, <2>3, <2>4
    DEF Next, LegacyController, Controller, Bystanders
<1> QED
  BY <1>0, <1>1, <1>2, <1>3


\* Selection reads the pool and the role of the Node, and nothing else of it.
LEMMA MatchSame ==
  ASSUME node'.pool = node.pool, node'.role = node.role
  PROVE  matchProfile(node)' = matchProfile(node)
<1>1. \A p \in Profiles : matchesSelection(p, node)' <=> matchesSelection(p, node)
  BY DEF matchesSelection, isControlPlane
<1>2. {p \in Profiles : matchesSelection(p, node)}'
      = {p \in Profiles : matchesSelection(p, node)}
  BY <1>1
<1> QED
  BY <1>2 DEF matchProfile

\* What a profile has had it has had.
LEMMA SeenStays ==
  ASSUME TypeOK, GenInv, [Next]_vars, NEW p \in Profiles, NEW g \in Nat, Seen(p, g)
  PROVE  Seen(p, g)'
<1>1. gen'[p] >= gen[p] /\ gen[p] \in Nat /\ gen'[p] \in Nat
  BY GenStep, NextType DEF TypeOK
<1>2. Apart' <=> Apart
  BY FaultsStep DEF Apart
<1> QED
  BY <1>1, <1>2 DEF Seen

\* Steps that leave the NodePrep, the agent and the generations alone.
LEMMA RestingPrepared ==
  ASSUME TypeOK, PreparedInv, Safe, [Next]_vars, UNCHANGED <<gen, np, agt, served>>
  PROVE  /\ SameRef' /\ ObservedSeen' /\ Behind' /\ Prepared' /\ CopyPrepared'
         /\ (~exists => ByBash)'
         /\ ctl' \in {idle, ctl} \/ ctl'.pc # "status" => StatusOnItsWay'
<1>1. /\ \A p, g : Seen(p, g)' <=> Seen(p, g)
      /\ \A g : Live(g)' <=> Live(g)
      /\ \A q, g : Owned(q, g)' <=> Owned(q, g)
      /\ Apart' <=> Apart
  BY FaultsStep DEF Seen, Live, Owned, Apart
<1>2. SameRef' /\ ObservedSeen' /\ Behind'
  BY <1>1 DEF PreparedInv, SameRef, ObservedSeen, Observable, Behind, exists
<1>3. Prepared' /\ CopyPrepared'
  BY <1>1 DEF PreparedInv, Prepared, CopyPrepared, DoneFor
<1>4. (~exists => ByBash)'
  BY DEF PreparedInv, exists, ByBash
<1>5. ctl' \in {idle, ctl} \/ ctl'.pc # "status" => StatusOnItsWay'
  BY <1>1 DEF PreparedInv, StatusOnItsWay, exists, Later
<1> QED
  BY <1>2, <1>3, <1>4, <1>5

\* The imported phase arrives: what it claims was done by the scripts, or by the
\* agent for this very generation.
LEMMA ImportPrepared ==
  ASSUME TypeOK, ClaimsInv, PreparedInv, Safe, [Next]_vars,
         ctl \in Reconciles, ctl.pc = "status",
         NEW r, r = np.ref, NEW f, f = ctl.phase, NEW g, g = ctl.gen,
         UNCHANGED <<gen, served, agt>>, np'.ref = r, np'.phase = f, np'.gen = g
  PROVE  SameRef' /\ ObservedSeen' /\ Behind' /\ Prepared' /\ CopyPrepared'
<1>0. /\ ctl # idle /\ g \in Nat /\ exists /\ r \in Profiles
      /\ Seen(r, g) /\ (Apart' <=> Apart)
      /\ \A p \in Profiles : gen[p] \in Nat /\ First(p) \in Nat
      /\ \A q \in WalkStages : served[q] \in Servings
      /\ \A p, h : Seen(p, h)' <=> Seen(p, h)
      /\ \A h : Live(h)' <=> Live(h)
      /\ \A q, h : Owned(q, h)' <=> Owned(q, h)
  BY FaultsStep, FirstApart
  DEF Reconciles, idle, PreparedInv, StatusOnItsWay, exists, TypeOK, NodePreps, Apart,
      Seen, Live, Owned
<1>1. SameRef' /\ ObservedSeen'
  <2>1. Observable(g)'
    BY <1>0 DEF Observable
  <2>2. agt # idle => Observable(agt.seen.gen)'
    BY <1>0 DEF PreparedInv, ObservedSeen, Observable
  <2>3. SameRef'
    BY <1>0 DEF PreparedInv, SameRef, exists
  <2> QED
    BY <1>0, <2>1, <2>2, <2>3 DEF ObservedSeen
<1>2. ASSUME Live(g)', NEW q \in WalkStages, stageRank[q] < stageRank[f]
      PROVE  Owned(q, g)'
  <2>1. PICK p \in Profiles : gen[p] = g /\ (~Apart => p = r)
    BY <1>0, <1>2 DEF Live
  <2>2. Apart => First(r) <= g /\ g <= First(r) + MaxFaults
    BY <1>0, SeenRange DEF PreparedInv
  <2>3. p = r
    <3>1. CASE ~Apart
      BY <2>1, <3>1
    <3>2. CASE Apart
      <4>1. First(p) <= g /\ g <= First(p) + MaxFaults
        BY <1>0, <2>1, <3>2, BoundsAssumption DEF PreparedInv, GenInv, TypeOK
      <4> QED
        BY <1>0, <2>2, <3>2, <4>1, OneOwner DEF PreparedInv
    <3> QED
      BY <3>1, <3>2
  <2>4. served[q] # nobody
    BY <1>0, <1>2 DEF ClaimsInv, Claim
  <2>5. \/ served[q] = byBash
        \/ /\ served[q][1] = r /\ served[q][2] >= g
           /\ served[q][2] <= gen[r]
    BY <1>0, <2>4 DEF PreparedInv, StatusOnItsWay
  <2>6. served[q][2] \in Nat
    BY <1>0 DEF Servings
  <2>7. served[q] = byBash \/ (served[q][2] = g /\ served[q][1] = r)
    BY <1>0, <2>1, <2>3, <2>5, <2>6
  <2> QED
    BY <1>0, <2>2, <2>7 DEF Owned
<1>3. Prepared' /\ CopyPrepared'
  BY <1>0, <1>2 DEF Prepared, CopyPrepared, DoneFor, PreparedInv
<1>4. Behind'
  <2> SUFFICES ASSUME agt.pc \in {"heal", "profile"}, agt.seen.gen # 0, g # agt.seen.gen
               PROVE  /\ Seen(r, g) /\ Seen(r, agt.seen.gen)
                      /\ g < agt.seen.gen
    BY <1>0 DEF Behind
  <2>1. agt # idle /\ agt.seen.gen \in Nat
    BY CopyType
  <2>2. g <= agt.seen.gen /\ agt.seen.gen <= gen[r]
    BY <1>0, <2>1 DEF PreparedInv, StatusOnItsWay, Later
  <2>3. g < agt.seen.gen
    BY <1>0, <2>1, <2>2
  <2> QED
    BY <1>0, <2>1, <2>2, <2>3 DEF Seen
<1> QED
  BY <1>1, <1>3, <1>4

\* A profile edit makes no generation live that was not, of those observed.
LEMMA EditPrepared ==
  ASSUME TypeOK, PreparedInv, Safe, EditProfile
  PROVE  /\ SameRef' /\ ObservedSeen' /\ Behind' /\ Prepared' /\ CopyPrepared'
         /\ StatusOnItsWay' /\ (~exists => ByBash)'
<1> USE DEF desired, bash, vars, done
<1>0. /\ UNCHANGED <<np, served, ctl, agt>> /\ (Apart' <=> Apart)
      /\ GenInv /\ GenInv' /\ [Next]_vars
      /\ \A p \in Profiles : gen[p] \in Nat /\ First(p) \in Nat /\ gen'[p] \in Nat
                             /\ gen'[p] >= gen[p]
      /\ faultsLeft' \in 0..MaxFaults
  <2>1. [Next]_vars
    BY DEF Next
  <2>2. UNCHANGED <<np, served, ctl, agt>> /\ GenInv
    BY DEF EditProfile, PreparedInv
  <2>3. (Apart' <=> Apart) /\ GenInv' /\ \A p \in Profiles : gen'[p] >= gen[p]
    BY <2>1, <2>2, FaultsStep, GenStep DEF Apart
  <2>4. TypeOK'
    BY <2>1, NextType
  <2>5. \A p \in Profiles : gen[p] \in Nat /\ gen'[p] \in Nat /\ First(p) \in Nat
    BY <2>4, FirstApart DEF TypeOK
  <2> QED
    BY <2>1, <2>2, <2>3, <2>4, <2>5 DEF TypeOK
<1>1. PICK p \in Profiles : gen' = [gen EXCEPT ![p] = @ + 1]
  BY BoundsAssumption DEF EditProfile
<1>2. \A q \in Profiles : gen'[q] = IF q = p THEN gen[q] + 1 ELSE gen[q]
  BY <1>1 DEF TypeOK
<1>3. SameRef' /\ ObservedSeen' /\ Behind'
  <2>1. \A q \in Profiles : \A h \in Nat : Seen(q, h) => Seen(q, h)'
    BY <1>0 DEF Seen
  <2>2. np.gen \in Nat /\ (agt # idle => agt.seen.gen \in Nat)
    BY CopyType DEF TypeOK, NodePreps
  <2>3. agt.pc \in {"heal", "profile"} => agt # idle
    BY CopyType
  <2> QED
    BY <1>0, <2>1, <2>2, <2>3
    DEF PreparedInv, SameRef, ObservedSeen, Observable, Behind, exists
<1>4. StatusOnItsWay'
  <2>1. ASSUME ctl # idle, ctl.pc = "status"
        PROVE  /\ np.ref \in Profiles /\ ctl.gen \in Nat
               /\ \A q \in WalkStages : served[q][2] \in Nat
    BY <2>1 DEF PreparedInv, StatusOnItsWay, exists, TypeOK, NodePreps, Reconciles,
                Servings
  <2>2. ASSUME ctl # idle, ctl.pc = "status"
        PROVE  Seen(np.ref, ctl.gen)'
    BY <1>0, <2>1, <2>2 DEF PreparedInv, StatusOnItsWay, Seen
  <2>3. ASSUME ctl # idle, ctl.pc = "status", NEW q \in WalkStages,
               served[q][2] <= gen[np.ref]
        PROVE  served[q][2] <= gen'[np.ref]
    BY <1>0, <2>1, <2>3
  <2>4. ASSUME ctl # idle, ctl.pc = "status", NEW h \in Nat, Later(h)
        PROVE  Later(h)'
    BY <1>0, <2>1, <2>4 DEF Later
  <2>5. np.gen \in Nat /\ (agt # idle => agt.seen.gen \in Nat)
    BY CopyType DEF TypeOK, NodePreps
  <2> QED
    BY <1>0, <2>2, <2>3, <2>4, <2>5 DEF PreparedInv, StatusOnItsWay, exists
<1>5. ASSUME NEW g \in Nat, Observable(g), Live(g)' PROVE Live(g)
  <2> SUFFICES ASSUME NEW q \in Profiles, gen'[q] = g, ~Apart => q = np.ref
               PROVE  Live(g)
    BY <1>0, <1>5 DEF Live
  <2>1. CASE q # p
    BY <1>2, <2>1 DEF Live
  <2>2. CASE q = p
    <3>1. g = gen[p] + 1
      BY <1>2, <2>2
    <3>2. PICK r \in Profiles : Seen(r, g) /\ (~Apart => r = np.ref)
      BY <1>0, <1>5, <3>1 DEF Observable
    <3>3. r = p
      <4>1. CASE ~Apart
        BY <2>2, <3>2, <4>1
      <4>2. CASE Apart
        <5>1. First(r) <= g /\ g <= First(r) + MaxFaults
          BY <1>0, <3>2, <4>2, SeenRange
        <5>2. First(p) <= g /\ g <= First(p) + MaxFaults
          BY <1>0, <2>2, <4>2, BoundsAssumption DEF GenInv
        <5> QED
          BY <1>0, <4>2, <5>1, <5>2, OneOwner
      <4> QED
        BY <4>1, <4>2
    <3> QED
      BY <1>0, <3>1, <3>2, <3>3 DEF Seen
  <2> QED
    BY <2>1, <2>2
<1>6. \A q, h : Owned(q, h) => Owned(q, h)'
  BY <1>0 DEF Owned
<1>7. \A q : \A h \in Nat : Observable(h) /\ DoneFor(q, h) => DoneFor(q, h)'
  BY <1>5, <1>6 DEF DoneFor
<1>8. Prepared' /\ CopyPrepared'
  <2>1. np.gen \in Nat /\ (agt.pc = "profile" => agt # idle /\ agt.seen.gen \in Nat)
    BY CopyType DEF TypeOK, NodePreps
  <2> QED
    BY <1>0, <1>7, <2>1 DEF PreparedInv, ObservedSeen, Prepared, CopyPrepared
<1>9. (~exists => ByBash)'
  BY <1>0 DEF PreparedInv, exists, ByBash
<1> QED
  BY <1>3, <1>4, <1>8, <1>9

\* What no step of the agent changes about generations and their profiles.
LEMMA AgentGenerations ==
  ASSUME TypeOK, PreparedInv, Safe, Agent
  PROVE  /\ UNCHANGED <<ctl, gen, node>> /\ (Apart' <=> Apart) /\ GenInv
         /\ np'.ref = np.ref /\ exists /\ exists' /\ np.ref \in Profiles
         /\ np.gen \in Nat
         /\ \A p, h : Seen(p, h)' <=> Seen(p, h)
         /\ \A h : Live(h)' <=> Live(h)
         /\ \A h : Observable(h)' <=> Observable(h)
         /\ \A h : Later(h)' <=> Later(h)
<1>1. [Next]_vars
  BY DEF Next
<1>2. /\ UNCHANGED <<ctl, gen, node>> /\ (Apart' <=> Apart) /\ GenInv
      /\ np'.ref = np.ref /\ (exists' <=> exists)
  BY <1>1, FaultsStep, AgentKeeps DEF Apart, PreparedInv
<1>3. exists
  <2>1. CASE ReadNodePrep
    BY <2>1 DEF ReadNodePrep
  <2>2. CASE ~ReadNodePrep
    BY <2>2, CopyType DEF Agent, Heal, Hold, Reopen, ReopenPhase, Walk, PreparedInv,
                          SameRef
  <2> QED
    BY <2>1, <2>2
<1>4. np.ref \in Profiles /\ np.gen \in Nat
  BY <1>3 DEF TypeOK, NodePreps, exists
<1> QED
  BY <1>2, <1>3, <1>4 DEF Seen, Live, Observable, Later

\* A stage is completed for the profile and its generation, as the cycle read
\* them.  What has been observed meanwhile is no live generation.
LEMMA WalkPrepared ==
  ASSUME TypeOK, PreparedInv, Safe, Walk
  PROVE  /\ SameRef' /\ ObservedSeen' /\ Behind' /\ Prepared' /\ CopyPrepared'
         /\ StatusOnItsWay' /\ (~exists => ByBash)'
<1> DEFINE r == agt.seen.ref
           g == agt.seen.gen
           f == agt.seen.phase
<1>1. /\ UNCHANGED <<ctl, gen>> /\ (Apart' <=> Apart) /\ GenInv
      /\ np'.ref = np.ref /\ exists /\ exists' /\ np.ref \in Profiles
      /\ np.gen \in Nat
      /\ \A p, h : Seen(p, h)' <=> Seen(p, h)
      /\ \A h : Live(h)' <=> Live(h)
      /\ \A h : Observable(h)' <=> Observable(h)
      /\ \A h : Later(h)' <=> Later(h)
  BY AgentGenerations DEF Agent
<1>2. /\ agt # idle /\ r \in Profiles /\ g \in Nat /\ gen[r] = g
      /\ agt.pc = "profile" /\ agt' = idle /\ agt'.pc = "idle" /\ np'.gen = np.gen
  BY CopyType DEF Walk, Observed, PatchStatus, idle, TypeOK, NodePreps
<1>3. /\ g > 0 /\ (~Apart => r = np.ref)
      /\ Apart => First(r) <= g /\ g <= First(r) + MaxFaults
  BY <1>1, <1>2, FirstApart, BoundsAssumption DEF GenInv, TypeOK, PreparedInv, SameRef
<1>4. SameRef' /\ ObservedSeen' /\ Behind' /\ CopyPrepared'
  BY <1>1, <1>2 DEF SameRef, ObservedSeen, Behind, CopyPrepared, PreparedInv
<1>5. Live(np.gen) => np.gen = g
  <2> SUFFICES ASSUME NEW p \in Profiles, gen[p] = np.gen, ~Apart => p = np.ref,
                      np.gen # g
               PROVE  FALSE
    BY DEF Live
  <2>1. PICK q \in Profiles : /\ Seen(q, np.gen) /\ Seen(q, g) /\ np.gen < g
                              /\ ~Apart => q = np.ref
    BY <1>2, <1>3 DEF PreparedInv, Behind
  <2>2. p = q
    <3>1. CASE ~Apart
      BY <2>1, <3>1
    <3>2. CASE Apart
      <4>1. First(q) <= np.gen /\ np.gen <= First(q) + MaxFaults
        BY <1>1, <2>1, <3>2, SeenRange
      <4>2. First(p) <= np.gen /\ np.gen <= First(p) + MaxFaults
        BY <1>1, <3>2, FirstApart, BoundsAssumption DEF GenInv, TypeOK
      <4> QED
        BY <1>1, <3>2, <4>1, <4>2, OneOwner
    <3> QED
      BY <3>1, <3>2
  <2> QED
    BY <1>1, <1>2, <2>1, <2>2 DEF Seen, TypeOK
<1>6. CASE f = "Pending" /\ np'.phase = "Provisioning" /\ served' = served
  <2>1. \A q \in WalkStages : ~(stageRank[q] < stageRank[np'.phase])
    BY <1>6, Ranks DEF WalkStages
  <2>2. Prepared'
    BY <2>1 DEF Prepared, DoneFor
  <2>3. StatusOnItsWay'
    BY <1>1, <1>2, <1>6 DEF PreparedInv, StatusOnItsWay
  <2> QED
    BY <1>1, <1>4, <2>2, <2>3
<1>7. CASE f \in WalkStages /\ np'.phase = nextStage[f]
           /\ served' = [served EXCEPT ![f] = <<r, g>>]
  <2>1. \A q \in WalkStages : served'[q] = IF q = f THEN <<r, g>> ELSE served[q]
    BY <1>7 DEF TypeOK
  <2>2. ASSUME Live(np.gen), NEW q \in WalkStages, stageRank[q] < stageRank[np'.phase]
        PROVE  Owned(q, np.gen)'
    <3>1. np.gen = g /\ Live(g)
      BY <1>5, <2>2
    <3>2. q = f \/ (q # f /\ stageRank[q] < stageRank[f])
      BY <1>7, <2>2, NextRank, Ranks DEF WalkStages
    <3>3. CASE q = f
      BY <1>1, <1>2, <1>3, <2>1, <3>1, <3>3 DEF Owned
    <3>4. CASE q # f /\ stageRank[q] < stageRank[f]
      <4>1. Owned(q, g)
        BY <1>2, <3>1, <3>4 DEF PreparedInv, CopyPrepared, DoneFor
      <4> QED
        BY <1>1, <1>2, <2>1, <3>1, <3>4, <4>1 DEF Owned
    <3> QED
      BY <3>2, <3>3, <3>4
  <2>3. Prepared'
    BY <1>1, <1>2, <2>2 DEF Prepared, DoneFor
  <2>4. StatusOnItsWay'
    <3> SUFFICES ASSUME ctl # idle, ctl.pc = "status"
                 PROVE  /\ Seen(np.ref, ctl.gen) /\ Later(np.gen)
                        /\ \A q \in WalkStages :
                             \/ served'[q] \in {nobody, byBash}
                             \/ /\ served'[q][1] = np.ref /\ served'[q][2] >= ctl.gen
                                /\ served'[q][2] <= gen[np.ref]
      BY <1>1, <1>2 DEF StatusOnItsWay
    <3>1. Seen(np.ref, ctl.gen) /\ Later(np.gen) /\ r = np.ref /\ Later(g)
      BY <1>2 DEF PreparedInv, StatusOnItsWay
    <3>2. g >= ctl.gen /\ g <= gen[np.ref]
      BY <1>2, <1>3, <3>1 DEF Later, TypeOK, Reconciles
    <3> QED
      BY <1>1, <2>1, <3>1, <3>2 DEF PreparedInv, StatusOnItsWay
  <2> QED
    BY <1>1, <1>4, <2>3, <2>4
<1> QED
  BY <1>1, <1>6, <1>7 DEF Walk, PatchStatus, TypeOK, NodePreps

\* A cycle begins with what is there; a cycle that holds leaves nothing behind.
LEMMA CyclePrepared ==
  ASSUME TypeOK, PreparedInv, Safe, ReadNodePrep \/ Hold
  PROVE  /\ SameRef' /\ ObservedSeen' /\ Behind' /\ Prepared' /\ CopyPrepared'
         /\ StatusOnItsWay' /\ (~exists => ByBash)'
<1>1. /\ UNCHANGED <<ctl, gen>> /\ (Apart' <=> Apart)
      /\ exists /\ exists'
      /\ \A p, h : Seen(p, h)' <=> Seen(p, h)
      /\ \A h : Live(h)' <=> Live(h)
      /\ \A h : Observable(h)' <=> Observable(h)
      /\ \A h : Later(h)' <=> Later(h)
  BY AgentGenerations DEF Agent
<1>2. UNCHANGED <<np, served>>
  BY DEF ReadNodePrep, Hold, done
<1>3. \A q, h : Owned(q, h)' <=> Owned(q, h)
  BY <1>1, <1>2 DEF Owned
<1>4. \/ agt' = idle /\ agt'.pc = "idle" /\ agt.pc # "phase"
      \/ /\ agt'.pc \in {"heal", "profile"} /\ agt'.seen = np /\ agt.pc # "phase"
         /\ agt'.pc = "profile" => np.phase # Unset
  BY DEF ReadNodePrep, Hold, idle
<1>5. SameRef' /\ ObservedSeen' /\ Behind'
  BY <1>1, <1>2, <1>4 DEF PreparedInv, SameRef, ObservedSeen, Behind
<1>6. Prepared' /\ CopyPrepared'
  BY <1>1, <1>2, <1>3, <1>4 DEF PreparedInv, Prepared, CopyPrepared, DoneFor
<1>7. StatusOnItsWay'
  BY <1>1, <1>2, <1>4 DEF PreparedInv, StatusOnItsWay
<1> QED
  BY <1>1, <1>5, <1>6, <1>7

\* The phase starts over, and nothing lies before it.
LEMMA ReopenPrepared ==
  ASSUME TypeOK, PreparedInv, Safe, Heal \/ Reopen \/ ReopenPhase
  PROVE  /\ SameRef' /\ ObservedSeen' /\ Behind' /\ Prepared' /\ CopyPrepared'
         /\ StatusOnItsWay' /\ (~exists => ByBash)'
<1>1. /\ UNCHANGED <<ctl, gen>> /\ (Apart' <=> Apart) /\ GenInv
      /\ np'.ref = np.ref /\ exists /\ exists' /\ np.ref \in Profiles
      /\ np.gen \in Nat
      /\ \A p, h : Seen(p, h)' <=> Seen(p, h)
      /\ \A h : Live(h)' <=> Live(h)
      /\ \A h : Observable(h)' <=> Observable(h)
      /\ \A h : Later(h)' <=> Later(h)
  BY AgentGenerations DEF Agent
<1>2. /\ agt \in Cycles /\ agt # idle /\ served' = served
      /\ agt.seen.ref \in Profiles /\ agt.seen.gen \in Nat
  BY CopyType DEF Heal, Reopen, ReopenPhase, done
<1>3. CASE Heal
  <2>1. /\ np'.phase = "Pending" /\ np'.gen = np.gen
        /\ agt'.pc = "profile" /\ agt'.seen.phase = "Pending"
        /\ agt'.seen.ref = agt.seen.ref /\ agt'.seen.gen = agt.seen.gen
        /\ agt.pc = "heal"
    BY <1>1, <1>2, <1>3 DEF Heal, PatchStatus, TypeOK, NodePreps, Cycles
  <2>2. SameRef' /\ ObservedSeen' /\ Behind'
    BY <1>1, <1>2, <2>1 DEF PreparedInv, SameRef, ObservedSeen, Behind
  <2>3. Prepared' /\ CopyPrepared'
    BY <2>1, Ranks DEF Prepared, CopyPrepared, DoneFor, WalkStages
  <2>4. StatusOnItsWay'
    BY <1>1, <1>2, <2>1 DEF PreparedInv, StatusOnItsWay
  <2> QED
    BY <1>1, <2>2, <2>3, <2>4
<1>4. CASE Reopen
  <2>1. /\ np'.phase = np.phase /\ np'.gen = gen[agt.seen.ref]
        /\ agt'.pc = "phase" /\ agt'.seen = agt.seen
    BY <1>1, <1>2, <1>4 DEF Reopen, PatchStatus, TypeOK, NodePreps, Cycles
  <2>2. gen[agt.seen.ref] \in Nat /\ Seen(agt.seen.ref, gen[agt.seen.ref])
    BY <1>1, <1>2, FirstApart DEF Seen, GenInv, TypeOK
  <2>3. SameRef' /\ ObservedSeen' /\ Behind'
    <3>1. Observable(gen[agt.seen.ref])
      BY <1>2, <2>2 DEF PreparedInv, SameRef, Observable
    <3> QED
      BY <1>1, <1>2, <2>1, <3>1 DEF PreparedInv, SameRef, ObservedSeen, Behind
  <2>4. Prepared' /\ CopyPrepared'
    BY <2>1 DEF Prepared, CopyPrepared
  <2>5. StatusOnItsWay'
    <3>1. ctl # idle /\ ctl.pc = "status" => Later(gen[agt.seen.ref])
      BY <1>2, <2>2 DEF PreparedInv, StatusOnItsWay, Later, Seen
    <3> QED
      BY <1>1, <1>2, <2>1, <3>1 DEF PreparedInv, StatusOnItsWay
  <2> QED
    BY <1>1, <2>3, <2>4, <2>5
<1>5. CASE ReopenPhase
  <2>1. /\ np'.phase = "Provisioning" /\ np'.gen = np.gen
        /\ agt' = idle /\ agt'.pc = "idle"
    BY <1>1, <1>5 DEF ReopenPhase, PatchStatus, TypeOK, NodePreps, idle
  <2>2. SameRef' /\ ObservedSeen' /\ Behind' /\ CopyPrepared'
    BY <1>1, <2>1 DEF PreparedInv, SameRef, ObservedSeen, Behind, CopyPrepared
  <2>3. Prepared'
    BY <2>1, Ranks DEF Prepared, DoneFor, WalkStages
  <2>4. StatusOnItsWay'
    BY <1>1, <1>2, <2>1 DEF PreparedInv, StatusOnItsWay
  <2> QED
    BY <1>1, <2>2, <2>3, <2>4
<1> QED
  BY <1>3, <1>4, <1>5

\* Every step keeps stages with the profile they were done for.
LEMMA PreparedStep ==
  ASSUME TypeOK, ClaimsInv, PreparedInv, [Next]_vars PROVE PreparedInv'
<1> USE DEF vars, bash, desired, done
<1>0. GenInv' /\ (Safe' <=> Safe) /\ (Moved' <=> Moved) /\ (Apart' <=> Apart)
  BY GenStep, FaultsStep DEF PreparedInv, Safe, Kept, Moved, Apart
<1> DEFINE Goal == /\ RefInv' /\ SameRef' /\ StatusOnItsWay' /\ ObservedSeen'
                   /\ Behind' /\ Prepared' /\ CopyPrepared'
                   /\ (~exists => ByBash)'
<1> SUFFICES ASSUME Safe PROVE Goal
  BY <1>0 DEF PreparedInv
<1>1. ASSUME UNCHANGED <<np, node>> \/ (np'.ref = np.ref /\ node'.pool = node.pool
                                        /\ node'.role = node.role)
      PROVE  RefInv'
  BY <1>0, <1>1, MatchSame DEF PreparedInv, RefInv, exists
<1>2. CASE Bystanders
  <2>1. /\ UNCHANGED <<ctl, gen, np, agt, served>>
        /\ node'.pool = node.pool /\ node'.role = node.role
    BY <1>2, BystandersMoveNothing
  <2> QED
    BY <1>1, <2>1, RestingPrepared
<1>3. CASE BashStage \/ BashBoot
  <2>1. PICK v, stages : Label(v, stages)
    BY <1>3 DEF BashStage, BashBoot, Labels
  <2>2. /\ UNCHANGED <<ctl, gen, np, agt>> /\ ~exists /\ ctl = idle
        /\ np.phase = Unset /\ np.gen = 0 /\ agt = idle /\ agt.pc = "idle"
        /\ \A q \in WalkStages : served'[q] \in {byBash, served[q]}
    BY <2>1 DEF Label, ClaimsInv, BashAlone, exists, Absent, idle
  <2>3. ByBash'
    BY <2>2 DEF PreparedInv, ByBash
  <2> QED
    BY <2>2, <2>3 DEF RefInv, SameRef, exists, StatusOnItsWay, ObservedSeen,
                      Observable, Behind, Prepared, CopyPrepared
<1>4. CASE Rollout
  <2>1. UNCHANGED <<gen, np, agt, served, ctl>> /\ ~exists
    BY <1>4 DEF Rollout, ClaimsInv, BashAlone, exists, Absent
  <2> QED
    BY <2>1, RestingPrepared DEF RefInv, exists
<1>5. CASE Create
  <2>1. PICK p \in Profiles :
          /\ p = matchProfile(node) /\ ~exists
          /\ np' = [Absent EXCEPT !.ref = p]
          /\ ctl' = Lifecycle("status", importPhase(node.legacy), gen[p])
          /\ UNCHANGED <<node, gen, agt, served>>
    BY <1>5 DEF Create, Reconciling
  <2>2. np'.ref = p /\ np'.phase = Unset /\ np'.gen = 0 /\ ctl'.gen = gen[p]
    BY <2>1 DEF Absent, Lifecycle
  <2>3. exists' /\ ByBash'
    BY <2>1, <2>2, ProfilesAssumption DEF exists, NoProfile, PreparedInv, ByBash
  <2>4. RefInv'
    BY <2>1, <2>2 DEF RefInv
  <2>5. gen[p] \in Nat /\ gen[p] <= gen[p] /\ gen[p] > 0 /\ (Apart => First(p) <= gen[p])
    BY FirstApart DEF PreparedInv, GenInv, TypeOK
  <2>6. Seen(np.ref, ctl.gen)'
    BY <1>0, <2>1, <2>2, <2>5 DEF Seen
  <2>7. agt' = idle /\ agt'.pc = "idle"
    BY <2>1 DEF PreparedInv, SameRef, idle
  <2>8. SameRef' /\ ObservedSeen' /\ Behind' /\ Prepared' /\ CopyPrepared'
    BY <2>2, <2>3, <2>7
    DEF SameRef, ObservedSeen, Observable, Behind, Prepared, CopyPrepared
  <2>9. StatusOnItsWay'
    BY <2>2, <2>3, <2>6, <2>7 DEF StatusOnItsWay, Later, ByBash
  <2> QED
    BY <2>3, <2>4, <2>8, <2>9
<1>6. CASE InitialStatus
  <2>1. ctl \in Reconciles /\ ctl.pc = "status" /\ ctl # idle /\ exists
    BY <1>6 DEF InitialStatus, TypeOK, idle, PreparedInv, StatusOnItsWay
  <2>2. UNCHANGED <<gen, served, node, agt>>
    BY <1>6 DEF InitialStatus
  <2>3. CASE np' = np
    <3>1. ctl' = idle \/ ctl'.pc # "status"
      BY <1>6, <2>1 DEF InitialStatus, Reconciles
    <3> QED
      BY <1>1, <2>2, <2>3, <3>1, RestingPrepared
  <2>4. CASE np' = [np EXCEPT !.phase = ctl.phase, !.gen = ctl.gen]
             /\ ctl' = [ctl EXCEPT !.pc = "node"]
    <3>1. np'.ref = np.ref /\ np'.phase = ctl.phase /\ np'.gen = ctl.gen
      BY <2>4 DEF TypeOK, NodePreps
    <3>2. ctl'.pc = "node"
      BY <2>1, <2>4 DEF Reconciles
    <3>3. SameRef' /\ ObservedSeen' /\ Behind' /\ Prepared' /\ CopyPrepared'
      BY <2>1, <2>2, <3>1, ImportPrepared
    <3> QED
      BY <1>1, <2>1, <2>2, <3>1, <3>2, <3>3 DEF StatusOnItsWay, exists
  <2> QED
    BY <1>6, <2>3, <2>4 DEF InitialStatus
<1>7. CASE FollowSelection
  <2>1. PICK p \in Profiles :
          /\ p = matchProfile(node) /\ exists
          /\ np' = [np EXCEPT !.ref = p]
          /\ ctl' = Lifecycle("node", IF np.phase = Unset THEN "Pending" ELSE np.phase,
                              np.gen)
          /\ UNCHANGED <<node, gen, agt, served>>
    BY <1>7 DEF FollowSelection, Reconciling
  <2>2. np'.ref = p /\ np'.phase = np.phase /\ np'.gen = np.gen /\ ctl'.pc = "node"
    BY <2>1 DEF Lifecycle, TypeOK, NodePreps
  <2>3. exists' /\ RefInv'
    BY <2>1, <2>2, ProfilesAssumption DEF exists, NoProfile, RefInv
  <2>4. ~Apart => np'.ref = np.ref
    BY <2>1, <2>2 DEF PreparedInv, RefInv, Safe, Apart, Moved
  <2>5. /\ \A q, h : Seen(q, h)' <=> Seen(q, h)
        /\ \A h : Live(h)' <=> Live(h)
        /\ \A q, h : Owned(q, h) => Owned(q, h)'
    BY <1>0, <2>1, <2>4 DEF Seen, Live, Owned
  <2>6. SameRef' /\ ObservedSeen' /\ Behind'
    BY <1>0, <2>1, <2>2, <2>3, <2>4, <2>5
    DEF PreparedInv, SameRef, ObservedSeen, Observable, Behind
  <2>7. Prepared' /\ CopyPrepared'
    BY <2>1, <2>2, <2>5 DEF PreparedInv, Prepared, CopyPrepared, DoneFor
  <2> QED
    BY <2>2, <2>3, <2>6, <2>7 DEF StatusOnItsWay
<1>8. CASE applyNodeChanges
  <2>1. /\ UNCHANGED <<gen, np, agt, served>> /\ ctl \in Reconciles
        /\ ctl'.pc # "status"
    BY <1>8 DEF applyNodeChanges, TypeOK, Reconciles, idle
  <2>2. node'.pool = node.pool /\ node'.role = node.role
    BY <1>8, <2>1, DesiredType DEF applyNodeChanges, TypeOK, Reconciles
  <2> QED
    BY <1>1, <2>1, <2>2, RestingPrepared
<1>9. CASE reconcileCAPAPause
  BY <1>1, <1>9, RestingPrepared DEF reconcileCAPAPause
<1>10. CASE Agent
  <2>1. np'.ref = np.ref /\ node' = node
    BY <1>10, AgentKeeps
  <2> QED
    BY <1>1, <1>10, <2>1, CyclePrepared, ReopenPrepared, WalkPrepared DEF Agent
<1>11. CASE MoveNode
  <2>1. UNCHANGED <<gen, np, agt, served, ctl>> /\ Moved
    BY <1>11 DEF MoveNode, Spend, Moved
  <2> QED
    BY <1>0, <2>1, RestingPrepared DEF RefInv
<1>12. CASE EditProfile
  <2>1. UNCHANGED <<np, node>>
    BY <1>12 DEF EditProfile
  <2> QED
    BY <1>1, <1>12, <2>1, EditPrepared
<1>13. CASE DeleteNodePrep
  BY <1>13 DEF DeleteNodePrep, Spend, Safe, Kept
<1> QED
  BY <1>2, <1>3, <1>4, <1>5, <1>6, <1>7, <1>8, <1>9, <1>10, <1>11, <1>12, <1>13
  DEF Next, LegacyController, Controller, Bystanders

\* A Ready node was prepared by the scripts, or for the profile and generation it
\* is Ready for, whatever is edited and wherever it is moved (agent.go: "a new
\* profile generation invalidates every step").
THEOREM ReadyIsPrepared == Spec => []ReadyServesProfile
<1>1. TypeOK /\ ClaimsInv /\ PreparedInv /\ [Next]_vars
      => TypeOK' /\ ClaimsInv' /\ PreparedInv'
  BY NextType, ClaimsStep, PreparedStep
<1>2. Init => TypeOK /\ ClaimsInv /\ PreparedInv
  BY InitType, ClaimsInit, PreparedInit
<1>3. TypeOK /\ ClaimsInv /\ PreparedInv => ReadyServesProfile
  <2> SUFFICES ASSUME TypeOK, ClaimsInv, PreparedInv, Safe,
                      np.phase = "Ready", gen[np.ref] = np.gen, agt.pc # "phase",
                      NEW q \in WalkStages
               PROVE  served[q] \in {byBash, <<np.ref, np.gen>>}
    BY DEF ReadyServesProfile, Safe, Kept
  <2>1. exists /\ np.ref \in Profiles /\ np.gen \in Nat
    BY UnsetDistinct DEF ClaimsInv, TypeOK, NodePreps, exists, Absent
  <2>2. Live(np.gen) /\ stageRank[q] < stageRank[np.phase]
    BY <2>1, Ranks DEF Live, WalkStages
  <2>3. Owned(q, np.gen)
    BY <2>2, UnsetDistinct DEF PreparedInv, Prepared, DoneFor
  <2>4. CASE served[q] # byBash
    <3>1. served[q][2] = np.gen /\ served[q][1] \in Profiles
      BY <2>3, <2>4 DEF Owned
    <3>2. served[q][1] = np.ref
      <4>1. CASE ~Apart
        BY <2>3, <2>4, <4>1 DEF Owned
      <4>2. CASE Apart
        <5>1. /\ First(served[q][1]) <= np.gen
              /\ np.gen <= First(served[q][1]) + MaxFaults
          BY <2>3, <2>4, <4>2 DEF Owned
        <5>2. First(np.ref) <= np.gen /\ np.gen <= First(np.ref) + MaxFaults
          BY <2>1, <4>2, FirstApart, BoundsAssumption DEF PreparedInv, GenInv, TypeOK
        <5> QED
          BY <2>1, <3>1, <4>2, <5>1, <5>2, OneOwner DEF PreparedInv
      <4> QED
        BY <4>1, <4>2
    <3>3. served[q] = <<served[q][1], served[q][2]>>
      BY ServingPairs DEF TypeOK
    <3> QED
      BY <3>1, <3>2, <3>3
  <2> QED
    BY <2>4
<1> QED
  BY <1>1, <1>2, <1>3, PTL DEF Spec

-----------------------------------------------------------------------------
(* The import says what is done *)

\* The environments in which the scripts' work counts for ever.
Quiet == faults \cap {"edit", "move", "delete"} = {}

\* None of the scripts' work is left to lose.
Blank == \A s \in WalkStages : served[s] # byBash

\* The scripts did no stage from phase q on, but for the last one.
NoneAhead(q) == \A s \in WalkStages \ {"Finalizing"} :
  stageRank[s] >= stageRank[q] => served[s] # byBash

\* The label of a node that is not adopted, the import on its way, the phase of
\* the NodePrep and the one the agent read: each is past what the scripts did,
\* and no generation asks for it again.  The NodePrep has no phase before the
\* import arrives: the agent that reads it empty heals it.
ImportInv == Quiet /\ ~healed =>
  /\ ctl # idle => exists
  /\ ~exists => NoneAhead(FromLegacy[node.legacy])
  /\ exists /\ ~Blank =>
       /\ ctl.pc = "status" =>
            np.phase = Unset /\ ctl.gen = gen[np.ref] /\ NoneAhead(ctl.phase)
       /\ np.phase # Unset => np.gen = gen[np.ref] /\ NoneAhead(np.phase)
       /\ agt.pc # "phase"
       /\ agt.pc = "profile" =>
            /\ np.phase # Unset
            /\ agt.seen.gen = gen[agt.seen.ref] /\ NoneAhead(agt.seen.phase)

\* Where served only loses scripts' work, what holds ahead of a phase stays.
LEMMA AheadStays ==
  ASSUME NEW q, NoneAhead(q),
         \A s \in WalkStages : served'[s] = byBash => served[s] = byBash
  PROVE  NoneAhead(q)'
BY DEF NoneAhead

\* A quiet environment stays quiet, and has no edit, move or deletion.
LEMMA QuietSteps ==
  ASSUME TypeOK, Quiet, [Next]_vars
  PROVE  /\ Quiet' /\ Safe /\ ~Moved
         /\ ~MoveNode /\ ~EditProfile /\ ~DeleteNodePrep
BY FaultsStep DEF Quiet, Safe, Kept, Moved, MoveNode, EditProfile,
   DeleteNodePrep, Spend

\* The scripts have done nothing.
LEMMA ImportInit == Init => ImportInv
<1> SUFFICES ASSUME Init PROVE ImportInv
  OBVIOUS
<1>1. /\ ctl = idle /\ ctl.pc = "idle" /\ ~exists
      /\ \A s \in WalkStages : served[s] = nobody
  BY DEF Init, idle, exists, Absent
<1>2. NoneAhead(FromLegacy[node.legacy])
  BY <1>1, Servings0 DEF NoneAhead
<1> QED
  BY <1>1, <1>2 DEF ImportInv

\* The scripts move the label past the stages they completed.
LEMMA BashAhead ==
  ASSUME TypeOK, NoneAhead(FromLegacy[node.legacy]), BashStage \/ BashBoot
  PROVE  NoneAhead(FromLegacy[node.legacy])'
<1>1. CASE node.legacy = Unset /\ Label("init", {})
  <2>1. FromLegacy[node.legacy]' = "Provisioning" /\ FromLegacy[node.legacy] = "Pending"
    BY <1>1, LabelType, Imports DEF Labels
  <2>2. \A s \in WalkStages : served'[s] = served[s]
    BY <1>1 DEF Label
  <2> QED
    BY <2>1, <2>2, Ranks DEF NoneAhead, WalkStages
<1>2. CASE node.legacy = "init" /\ Label("config", {"Provisioning", "Flashing"})
  <2>1. /\ FromLegacy[node.legacy]' = "Configuring"
        /\ FromLegacy[node.legacy] = "Provisioning"
    BY <1>2, LabelType, Imports DEF Labels
  <2>2. served'["Configuring"] = served["Configuring"]
    BY <1>2 DEF Label, WalkStages
  <2> QED
    BY <2>1, <2>2, Ranks DEF NoneAhead, WalkStages
<1>3. CASE node.legacy = "config" /\ Label("precomplete", {"Configuring"})
  <2>1. FromLegacy[node.legacy]' = "Finalizing"
    BY <1>3, LabelType, Imports DEF Labels
  <2> QED
    BY <2>1, Ranks DEF NoneAhead, WalkStages
<1>4. CASE \/ node.legacy = "precomplete" /\ Label("complete", {"Finalizing"})
           \/ node.legacy = "complete" /\ Label("precomplete", {})
  <2>1. FromLegacy[node.legacy]' = "Finalizing"
    BY <1>4, LabelType, Imports DEF Labels
  <2> QED
    BY <2>1, Ranks DEF NoneAhead, WalkStages
<1> QED
  BY <1>1, <1>2, <1>3, <1>4 DEF BashStage, BashBoot

\* A stage that the agent completes is not the scripts' any more, and a node
\* that they prepared is healed for all to know.
LEMMA AgentAhead ==
  ASSUME TypeOK, Agent
  PROVE  /\ \A s \in WalkStages : served'[s] = byBash => served[s] = byBash
         /\ Blank => Blank'
         /\ healed => healed'
         /\ Heal /\ exists /\ ~Blank => healed'
<1>1. CASE Walk
  <2>1. agt.seen.ref \in Profiles /\ agt.seen.gen \in Nat
    BY <1>1, CopyType DEF Walk
  <2>2. <<agt.seen.ref, agt.seen.gen>> # byBash
    BY <2>1, Servings0
  <2>3. /\ healed' = healed /\ ~Heal
        /\ \A s \in WalkStages : served'[s] = byBash => served[s] = byBash
    BY <1>1, <2>2 DEF Walk, Heal, TypeOK
  <2> QED
    BY <2>3 DEF Blank
<1>2. CASE Heal
  BY <1>2 DEF Heal, Blank
<1>3. CASE ReadNodePrep \/ Hold \/ Reopen \/ ReopenPhase
  <2>1. served' = served /\ healed' = healed /\ ~Heal
    BY <1>3 DEF ReadNodePrep, Hold, Reopen, ReopenPhase, Heal, done, idle
  <2> QED
    BY <2>1 DEF Blank
<1> QED
  BY <1>1, <1>2, <1>3 DEF Agent

\* Where the scripts' work counts, the agent neither heals nor re-opens, and
\* leaves the stage it completes behind.
LEMMA AgentImport ==
  ASSUME TypeOK, PreparedInv, Safe, Agent, exists, ~Blank, ~Heal,
         ctl.pc = "status" =>
           np.phase = Unset /\ ctl.gen = gen[np.ref] /\ NoneAhead(ctl.phase),
         np.phase # Unset => np.gen = gen[np.ref] /\ NoneAhead(np.phase),
         agt.pc # "phase",
         agt.pc = "profile" =>
           /\ np.phase # Unset
           /\ agt.seen.gen = gen[agt.seen.ref] /\ NoneAhead(agt.seen.phase)
  PROVE  /\ (ctl.pc = "status" =>
                np.phase = Unset /\ ctl.gen = gen[np.ref] /\ NoneAhead(ctl.phase))'
         /\ (np.phase # Unset => np.gen = gen[np.ref] /\ NoneAhead(np.phase))'
         /\ (agt.pc # "phase")'
         /\ (agt.pc = "profile" =>
                /\ np.phase # Unset
                /\ agt.seen.gen = gen[agt.seen.ref] /\ NoneAhead(agt.seen.phase))'
<1>1. UNCHANGED <<ctl, gen>> /\ np'.ref = np.ref
  BY AgentGenerations
<1>2. \A q : NoneAhead(q) => NoneAhead(q)'
  BY AgentAhead, AheadStays
<1>3. ~Reopen /\ ~ReopenPhase
  BY CopyType DEF Reopen, ReopenPhase, Observed
<1>4. CASE ReadNodePrep \/ Hold
  <2>1. /\ np' = np
        /\ \/ agt' = idle /\ agt'.pc = "idle"
           \/ /\ agt'.pc \in {"heal", "profile"} /\ agt'.seen = np
              /\ agt'.pc = "profile" => np.phase # Unset
    BY <1>4 DEF ReadNodePrep, Hold, idle
  <2> QED
    BY <1>1, <1>2, <2>1
<1>5. CASE Walk
  <2>1. /\ agt.pc = "profile" /\ agt' = idle /\ agt'.pc = "idle"
        /\ np'.gen = np.gen /\ np.phase # Unset
        /\ NoneAhead(agt.seen.phase) /\ np.gen = gen[np.ref]
    BY <1>5 DEF Walk, PatchStatus, TypeOK, NodePreps, idle
  <2>2. \/ agt.seen.phase = "Pending" /\ np'.phase = "Provisioning"
        \/ /\ agt.seen.phase \in WalkStages
           /\ np'.phase = nextStage[agt.seen.phase]
    BY <1>5 DEF Walk, PatchStatus, TypeOK, NodePreps
  <2>3. np'.phase # Unset
    BY <2>2, NextRank, UnsetDistinct
  <2>4. NoneAhead(np.phase)'
    <3>1. /\ \A s \in WalkStages : stageRank[s] \in Nat
          /\ stageRank[np'.phase] \in Nat /\ stageRank[agt.seen.phase] \in Nat
          /\ stageRank[np'.phase] >= stageRank[agt.seen.phase]
      BY <2>2, NextRank, Ranks DEF WalkStages
    <3>2. NoneAhead(agt.seen.phase)
      BY <2>1
    <3> QED
      BY <3>1, <3>2, AgentAhead DEF NoneAhead
  <2> QED
    BY <1>1, <2>1, <2>3, <2>4
<1> QED
  BY <1>3, <1>4, <1>5 DEF Agent

\* Every step keeps what the scripts did behind the phase.
LEMMA ImportStep ==
  ASSUME TypeOK, ClaimsInv, PreparedInv, ImportInv, [Next]_vars
  PROVE  ImportInv'
<1> USE DEF vars, bash, desired, done
<1> DEFINE Ahead ==
      /\ ctl.pc = "status" =>
           np.phase = Unset /\ ctl.gen = gen[np.ref] /\ NoneAhead(ctl.phase)
      /\ np.phase # Unset => np.gen = gen[np.ref] /\ NoneAhead(np.phase)
      /\ agt.pc # "phase"
      /\ agt.pc = "profile" =>
           /\ np.phase # Unset
           /\ agt.seen.gen = gen[agt.seen.ref] /\ NoneAhead(agt.seen.phase)
<1> SUFFICES ASSUME Quiet, ~healed'
             PROVE  /\ (ctl # idle => exists)'
                    /\ (~exists => NoneAhead(FromLegacy[node.legacy]))'
                    /\ (exists /\ ~Blank)' => Ahead'
  BY FaultsStep DEF ImportInv, Quiet
<1>0. /\ ~healed
      /\ ctl # idle => exists
      /\ ~exists => NoneAhead(FromLegacy[node.legacy])
      /\ exists /\ ~Blank => Ahead
      /\ exists => np.ref = matchProfile(node)
  <2>1. ~healed
    <3>1. CASE Agent
      BY <3>1, AgentAhead
    <3>2. CASE ~Agent
      <4>1. healed' = healed
        BY <3>2, BystandersMoveNothing
        DEF Next, LegacyController, Controller, Bystanders, BashStage, BashBoot, Label,
            Rollout, Create, InitialStatus, FollowSelection, applyNodeChanges,
            reconcileCAPAPause, Reconciling, MoveNode, EditProfile, DeleteNodePrep
      <4> QED
        BY <4>1
    <3> QED
      BY <3>1, <3>2
  <2> QED
    BY <2>1, QuietSteps DEF ImportInv, PreparedInv, RefInv
<1>1. idle.pc = "idle"
  BY DEF idle
<1>2. CASE Bystanders
  <2>1. /\ UNCHANGED <<ctl, gen, np, agt, served>> /\ node'.legacy = node.legacy
    BY <1>2, BystandersMoveNothing
  <2> QED
    BY <1>0, <2>1 DEF NoneAhead, Blank, exists
<1>3. CASE BashStage \/ BashBoot
  <2>1. UNCHANGED <<ctl, gen, np>> /\ ~exists /\ ctl = idle
    BY <1>3 DEF BashStage, BashBoot, Label, ClaimsInv, BashAlone, exists, Absent
  <2>2. NoneAhead(FromLegacy[node.legacy])'
    BY <1>0, <1>3, <2>1, BashAhead
  <2> QED
    BY <1>1, <2>1, <2>2 DEF exists
<1>4. CASE Rollout
  <2>1. /\ UNCHANGED <<ctl, gen, np, agt, served>> /\ node'.legacy = node.legacy
    BY <1>4 DEF Rollout, TypeOK, Nodes
  <2> QED
    BY <1>0, <2>1 DEF NoneAhead, Blank, exists
<1>5. CASE Create
  <2>1. PICK p \in Profiles :
          /\ ~exists /\ np' = [Absent EXCEPT !.ref = p]
          /\ ctl' = Lifecycle("status", importPhase(node.legacy), gen[p])
          /\ UNCHANGED <<gen, served, agt>>
    BY <1>5 DEF Create, Reconciling
  <2>2. /\ np'.ref = p /\ ctl'.pc = "status" /\ ctl'.gen = gen[p]
        /\ np'.phase = Unset /\ ctl'.phase = FromLegacy[node.legacy]
    BY <2>1, ImportType DEF Absent, Lifecycle, TypeOK, Nodes
  <2>3. exists'
    BY <2>2, ProfilesAssumption DEF exists, NoProfile
  <2>4. agt' = idle
    BY <2>1, QuietSteps DEF PreparedInv, SameRef
  <2> QED
    BY <1>0, <1>1, <2>1, <2>2, <2>3, <2>4 DEF NoneAhead
<1>6. CASE InitialStatus
  <2>1. /\ ctl \in Reconciles /\ ctl.pc = "status" /\ exists /\ ctl # idle
        /\ UNCHANGED <<gen, served, agt>>
    BY <1>0, <1>1, <1>6 DEF InitialStatus, TypeOK
  <2>2. \/ /\ np' = [np EXCEPT !.phase = ctl.phase, !.gen = ctl.gen]
           /\ ctl' = [ctl EXCEPT !.pc = "node"]
        \/ np' = np /\ ctl' = idle
    BY <1>6, <2>1 DEF InitialStatus
  <2>3. \/ /\ np'.ref = np.ref /\ np'.phase = ctl.phase /\ np'.gen = ctl.gen
           /\ ctl'.pc = "node"
        \/ np' = np /\ ctl'.pc = "idle"
    BY <1>1, <2>1, <2>2 DEF TypeOK, NodePreps, Reconciles
  <2>4. ctl.phase # Unset
    BY <2>1, UnsetDistinct DEF Reconciles, Reached, WalkStages
  <2>5. exists'
    BY <2>1, <2>3 DEF exists
  <2>6. (exists /\ ~Blank)' => Ahead'
    BY <1>0, <2>1, <2>3, <2>4 DEF NoneAhead, Blank
  <2> QED
    BY <2>5, <2>6
<1>7. CASE FollowSelection
  <2>1. PICK p \in Profiles :
          /\ p = matchProfile(node) /\ exists /\ ctl = idle
          /\ np' = [np EXCEPT !.ref = p]
          /\ ctl' = Lifecycle("node", IF np.phase = Unset THEN "Pending" ELSE np.phase,
                              np.gen)
          /\ UNCHANGED <<gen, served, agt>>
    BY <1>7 DEF FollowSelection, Reconciling
  <2>2. np' = np /\ ctl'.pc = "node"
    BY <1>0, <2>1 DEF Lifecycle, TypeOK, NodePreps
  <2> QED
    BY <1>0, <1>1, <2>1, <2>2 DEF NoneAhead, Blank, exists
<1>8. CASE applyNodeChanges \/ reconcileCAPAPause
  <2>1. ctl \in Reconciles /\ ctl # idle /\ ctl.pc # "status"
    BY <1>1, <1>8 DEF applyNodeChanges, reconcileCAPAPause, TypeOK
  <2>2. ctl'.pc # "status" /\ UNCHANGED <<gen, np, agt, served>>
    BY <1>1, <1>8, <2>1 DEF applyNodeChanges, reconcileCAPAPause, Reconciles
  <2> QED
    BY <1>0, <2>1, <2>2 DEF NoneAhead, Blank, exists
<1>9. CASE Agent
  <2>1. UNCHANGED <<ctl, gen, node>> /\ exists /\ exists' /\ Safe
    BY <1>9, QuietSteps, AgentGenerations
  <2>2. ASSUME ~Blank' PROVE Ahead'
    <3>1. ~Blank /\ ~Heal
      BY <1>9, <2>1, <2>2, AgentAhead
    <3>2. Ahead
      BY <1>0, <2>1, <3>1
    <3> QED
      BY <1>9, <2>1, <3>1, <3>2, AgentImport
  <2> QED
    BY <2>1, <2>2
<1>10. ~(MoveNode \/ EditProfile \/ DeleteNodePrep)
  BY QuietSteps
<1> QED
  BY <1>2, <1>3, <1>4, <1>5, <1>6, <1>7, <1>8, <1>9, <1>10
  DEF Next, LegacyController, Controller, Bystanders

\* ImportSaysWhatIsDone: an adopted node does not do again what the scripts
\* did, but for the last stage, unless the agent heals it (controller.go,
\* adoptNode: "the initial phase has to be written through the subresource").
THEOREM ImportIsTrusted == Spec => ImportSaysWhatIsDone
<1>1. TypeOK /\ ClaimsInv /\ PreparedInv /\ ImportInv /\ [Next]_vars
      => TypeOK' /\ ClaimsInv' /\ PreparedInv' /\ ImportInv'
  BY NextType, ClaimsStep, PreparedStep, ImportStep
<1>2. Init => TypeOK /\ ClaimsInv /\ PreparedInv /\ ImportInv
  BY InitType, ClaimsInit, PreparedInit, ImportInit
<1>3. ASSUME TypeOK, ClaimsInv, PreparedInv, ImportInv, [Next]_vars, Quiet, ~healed,
             NEW q \in WalkStages \ {"Finalizing"}, served[q] = byBash
      PROVE  served'[q] = byBash
  <2> USE DEF vars, bash, desired, done
  <2>1. CASE BashStage \/ BashBoot
    BY <1>3, <2>1 DEF BashStage, BashBoot, Label
  <2>2. CASE Walk
    <3>1. exists /\ ~Blank /\ agt.pc = "profile"
      BY <1>3, <2>2, QuietSteps, AgentGenerations DEF Agent, Walk, Blank
    <3>2. NoneAhead(agt.seen.phase)
      BY <1>3, <3>1 DEF ImportInv
    <3>3. q # agt.seen.phase
      BY <1>3, <3>2, Ranks DEF NoneAhead, WalkStages
    <3> QED
      BY <1>3, <2>2, <3>3 DEF Walk, TypeOK
  <2>3. CASE ~(BashStage \/ BashBoot \/ Walk)
    <3>1. CASE Bystanders
      BY <1>3, <3>1, BystandersMoveNothing
    <3>2. CASE Rollout \/ Create \/ InitialStatus \/ FollowSelection
               \/ applyNodeChanges \/ reconcileCAPAPause
      BY <1>3, <3>2 DEF Rollout, Create, InitialStatus, FollowSelection,
         applyNodeChanges, reconcileCAPAPause, Reconciling
    <3>3. CASE ReadNodePrep \/ Heal \/ Hold \/ Reopen \/ ReopenPhase
      BY <1>3, <3>3 DEF ReadNodePrep, Heal, Hold, Reopen, ReopenPhase
    <3>4. CASE MoveNode \/ EditProfile \/ DeleteNodePrep
      BY <1>3, <3>4 DEF MoveNode, EditProfile, DeleteNodePrep
    <3> QED
      BY <1>3, <2>3, <3>1, <3>2, <3>3, <3>4
         DEF Next, LegacyController, Controller, Agent, Bystanders
  <2> QED
    BY <2>1, <2>2, <2>3
<1>4. TypeOK /\ ClaimsInv /\ PreparedInv /\ ImportInv /\ [Next]_vars =>
        [ faults \cap {"edit", "move", "delete"} = {} /\ ~healed
          => \A q \in WalkStages \ {"Finalizing"} :
               served[q] = byBash => served'[q] = byBash ]_vars
  BY <1>3 DEF Quiet
<1> QED
  BY <1>1, <1>2, <1>4, PTL DEF Spec, ImportSaysWhatIsDone
=============================================================================
