--------------------------- MODULE AdmissionProofs ---------------------------
(***************************************************************************)
(* Proofs about the fleet windows, for any fleet, imports, policy and      *)
(* bounds:                                                                 *)
(*                                                                         *)
(*   TypeCorrect         every variable keeps its type                     *)
(*   SpareLeavesQuorum   the window leaves etcd its quorum                 *)
(*   WindowHolds         ControlPlaneWindow, on the fleet's first walk     *)
(*   GrantsStand         GrantStands, on the fleet's first walk            *)
(*                                                                         *)
(* Both window properties are false of the code elsewhere: a failed List,  *)
(* a Failed or a cold-halted member, an edit or an import behind the gate  *)
(* each defeat them (README, section 3).  FirstWalk says where they hold.  *)
(* There, each member that is at work or granted, in the NodePrep or in    *)
(* the reconcile that is about to say so, is in Claims, and Claims fits    *)
(* the window: a grant adds the one node it is about, when the others that *)
(* it counted left room; nothing else adds one, since an agent's stale     *)
(* conditions can withdraw a grant but never make one (SeenIsGranted).     *)
(***************************************************************************)
EXTENDS Admission, FiniteSetTheorems, TLAPS

\* A step that spends a fault, or none, stays within the budget.
LEMMA SpendType ==
  ASSUME TypeOK, NEW f, Spend(f) \/ NoFault
  PROVE  faultsLeft' \in 0..MaxFaults
BY BoundsAssumption DEF Spend, NoFault, TypeOK

\* A node is imported at one of the phases.
LEMMA ImportType == ASSUME NEW n \in Nodes PROVE Imports[n] \in Phases
BY FleetAssumption DEF ImportedPhases, FromLegacy, Phases, WalkStages

\* The stage after a stage is a phase.
LEMMA NextStageType ==
  ASSUME NEW p \in WalkStages PROVE nextStage[p] \in Phases
BY DEF nextStage, Phases, WalkStages

\* A fresh fleet is well typed.
LEMMA InitType == Init => TypeOK
<1> SUFFICES ASSUME Init PROVE TypeOK
  OBVIOUS
<1> USE DEF Init
<1>1. NoConditions \in Conditions
  BY DEF NoConditions, Conditions, Statuses
<1> QED
  BY <1>1, BoundsAssumption DEF TypeOK

\* The end of a cycle, at whatever phase.
LEMMA EndType ==
  ASSUME TypeOK, NEW n \in Nodes, EndCycle(n)
  PROVE  /\ apc' \in [Nodes -> {"idle", "cycle", "verified"}]
         /\ seen' \in [Nodes -> Conditions]
BY DEF TypeOK, EndCycle, NoConditions, Conditions, Statuses

\* The conditions that a cycle read may be written back.
LEMMA StaleType ==
  ASSUME TypeOK, NEW n \in Nodes
  PROVE  [cond EXCEPT ![n] = seen[n]] \in [Nodes -> Conditions]
BY DEF TypeOK

\* ... and a step of the reconcile keeps it so.
LEMMA ControllerType ==
  ASSUME TypeOK, Controller
  PROVE  TypeOK'
<1>1. ctl \in Reconcile
  BY DEF TypeOK, Controller, RefreshFlash, RefreshMaintenance, PatchConditions,
         NoReconcile
<1>2. faultsLeft' \in 0..MaxFaults
  BY SpendType DEF Controller, RefreshFlash, RefreshMaintenance, PatchConditions
<1>3. CASE RefreshFlash
  <2>1. ctl' \in Reconcile
    <3>1. PICK s \in Statuses :
            ctl' = [ctl EXCEPT !.pc = "maint", !.cond.flash = s]
      <4>1. ctl.cond.flash \in Statuses
        BY <1>1 DEF Reconcile, Conditions
      <4> QED
        BY <1>3, <4>1 DEF RefreshFlash, Statuses
    <3>2. [ctl.cond EXCEPT !.flash = s] \in Conditions
      BY <1>1 DEF Reconcile, Conditions
    <3> QED
      BY <1>1, <3>1, <3>2 DEF Reconcile
  <2> QED
    BY <1>2, <1>3, <2>1 DEF RefreshFlash, TypeOK
<1>4. CASE RefreshMaintenance
  <2>1. ctl' \in Reconcile
    <3>1. PICK s \in Statuses :
            ctl' = [ctl EXCEPT !.pc = "patch", !.cond.maint = s]
      <4>1. ctl.cond.maint \in Statuses
        BY <1>1 DEF Reconcile, Conditions
      <4> QED
        BY <1>4, <4>1 DEF RefreshMaintenance, Statuses
    <3>2. [ctl.cond EXCEPT !.maint = s] \in Conditions
      BY <1>1 DEF Reconcile, Conditions
    <3> QED
      BY <1>1, <3>1, <3>2 DEF Reconcile
  <2> QED
    BY <1>2, <1>4, <2>1 DEF RefreshMaintenance, TypeOK
<1>5. CASE PatchConditions
  <2>1. cond' \in [Nodes -> Conditions]
    BY <1>1, <1>5 DEF PatchConditions, Reconcile, TypeOK
  <2> QED
    BY <1>2, <1>5, <2>1 DEF PatchConditions, TypeOK
<1> QED
  BY <1>3, <1>4, <1>5 DEF Controller

\* ... and a step of an agent.
LEMMA AgentType ==
  ASSUME TypeOK, NEW n \in Nodes, Agent(n)
  PROVE  TypeOK'
<1> USE DEF MoveTo, Phases, WalkStages
<1>1. faultsLeft' \in 0..MaxFaults
  BY SpendType DEF Agent, ReadNodePrep, ReopenForProfile, SyncBoot,
     RestOrResume, VerifyReady, StartWalk, HoldAtGate, RunStage, Finalize,
     EnterReady, ColdHalt
<1>2. CASE ReadNodePrep(n)
  BY <1>1, <1>2 DEF ReadNodePrep, TypeOK
<1>3. CASE ReopenForProfile(n)
  BY <1>1, <1>3, EndType DEF ReopenForProfile, TypeOK
<1>4. CASE SyncBoot(n)
  BY <1>1, <1>4, StaleType DEF SyncBoot, TypeOK
<1>5. CASE RestOrResume(n)
  BY <1>1, <1>5, EndType DEF RestOrResume, TypeOK
<1>6. CASE VerifyReady(n)
  BY <1>1, <1>6, EndType, StaleType DEF VerifyReady, TypeOK
<1>7. CASE StartWalk(n)
  BY <1>1, <1>7, EndType DEF StartWalk, TypeOK
<1>8. CASE HoldAtGate(n)
  BY <1>1, <1>8, EndType DEF HoldAtGate, TypeOK
<1>9. CASE RunStage(n)
  <2>1. nextStage[phase[n]] \in Phases
    BY <1>9, NextStageType DEF RunStage
  <2> QED
    BY <1>1, <1>9, <2>1, EndType DEF RunStage, TypeOK, Working
<1>10. CASE Finalize(n)
  <2>1. apc' \in [Nodes -> {"idle", "cycle", "verified"}]
    BY <1>10, EndType DEF Finalize, TypeOK
  <2> QED
    BY <1>1, <1>10, <2>1, EndType, StaleType DEF Finalize, TypeOK
<1>11. CASE EnterReady(n)
  BY <1>1, <1>11, EndType DEF EnterReady, TypeOK
<1>12. CASE ColdHalt(n)
  BY <1>1, <1>12, EndType DEF ColdHalt, TypeOK
<1> QED
  BY <1>2, <1>3, <1>4, <1>5, <1>6, <1>7, <1>8, <1>9, <1>10, <1>11, <1>12
     DEF Agent

\* ... and any step, of the two programs or of the world.
LEMMA NextType == ASSUME TypeOK, [Next]_vars PROVE TypeOK'
<1>1. ASSUME NEW n \in Nodes, Adopt(n) PROVE TypeOK'
  <2>1. ctl' \in Reconcile
    BY <1>1, ImportType DEF Adopt, Reconcile, NoConditions, Conditions, Statuses
  <2>2. /\ phase' \in [Nodes -> Phases \cup {"Absent"}]
        /\ prepping' \in [Nodes -> BOOLEAN]
    <3> DEFINE past == stageRank[Imports[n]] > stageRank["Provisioning"]
    <3>1. past \in BOOLEAN
      OBVIOUS
    <3> HIDE DEF past
    <3> QED
      BY <1>1, <3>1, ImportType DEF Adopt, TypeOK, past
  <2>3. faultsLeft' \in 0..MaxFaults
    BY <1>1, SpendType DEF Adopt
  <2> QED
    BY <1>1, <2>1, <2>2, <2>3 DEF Adopt, TypeOK
<1>2. ASSUME NEW n \in Nodes, BeginReconcile(n) PROVE TypeOK'
  <2>1. ctl' \in Reconcile
    BY <1>2 DEF BeginReconcile, Reconcile, TypeOK
  <2>2. faultsLeft' \in 0..MaxFaults
    BY <1>2, SpendType DEF BeginReconcile
  <2> QED
    BY <1>2, <2>1, <2>2 DEF BeginReconcile, TypeOK
<1>3. CASE EditProfile
  <2>1. faultsLeft' \in 0..MaxFaults
    BY <1>3, SpendType DEF EditProfile
  <2> QED
    BY <1>3, <2>1 DEF EditProfile, TypeOK
<1>4. CASE UNCHANGED vars
  BY <1>4 DEF vars, TypeOK
<1> QED
  BY <1>1, <1>2, <1>3, <1>4, AgentType, ControllerType DEF Next

\* TypeOK: no reconcile, cycle, fault or edit takes a variable out of its type.
THEOREM TypeCorrect == Spec => []TypeOK
BY InitType, NextType, PTL DEF Spec

-----------------------------------------------------------------------------
(* The window and etcd *)

\* CPMaxConcurrent (decisions.go): at least one, and with three members or
\* more what is left of the expected members is a quorum of them.
THEOREM SpareLeavesQuorum ==
  ASSUME NEW e \in Nat
  PROVE  /\ CPMaxConcurrent(e) \in Nat \ {0}
         /\ e >= 3 => e - CPMaxConcurrent(e) >= e \div 2 + 1
<1>1. e \div 2 \in Nat /\ 2 * (e \div 2) <= e /\ e < 2 * (e \div 2) + 2
  OBVIOUS
<1> QED
  BY <1>1 DEF CPMaxConcurrent

-----------------------------------------------------------------------------
(* ControlPlaneWindow and GrantStands *)

\* The fleet's first walk: nobody is imported behind the gate, no List fails
\* and no member fails, waits for a power cycle or walks again.  Held passes,
\* boots with their stale conditions and lost patches are all there.
FirstWalk ==
  /\ Faults \cap {"listFail", "fail", "cold", "edit"} = {}
  /\ \A n \in ControlPlanes : Imports[n] \in {"Pending", "Provisioning"}

Queued(n) == phase[n] \in {"Pending", "Provisioning"}
Busy(n) == BusyControlPlane(phase[n], cond[n].maint)

\* Nothing is known of a node that is not adopted.
AdoptedFirst(n) ==
  phase[n] = "Absent" => /\ cond[n] = NoConditions
                         /\ apc[n] = "idle"
                         /\ ~prepping[n]
                         /\ ctl # NoReconcile => ctl.node # n

\* Between two cycles an agent remembers nothing.
Resting(n) == /\ apc[n] = "idle" => seen[n] = NoConditions
              /\ apc[n] = "verified" => phase[n] = "Finalizing"

OnWalk(n) == ~reopen[n] /\ phase[n] \notin {"Failed", "ColdRebootRequired"}

\* A queued node's agent has not read a grant that is not there any more.
SeenIsGranted(n) ==
  Queued(n) /\ seen[n].maint = "True" => cond[n].maint = "True"

\* Whoever is at work is counted, and works from a grant.
AtWork(n) ==
  prepping[n] => /\ Busy(n)
                 /\ Queued(n) /\ apc[n] # "idle" => seen[n].maint = "True"

Member(n) == /\ AdoptedFirst(n) /\ Resting(n) /\ OnWalk(n)
             /\ SeenIsGranted(n) /\ AtWork(n)

\* A grant that is decided and not yet written.
Granting(n) == /\ ctl.pc = "patch" /\ ctl.node = n
               /\ ctl.cond.maint = "True" /\ phase[n] # "Ready"

Claims == {n \in ControlPlanes : Busy(n) \/ Granting(n)}

\* Nobody at work is about to be denied.
Denied(n) == ctl.pc = "patch" /\ ctl.node = n /\ ctl.cond.maint # "True"

WindowInv == /\ \A n \in ControlPlanes : Member(n)
             /\ \A n \in ControlPlanes : Denied(n) => ~Busy(n)
             /\ Cardinality(Claims) <= maxCP

\* Fleets are finite, and a part counts no more members than the whole.
LEMMA ClaimsFinite ==
  /\ IsFiniteSet(ControlPlanes)
  /\ \A S \in SUBSET ControlPlanes : IsFiniteSet(S) /\ Cardinality(S) \in Nat
  /\ \A S, T \in SUBSET ControlPlanes :
       S \subseteq T => Cardinality(S) <= Cardinality(T)
<1>1. IsFiniteSet(ControlPlanes)
  BY FleetAssumption, FS_Subset
<1>2. \A S \in SUBSET ControlPlanes : IsFiniteSet(S)
  BY <1>1, FS_Subset
<1> QED
  BY <1>1, <1>2, FS_Subset, FS_CardinalityType

\* The window is never empty, and never changes.
LEMMA WindowSize == maxCP \in Nat \ {0} /\ maxCP' = maxCP
BY FleetAssumption, SpareLeavesQuorum DEF maxCP

\* Who claims nothing new leaves the window as it is.
LEMMA FewerClaims ==
  ASSUME Cardinality(Claims) <= maxCP, Claims' \subseteq Claims
  PROVE  (Cardinality(Claims) <= maxCP)'
<1>1. Claims \subseteq ControlPlanes /\ Claims' \subseteq ControlPlanes
  BY DEF Claims
<1>2. /\ Cardinality(Claims') <= Cardinality(Claims)
      /\ Cardinality(Claims') \in Nat /\ Cardinality(Claims) \in Nat
  BY <1>1, ClaimsFinite
<1> QED
  BY <1>2, WindowSize

\* Nobody claims anything of a fleet that nobody has adopted.
LEMMA WindowInit == Init => WindowInv
<1> SUFFICES ASSUME Init PROVE WindowInv
  OBVIOUS
<1> USE DEF Init
<1>1. \A n \in ControlPlanes : n \in Nodes
  BY FleetAssumption
<1>2. \A n \in ControlPlanes : ~Busy(n) /\ ~Granting(n) /\ ~Denied(n)
  BY <1>1 DEF Busy, BusyControlPlane, Granting, Denied, NoReconcile
<1>3. \A n \in ControlPlanes : Member(n)
  BY <1>1 DEF Member, AdoptedFirst, Resting, OnWalk, SeenIsGranted, Queued,
     AtWork, NoConditions, NoReconcile
<1>4. Claims = {}
  BY <1>2 DEF Claims
<1> QED
  BY <1>2, <1>3, <1>4, FS_EmptySet, WindowSize DEF WindowInv

\* What an agent's step does to the node it runs on: it claims nothing that
\* was not claimed, and a node that is Ready stays so.
LEMMA AgentMember ==
  ASSUME TypeOK, FirstWalk, NEW n \in ControlPlanes, n \in Nodes,
         Member(n), Agent(n)
  PROVE  /\ Member(n)'
         /\ Busy(n)' => Busy(n)
         /\ phase[n] = "Ready" => phase'[n] = "Ready"
         /\ prepping[n] /\ phase[n] = "Provisioning" /\ cond[n].maint = "True"
              => cond'[n].maint = "True"
<1> USE DEF MoveTo, EndCycle, Busy, BusyControlPlane, Queued, OnWalk, NoConditions
<1>1. /\ phase[n] \in Phases \cup {"Absent"} /\ ~reopen[n]
      /\ phase[n] \notin {"Failed", "ColdRebootRequired"}
      /\ cond[n] \in Conditions /\ seen[n] \in Conditions
      /\ DOMAIN phase = Nodes /\ DOMAIN cond = Nodes /\ DOMAIN seen = Nodes
      /\ DOMAIN apc = Nodes /\ DOMAIN prepping = Nodes
  BY DEF TypeOK, Member
<1>2. CASE ReadNodePrep(n)
  BY <1>1, <1>2
     DEF ReadNodePrep, Member, AdoptedFirst, Resting, SeenIsGranted, AtWork
<1>3. CASE ReopenForProfile(n) \/ RestOrResume(n) \/ ColdHalt(n)
  BY <1>1, <1>3 DEF ReopenForProfile, RestOrResume, ColdHalt
<1>4. CASE SyncBoot(n)
  BY <1>1, <1>4
     DEF SyncBoot, Member, AdoptedFirst, Resting, SeenIsGranted, AtWork
<1>5. CASE VerifyReady(n)
  BY <1>1, <1>5
     DEF VerifyReady, Member, AdoptedFirst, Resting, SeenIsGranted, AtWork
<1>6. CASE StartWalk(n)
  BY <1>1, <1>6
     DEF StartWalk, Member, AdoptedFirst, Resting, SeenIsGranted, AtWork
<1>7. CASE HoldAtGate(n)
  BY <1>1, <1>7
     DEF HoldAtGate, Member, AdoptedFirst, Resting, SeenIsGranted, AtWork
<1>8. CASE RunStage(n)
  <2>1. /\ nextStage["Provisioning"] = "Flashing"
        /\ nextStage["Flashing"] = "Configuring"
        /\ nextStage["Configuring"] = "Finalizing"
    BY DEF nextStage, WalkStages
  <2>2. ~Spend("fail")
    BY DEF FirstWalk, Spend
  <2> QED
    BY <1>1, <1>8, <2>1, <2>2
       DEF RunStage, GateOpen, Working, Member, AdoptedFirst, Resting,
           SeenIsGranted, AtWork
<1>9. CASE Finalize(n)
  <2>1. ~Spend("fail") /\ ~Spend("cold")
    BY DEF FirstWalk, Spend
  <2> QED
    BY <1>1, <1>9, <2>1
       DEF Finalize, Member, AdoptedFirst, Resting, SeenIsGranted, AtWork
<1>10. CASE EnterReady(n)
  BY <1>1, <1>10
     DEF EnterReady, Member, AdoptedFirst, Resting, SeenIsGranted, AtWork
<1> QED
  BY <1>2, <1>3, <1>4, <1>5, <1>6, <1>7, <1>8, <1>9, <1>10 DEF Agent


\* A step that is not about n: n stays a member as it is.
LEMMA OtherMember ==
  ASSUME NEW n, Member(n),
         phase'[n] = phase[n], cond'[n] = cond[n], apc'[n] = apc[n],
         seen'[n] = seen[n], reopen'[n] = reopen[n],
         prepping'[n] = prepping[n],
         phase[n] = "Absent" /\ ctl' # NoReconcile => ctl'.node # n
  PROVE  Member(n)' /\ Busy(n)' = Busy(n)
<1>1. Busy(n)' = Busy(n)
  BY DEF Busy, BusyControlPlane
<1> QED
  BY <1>1 DEF Member, AdoptedFirst, Resting, OnWalk, SeenIsGranted, AtWork,
              Queued

\* An agent's step.
LEMMA AgentWindow ==
  ASSUME TypeOK, FirstWalk, WindowInv, NEW m \in Nodes, Agent(m)
  PROVE  WindowInv'
<1>1. /\ ctl' = ctl
      /\ \A n \in Nodes \ {m} :
           /\ phase'[n] = phase[n] /\ cond'[n] = cond[n] /\ apc'[n] = apc[n]
           /\ seen'[n] = seen[n] /\ reopen'[n] = reopen[n]
           /\ prepping'[n] = prepping[n]
  BY DEF TypeOK, Agent, ReadNodePrep, ReopenForProfile, SyncBoot, RestOrResume,
     VerifyReady, StartWalk, HoldAtGate, RunStage, Finalize, EnterReady,
     ColdHalt, MoveTo, EndCycle, Working
<1>2. ASSUME NEW n \in ControlPlanes
      PROVE  /\ Member(n)'
             /\ Busy(n)' => Busy(n)
             /\ phase[n] = "Ready" => phase'[n] = "Ready"
  <2>1. n \in Nodes /\ Member(n)
    BY FleetAssumption DEF WindowInv
  <2>2. CASE n = m
    BY <2>1, <2>2, AgentMember
  <2>3. CASE n # m
    <3>1. phase[n] = "Absent" /\ ctl' # NoReconcile => ctl'.node # n
      BY <1>1, <2>1 DEF Member, AdoptedFirst
    <3> QED
      BY <1>1, <2>1, <2>3, <3>1, OtherMember
  <2> QED
    BY <2>2, <2>3
<1>3. \A n \in ControlPlanes : Denied(n)' => ~Busy(n)'
  BY <1>1, <1>2 DEF WindowInv, Denied
<1>4. Claims' \subseteq Claims
  BY <1>1, <1>2 DEF Claims, Granting
<1> QED
  BY <1>2, <1>3, <1>4, FewerClaims DEF WindowInv

\* A step of the reconcile moves one node's conditions at most.
LEMMA ReconcileMembers ==
  ASSUME WindowInv, UNCHANGED <<phase, cond, reopen, apc, seen, prepping>>,
         ctl' # NoReconcile =>
           \A n \in ControlPlanes : phase[n] = "Absent" => ctl'.node # n
  PROVE  \A n \in ControlPlanes : Member(n)' /\ Busy(n)' = Busy(n)
<1> SUFFICES ASSUME NEW n \in ControlPlanes
             PROVE  Member(n)' /\ Busy(n)' = Busy(n)
  OBVIOUS
<1>1. Member(n)
  BY DEF WindowInv
<1> QED
  BY <1>1, OtherMember

\* A grant is decided when the others leave room, and adds the one node.
LEMMA GrantFits ==
  ASSUME TypeOK, WindowInv, FirstWalk, Strategy = "serial", RefreshMaintenance
  PROVE  WindowInv'
<1> DEFINE m == ctl.node
<1>1. /\ ctl \in Reconcile /\ ctl # NoReconcile /\ m \in Nodes
      /\ ctl.pc = "maint"
  BY DEF TypeOK, RefreshMaintenance, NoReconcile, Reconcile
<1>2. /\ UNCHANGED <<phase, cond, reopen, apc, seen, prepping>>
      /\ ctl'.pc = "patch" /\ ctl'.node = m
      /\ m \in ControlPlanes =>
           (ctl'.cond.maint = "True" <=> countBusyControlPlanes(m) < maxCP)
  <2>1. ~Spend("listFail")
    BY DEF FirstWalk, Spend
  <2>2. ctl.cond \in Conditions
    BY <1>1 DEF Reconcile
  <2>3. /\ UNCHANGED <<phase, cond, reopen, apc, seen, prepping>>
        /\ \E s : /\ ctl' = [ctl EXCEPT !.pc = "patch", !.cond.maint = s]
                  /\ m \in ControlPlanes =>
                       s = IF AdmitControlPlane(countBusyControlPlanes(m),
                                                maxCP, Strategy)
                           THEN "True" ELSE "False"
    BY <2>1 DEF RefreshMaintenance
  <2>4. PICK s : /\ ctl' = [ctl EXCEPT !.pc = "patch", !.cond.maint = s]
                 /\ m \in ControlPlanes =>
                      s = IF AdmitControlPlane(countBusyControlPlanes(m),
                                               maxCP, Strategy)
                          THEN "True" ELSE "False"
    BY <2>3
  <2>5. ctl'.pc = "patch" /\ ctl'.node = m /\ ctl'.cond.maint = s
    BY <1>1, <2>2, <2>4 DEF Reconcile, Conditions
  <2>6. AdmitControlPlane(countBusyControlPlanes(m), maxCP, Strategy)
          <=> countBusyControlPlanes(m) < maxCP
    BY DEF AdmitControlPlane
  <2> QED
    BY <2>3, <2>4, <2>5, <2>6
<1>3. \A n \in ControlPlanes : Member(n)' /\ Busy(n)' = Busy(n)
  <2>1. \A n \in ControlPlanes : phase[n] = "Absent" => ctl'.node # n
    BY <1>1, <1>2 DEF WindowInv, Member, AdoptedFirst
  <2> QED
    BY <1>2, <2>1, ReconcileMembers
<1> DEFINE others == BusyCP \ {m}
<1>4. /\ BusyCP = {n \in ControlPlanes : Busy(n)}
      /\ BusyCP \in SUBSET ControlPlanes /\ others \in SUBSET ControlPlanes
      /\ countBusyControlPlanes(m) = Cardinality(others)
  BY DEF BusyCP, Busy, countBusyControlPlanes
<1>5. /\ BusyCP \subseteq Claims
      /\ Cardinality(BusyCP) <= maxCP
  <2>1. BusyCP \subseteq Claims /\ Claims \in SUBSET ControlPlanes
    BY <1>4 DEF Claims
  <2>2. /\ Cardinality(BusyCP) <= Cardinality(Claims)
        /\ Cardinality(BusyCP) \in Nat /\ Cardinality(Claims) \in Nat
    BY <1>4, <2>1, ClaimsFinite
  <2> QED
    BY <2>1, <2>2, WindowSize DEF WindowInv
<1>6. m \in BusyCP => Cardinality(others) < maxCP
  <2>1. m \in BusyCP => Cardinality(others) = Cardinality(BusyCP) - 1
    BY <1>4, ClaimsFinite, FS_RemoveElement
  <2> QED
    BY <1>4, <1>5, <2>1, ClaimsFinite, WindowSize
<1>7. \A n \in ControlPlanes : Denied(n)' => ~Busy(n)'
  BY <1>2, <1>3, <1>4, <1>6 DEF Denied
<1>8. Cardinality(Claims') <= maxCP
  <2>1. CASE m \in ControlPlanes /\ Cardinality(others) < maxCP
    <3>1. Claims' \subseteq others \cup {m}
      BY <1>2, <1>3, <1>4 DEF Claims, Granting
    <3>2. Cardinality(others \cup {m}) <= Cardinality(others) + 1
      <4>1. IsFiniteSet(others) /\ Cardinality(others) \in Nat
        BY <1>4, ClaimsFinite
      <4>2. Cardinality(others \cup {m}) =
              IF m \in others THEN Cardinality(others)
              ELSE Cardinality(others) + 1
        BY <4>1, FS_AddElement
      <4> HIDE DEF others
      <4> QED
        BY <4>1, <4>2
    <3>3. /\ Cardinality(Claims') <= Cardinality(others \cup {m})
          /\ Cardinality(Claims') \in Nat
          /\ Cardinality(others \cup {m}) \in Nat
          /\ Cardinality(others) \in Nat
      BY <1>4, <2>1, <3>1, ClaimsFinite
    <3> QED
      BY <2>1, <3>2, <3>3, WindowSize
  <2>2. CASE ~(m \in ControlPlanes /\ Cardinality(others) < maxCP)
    <3>1. Claims' \subseteq BusyCP
      BY <1>2, <1>3, <1>4, <2>2 DEF Claims, Granting
    <3>2. /\ Cardinality(Claims') <= Cardinality(BusyCP)
          /\ Cardinality(Claims') \in Nat /\ Cardinality(BusyCP) \in Nat
      BY <1>4, <3>1, ClaimsFinite
    <3> QED
      BY <1>5, <3>2, WindowSize
  <2> QED
    BY <2>1, <2>2
<1> QED
  BY <1>3, <1>7, <1>8, WindowSize DEF WindowInv

\* The flash window is refreshed for the node the reconcile is about.
LEMMA FlashKeeps ==
  ASSUME TypeOK, RefreshFlash
  PROVE  ctl.pc = "flash" /\ ctl'.pc = "maint" /\ ctl'.node = ctl.node
<1>1. ctl \in Reconcile /\ ctl.pc = "flash"
  BY DEF TypeOK, RefreshFlash, NoReconcile
<1>2. \E s : ctl' = [ctl EXCEPT !.pc = "maint", !.cond.flash = s]
  BY DEF RefreshFlash
<1> QED
  BY <1>1, <1>2 DEF Reconcile, Conditions

\* The other steps of the controller.
LEMMA ReconcileWindow ==
  ASSUME TypeOK, FirstWalk, WindowInv, NEW m \in Nodes,
         Adopt(m) \/ BeginReconcile(m) \/ RefreshFlash
  PROVE  WindowInv'
<1>1. ctl'.pc # "patch"
  BY FlashKeeps DEF Adopt, BeginReconcile
<1>2. ASSUME NEW n \in ControlPlanes
      PROVE  Member(n)' /\ (Busy(n)' => Busy(n))
  <2>1. n \in Nodes /\ Member(n)
    BY FleetAssumption DEF WindowInv
  <2>2. CASE Adopt(m) /\ n = m
    <3>1. /\ phase'[n] \in {"Pending", "Provisioning"} /\ phase[n] = "Absent"
          /\ stageRank[phase'[n]] <= stageRank["Provisioning"]
          /\ prepping'[n] = (stageRank[phase'[n]] > stageRank["Provisioning"])
      <4>1. /\ phase'[n] = Imports[n] /\ phase[n] = "Absent"
            /\ prepping'[n] = (stageRank[Imports[n]] > stageRank["Provisioning"])
        BY <2>1, <2>2 DEF Adopt, TypeOK
      <4>2. /\ Imports[n] \in {"Pending", "Provisioning"}
            /\ stageRank["Pending"] = 0 /\ stageRank["Provisioning"] = 1
        BY DEF FirstWalk, stageRank, Phases, WalkStages
      <4> QED
        BY <4>1, <4>2
    <3>2. ~prepping'[n]
      <4> DEFINE past == stageRank[phase'[n]] > stageRank["Provisioning"]
      <4>1. ~past
        <5>1. stageRank["Pending"] = 0 /\ stageRank["Provisioning"] = 1
          BY DEF stageRank, Phases, WalkStages
        <5> QED
          BY <3>1, <5>1
      <4>2. prepping'[n] = past
        BY <3>1
      <4> HIDE DEF past
      <4> QED
        BY <4>1, <4>2, Zenon
    <3> QED
      BY <2>1, <2>2, <3>1, <3>2
         DEF Adopt, Member, AdoptedFirst, Resting, OnWalk, SeenIsGranted,
             Queued, AtWork, Busy, BusyControlPlane, NoConditions
  <2>3. CASE ~(Adopt(m) /\ n = m)
    <3>1. /\ phase'[n] = phase[n] /\ cond'[n] = cond[n] /\ apc'[n] = apc[n]
          /\ seen'[n] = seen[n] /\ reopen'[n] = reopen[n]
          /\ prepping'[n] = prepping[n]
      BY <2>1, <2>3 DEF Adopt, BeginReconcile, RefreshFlash, TypeOK
    <3>2. phase[n] = "Absent" /\ ctl' # NoReconcile => ctl'.node # n
      <4>1. CASE RefreshFlash
        <5>1. ctl # NoReconcile /\ ctl'.node = ctl.node
          BY <4>1, FlashKeeps DEF NoReconcile
        <5> QED
          BY <2>1, <5>1 DEF Member, AdoptedFirst
      <4>2. CASE Adopt(m) \/ BeginReconcile(m)
        BY <2>3, <4>2 DEF Adopt, BeginReconcile
      <4> QED
        BY <4>1, <4>2
    <3> QED
      BY <2>1, <3>1, <3>2, OtherMember
  <2> QED
    BY <2>2, <2>3
<1>3. Claims' \subseteq Claims
  BY <1>1, <1>2 DEF Claims, Granting
<1> QED
  BY <1>1, <1>2, <1>3, FewerClaims DEF WindowInv, Denied


\* What was decided is written, or the patch is lost.
LEMMA PatchWindow ==
  ASSUME TypeOK, WindowInv, PatchConditions
  PROVE  /\ WindowInv'
         /\ \A n \in ControlPlanes :
              prepping[n] /\ cond[n].maint = "True" /\ phase[n] = "Provisioning"
                => cond'[n].maint = "True"
<1> DEFINE m == ctl.node
<1>1. /\ ctl \in Reconcile /\ ctl # NoReconcile /\ m \in Nodes
      /\ ctl.pc = "patch" /\ ctl' = NoReconcile
      /\ UNCHANGED <<phase, reopen, apc, seen, prepping>>
      /\ cond' = cond \/ cond' = [cond EXCEPT ![m] = ctl.cond]
  BY DEF TypeOK, PatchConditions, NoReconcile, Reconcile
<1>2. ASSUME NEW n \in ControlPlanes
      PROVE  /\ Member(n)'
             /\ Busy(n)' => Busy(n) \/ Granting(n)
             /\ prepping[n] /\ cond[n].maint = "True"
                  /\ phase[n] = "Provisioning" => cond'[n].maint = "True"
  <2>1. n \in Nodes /\ Member(n) /\ (Denied(n) => ~Busy(n)) /\ DOMAIN cond = Nodes
    BY FleetAssumption DEF WindowInv, TypeOK
  <2>2. CASE cond'[n] = cond[n]
    BY <1>1, <2>1, <2>2, OtherMember
  <2>3. CASE cond'[n] # cond[n]
    <3>1. n = m /\ cond'[n] = ctl.cond /\ phase[n] # "Absent"
      BY <1>1, <2>1, <2>3 DEF Member, AdoptedFirst
    <3>2. Busy(n) => ctl.cond.maint = "True"
      BY <1>1, <2>1, <3>1 DEF Denied
    <3>3. Member(n)'
      BY <1>1, <2>1, <3>1, <3>2
         DEF Member, AdoptedFirst, Resting, OnWalk, SeenIsGranted, Queued,
             AtWork, Busy, BusyControlPlane
    <3>4. Busy(n)' => Busy(n) \/ Granting(n)
      BY <1>1, <2>1, <3>1 DEF Busy, BusyControlPlane, Granting
    <3>5. prepping[n] => cond'[n].maint = "True"
      BY <2>1, <3>1, <3>2 DEF Member, AtWork
    <3> QED
      BY <3>3, <3>4, <3>5
  <2> QED
    BY <2>2, <2>3
<1>3. \A n \in ControlPlanes : ~Granting(n)' /\ ~Denied(n)'
  BY <1>1 DEF Granting, Denied, NoReconcile
<1>4. Claims' \subseteq Claims
  BY <1>2, <1>3 DEF Claims
<1> QED
  BY <1>2, <1>3, <1>4, FewerClaims DEF WindowInv

\* No step puts more claims into the window than fit.
LEMMA WindowStep ==
  ASSUME TypeOK, FirstWalk, Strategy = "serial", WindowInv, [Next]_vars
  PROVE  WindowInv'
<1>1. CASE Controller
  <2>1. CASE RefreshFlash
    <3>1. ctl.node \in Nodes
      BY <2>1 DEF TypeOK, RefreshFlash, Reconcile, NoReconcile
    <3> QED
      BY <2>1, <3>1, ReconcileWindow
  <2> QED
    BY <1>1, <2>1, GrantFits, PatchWindow DEF Controller
<1>2. CASE EditProfile
  BY <1>2 DEF EditProfile, Spend, FirstWalk
<1>3. CASE UNCHANGED vars
  BY <1>3 DEF vars, WindowInv, Member, AdoptedFirst, Resting, OnWalk,
     SeenIsGranted, Queued, AtWork, Busy, Denied, Claims, Granting, BusyCP,
     maxCP
<1> QED
  BY <1>1, <1>2, <1>3, AgentWindow, ReconcileWindow DEF Next

\* The invariant of the window, on the first walk of a serial fleet.
LEMMA WindowInvariant ==
  ASSUME FirstWalk, Strategy = "serial"
  PROVE  Spec => []WindowInv
<1>1. TypeOK /\ WindowInv /\ [Next]_vars => WindowInv'
  BY WindowStep
<1> QED
  BY <1>1, WindowInit, TypeCorrect, PTL DEF Spec

\* ControlPlaneWindow: on the fleet's first walk the members that agents work
\* on are never more than expected - quorum(expected), from the pass through
\* the gate until Ready, for any fleet and whatever boots, held passes and
\* lost patches come between the reads and the writes of the reconcile and of
\* the agents.
THEOREM WindowHolds ==
  ASSUME FirstWalk
  PROVE  Spec => []ControlPlaneWindow
<1>1. WindowInv => ControlPlaneWindow
  <2> SUFFICES ASSUME WindowInv PROVE Cardinality(MidPrep) <= maxCP
    BY DEF ControlPlaneWindow
  <2>1. MidPrep \subseteq Claims /\ Claims \in SUBSET ControlPlanes
    BY DEF MidPrep, Claims, WindowInv, Member, AtWork
  <2>2. /\ Cardinality(MidPrep) <= Cardinality(Claims)
        /\ Cardinality(MidPrep) \in Nat /\ Cardinality(Claims) \in Nat
    BY <2>1, ClaimsFinite
  <2> QED
    BY <2>2, WindowSize DEF WindowInv
<1>2. CASE Strategy = "serial"
  BY <1>1, <1>2, WindowInvariant, PTL
<1>3. CASE Strategy # "serial"
  <2>1. ControlPlaneWindow
    BY <1>3 DEF ControlPlaneWindow
  <2> QED
    BY <2>1, PTL
<1> QED
  BY <1>2, <1>3

\* GrantStands: on the fleet's first walk no write takes the grant from a
\* member that works in Provisioning, neither the reconcile's nor an agent's
\* with the conditions it read a cycle ago.
THEOREM GrantsStand ==
  ASSUME FirstWalk
  PROVE  Spec => GrantStands
<1> DEFINE Stands ==
  \A n \in ControlPlanes :
    Strategy = "serial" /\ prepping[n] /\ phase[n] = "Provisioning"
      /\ cond[n].maint = "True"
    => cond'[n].maint = "True"
<1>1. ASSUME TypeOK, WindowInv, [Next]_vars, Strategy = "serial" PROVE Stands
  <2> SUFFICES ASSUME NEW n \in ControlPlanes, prepping[n],
                      phase[n] = "Provisioning", cond[n].maint = "True"
               PROVE  cond'[n].maint = "True"
    OBVIOUS
  <2>1. n \in Nodes /\ Member(n)
    BY <1>1, FleetAssumption DEF WindowInv
  <2>2. CASE Agent(n)
    BY <1>1, <2>1, <2>2, AgentMember
  <2>3. ASSUME NEW m \in Nodes, m # n, Agent(m) PROVE cond'[n] = cond[n]
    BY <1>1, <2>1, <2>3 DEF TypeOK, Agent, ReadNodePrep, ReopenForProfile,
       SyncBoot, RestOrResume, VerifyReady, StartWalk, HoldAtGate, RunStage,
       Finalize, EnterReady, ColdHalt
  <2>4. CASE PatchConditions
    BY <1>1, <2>4, PatchWindow
  <2>5. CASE \/ RefreshFlash \/ RefreshMaintenance \/ EditProfile
             \/ (\E m \in Nodes : Adopt(m) \/ BeginReconcile(m))
             \/ UNCHANGED vars
    BY <2>5 DEF RefreshFlash, RefreshMaintenance, EditProfile, Adopt,
       BeginReconcile, vars
  <2> QED
    BY <1>1, <2>2, <2>3, <2>4, <2>5 DEF Next, Controller
<1>2. TypeOK /\ WindowInv /\ Strategy = "serial" /\ [Next]_vars => [Stands]_vars
  BY <1>1
<1>3. CASE Strategy = "serial"
  <2>1. TypeOK /\ WindowInv /\ [Next]_vars => [Stands]_vars
    BY <1>2, <1>3
  <2> QED
    BY <2>1, <1>3, TypeCorrect, WindowInvariant, PTL DEF Spec, GrantStands
<1>4. CASE Strategy # "serial"
  <2>1. [Next]_vars => [Stands]_vars
    BY <1>4
  <2> QED
    BY <2>1, PTL DEF Spec, GrantStands
<1> QED
  BY <1>3, <1>4
=============================================================================
