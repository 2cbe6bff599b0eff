------------------------- MODULE TaintContractProofs -------------------------
(***************************************************************************)
(* Proofs about one node as its controller and its agent see it, for every *)
(* policy, set of faults and number of them, however often the node boots: *)
(*                                                                         *)
(*   TypeCorrect    every variable keeps its type                          *)
(*   VerdictHolds   VerifiedIsThisBoot, also where the controller's        *)
(*                  conditions array overwrites the agent's                *)
(*                                                                         *)
(* The verdict travels through four copies: the conditions on the API      *)
(* server, the agent's read of them, the controller's read of them and the *)
(* agent's own program counter between a passed verify and its write.      *)
(* VerdictInv says of each copy what VerifiedIsThisBoot says of the first; *)
(* of the controller's it can say so only while the record it was read     *)
(* under is still the one on the API server.                               *)
(***************************************************************************)
EXTENDS TaintContract, TLAPS

-----------------------------------------------------------------------------
(* Types *)

\* The types of what the API server, the host and the agent hold.
ServerType ==
  /\ node \in NodeType /\ cache \in NodeType /\ paused \in BOOLEAN
  /\ phase \in {"Provisioning", "Finalizing", "Ready", "Failed"}
  /\ bootId \in Nat /\ conds \in CondsType
  /\ capiPause \in BOOLEAN /\ selected \in BOOLEAN /\ reopen \in BOOLEAN

HostType ==
  /\ boot \in Nat \ {0} /\ verifiedBoot \in Nat /\ healthy \in BOOLEAN
  /\ faultsLeft \in 0..MaxFaults

AgentPlaces == {"idle", "cycle", "request", "required", "passed", "failed",
                "ready"}

AgentType ==
  /\ apc \in AgentPlaces
  /\ seen \in CondsType /\ verifyDue \in BOOLEAN /\ timer \in BOOLEAN

ReconcilerType == carried \in Nat /\ ctl \in ReconcileType \cup {Idle}

\* TypeOK by its owners.
LEMMA TypeParts ==
  TypeOK <=> ServerType /\ HostType /\ AgentType /\ ReconcilerType
BY DEF TypeOK, ServerType, HostType, AgentType, AgentPlaces, ReconcilerType

\* The same of the next state.
LEMMA NextTypeParts ==
  ServerType' /\ HostType' /\ AgentType' /\ ReconcilerType' => TypeOK'
BY TypeParts, PTL

\* Conditions are two flags, and stay so when one is set.
LEMMA CondsTypes ==
  /\ NoConds \in CondsType
  /\ \A c \in CondsType, b \in BOOLEAN :
       /\ [c EXCEPT !.rebootRequired = b] \in CondsType
       /\ [c EXCEPT !.bootVerified = b] \in CondsType
BY DEF NoConds, CondsType

\* Init is well typed.
LEMMA InitType == Init => TypeOK
<1> SUFFICES ASSUME Init PROVE TypeOK
  OBVIOUS
<1>1. ServerType
  <2>1. node \in NodeType
    BY DEF Init, NodeType
  <2> QED
    BY <2>1, CondsTypes, Zenon DEF Init, ServerType
<1>2. HostType
  BY BoundsAssumption DEF Init, HostType
<1>3. AgentType /\ ReconcilerType
  BY CondsTypes DEF Init, AgentType, AgentPlaces, ReconcilerType
<1> QED
  BY <1>1, <1>2, <1>3, TypeParts

\* A fault is paid for.
LEMMA FaultsType ==
  ASSUME TypeOK, (\E f : Spend(f)) \/ NoFault PROVE faultsLeft' \in 0..MaxFaults
BY BoundsAssumption DEF TypeOK, Spend, NoFault

\* What a reconcile holds is a decision on the Node and on the Machine.
LEMMA DecisionType ==
  ASSUME TypeOK, BeginReconcile PROVE ctl' \in ReconcileType
<1> DEFINE match == bootId # 0 /\ bootId = cache.boot
           want  == TaintShouldExist(phase, conds.bootVerified, TaintsOn)
           taint == want \/ (~match /\ TaintsOn)
           label == WorkerLabelDecision(phase, conds.bootVerified, match,
                                        LabelPolicy)
<1>1. taint \in BOOLEAN
  <2>1. TaintsOn \in BOOLEAN
    BY PolicyAssumption
  <2> QED
    BY <2>1, Zenon DEF TaintShouldExist
<1>2. label \in {"Set", "Remove", "None"}
  BY Zenon DEF WorkerLabelDecision
<1>3. PauseDecision \in {"Pause", "Clear", "None"}
  BY Zenon DEF PauseDecision
<1>4. ctl' = [pc |-> "node", seen |-> cache, taint |-> taint, label |-> label,
              pause |-> PauseDecision, bootId |-> bootId, conds |-> conds]
  BY Zenon DEF BeginReconcile
<1>5. cache \in NodeType /\ bootId \in Nat /\ conds \in CondsType
  BY DEF TypeOK
<1> HIDE DEF taint, label
<1> QED
  BY <1>1, <1>2, <1>3, <1>4, <1>5 DEF ReconcileType

\* ... and the reconcile and the informer keep it so.
LEMMA ControllerType ==
  ASSUME TypeOK, Controller \/ SyncCache PROVE TypeOK'
<1>1. ServerType /\ HostType /\ AgentType /\ ReconcilerType
  BY TypeParts
<1>2. UNCHANGED <<host, agent>> /\ faultsLeft' \in 0..MaxFaults
  BY FaultsType DEF Controller, SyncCache, BeginReconcile, ApplyNodeChanges,
     ReconcileCAPAPause, PatchConditions, Deadopt
<1>3. HostType' /\ AgentType'
  BY <1>1, <1>2 DEF host, agent, HostType, AgentType
<1>10. carried' \in Nat
  BY <1>1 DEF Controller, SyncCache, BeginReconcile, ApplyNodeChanges,
     ReconcileCAPAPause, PatchConditions, Deadopt, ServerType, ReconcilerType
<1>4. CASE BeginReconcile
  <2>1. ServerType'
    BY <1>1, <1>4 DEF BeginReconcile, np, prof, ServerType
  <2> QED
    BY <1>3, <1>4, <1>10, <2>1, DecisionType, NextTypeParts DEF ReconcilerType
<1>5. ASSUME ctl.pc \in {"node", "pause", "conds"} PROVE ctl \in ReconcileType
  <2>1. Idle.pc = "idle"
    BY DEF Idle
  <2> QED
    BY <1>1, <1>5, <2>1 DEF ReconcilerType
<1>6. CASE ApplyNodeChanges
  <2>1. ctl \in ReconcileType
    BY <1>5, <1>6 DEF ApplyNodeChanges
  <2>2. ctl' \in ReconcileType
    BY <1>6, <2>1 DEF ApplyNodeChanges, ReconcileType
  <2>3. node' \in NodeType
    <3> DEFINE label == Labelled(node.label)
    <3>1. label \in BOOLEAN
      BY <1>1, Zenon DEF Labelled, ServerType, NodeType
    <3>2. node' = node \/ node' = [node EXCEPT !.taint = ctl.taint, !.label = label]
      BY <1>6 DEF ApplyNodeChanges
    <3> HIDE DEF label
    <3> QED
      BY <1>1, <2>1, <3>1, <3>2 DEF ServerType, NodeType, ReconcileType
  <2>4. ServerType'
    BY <1>1, <1>6, <2>3 DEF ApplyNodeChanges, np, prof, ServerType
  <2> QED
    BY <1>3, <1>10, <2>2, <2>4, NextTypeParts DEF ReconcilerType
<1>7. CASE ReconcileCAPAPause
  <2>1. ctl \in ReconcileType
    BY <1>5, <1>7 DEF ReconcileCAPAPause
  <2>2. ctl' \in ReconcileType
    BY <1>7, <2>1 DEF ReconcileCAPAPause, ReconcileType
  <2>3. paused' \in BOOLEAN
    BY <1>1, <1>7, Zenon DEF ReconcileCAPAPause, ServerType
  <2>4. ServerType'
    BY <1>1, <1>7, <2>3 DEF ReconcileCAPAPause, np, prof, ServerType
  <2> QED
    BY <1>3, <1>10, <2>2, <2>4, NextTypeParts DEF ReconcilerType
<1>8. CASE PatchConditions
  <2>1. ctl \in ReconcileType
    BY <1>5, <1>8 DEF PatchConditions
  <2>2. conds' \in CondsType
    BY <1>1, <1>8, <2>1 DEF PatchConditions, ServerType, ReconcileType
  <2>3. ServerType' /\ ctl' = Idle
    BY <1>1, <1>8, <2>2 DEF PatchConditions, prof, ServerType
  <2> QED
    BY <1>3, <1>10, <2>3, NextTypeParts DEF ReconcilerType
<1>9. CASE Deadopt \/ SyncCache
  <2>1. ServerType' /\ ReconcilerType'
    BY <1>1, <1>9 DEF Deadopt, SyncCache, np, prof, ServerType, ReconcilerType
  <2> QED
    BY <1>3, <2>1, NextTypeParts
<1> QED
  BY <1>4, <1>6, <1>7, <1>8, <1>9 DEF Controller

\* ... and the agent,
LEMMA AgentStepType ==
  ASSUME TypeOK, Agent \/ VerifyInterval PROVE TypeOK'
<1>1. ServerType /\ HostType /\ AgentType /\ ReconcilerType
  BY TypeParts
<1>2. UNCHANGED <<node, paused, cache, ctl, carried>> /\ faultsLeft' \in 0..MaxFaults
  BY FaultsType DEF Agent, VerifyInterval, ReadNodePrep, ReopenForProfile,
     SyncBoot, Resume, HoldForReboot, Walk, RequestReboot, RequireReboot,
     BootVerify, RecordVerify, EnterReady, RestReady
<1>3. ReconcilerType'
  BY <1>1, <1>2 DEF ReconcilerType
<1>4. CASE \/ ReadNodePrep \/ ReopenForProfile \/ Resume \/ HoldForReboot \/ Walk
           \/ RequestReboot \/ EnterReady \/ RestReady \/ VerifyInterval
  <2>1. AgentType'
    BY <1>1, <1>4 DEF ReadNodePrep, ReopenForProfile, Resume, HoldForReboot,
       Walk, RequestReboot, EnterReady, RestReady, VerifyInterval, GoTo,
       ServerType, AgentType, AgentPlaces
  <2>2. ServerType'
    BY <1>1, <1>2, <1>4 DEF ReadNodePrep, ReopenForProfile, Resume,
       HoldForReboot, Walk, RequestReboot, EnterReady, RestReady,
       VerifyInterval, np, prof, ServerType
  <2>3. HostType'
    BY <1>1, <1>2, <1>4 DEF ReadNodePrep, ReopenForProfile, Resume,
       HoldForReboot, Walk, RequestReboot, EnterReady, RestReady,
       VerifyInterval, host, HostType
  <2> QED
    BY <1>3, <2>1, <2>2, <2>3, NextTypeParts
<1>5. CASE SyncBoot
  <2>1. conds' \in CondsType /\ seen' \in CondsType /\ bootId' \in Nat
    BY <1>1, <1>5, CondsTypes DEF SyncBoot, BootConds, AgentType, HostType
  <2>2. AgentType' /\ ServerType' /\ HostType'
    BY <1>1, <1>2, <1>5, <2>1
       DEF SyncBoot, host, prof, AgentType, ServerType, HostType
  <2> QED
    BY <1>3, <2>2, NextTypeParts
<1>6. CASE RequireReboot
  <2>1. conds' \in CondsType
    BY <1>1, <1>6, CondsTypes DEF RequireReboot, AgentType
  <2>2. AgentType' /\ ServerType' /\ HostType'
    BY <1>1, <1>2, <1>6, <2>1 DEF RequireReboot, host, prof, AgentType,
       AgentPlaces, ServerType, HostType
  <2> QED
    BY <1>3, <2>2, NextTypeParts
<1>7. CASE BootVerify
  <2>1. verifyDue' \in BOOLEAN
    BY <1>1, <1>7, Zenon DEF BootVerify, AgentType
  <2>2. verifiedBoot' \in Nat /\ apc' \in AgentPlaces
    BY <1>1, <1>7 DEF BootVerify, HostType, AgentPlaces
  <2>3. AgentType' /\ ServerType' /\ HostType'
    BY <1>1, <1>2, <1>7, <2>1, <2>2
       DEF BootVerify, np, prof, AgentType, ServerType, HostType
  <2> QED
    BY <1>3, <2>3, NextTypeParts
<1>8. CASE RecordVerify
  <2> DEFINE pass == (apc = "passed")
  <2>1. pass \in BOOLEAN
    OBVIOUS
  <2>2. conds' = conds \/ conds' = [seen EXCEPT !.bootVerified = pass]
    BY <1>8 DEF RecordVerify
  <2> HIDE DEF pass
  <2>3. conds' \in CondsType
    BY <1>1, <2>1, <2>2, CondsTypes DEF AgentType, ServerType
  <2>4. AgentType' /\ ServerType' /\ HostType'
    BY <1>1, <1>2, <1>8, <2>3 DEF RecordVerify, host, prof, AgentType,
       AgentPlaces, ServerType, HostType
  <2> QED
    BY <1>3, <2>4, NextTypeParts
<1> QED
  BY <1>4, <1>5, <1>6, <1>7, <1>8 DEF Agent

\* ... and boots, kubelet and the operator,
LEMMA NodeStepType ==
  ASSUME TypeOK,
         \/ RebootFires \/ NaturalBoot \/ AgentRestart \/ HostDrifts
         \/ PostStatus \/ Operator
  PROVE  TypeOK'
<1>1. ServerType /\ HostType /\ AgentType /\ ReconcilerType
  BY TypeParts
<1>2. UNCHANGED <<cache, ctl, carried>> /\ faultsLeft' \in 0..MaxFaults
  BY FaultsType DEF RebootFires, NaturalBoot, NewBoot, AgentRestart,
     HostDrifts, PostStatus, Operator
<1>3. ReconcilerType'
  BY <1>1, <1>2 DEF ReconcilerType
<1>4. AgentType'
  BY <1>1, CondsTypes DEF RebootFires, NaturalBoot, NewBoot, NewProcess,
     AgentRestart, HostDrifts, PostStatus, Operator, agent, AgentType,
     AgentPlaces
<1>5. HostType'
  <2>1. CASE RebootFires \/ NaturalBoot
    <3>1. boot' = boot + 1 /\ UNCHANGED <<verifiedBoot, healthy>>
      BY <2>1 DEF RebootFires, NaturalBoot, NewBoot
    <3> QED
      BY <1>1, <1>2, <3>1 DEF HostType
  <2>2. CASE HostDrifts
    <3>1. healthy' \in BOOLEAN /\ UNCHANGED <<boot, verifiedBoot>>
      BY <2>2 DEF HostDrifts
    <3> QED
      BY <1>1, <1>2, <3>1 DEF HostType
  <2>3. CASE AgentRestart \/ PostStatus \/ Operator
    BY <1>1, <1>2, <2>3 DEF AgentRestart, PostStatus, Operator, host, HostType
  <2> QED
    BY <2>1, <2>2, <2>3
<1>6. ServerType'
  BY <1>1, <1>2 DEF RebootFires, NaturalBoot, NewBoot, AgentRestart, HostDrifts,
     PostStatus, Operator, np, prof, ServerType, HostType, NodeType
<1> QED
  BY <1>3, <1>4, <1>5, <1>6, NextTypeParts

\* ... and so every step.
LEMMA NextType == ASSUME TypeOK, [Next]_vars PROVE TypeOK'
<1>1. CASE UNCHANGED vars
  BY <1>1 DEF vars, np, prof, host, agent, TypeOK
<1> QED
  BY <1>1, ControllerType, AgentStepType, NodeStepType DEF Next, Environment

\* TypeOK: whatever controller, agent, node and operator do in turns.
THEOREM TypeCorrect == Spec => []TypeOK
BY InitType, NextType, PTL DEF Spec

-----------------------------------------------------------------------------
(* VerifiedIsThisBoot *)

\* A set of conditions that claims a verified boot, on the recorded boot.
Vouched(c) ==
  c.bootVerified /\ bootId = boot => verifiedBoot = boot \/ carried = boot

\* No boot is recorded before it runs, nor read before it is recorded; until the
\* first one is, the agent gets no further than its boot protocol and nobody
\* claims that a boot is verified.
BootsInOrder == bootId <= boot /\ (ctl # Idle => ctl.bootId <= bootId)
FirstBoot ==
  bootId = 0 => /\ ~conds.bootVerified /\ ~seen.bootVerified
                /\ ctl # Idle => ~ctl.conds.bootVerified
                /\ apc \in {"idle", "cycle"}

\* What a reconcile read vouches as long as no boot was recorded since.
ReadVouched == ctl # Idle /\ ctl.bootId = bootId => Vouched(ctl.conds)

\* A verdict that is passed and not yet written is about the running boot:
\* a boot takes the process with it.
Passing == apc = "passed" => verifiedBoot = boot

VerdictInv ==
  /\ BootsInOrder /\ FirstBoot /\ Passing
  /\ Vouched(conds) /\ Vouched(seen) /\ ReadVouched

\* Nothing has been verified.
LEMMA VerdictInit == Init => VerdictInv
BY DEF Init, NoConds, VerdictInv, BootsInOrder, FirstBoot, Vouched, ReadVouched,
   Passing

\* A reconcile keeps each copy with its boot, and its write back of an array
\* from an earlier record is the one that carried tells of.
LEMMA ControllerKeeps ==
  ASSUME TypeOK, VerdictInv, Controller \/ SyncCache
  PROVE  VerdictInv'
<1> USE DEF VerdictInv, BootsInOrder, FirstBoot, Vouched, ReadVouched, Passing
<1>1. boot \in Nat \ {0} /\ bootId \in Nat /\ Idle.pc = "idle"
      /\ ctl \in ReconcileType \cup {Idle}
  BY DEF TypeOK, Idle
<1>2. UNCHANGED <<bootId, boot, verifiedBoot, seen, apc>>
  BY DEF Controller, SyncCache, BeginReconcile, ApplyNodeChanges,
     ReconcileCAPAPause, PatchConditions, Deadopt, np, host, agent
<1>3. CASE BeginReconcile
  <2>1. /\ ctl'.bootId = bootId /\ ctl'.conds = conds
        /\ UNCHANGED <<conds, carried>>
    BY <1>3 DEF BeginReconcile, np
  <2> QED
    BY <1>1, <1>2, <2>1
<1>4. CASE ApplyNodeChanges \/ ReconcileCAPAPause
  <2>1. ctl \in ReconcileType /\ ctl # Idle
    BY <1>1, <1>4 DEF ApplyNodeChanges, ReconcileCAPAPause
  <2>2. /\ ctl'.bootId = ctl.bootId /\ ctl'.conds = ctl.conds
        /\ UNCHANGED <<conds, carried>>
    BY <1>4, <2>1 DEF ApplyNodeChanges, ReconcileCAPAPause, ReconcileType, np
  <2> QED
    BY <1>1, <1>2, <2>1, <2>2
<1>5. CASE PatchConditions
  <2>1. ctl # Idle /\ ctl' = Idle
    BY <1>1, <1>5 DEF PatchConditions
  <2>2. CASE UNCHANGED <<conds, carried>>
    BY <1>2, <2>1, <2>2
  <2>3. CASE conds' = ctl.conds /\ ctl.bootId # bootId /\ carried' = bootId
    BY <1>2, <2>1, <2>3
  <2>4. CASE conds' = ctl.conds /\ ctl.bootId = bootId /\ UNCHANGED carried
    BY <1>2, <2>1, <2>4
  <2> QED
    BY <1>5, <2>2, <2>3, <2>4 DEF PatchConditions
<1>6. CASE Deadopt \/ SyncCache
  BY <1>2, <1>6 DEF Deadopt, SyncCache, np
<1> QED
  BY <1>3, <1>4, <1>5, <1>6 DEF Controller

\* The agent writes no reconcile, and no array but its own.
LEMMA AgentLeaves ==
  ASSUME Agent \/ VerifyInterval \/ RebootFires \/ NaturalBoot \/ AgentRestart
         \/ HostDrifts \/ PostStatus \/ Operator
  PROVE  UNCHANGED <<ctl, carried>>
BY DEF Agent, VerifyInterval, ReadNodePrep, ReopenForProfile, SyncBoot, Resume,
   HoldForReboot, Walk, RequestReboot, RequireReboot, BootVerify, RecordVerify,
   EnterReady, RestReady, RebootFires, NaturalBoot, NewBoot, AgentRestart,
   HostDrifts, PostStatus, Operator

\* Every step keeps the verdict, and each copy of it, with its boot.
LEMMA VerdictStep ==
  ASSUME TypeOK, VerdictInv, [Next]_vars
  PROVE  VerdictInv'
<1>1. /\ conds \in CondsType /\ seen \in CondsType
      /\ boot \in Nat \ {0} /\ bootId \in Nat
      /\ ctl # Idle => ctl.bootId \in Nat
  BY DEF TypeOK, ReconcileType
<1> USE DEF VerdictInv, BootsInOrder, FirstBoot, Vouched, ReadVouched, Passing
<1>2. CASE UNCHANGED <<conds, bootId, boot, verifiedBoot, seen, apc, ctl, carried>>
  BY <1>2
<1>3. CASE ReadNodePrep
  BY <1>3, AgentLeaves DEF ReadNodePrep, np, host, Agent
<1>4. CASE ReopenForProfile \/ Resume \/ HoldForReboot \/ RestReady
  BY <1>4, AgentLeaves DEF ReopenForProfile, Resume, HoldForReboot, RestReady,
     GoTo, np, host, Agent
<1>5. CASE SyncBoot
  <2>1. bootId = 0 => ~seen.bootVerified
    OBVIOUS
  <2>2. ~conds'.bootVerified /\ seen' = conds'
    BY <1>5, <2>1 DEF SyncBoot, BootConds, NoConds
  <2>3. /\ bootId' = boot /\ boot' = boot /\ verifiedBoot' = verifiedBoot
        /\ apc' = apc /\ apc = "cycle" /\ bootId # boot
        /\ UNCHANGED <<ctl, carried>>
    BY <1>5 DEF SyncBoot, host
  <2>4. ctl # Idle => ctl.bootId < boot
    BY <1>1, <2>3
  <2> QED
    BY <1>1, <2>2, <2>3, <2>4
<1>6. CASE Walk \/ EnterReady
  BY <1>1, <1>6, AgentLeaves DEF Walk, EnterReady, PastBootProtocol, GoTo, host,
     Agent
<1>7. CASE RequestReboot
  BY <1>7, AgentLeaves DEF RequestReboot, np, host, Agent
<1>8. CASE RequireReboot
  <2>1. conds'.bootVerified = seen.bootVerified
    BY <1>1, <1>8 DEF RequireReboot, CondsType
  <2> QED
    BY <1>8, <2>1 DEF RequireReboot, host
<1>9. CASE BootVerify
  BY <1>1, <1>9 DEF BootVerify, PastBootProtocol, np
<1>10. CASE RecordVerify
  <2>1. conds'.bootVerified => conds.bootVerified \/ apc = "passed"
    BY <1>1, <1>10 DEF RecordVerify, CondsType
  <2>2. UNCHANGED <<bootId, boot, verifiedBoot, seen, ctl, carried>>
        /\ apc \notin {"idle", "cycle"} /\ apc' \in {"ready", "idle"}
    BY <1>10 DEF RecordVerify, host
  <2>3. Vouched(conds)'
    BY <2>1, <2>2
  <2> QED
    BY <2>2, <2>3
<1>11. CASE RebootFires \/ NaturalBoot
  <2>1. /\ boot' = boot + 1 /\ UNCHANGED <<bootId, conds, ctl, carried>>
        /\ seen' = NoConds /\ apc' = "idle"
    BY <1>11 DEF RebootFires, NaturalBoot, NewBoot, NewProcess, np
  <2>2. bootId' # boot' /\ bootId' <= boot'
    BY <1>1, <2>1
  <2> QED
    BY <2>1, <2>2 DEF NoConds
<1>12. CASE AgentRestart
  BY <1>12 DEF AgentRestart, NewProcess, NoConds, np, host
<1>13. CASE HostDrifts \/ PostStatus \/ Operator \/ VerifyInterval
  BY <1>2, <1>13 DEF HostDrifts, PostStatus, Operator, VerifyInterval, np, host,
     agent
<1>14. CASE Controller \/ SyncCache
  BY <1>14, ControllerKeeps
<1>15. CASE UNCHANGED vars
  BY <1>2, <1>15 DEF vars, np, host, agent
<1> QED
  BY <1>3, <1>4, <1>5, <1>6, <1>7, <1>8, <1>9, <1>10, <1>11, <1>12, <1>13,
     <1>14, <1>15 DEF Next, Agent, Environment

\* VerifiedIsThisBoot: BootVerified with the running boot's id vouches for a
\* verification on this boot, however boots, restarts, edits and overwritten
\* conditions fall between the verify, its write and the controller's reads,
\* unless the conditions the controller wrote back were read under the record
\* of an earlier boot.
THEOREM VerdictHolds == Spec => []VerifiedIsThisBoot
<1>1. TypeOK /\ VerdictInv /\ [Next]_vars => VerdictInv'
  BY VerdictStep
<1>2. VerdictInv => VerifiedIsThisBoot
  BY DEF VerdictInv, Vouched, VerifiedIsThisBoot
<1> QED
  BY <1>1, <1>2, VerdictInit, TypeCorrect, PTL DEF Spec
=============================================================================
