--------------------------- MODULE RailFabricProofs ---------------------------
(***************************************************************************)
(* Proofs about the critical network steps, for any VFs, profiles, faults  *)
(* and bounds:                                                             *)
(*                                                                         *)
(*   TypeCorrect     every variable keeps its type, and a bounce has a VF  *)
(*                   and a write to do                                     *)
(*   ServingRests    ConvergedLeftAlone: no step takes a serving rail down *)
(*   CleanServes     FabricServes: a clean pass means a serving rail       *)
(*                                                                         *)
(* FabricServes follows from what the pass has established at each of its  *)
(* places (SoFar, which PassInv keeps as long as the pass is clean), from  *)
(* the state of the VFs while vfGuids works on them (IdentityInv: only the *)
(* one being bounced is unbound, its node GUID is written last, and VFs    *)
(* that a driver probe has made anew are bare), from what no step undoes   *)
(* (PFInv), and from where VFs get their names (NamedInv: a VF comes up    *)
(* only behind a trigger, and the rules are there when it is given).       *)
(***************************************************************************)
EXTENDS RailFabric, TLAPS, WellFoundedInduction, SequenceTheorems

\* The VF to bounce is one of those to do: the first.
LEMMA NextVF ==
  ASSUME NEW todo \in SUBSET VFs, todo # {} PROVE Min(todo) \in todo
<1>1. todo \in SUBSET Nat
  BY RailAssumption
<1>2. \E x \in todo : \A y \in todo : x <= y
  <2> DEFINE Less == {ss \in Nat \X Nat : ss[1] < ss[2]}
  <2>1. IsWellFoundedOn(Less, Nat)
    BY NatLessThanWellFounded, Zenon DEF OpToRel
  <2>2. \A a, b \in Nat : a < b => <<a, b>> \in Less
    OBVIOUS
  <2> HIDE DEF Less
  <2>3. PICK x \in todo : \A y \in todo : ~(<<y, x>> \in Less)
    BY <1>1, <2>1, WFMin, Zenon
  <2>4. \A y \in todo : ~(y < x)
    BY <1>1, <2>2, <2>3
  <2> QED
    BY <1>1, <2>4
<1> QED
  BY <1>2 DEF Min

\* A pass inside the loop over the VFs works on one of them.
LEMMA CurrentType ==
  ASSUME TypeOK, agent.step \in VFPlaces
  PROVE  Current \in agent.todo /\ Current \in VFs /\ vf[Current] \in VFStates
<1>1. Current \in agent.todo
  BY NextVF DEF TypeOK, Passes, Current
<1> QED
  BY <1>1 DEF TypeOK, Passes

-----------------------------------------------------------------------------
(* Types *)

FileTypes == [netplan : Rails, pf : Rails, vf : Rails]

\* What the environment keeps, and the history of torn boots.
LEMMA SpendType ==
  ASSUME TypeOK, NEW f, Spend(f) \/ NoFault
  PROVE  /\ torn' \in BOOLEAN /\ faults' = faults
         /\ faultsLeft' \in 0..MaxFaults
         /\ torn => torn'
<1>1. faults' = faults /\ faultsLeft' \in 0..MaxFaults
  BY RailAssumption DEF Spend, NoFault, TypeOK
<1>2. torn \in BOOLEAN
  BY DEF TypeOK
<1>3. torn' = torn \/ torn' = (torn \/ f \in Tearing)
  BY DEF Spend, NoFault
<1>4. torn' \in BOOLEAN /\ (torn => torn')
  BY <1>2, <1>3, Zenon
<1> QED
  BY <1>1, <1>4

\* The profile in force names a rail.
LEMMA RailType ==
  ASSUME TypeOK
  PROVE  profile.rail \in Rails /\ None \in Rails
BY DEF TypeOK, Rails

\* What is on the host after a boot.
LEMMA BootTypes ==
  ASSUME NEW f \in FileTypes
  PROVE  BootedPF(f) \in PFs /\ BareVF(f) \in VFStates
BY DEF BootedPF, BareVF, FileTypes, PFs, VFStates

\* A VF that the driver takes back.
LEMMA BoundType ==
  ASSUME TypeOK, NEW w \in VFStates PROVE Bound(w) \in VFStates
<1>1. files.vf \in Rails
  BY DEF TypeOK
<1> QED
  BY <1>1 DEF Bound, VFStates

\* The writes of a bounce are attributes, one at least.
LEMMA WritesType ==
  /\ Writes \in Seq(Attributes) /\ Writes # <<>>
  /\ Identity \in SUBSET Attributes
<1>1. \/ Writes = <<"port", "policy", "node">>
      \/ Writes = <<"mac", "node">>
      \/ Writes = <<"node">>
  BY DEF Writes
<1>2. /\ <<"port", "policy", "node">> \in Seq(Attributes)
      /\ <<"mac", "node">> \in Seq(Attributes)
      /\ <<"node">> \in Seq(Attributes)
      /\ <<"port", "policy", "node">> # <<>>
      /\ <<"mac", "node">> # <<>> /\ <<"node">> # <<>>
  BY DEF Attributes
<1>3. Writes \in Seq(Attributes) /\ Writes # <<>>
  BY <1>1, <1>2, Zenon
<1> QED
  BY <1>3 DEF Identity

\* A step that ends leaves a pass, at the next step.
LEMMA EndsType ==
  ASSUME agent \in Passes, NEW done \in BOOLEAN, NEW next \in Places,
         Ends(done, next)
  PROVE  /\ agent' \in Passes /\ agent'.step = next /\ agent'.todo = {}
         /\ agent'.clean = (agent.clean /\ done) /\ agent'.moved = agent.moved
<1> DEFINE c == agent.clean /\ done
<1>1. c \in BOOLEAN
  BY Zenon DEF Passes
<1>2. agent' = [agent EXCEPT !.step = next, !.clean = c, !.todo = {},
                             !.writes = <<>>]
  BY DEF Ends
<1>3. <<>> \in Seq(Attributes) /\ {} \in SUBSET VFs
  OBVIOUS
<1> HIDE DEF c
<1>4. /\ agent' \in Passes /\ agent'.step = next /\ agent'.todo = {}
      /\ agent'.clean = c /\ agent'.moved = agent.moved
  BY <1>1, <1>2, <1>3 DEF Passes
<1> QED
  BY <1>4 DEF c

\* ... and so does one that goes on to its next write.
LEMMA GotoType ==
  ASSUME agent \in Passes, NEW next \in Places, Goto(next)
  PROVE  /\ agent' \in Passes /\ agent'.step = next
         /\ agent'.todo = agent.todo /\ agent'.writes = agent.writes
         /\ agent'.clean = agent.clean /\ agent'.moved = agent.moved
BY DEF Goto, Passes

\* The pass between passes.
LEMMA IdleType == idle \in Passes
BY DEF idle, Passes, Places, VFPlaces

\* The part of the type that the pass is.
PassType == /\ agent \in Passes
            /\ agent.step \in VFPlaces => agent.todo # {}
            /\ At("write") => agent.writes # <<>>

HostType == /\ files \in FileTypes /\ pf \in PFs
            /\ vf \in [VFs -> VFStates] /\ made \in BOOLEAN

RestType == /\ profile \in Profiles
            /\ phase \in {"walk", "Ready", "Failed"} /\ parted \in BOOLEAN
            /\ asks \in BOOLEAN /\ pending \in BOOLEAN /\ verified \in BOOLEAN
            /\ torn \in BOOLEAN
            /\ faults \in FaultSets /\ faultsLeft \in 0..MaxFaults

\* TypeOK in the parts that the steps change.
LEMMA TypeParts == TypeOK <=> PassType /\ HostType /\ RestType
BY DEF TypeOK, PassType, HostType, RestType, FileTypes

\* Init is well typed.
LEMMA InitType == Init => TypeOK
<1> SUFFICES ASSUME Init PROVE TypeOK
  OBVIOUS
<1> USE DEF Init
<1>1. noFiles \in FileTypes
  BY DEF noFiles, FileTypes, Rails
<1>2. pf \in PFs /\ vf \in [VFs -> VFStates]
  BY <1>1, BootTypes
<1>3. made \in BOOLEAN
  <2>1. profile.vfs \in BOOLEAN
    BY RailAssumption
  <2> QED
    BY <2>1
<1>4. agent.step \notin VFPlaces /\ ~At("write")
  BY DEF idle, VFPlaces, At
<1>5. PassType /\ HostType
  BY <1>1, <1>2, <1>3, <1>4, IdleType DEF PassType, HostType
<1>6. RestType
  <2>1. faultsLeft \in 0..MaxFaults
    BY RailAssumption
  <2> QED
    BY <2>1, Zenon DEF RestType
<1> QED
  BY <1>5, <1>6, TypeParts

\* A step that ends, or goes on at a place that is about no VF.
LEMMA PlainStep ==
  ASSUME TypeOK, NEW next \in Places \ VFPlaces,
         Goto(next) \/ (\E done \in BOOLEAN : Ends(done, next))
  PROVE  PassType'
<1>1. agent' \in Passes /\ agent'.step = next
  BY EndsType, GotoType DEF TypeOK
<1> QED
  BY <1>1 DEF PassType, At, VFPlaces

\* The steps of the pass that bounce no VF.
LEMMA StepType ==
  ASSUME TypeOK,
         \/ StartPass \/ stepFabricNetplan \/ netplanApply \/ stepSriovNumVFs
         \/ RemoveRules \/ WriteRules
         \/ stepUdevRules \/ stepLosslessRoce \/ stepDisableACS \/ EndPass
  PROVE  PassType'
<1>1. /\ \A done \in BOOLEAN : AfterNetplan(done) \in Places \ VFPlaces
      /\ {"netplanApply", "vfGuids", "writeRules", "udevRules", "losslessRoce",
          "disableACS", "end"} \subseteq Places \ VFPlaces
  BY DEF AfterNetplan, Places, VFPlaces
<1>2. CASE StartPass \/ EndPass
  <2>1. /\ agent' \in Passes /\ agent'.step \notin VFPlaces
        /\ agent'.step # "write"
    BY <1>2, IdleType DEF StartPass, EndPass, idle, Passes, Places, VFPlaces
  <2> QED
    BY <2>1 DEF PassType, At
<1>3. CASE stepFabricNetplan
  BY <1>1, <1>3, PlainStep DEF stepFabricNetplan
<1>4. CASE netplanApply
  BY <1>1, <1>4, PlainStep DEF netplanApply
<1>5. CASE stepSriovNumVFs
  BY <1>1, <1>5, PlainStep DEF stepSriovNumVFs
<1>6. CASE RemoveRules
  BY <1>1, <1>6, PlainStep DEF RemoveRules, GivesUp
<1>7. CASE WriteRules
  BY <1>1, <1>7, PlainStep DEF WriteRules, GivesUp
<1>8. CASE stepUdevRules
  BY <1>1, <1>8, PlainStep DEF stepUdevRules
<1>9. CASE stepLosslessRoce
  BY <1>1, <1>9, PlainStep DEF stepLosslessRoce
<1>10. CASE stepDisableACS
  BY <1>1, <1>10, PlainStep DEF stepDisableACS
<1> QED
  BY <1>2, <1>3, <1>4, <1>5, <1>6, <1>7, <1>8, <1>9, <1>10

\* The trigger renames the VFs that are down, and those of ups go up.
LEMMA TriggeredDoes ==
  ASSUME HostType, NEW ups \in SUBSET VFs, Triggered(ups)
  PROVE  /\ vf' \in [VFs -> VFStates]
         /\ \A v \in VFs :
              /\ vf'[v].bound = vf[v].bound /\ vf'[v].right = vf[v].right
              /\ vf'[v].staged = vf[v].staged /\ vf'[v].resets = vf[v].resets
              /\ vf[v].up => vf'[v].up /\ vf'[v].name = vf[v].name
              /\ v \in railVFNetdevs /\ ~vf[v].up => vf'[v].name = files.vf
              /\ v \in railVFNetdevs /\ v \in ups => vf'[v].up
              /\ v \notin railVFNetdevs => vf'[v] = vf[v]
<1> DEFINE Name(v) == IF vf[v].up THEN vf[v].name ELSE files.vf
           Up(v)   == vf[v].up \/ v \in ups
<1>1. ASSUME NEW v \in VFs PROVE Name(v) \in Rails /\ Up(v) \in BOOLEAN
  <2>1. vf[v].up \in BOOLEAN /\ vf[v].name \in Rails /\ files.vf \in Rails
    BY DEF HostType, VFStates, FileTypes
  <2>2. Up(v) \in BOOLEAN
    BY <2>1, Zenon
  <2> QED
    BY <2>1, <2>2
<1>2. vf' = [v \in VFs |-> IF v \in railVFNetdevs
                           THEN [vf[v] EXCEPT !.name = Name(v), !.up = Up(v)]
                           ELSE vf[v]]
  BY DEF Triggered
<1>3. ASSUME NEW v \in VFs, v \in railVFNetdevs
      PROVE  /\ vf'[v] \in VFStates
             /\ vf'[v].bound = vf[v].bound /\ vf'[v].right = vf[v].right
             /\ vf'[v].staged = vf[v].staged /\ vf'[v].resets = vf[v].resets
             /\ vf'[v].name = Name(v) /\ vf'[v].up = Up(v)
  <2> HIDE DEF Name, Up
  <2>1. vf'[v] = [vf[v] EXCEPT !.name = Name(v), !.up = Up(v)]
    BY <1>2, <1>3
  <2>2. vf[v] \in VFStates
    BY DEF HostType
  <2> QED
    BY <1>1, <2>1, <2>2 DEF VFStates
<1>4. ASSUME NEW v \in VFs, v \notin railVFNetdevs
      PROVE  vf'[v] = vf[v] /\ vf'[v] \in VFStates
  BY <1>2, <1>4 DEF HostType
<1>5. \A v \in VFs : vf'[v] \in VFStates
  BY <1>3, <1>4
<1>6. vf' \in [VFs -> VFStates]
  BY <1>2, <1>5
<1> QED
  BY <1>3, <1>4, <1>6

\* What the host carries after them.
LEMMA StepHostType ==
  ASSUME TypeOK,
         \/ StartPass \/ stepFabricNetplan \/ netplanApply \/ stepSriovNumVFs
         \/ stepVfGuids \/ RemoveRules \/ WriteRules
         \/ stepUdevRules \/ stepLosslessRoce \/ stepDisableACS \/ EndPass
  PROVE  HostType'
<1>1. HostType /\ profile.rail \in Rails /\ None \in Rails
  BY TypeParts, RailType
<1>2. /\ profile.vfs \in BOOLEAN
      /\ profile.link \in {"Ethernet", "InfiniBand"} /\ Ethernet \in BOOLEAN
  BY RailAssumption DEF TypeOK, Ethernet
<1>3. CASE StartPass \/ EndPass \/ stepVfGuids
  BY <1>1, <1>3 DEF StartPass, EndPass, stepVfGuids, host, HostType
<1>4. CASE stepFabricNetplan
  BY <1>1, <1>4 DEF stepFabricNetplan, HostType, FileTypes
<1>5. CASE netplanApply
  BY <1>1, <1>5 DEF netplanApply, HostType, FileTypes, PFs
<1>6. CASE stepSriovNumVFs
  <2>1. pf' \in PFs
    <3>1. [pf EXCEPT !.eswitch = "switchdev"] \in PFs /\ pf \in PFs
      BY <1>1 DEF HostType, PFs
    <3>2. pf' = pf \/ pf' = [pf EXCEPT !.eswitch = "switchdev"]
      BY <1>1, <1>6 DEF stepSriovNumVFs, HostType, PFs
    <3> QED
      BY <3>1, <3>2
  <2>2. vf' \in [VFs -> VFStates]
    <3>1. BareVFs \in [VFs -> VFStates]
      BY <1>1, BootTypes DEF HostType, BareVFs
    <3>2. vf' = vf \/ vf' = BareVFs
      BY <1>6 DEF stepSriovNumVFs
    <3> QED
      BY <1>1, <3>1, <3>2 DEF HostType
  <2>3. made' \in BOOLEAN
    BY <1>1, <1>6 DEF stepSriovNumVFs, HostType
  <2> QED
    BY <1>1, <1>6, <2>1, <2>2, <2>3 DEF stepSriovNumVFs, HostType
<1>7. CASE RemoveRules \/ WriteRules
  BY <1>1, <1>7 DEF RemoveRules, WriteRules, HostType, FileTypes
<1>8. CASE stepUdevRules
  <2>1. files' \in FileTypes
    BY <1>1, <1>8 DEF stepUdevRules, HostType, FileTypes
  <2>2. pf' \in PFs
    <3> DEFINE up == pf.up /\ pf.name = profile.rail
    <3>1. up \in BOOLEAN
      BY Zenon
    <3>2. \/ pf' = pf
          \/ \E b \in BOOLEAN : pf' = [pf EXCEPT !.up = b]
          \/ \E b \in BOOLEAN : pf' = [pf EXCEPT !.name = profile.rail, !.up = b]
      <4>1. [[pf EXCEPT !.name = profile.rail, !.up = TRUE] EXCEPT !.up = up]
              = [pf EXCEPT !.name = profile.rail, !.up = up]
        BY <1>1 DEF HostType, PFs
      <4>2. \/ pf' = pf \/ pf' = [pf EXCEPT !.up = up]
            \/ pf' = [pf EXCEPT !.name = profile.rail, !.up = TRUE]
            \/ pf' = [pf EXCEPT !.name = profile.rail, !.up = up]
        <5>1. [pf EXCEPT !.up = up].up = up
          BY <1>1 DEF HostType, PFs
        <5> QED
          BY <1>8, <4>1, <5>1 DEF stepUdevRules
      <4> QED
        BY <3>1, <4>2
    <3> QED
      BY <1>1, <3>2 DEF HostType, PFs
  <2>3. vf' \in [VFs -> VFStates]
    <3>1. vf' = vf \/ \E ups \in SUBSET VFs : Triggered(ups)
      BY <1>8 DEF stepUdevRules
    <3> QED
      BY <1>1, <3>1, TriggeredDoes DEF HostType
  <2> QED
    BY <1>1, <1>8, <2>1, <2>2, <2>3 DEF stepUdevRules, HostType
<1>9. CASE stepLosslessRoce
  <2> DEFINE set == RoCE \/ pf.lossless
  <2>1. pf.lossless \in BOOLEAN
    BY <1>1 DEF HostType, PFs
  <2>2. set \in BOOLEAN
    BY <1>2, <2>1, Zenon
  <2>3. pf' = pf \/ pf' = [pf EXCEPT !.lossless = set]
    BY <1>9 DEF stepLosslessRoce
  <2> HIDE DEF set
  <2>4. pf' \in PFs
    BY <1>1, <2>2, <2>3 DEF HostType, PFs
  <2> QED
    BY <1>1, <1>9, <2>4 DEF stepLosslessRoce, HostType
<1>10. CASE stepDisableACS
  <2> DEFINE set == pf.acs /\ profile.vfs
  <2>1. set \in BOOLEAN
    BY <1>1, <1>2, Zenon DEF HostType, PFs
  <2>2. pf' = pf \/ pf' = [pf EXCEPT !.acs = set]
    BY <1>10 DEF stepDisableACS
  <2> HIDE DEF set
  <2>3. pf' \in PFs
    BY <1>1, <2>1, <2>2 DEF HostType, PFs
  <2> QED
    BY <1>1, <1>10, <2>3 DEF stepDisableACS, HostType
<1> QED
  BY <1>3, <1>4, <1>5, <1>6, <1>7, <1>8, <1>9, <1>10


\* The bounce of one VF: which places it goes to, and what it does to the VF.
LEMMA BounceType ==
  ASSUME TypeOK,
         stepVfGuids \/ Gone \/ Unbind \/ WriteAttr \/ Bind \/ Readback
  PROVE  PassType' /\ HostType'
<1>1. /\ PassType /\ HostType /\ agent \in Passes
      /\ "udevRules" \in Places \ VFPlaces /\ files.vf \in Rails
  BY TypeParts DEF PassType, HostType, FileTypes, Places, VFPlaces
<1>2. ASSUME NEW done \in BOOLEAN, Ends(done, "udevRules") PROVE PassType'
  BY <1>1, <1>2, PlainStep
<1>3. ASSUME NEW w \in VFStates, NEW r \in VFStates, agent.step \in VFPlaces,
             SetVF(r), UNCHANGED <<files, pf, made>>
      PROVE  HostType'
  BY <1>1, <1>3, CurrentType DEF SetVF, HostType
<1>4. CASE stepVfGuids
  <2>1. HostType'
    BY <1>4, StepHostType
  <2>2. CASE \E done \in BOOLEAN : Ends(done, "udevRules")
    BY <1>2, <2>1, <2>2
  <2>3. CASE /\ vfGuidPlan # {}
             /\ agent' = [agent EXCEPT !.step = "unbind", !.todo = vfGuidPlan]
    <3>1. vfGuidPlan \in SUBSET VFs
      BY DEF vfGuidPlan
    <3>2. agent' \in Passes /\ agent'.step = "unbind" /\ agent'.todo = vfGuidPlan
      BY <1>1, <2>3, <3>1 DEF Passes, Places, VFPlaces
    <3> QED
      BY <2>1, <2>3, <3>2 DEF PassType, At
  <2> QED
    BY <1>4, <2>1, <2>2, <2>3 DEF stepVfGuids
<1>5. CASE Unbind
  <2>1. /\ agent.step \in VFPlaces /\ UNCHANGED <<files, pf, made>>
        /\ vf[Current] \in VFStates
    BY <1>5, CurrentType DEF Unbind, InVfGuids, At, VFPlaces
  <2>2. CASE Ends(FALSE, "udevRules") /\ UNCHANGED vf
    BY <1>1, <1>2, <2>1, <2>2 DEF HostType
  <2>3. CASE /\ SetVF([vf[Current] EXCEPT !.bound = FALSE, !.staged = {},
                                          !.up = FALSE])
             /\ agent' = [agent EXCEPT !.step = "write", !.writes = Writes]
    <3>1. [vf[Current] EXCEPT !.bound = FALSE, !.staged = {}, !.up = FALSE]
            \in VFStates
      BY <2>1 DEF VFStates
    <3>2. HostType'
      BY <1>3, <2>1, <2>3, <3>1
    <3>3. /\ agent' \in Passes /\ agent'.step = "write"
          /\ agent'.writes = Writes /\ agent'.todo = agent.todo
      BY <1>1, <2>3, WritesType DEF Passes, Places, VFPlaces
    <3> QED
      BY <1>1, <2>1, <3>2, <3>3, WritesType DEF PassType, At
  <2> QED
    BY <1>5, <2>2, <2>3 DEF Unbind, GivesUp
<1>6. CASE WriteAttr
  <2>1. /\ agent.step \in VFPlaces /\ UNCHANGED <<files, pf, made>>
        /\ vf[Current] \in VFStates
        /\ agent.writes \in Seq(Attributes) /\ agent.writes # <<>>
    BY <1>1, <1>6, CurrentType
       DEF WriteAttr, InVfGuids, At, VFPlaces, PassType, Passes
  <2>2. CASE /\ Ends(FALSE, "udevRules")
             /\ SetVF(Bound(vf[Current])) \/ UNCHANGED vf
    <3>1. PassType'
      BY <1>2, <2>2
    <3>2. CASE SetVF(Bound(vf[Current]))
      BY <1>3, <2>1, <3>1, <3>2, BoundType
    <3>3. CASE UNCHANGED vf
      BY <1>1, <2>1, <3>1, <3>3 DEF HostType
    <3> QED
      BY <2>2, <3>2, <3>3
  <2> DEFINE a == Head(agent.writes)
             r == [vf[Current] EXCEPT !.right = @ \cup {a},
                                      !.staged = @ \cup {a},
                                      !.resets = (a = "mac")]
  <2>3. CASE /\ SetVF(r)
             /\ agent' = [agent EXCEPT
                  !.writes = Tail(@),
                  !.step = IF Len(agent.writes) = 1 THEN "bind" ELSE @]
    <3>1. a \in Attributes /\ Tail(agent.writes) \in Seq(Attributes)
      BY <2>1
    <3>2. (a = "mac") \in BOOLEAN
      OBVIOUS
    <3>3. r \in VFStates
      <4>1. \A b \in BOOLEAN :
              [vf[Current] EXCEPT !.right = @ \cup {a}, !.staged = @ \cup {a},
                                  !.resets = b] \in VFStates
        BY <2>1, <3>1 DEF VFStates
      <4> QED
        BY <3>2, <4>1
    <3>4. HostType'
      BY <1>3, <2>1, <2>3, <3>3
    <3>5. Len(agent.writes) # 1 => Tail(agent.writes) # <<>>
      <4>1. /\ Len(agent.writes) \in Nat \ {0}
            /\ Len(Tail(agent.writes)) = Len(agent.writes) - 1
        BY <2>1
      <4>2. Tail(agent.writes) = <<>> => Len(Tail(agent.writes)) = 0
        BY <3>1, EmptySeq, Zenon
      <4> QED
        BY <4>1, <4>2
    <3>6. /\ agent' \in Passes /\ agent'.step \in {"write", "bind"}
          /\ agent'.step = "write" => agent'.writes # <<>>
          /\ agent'.todo = agent.todo
      BY <1>1, <1>6, <2>3, <3>1, <3>5 DEF Passes, Places, VFPlaces, WriteAttr, At
    <3> QED
      BY <1>1, <2>1, <3>4, <3>6 DEF PassType, At
  <2> QED
    BY <1>6, <2>2, <2>3 DEF WriteAttr, GivesUp
<1>7. CASE Bind
  <2>1. /\ agent.step \in VFPlaces /\ UNCHANGED <<files, pf, made>>
        /\ vf[Current] \in VFStates
    BY <1>7, CurrentType DEF Bind, InVfGuids, At, VFPlaces
  <2>2. CASE Ends(FALSE, "udevRules") /\ UNCHANGED vf
    BY <1>1, <1>2, <2>1, <2>2 DEF HostType
  <2>3. CASE SetVF(Bound(vf[Current])) /\ Goto("readback")
    <3>1. HostType'
      BY <1>3, <2>1, <2>3, BoundType
    <3>2. /\ agent' \in Passes /\ agent'.step = "readback"
          /\ agent'.todo = agent.todo
      BY <1>1, <2>3, GotoType DEF Places, VFPlaces
    <3> QED
      BY <1>1, <2>1, <3>1, <3>2 DEF PassType, At
  <2> QED
    BY <1>7, <2>2, <2>3 DEF Bind, GivesUp
<1>8. CASE Readback
  <2>1. HostType'
    BY <1>1, <1>8 DEF Readback, InVfGuids, HostType
  <2>2. CASE Ends(FALSE, "udevRules")
    BY <1>2, <2>1, <2>2
  <2> DEFINE left == agent.todo \ {Current}
  <2>3. CASE agent' = [agent EXCEPT
               !.todo = left,
               !.step = IF left = {} THEN "removeRules" ELSE "unbind"]
    <3>1. left \in SUBSET VFs
      BY <1>1 DEF Passes
    <3> HIDE DEF left
    <3>2. /\ agent' \in Passes /\ agent'.todo = left
          /\ agent'.step = IF left = {} THEN "removeRules" ELSE "unbind"
      BY <1>1, <2>3, <3>1 DEF Passes, Places, VFPlaces
    <3> QED
      BY <2>1, <3>2 DEF PassType, At, VFPlaces
  <2> QED
    BY <1>8, <2>1, <2>2, <2>3 DEF Readback, GivesUp
<1>9. CASE Gone
  BY <1>1, <1>2, <1>9 DEF Gone, GivesUp, InVfGuids, HostType
<1> QED
  BY <1>4, <1>5, <1>6, <1>7, <1>8, <1>9

\* Boots, the process, the firmware, the operator.
LEMMA OtherType ==
  ASSUME TypeOK,
         \/ Reboot \/ FirmwareResetsNode \/ Boot \/ Restart \/ Drift
         \/ EditProfile \/ Resume
  PROVE  PassType' /\ HostType'
<1>1. PassType /\ HostType /\ agent \in Passes /\ files \in FileTypes
  BY TypeParts DEF PassType, HostType
<1>2. ASSUME agent' = idle PROVE PassType'
  BY <1>2, IdleType DEF PassType, idle, At, VFPlaces
<1>3. CASE Reboot \/ Boot
  <2>1. (~profile.vfs) \in BOOLEAN
    OBVIOUS
  <2>2. /\ agent' = idle /\ pf' = BootedPF(files)
        /\ vf' = [v \in VFs |-> BareVF(files)] /\ files' = files
        /\ made' = ~profile.vfs
    BY <1>3 DEF Reboot, Boot, Booted
  <2>3. pf' \in PFs /\ vf' \in [VFs -> VFStates]
    BY <1>1, <2>2, BootTypes
  <2> QED
    BY <1>1, <1>2, <2>1, <2>2, <2>3 DEF HostType
<1>4. CASE FirmwareResetsNode
  <2>1. PICK v \in VFs :
          vf' = [vf EXCEPT ![v].resets = FALSE, ![v].right = @ \ {"node"},
                           ![v].staged = @ \ {"node"}]
    BY <1>4 DEF FirmwareResetsNode
  <2>2. vf' \in [VFs -> VFStates]
    BY <1>1, <2>1 DEF HostType, VFStates
  <2> QED
    BY <1>1, <1>4, <2>2 DEF FirmwareResetsNode, HostType, PassType, At
<1>5. CASE Restart
  BY <1>1, <1>2, <1>5 DEF Restart, host, HostType
<1>6. CASE Drift
  <2>1. /\ agent' \in Passes /\ agent'.step = agent.step
        /\ agent'.todo = agent.todo /\ agent'.writes = agent.writes
    BY <1>1, <1>6 DEF Drift, Passes
  <2>2. pf' \in PFs
    BY <1>1, <1>6 DEF Drift, HostType, PFs
  <2>3. vf' \in [VFs -> VFStates]
    <3>1. CASE vf' = vf
      BY <1>1, <3>1 DEF HostType
    <3>2. CASE \E v \in VFs : vf' = [vf EXCEPT ![v].right = {}, ![v].up = FALSE]
      <4>1. PICK v \in VFs : vf' = [vf EXCEPT ![v].right = {}, ![v].up = FALSE]
        BY <3>2
      <4>2. vf[v] \in VFStates
        BY <1>1 DEF HostType
      <4>3. [vf[v] EXCEPT !.right = {}, !.up = FALSE] \in VFStates
        BY <4>2 DEF VFStates
      <4> QED
        BY <1>1, <4>1, <4>3 DEF HostType
    <3>3. CASE vf' = BareVFs
      BY <1>1, <3>3, BootTypes DEF BareVFs
    <3> QED
      BY <1>6, <3>1, <3>2, <3>3 DEF Drift
  <2>4. made' \in BOOLEAN
    BY <1>1, <1>6 DEF Drift, HostType
  <2> QED
    BY <1>1, <1>6, <2>1, <2>2, <2>3, <2>4 DEF Drift, HostType, PassType, At
<1>7. CASE EditProfile
  <2>1. /\ UNCHANGED <<agent, files, pf, vf>>
        /\ made' \in BOOLEAN
    <3>1. PICK p \in Profiles : made' = (made /\ p.vfs = profile.vfs)
      BY <1>7 DEF EditProfile
    <3> QED
      BY <1>1, <1>7, <3>1, Zenon DEF EditProfile, HostType
  <2> QED
    BY <1>1, <2>1 DEF HostType, PassType, At
<1>8. CASE Resume
  BY <1>1, <1>8 DEF Resume, host, HostType, PassType, At
<1> QED
  BY <1>3, <1>4, <1>5, <1>6, <1>7, <1>8

\* ... and every step keeps it so.
LEMMA NextType == ASSUME TypeOK, [Next]_vars PROVE TypeOK'
<1>0. PassType /\ HostType /\ RestType
  BY TypeParts
<1>1. PassType' /\ HostType'
  BY <1>0, StepType, StepHostType, BounceType, OtherType
     DEF Next, Agent, applyVfGuids, vars, host, PassType, HostType, At
<1>2. /\ torn' \in BOOLEAN /\ faults' \in FaultSets
      /\ faultsLeft' \in 0..MaxFaults
  <2>1. CASE \E f : Spend(f)
    BY <1>0, <2>1, SpendType DEF RestType
  <2>2. CASE NoFault
    BY <1>0, <2>2 DEF NoFault, RestType
  <2>3. CASE Boot \/ Reboot
    <3>1. torn' = FALSE /\ faults' = faults
      BY <2>3 DEF Boot, Reboot, Booted
    <3>2. faultsLeft' \in 0..MaxFaults
      BY <1>0, <2>3, RailAssumption DEF Boot, Reboot, RestType
    <3> QED
      BY <1>0, <3>1, <3>2 DEF RestType
  <2>4. CASE FirmwareResetsNode \/ Resume \/ UNCHANGED vars
    BY <1>0, <2>4 DEF FirmwareResetsNode, Resume, vars, env, RestType
  <2>5. Agent => (\E f : Spend(f)) \/ NoFault
    BY DEF Agent, StartPass, EndPass, stepFabricNetplan, netplanApply,
       stepSriovNumVFs, stepVfGuids, applyVfGuids, Gone, Unbind, WriteAttr, Bind,
       Readback, RemoveRules, WriteRules, stepUdevRules, stepLosslessRoce,
       stepDisableACS
  <2>6. Restart \/ Drift \/ EditProfile => \E f : Spend(f)
    BY DEF Restart, Drift, EditProfile
  <2> QED
    BY <2>1, <2>2, <2>3, <2>4, <2>5, <2>6 DEF Next
<1>3. /\ profile' \in Profiles /\ phase' \in {"walk", "Ready", "Failed"}
      /\ asks' \in BOOLEAN /\ pending' \in BOOLEAN /\ verified' \in BOOLEAN
  <2>1. CASE StartPass
    BY <1>0, <2>1 DEF StartPass, RestType
  <2>2. CASE EndPass
    <3>1. (agent.clean /\ ~agent.moved) \in BOOLEAN
      OBVIOUS
    <3>2. phase' \in {"walk", "Ready", "Failed"}
      BY <2>2 DEF EndPass
    <3> QED
      BY <1>0, <2>2, <3>1, <3>2 DEF EndPass, RestType
  <2>3. CASE InPass
    BY <1>0, <2>3 DEF InPass, RestType
  <2>4. CASE Reboot \/ Boot
    BY <1>0, <2>4 DEF Reboot, Boot, Booted, RestType
  <2>5. CASE Restart \/ Drift \/ EditProfile
    BY <1>0, <2>5 DEF Restart, Drift, EditProfile, RestType
  <2>6. CASE FirmwareResetsNode \/ Resume \/ UNCHANGED vars
    BY <1>0, <2>6 DEF FirmwareResetsNode, Resume, vars, env, RestType
  <2>7. Agent => StartPass \/ EndPass \/ InPass
    BY DEF Agent, stepFabricNetplan, netplanApply,
       stepSriovNumVFs, stepVfGuids, applyVfGuids, Gone, Unbind, WriteAttr, Bind,
       Readback, RemoveRules, WriteRules, stepUdevRules, stepLosslessRoce,
       stepDisableACS, InVfGuids, InStep, InPass
  <2> QED
    BY <2>1, <2>2, <2>3, <2>4, <2>5, <2>6, <2>7 DEF Next
<1>5. parted' \in BOOLEAN
  <2>1. parted' = parted \/ parted' = TRUE \/ parted' = FALSE
    BY DEF Next, Agent, StartPass, EndPass, stepFabricNetplan, netplanApply,
       stepSriovNumVFs, stepVfGuids, applyVfGuids, Gone, Unbind, WriteAttr, Bind,
       Readback, RemoveRules, WriteRules, stepUdevRules, stepLosslessRoce,
       stepDisableACS, InStep, InPass, GivesUp, GoesOn, Reboot, Boot, Booted, Restart,
       Drift, EditProfile, Resume, FirmwareResetsNode, vars
  <2> QED
    BY <1>0, <2>1 DEF RestType
<1>4. RestType'
  BY <1>2, <1>3, <1>5 DEF RestType
<1>6. (PassType /\ HostType /\ RestType)' => TypeOK'
  BY TypeParts, PTL
<1> QED
  BY <1>1, <1>4, <1>6

\* TypeOK: whatever the passes, the firmware and the environment do in turns.
THEOREM TypeCorrect == Spec => []TypeOK
BY InitType, NextType, PTL DEF Spec

-----------------------------------------------------------------------------
(* What each step of a bounce does *)

Fixed == UNCHANGED <<profile, phase, asks, pending, verified, pf, made>>

\* The pass goes on with the same VFs to do.
Proceeds(p) == /\ agent'.step = p /\ agent'.todo = agent.todo
               /\ agent'.clean = agent.clean /\ agent'.moved = agent.moved

\* vfGuids has failed: the next step runs all the same.
GaveUp == agent'.step = "udevRules" /\ ~agent'.clean /\ parted'

OthersStay == \A v \in VFs \ {Current} : vf'[v] = vf[v]

\* A bounce that fails gives up the pass.
LEMMA EndsFailed ==
  ASSUME TypeOK, GivesUp PROVE GaveUp
BY EndsType DEF GaveUp, GivesUp, TypeOK, Places, VFPlaces

\* Gone: the pass gives up, where the PF has lost its VFs.
LEMMA GoneDoes ==
  ASSUME TypeOK, Gone
  PROVE  /\ agent.step \in {"unbind", "write", "bind", "readback"} /\ ~made
         /\ Fixed /\ UNCHANGED <<files, vf>> /\ GaveUp /\ NoFault
BY EndsFailed DEF Gone, InVfGuids, InPass, Fixed

\* Unbind: the VF loses its driver and what was staged, or the pass gives up.
LEMMA UnbindDoes ==
  ASSUME TypeOK, Unbind
  PROVE  /\ At("unbind") /\ Fixed /\ UNCHANGED files
         /\ \/ /\ Proceeds("write") /\ agent'.writes = Writes
               /\ OthersStay
               /\ ~vf'[Current].bound /\ ~vf'[Current].up
               /\ vf'[Current].staged = {}
               /\ vf'[Current].right = vf[Current].right
               /\ vf'[Current].resets = vf[Current].resets
               /\ NoFault
            \/ /\ GaveUp /\ UNCHANGED vf
               /\ \/ ~vf[Current].bound /\ NoFault
                  \/ Spend("exec")
<1>1. At("unbind") /\ Fixed /\ UNCHANGED files
  BY DEF Unbind, InVfGuids, InPass, Fixed
<1>2. /\ Current \in VFs /\ vf[Current] \in VFStates /\ vf \in [VFs -> VFStates]
      /\ agent \in Passes
  BY <1>1, CurrentType DEF At, VFPlaces, TypeOK
<1>3. CASE /\ SetVF([vf[Current] EXCEPT !.bound = FALSE, !.staged = {},
                                        !.up = FALSE])
           /\ agent' = [agent EXCEPT !.step = "write", !.writes = Writes]
           /\ NoFault
  <2>1. Proceeds("write") /\ agent'.writes = Writes
    BY <1>2, <1>3 DEF Proceeds, Passes
  <2>2. /\ OthersStay
        /\ ~vf'[Current].bound /\ ~vf'[Current].up
        /\ vf'[Current].staged = {}
        /\ vf'[Current].right = vf[Current].right
        /\ vf'[Current].resets = vf[Current].resets
    BY <1>2, <1>3 DEF SetVF, OthersStay, VFStates
  <2> QED
    BY <1>1, <1>3, <2>1, <2>2
<1>4. CASE /\ UNCHANGED vf /\ GivesUp
           /\ \/ ~vf[Current].bound /\ NoFault
              \/ Spend("exec")
  BY <1>1, <1>4, EndsFailed
<1> QED
  BY <1>3, <1>4 DEF Unbind

\* WriteAttr: one attribute is staged, or the pass gives up.
LEMMA WriteDoes ==
  ASSUME TypeOK, WriteAttr
  PROVE  /\ At("write") /\ Fixed /\ UNCHANGED files
         /\ ~vf[Current].resets
         /\ OthersStay
         /\ \/ /\ \/ Proceeds("write") /\ Len(agent.writes) # 1
                  \/ Proceeds("bind") /\ Len(agent.writes) = 1
               /\ agent'.writes = Tail(agent.writes)
               /\ vf'[Current].bound = vf[Current].bound
               /\ vf'[Current].right =
                    vf[Current].right \cup {Head(agent.writes)}
               /\ vf'[Current].staged =
                    vf[Current].staged \cup {Head(agent.writes)}
               /\ vf'[Current].resets = (Head(agent.writes) = "mac")
               /\ vf'[Current].up = vf[Current].up
               /\ vf'[Current].name = vf[Current].name
               /\ NoFault
            \/ /\ GaveUp
               /\ \/ vf'[Current] = Bound(vf[Current]) /\ Spend("write")
                  \/ UNCHANGED vf /\ Spend("bind")
<1>1. At("write") /\ Fixed /\ UNCHANGED files /\ ~vf[Current].resets
  BY DEF WriteAttr, InVfGuids, InPass, Fixed, GapPassed
<1>2. /\ Current \in VFs /\ vf[Current] \in VFStates /\ vf \in [VFs -> VFStates]
      /\ agent \in Passes
  BY <1>1, CurrentType DEF At, VFPlaces, TypeOK
<1> DEFINE a == Head(agent.writes)
           r == [vf[Current] EXCEPT !.right = @ \cup {a},
                                    !.staged = @ \cup {a},
                                    !.resets = (a = "mac")]
<1>3. CASE /\ SetVF(r)
           /\ agent' = [agent EXCEPT
                !.writes = Tail(@),
                !.step = IF Len(agent.writes) = 1 THEN "bind" ELSE @]
           /\ NoFault
  <2>1. /\ \/ Proceeds("write") /\ Len(agent.writes) # 1
           \/ Proceeds("bind") /\ Len(agent.writes) = 1
        /\ agent'.writes = Tail(agent.writes)
    BY <1>1, <1>2, <1>3 DEF Proceeds, Passes, At
  <2>2. OthersStay /\ vf'[Current] = r
    BY <1>2, <1>3 DEF SetVF, OthersStay
  <2>3. /\ r.bound = vf[Current].bound
        /\ r.right = vf[Current].right \cup {Head(agent.writes)}
        /\ r.staged = vf[Current].staged \cup {Head(agent.writes)}
        /\ r.resets = (Head(agent.writes) = "mac")
        /\ r.up = vf[Current].up /\ r.name = vf[Current].name
    BY <1>2 DEF VFStates
  <2> QED
    BY <1>1, <1>3, <2>1, <2>2, <2>3
<1>4. CASE /\ SetVF(Bound(vf[Current])) /\ GivesUp
           /\ Spend("write")
  <2>1. OthersStay /\ vf'[Current] = Bound(vf[Current])
    BY <1>2, <1>4 DEF SetVF, OthersStay
  <2> QED
    BY <1>1, <1>4, <2>1, EndsFailed
<1>5. CASE UNCHANGED vf /\ GivesUp /\ Spend("bind")
  BY <1>1, <1>5, EndsFailed DEF OthersStay
<1> QED
  BY <1>3, <1>4, <1>5 DEF WriteAttr

\* A VF that is bound is new: down, and named as the rules say.
LEMMA BoundDoes ==
  ASSUME NEW w \in VFStates
  PROVE  /\ Bound(w).bound = TRUE /\ Bound(w).up = FALSE
         /\ Bound(w).right \subseteq w.right /\ Bound(w).resets = w.resets
BY DEF Bound, VFStates

\* Bind: the VF comes back with what was staged, or without a driver.
LEMMA BindDoes ==
  ASSUME TypeOK, Bind
  PROVE  /\ At("bind") /\ Fixed /\ UNCHANGED files
         /\ ~vf[Current].resets
         /\ OthersStay
         /\ \/ Proceeds("readback") /\ vf'[Current] = Bound(vf[Current]) /\ NoFault
            \/ GaveUp /\ UNCHANGED vf /\ Spend("bind")
<1>1. At("bind") /\ Fixed /\ UNCHANGED files /\ ~vf[Current].resets
  BY DEF Bind, InVfGuids, InPass, Fixed, GapPassed
<1>2. /\ Current \in VFs /\ vf \in [VFs -> VFStates] /\ agent \in Passes
  BY <1>1, CurrentType DEF At, VFPlaces, TypeOK
<1>3. CASE SetVF(Bound(vf[Current])) /\ Goto("readback") /\ NoFault
  <2>1. OthersStay /\ vf'[Current] = Bound(vf[Current])
    BY <1>2, <1>3 DEF SetVF, OthersStay
  <2>2. Proceeds("readback")
    BY <1>2, <1>3, GotoType DEF Proceeds, Places, VFPlaces
  <2> QED
    BY <1>1, <1>3, <2>1, <2>2
<1>4. CASE UNCHANGED vf /\ GivesUp /\ Spend("bind")
  BY <1>1, <1>4, EndsFailed DEF OthersStay
<1> QED
  BY <1>3, <1>4 DEF Bind

\* Readback: on to the next VF, or the pass gives up.
LEMMA ReadbackDoes ==
  ASSUME TypeOK, Readback
  PROVE  /\ At("readback") /\ Fixed /\ UNCHANGED <<files, vf>> /\ NoFault
         /\ \/ Mismatch(Current) /\ GaveUp
            \/ /\ ReadsBack(Current)
               /\ agent'.clean = agent.clean /\ agent'.moved = agent.moved
               /\ agent'.todo = agent.todo \ {Current}
               /\ agent'.step =
                    IF agent'.todo = {} THEN "removeRules" ELSE "unbind"
<1>1. /\ At("readback") /\ Fixed /\ UNCHANGED <<files, vf>> /\ NoFault
      /\ agent \in Passes
  BY DEF Readback, InVfGuids, InPass, Fixed, TypeOK
<1>2. CASE ~ReadsBack(Current)
  <2>1. Mismatch(Current)
    BY <1>2 DEF ReadsBack, Mismatch
  <2> QED
    BY <1>1, <1>2, <2>1, EndsFailed DEF Readback
<1>3. CASE ReadsBack(Current)
  <2> DEFINE left == agent.todo \ {Current}
  <2>1. agent' = [agent EXCEPT
          !.todo = left,
          !.step = IF left = {} THEN "removeRules" ELSE "unbind"]
    BY <1>3 DEF Readback
  <2> HIDE DEF left
  <2>2. /\ agent'.clean = agent.clean /\ agent'.moved = agent.moved
        /\ agent'.todo = left
        /\ agent'.step = IF left = {} THEN "removeRules" ELSE "unbind"
    BY <1>1, <2>1 DEF Passes
  <2> QED
    BY <1>1, <1>3, <2>2 DEF left
<1> QED
  BY <1>2, <1>3

\* Behind the last VF the rules are removed, and written where there are any.
LEMMA RulesDo ==
  ASSUME TypeOK, RemoveRules \/ WriteRules
  PROVE  /\ Fixed /\ UNCHANGED vf
         /\ files'.netplan = files.netplan /\ files'.pf = files.pf
         /\ At("removeRules") \/ At("writeRules")
         /\ \/ At("removeRules") /\ Ethernet /\ Proceeds("writeRules") /\ NoFault
            \/ /\ At("removeRules") /\ ~Ethernet /\ NoFault
               /\ agent'.step = "udevRules"
               /\ agent'.clean = agent.clean /\ agent'.moved = agent.moved
            \/ /\ At("writeRules") /\ files'.vf = profile.rail /\ NoFault
               /\ agent'.step = "udevRules"
               /\ agent'.clean = agent.clean /\ agent'.moved = agent.moved
            \/ GaveUp /\ UNCHANGED files /\ Spend("files")
<1>1. agent \in Passes /\ "udevRules" \in Places /\ "writeRules" \in Places
  BY DEF TypeOK, Places, VFPlaces
<1>2. /\ Fixed /\ UNCHANGED vf
      /\ files'.netplan = files.netplan /\ files'.pf = files.pf
  BY DEF RemoveRules, WriteRules, InPass, Fixed, TypeOK
<1>3. ASSUME Ends(TRUE, "udevRules")
      PROVE  /\ agent'.step = "udevRules"
             /\ agent'.clean = agent.clean /\ agent'.moved = agent.moved
  <2>1. /\ agent'.step = "udevRules" /\ agent'.moved = agent.moved
        /\ agent'.clean = (agent.clean /\ TRUE) /\ agent.clean \in BOOLEAN
    BY <1>1, <1>3, EndsType DEF Passes
  <2> QED
    BY <2>1, Zenon
<1>4. CASE RemoveRules
  BY <1>1, <1>2, <1>3, <1>4, GotoType, EndsFailed DEF RemoveRules, Proceeds
<1>5. CASE WriteRules
  <2>1. files' = [files EXCEPT !.vf = profile.rail] => files'.vf = profile.rail
    BY DEF TypeOK
  <2> QED
    BY <1>1, <1>2, <1>3, <1>5, <2>1, EndsFailed DEF WriteRules
<1> QED
  BY <1>4, <1>5

-----------------------------------------------------------------------------
(* ConvergedLeftAlone *)

Loop == VFPlaces \cup {"removeRules", "writeRules"}
InLoop == agent.step \in Loop

\* A rail on which VFs are being bounced does not serve: the VFs to do have
\* a wrong identity, the one that is being bounced is not bound, and what has
\* been bounced is down.
LoopInv ==
  InLoop =>
    /\ profile.vfs
    /\ At("writeRules") => Ethernet
    /\ At("unbind") => \A v \in agent.todo : Mismatch(v)
    /\ agent.step \in {"write", "bind", "readback"}
         => \A v \in agent.todo \ {Current} : Mismatch(v)
    /\ agent.step \in {"write", "bind"} /\ made => ~vf[Current].bound
    /\ agent.step \in {"readback", "removeRules", "writeRules"}
         => \E v \in VFs : ~vf[v].up

\* What a VF's identity should be depends on the profile alone, and whether
\* it has it on the profile and the VF.
LEMMA IdentityStays ==
  ASSUME profile' = profile
  PROVE  /\ Writes' = Writes /\ Identity' = Identity /\ Ethernet' = Ethernet
         /\ \A v \in VFs : vf'[v] = vf[v] => Mismatch(v)' = Mismatch(v)
BY DEF Writes, Identity, Ethernet, Mismatch, Reads

\* A node GUID is part of every identity.
LEMMA NodeIsIdentity == "node" \in Identity
<1>1. \/ Writes = <<"port", "policy", "node">>
      \/ Writes = <<"mac", "node">>
      \/ Writes = <<"node">>
  BY DEF Writes
<1>2. CASE Writes = <<"port", "policy", "node">>
  <2>1. 3 \in DOMAIN Writes /\ Writes[3] = "node"
    BY <1>2
  <2> QED
    BY <2>1 DEF Identity
<1>3. CASE Writes = <<"mac", "node">>
  <2>1. 2 \in DOMAIN Writes /\ Writes[2] = "node"
    BY <1>3
  <2> QED
    BY <2>1 DEF Identity
<1>4. CASE Writes = <<"node">>
  <2>1. 1 \in DOMAIN Writes /\ Writes[1] = "node"
    BY <1>4
  <2> QED
    BY <2>1 DEF Identity
<1> QED
  BY <1>1, <1>2, <1>3, <1>4

\* The pass is not bouncing after any other of its steps.
LEMMA EntersElsewhere ==
  ASSUME TypeOK,
         \/ StartPass \/ stepFabricNetplan \/ netplanApply \/ stepSriovNumVFs
         \/ stepUdevRules \/ stepLosslessRoce \/ stepDisableACS \/ EndPass
  PROVE  ~InLoop'
<1> DEFINE Elsewhere == Places \ Loop
<1>1. /\ \A done \in BOOLEAN : AfterNetplan(done) \in Elsewhere
      /\ {"netplanApply", "vfGuids", "losslessRoce", "disableACS", "end"}
           \subseteq Elsewhere
      /\ Elsewhere \subseteq Places
  BY DEF AfterNetplan, Places, Loop, VFPlaces
<1>2. ASSUME NEW p \in Elsewhere, Goto(p) \/ (\E done \in BOOLEAN : Ends(done, p))
      PROVE  agent'.step \in Elsewhere
  BY <1>1, <1>2, EndsType, GotoType DEF TypeOK
<1>3. CASE StartPass \/ EndPass
  <2>1. agent'.step = "netplanMTU" \/ agent'.step = "idle"
    <3>1. CASE StartPass
      BY <3>1, IdleType DEF StartPass, Passes
    <3>2. CASE EndPass
      BY <3>2 DEF EndPass, idle
    <3> QED
      BY <1>3, <3>1, <3>2
  <2> QED
    BY <2>1 DEF InLoop, Loop, VFPlaces
<1> HIDE DEF Elsewhere
<1>4. CASE ~(StartPass \/ EndPass)
  <2>1. agent'.step \in Elsewhere
    BY <1>1, <1>2, <1>4 DEF stepFabricNetplan, netplanApply, stepSriovNumVFs,
       stepUdevRules, stepLosslessRoce, stepDisableACS
  <2> QED
    BY <2>1 DEF Elsewhere, InLoop
<1> QED
  BY <1>3, <1>4

\* No bounce is on its way.
LEMMA LoopInit == Init => LoopInv
BY DEF Init, LoopInv, InLoop, Loop, VFPlaces, idle

\* What the firmware and the driver do to a VF takes nothing up or right.
LEMMA WorseKeepsLoop ==
  ASSUME TypeOK, LoopInv, profile' = profile, made' => made,
         agent'.step = agent.step, agent'.todo = agent.todo,
         \A v \in VFs : /\ vf'[v].bound = vf[v].bound
                        /\ vf'[v].right \subseteq vf[v].right
                        /\ vf'[v].up => vf[v].up
  PROVE  LoopInv'
<1>1. \A v \in VFs : Mismatch(v) => Mismatch(v)'
  BY IdentityStays DEF Mismatch, Reads
<1>2. Current' = Current /\ Ethernet' = Ethernet
  BY IdentityStays DEF Current
<1>3. /\ agent.todo \in SUBSET VFs
      /\ agent.step \in VFPlaces => Current \in VFs
  BY CurrentType DEF TypeOK, Passes
<1> QED
  BY <1>1, <1>2, <1>3, Zenon DEF LoopInv, InLoop, At, VFPlaces

\* Every step keeps the bounce on VFs that need it.
LEMMA LoopStep ==
  ASSUME TypeOK, LoopInv, [Next]_vars PROVE LoopInv'
<1>0. agent.todo \in SUBSET VFs /\ (agent.step \in VFPlaces => Current \in VFs)
  BY CurrentType DEF TypeOK, Passes
<1>1. CASE \/ StartPass \/ stepFabricNetplan \/ netplanApply
           \/ stepSriovNumVFs
           \/ stepUdevRules \/ stepLosslessRoce \/ stepDisableACS \/ EndPass
  BY <1>1, EntersElsewhere DEF LoopInv
<1>2. CASE stepVfGuids
  <2>1. CASE \E done \in BOOLEAN : Ends(done, "udevRules")
    BY <2>1, EndsType
       DEF LoopInv, InLoop, Loop, VFPlaces, TypeOK, Places
  <2>2. CASE /\ profile.vfs
             /\ agent' = [agent EXCEPT !.step = "unbind", !.todo = vfGuidPlan]
    <3>1. agent'.step = "unbind" /\ agent'.todo = vfGuidPlan
      BY <2>2 DEF TypeOK, Passes
    <3>2. profile' = profile /\ vf' = vf
      BY <1>2 DEF stepVfGuids, InStep, InPass, host
    <3>3. \A v \in agent'.todo : Mismatch(v)'
      BY <3>1, <3>2, IdentityStays DEF vfGuidPlan
    <3> QED
      BY <2>2, <3>1, <3>2, <3>3 DEF LoopInv, At
  <2> QED
    BY <1>2, <2>1, <2>2, Zenon DEF stepVfGuids
<1>3. ASSUME GaveUp PROVE LoopInv'
  BY <1>3 DEF GaveUp, LoopInv, InLoop, Loop, VFPlaces
<1>4. CASE Unbind
  <2>1. At("unbind") /\ profile' = profile
    BY <1>4, UnbindDoes DEF Fixed
  <2>2. CASE GaveUp
    BY <1>3, <2>2
  <2>3. CASE Proceeds("write") /\ OthersStay /\ ~vf'[Current].bound
    <3>1. Current' = Current /\ agent'.todo = agent.todo /\ agent'.step = "write"
      BY <2>3 DEF Current, Proceeds
    <3>2. \A v \in agent'.todo \ {Current} : Mismatch(v)'
      BY <1>0, <2>1, <2>3, <3>1, IdentityStays
         DEF OthersStay, LoopInv, InLoop, Loop, VFPlaces, At
    <3> QED
      BY <2>1, <2>3, <3>1, <3>2 DEF LoopInv, InLoop, Loop, VFPlaces, At
  <2> QED
    BY <1>4, <2>2, <2>3, UnbindDoes
<1>5. CASE WriteAttr
  <2>1. At("write") /\ profile' = profile /\ OthersStay /\ made' = made
    BY <1>5, WriteDoes DEF Fixed
  <2>2. CASE GaveUp
    BY <1>3, <2>2
  <2>3. CASE /\ Proceeds("write") \/ Proceeds("bind")
             /\ vf'[Current].bound = vf[Current].bound
    <3>1. /\ Current' = Current /\ agent'.todo = agent.todo
          /\ agent'.step \in {"write", "bind"}
      BY <2>3 DEF Current, Proceeds
    <3>2. \A v \in agent'.todo \ {Current} : Mismatch(v)'
      BY <1>0, <2>1, <2>3, <3>1, IdentityStays
         DEF OthersStay, LoopInv, InLoop, Loop, VFPlaces, At
    <3> QED
      BY <2>1, <2>3, <3>1, <3>2 DEF LoopInv, InLoop, Loop, VFPlaces, At
  <2> QED
    BY <1>5, <2>2, <2>3, WriteDoes
<1>6. CASE Bind
  <2>1. At("bind") /\ profile' = profile /\ OthersStay
    BY <1>6, BindDoes DEF Fixed
  <2>2. CASE GaveUp
    BY <1>3, <2>2
  <2>3. CASE Proceeds("readback") /\ vf'[Current] = Bound(vf[Current])
    <3>1. /\ Current' = Current /\ agent'.todo = agent.todo
          /\ agent'.step = "readback"
      BY <2>3 DEF Current, Proceeds
    <3>2. \A v \in agent'.todo \ {Current} : Mismatch(v)'
      BY <1>0, <2>1, <2>3, <3>1, IdentityStays
         DEF OthersStay, LoopInv, InLoop, Loop, VFPlaces, At
    <3>3. Current \in VFs /\ vf'[Current].up = FALSE
      BY <2>1, <2>3, CurrentType, BoundDoes DEF At, VFPlaces
    <3> QED
      BY <2>1, <2>3, <3>1, <3>2, <3>3 DEF LoopInv, InLoop, Loop, VFPlaces, At
  <2> QED
    BY <1>6, <2>2, <2>3, BindDoes
<1>7. CASE Readback
  <2>1. At("readback") /\ profile' = profile /\ vf' = vf
    BY <1>7, ReadbackDoes DEF Fixed
  <2>2. CASE GaveUp
    BY <1>3, <2>2
  <2>3. CASE /\ agent'.todo = agent.todo \ {Current}
             /\ agent'.step = IF agent'.todo = {} THEN "removeRules" ELSE "unbind"
    <3>1. \A v \in agent'.todo : Mismatch(v)'
      BY <1>0, <2>1, <2>3, IdentityStays
         DEF LoopInv, InLoop, Loop, VFPlaces, At
    <3> QED
      BY <2>1, <2>3, <3>1 DEF LoopInv, InLoop, Loop, VFPlaces, At
  <2> QED
    BY <1>7, <2>2, <2>3, ReadbackDoes
<1>8. CASE RemoveRules \/ WriteRules
  <2>1. /\ At("removeRules") \/ At("writeRules")
        /\ profile' = profile /\ vf' = vf
    BY <1>8, RulesDo DEF Fixed
  <2>2. CASE agent'.step = "udevRules"
    BY <2>2 DEF LoopInv, InLoop, Loop, VFPlaces
  <2>3. CASE At("removeRules") /\ Ethernet /\ Proceeds("writeRules")
    BY <2>1, <2>3, IdentityStays DEF Proceeds, LoopInv, InLoop, Loop, VFPlaces, At
  <2> QED
    BY <1>8, <2>2, <2>3, RulesDo DEF GaveUp
<1>9. CASE Reboot \/ Boot \/ Restart
  <2>1. agent' = idle
    BY <1>9 DEF Reboot, Boot, Booted, Restart
  <2> QED
    BY <2>1 DEF LoopInv, InLoop, Loop, VFPlaces, idle
<1>10. CASE FirmwareResetsNode
  <2>1. PICK v \in VFs :
          vf' = [vf EXCEPT ![v].resets = FALSE, ![v].right = @ \ {"node"},
                           ![v].staged = @ \ {"node"}]
    BY <1>10 DEF FirmwareResetsNode
  <2>2. \A w \in VFs : /\ vf'[w].bound = vf[w].bound
                       /\ vf'[w].right \subseteq vf[w].right
                       /\ vf'[w].up => vf[w].up
    BY <2>1 DEF TypeOK, VFStates
  <2>3. UNCHANGED <<profile, agent, made>>
    BY <1>10 DEF FirmwareResetsNode, env
  <2> QED
    BY <2>2, <2>3, WorseKeepsLoop
<1>11. CASE Drift
  <2>1. /\ agent'.step = agent.step /\ agent'.todo = agent.todo
        /\ profile' = profile
    BY <1>11 DEF Drift, TypeOK, Passes
  <2>2. CASE made' = made /\ vf' = vf
    BY <2>1, <2>2, WorseKeepsLoop
  <2>3. CASE /\ made' = made
             /\ \E v \in VFs : vf' = [vf EXCEPT ![v].right = {}, ![v].up = FALSE]
    <3>1. PICK v \in VFs : vf' = [vf EXCEPT ![v].right = {}, ![v].up = FALSE]
      BY <2>3
    <3>2. \A w \in VFs : /\ vf'[w].bound = vf[w].bound
                         /\ vf'[w].right \subseteq vf[w].right
                         /\ vf'[w].up => vf[w].up
      BY <3>1 DEF TypeOK, VFStates
    <3> QED
      BY <2>1, <2>3, <3>2, WorseKeepsLoop
  <2>4. CASE made' = ~profile.vfs /\ vf' = BareVFs
    <3>1. \A v \in VFs : vf'[v].right = {} /\ ~vf'[v].up
      BY <2>4 DEF BareVFs, BareVF
    <3>2. \A v \in VFs : Mismatch(v)'
      BY <2>1, <3>1, IdentityStays, NodeIsIdentity DEF Mismatch, Reads
    <3>3. Current' = Current /\ Ethernet' = Ethernet /\ \E v \in VFs : TRUE
      BY <2>1, IdentityStays, RailAssumption DEF Current
    <3> QED
      BY <1>0, <2>1, <2>4, <3>1, <3>2, <3>3
         DEF LoopInv, InLoop, At, Loop, VFPlaces
  <2> QED
    BY <1>11, <2>2, <2>3, <2>4 DEF Drift
<1>12. CASE EditProfile
  <2>1. At("idle") /\ agent' = agent
    BY <1>12 DEF EditProfile
  <2> QED
    BY <2>1 DEF LoopInv, InLoop, Loop, VFPlaces, At
<1>13. CASE UNCHANGED vars
  <2>1. UNCHANGED <<profile, agent, vf, made>>
    BY <1>13 DEF vars, env, host
  <2> QED
    BY <2>1, WorseKeepsLoop
<1>14. CASE Resume
  <2>1. UNCHANGED <<profile, agent, vf, made>>
    BY <1>14 DEF Resume, env, host
  <2> QED
    BY <2>1, WorseKeepsLoop
<1>15. CASE Gone
  BY <1>3, <1>15, GoneDoes
<1> QED
  BY <1>1, <1>2, <1>4, <1>5, <1>6, <1>7, <1>8, <1>9, <1>10, <1>11, <1>12, <1>13,
     <1>14, <1>15
     DEF Next, Agent, applyVfGuids


\* So the loop over the VFs never touches one that is right.
LEMMA LoopInvariant == Spec => [](TypeOK /\ LoopInv)
<1>1. TypeOK /\ LoopInv /\ [Next]_vars => LoopInv'
  BY LoopStep
<1> QED
  BY <1>1, LoopInit, TypeCorrect, PTL DEF Spec

\* On a rail that serves no VF is being bounced; where the link needs no
\* rules, removing them is all that may be left to do.
LEMMA ServingAgent ==
  ASSUME TypeOK, LoopInv, Serves
  PROVE  /\ agent.step \notin {"unbind", "write", "bind", "writeRules"}
         /\ InLoop => made
         /\ Ethernet => ~InLoop
<1>1. /\ agent.step \in VFPlaces => Current \in VFs /\ Current \in agent.todo
      /\ VFPlaces \subseteq Loop
  BY CurrentType DEF Loop
<1>2. ASSUME NEW v \in VFs, profile.vfs
      PROVE  vf[v].bound /\ vf[v].right = Identity /\ ~Mismatch(v)
  <2>1. vf[v].bound /\ vf[v].right = Identity
    BY <1>2 DEF Serves
  <2> QED
    BY <2>1 DEF Mismatch, Reads
<1>3. ASSUME Ethernet, profile.vfs, NEW v \in VFs PROVE vf[v].up
  BY <1>3 DEF Serves
<1>4. agent.step # "unbind"
  BY <1>1, <1>2 DEF LoopInv, InLoop, At, VFPlaces
<1>5. agent.step \notin {"write", "bind"}
  BY <1>1, <1>2 DEF LoopInv, InLoop, At, VFPlaces, Serves
<1>6. Ethernet => agent.step \notin {"readback", "removeRules", "writeRules"}
  BY <1>3 DEF LoopInv, InLoop, At, Loop, VFPlaces
<1>7. agent.step = "writeRules" => Ethernet
  BY DEF LoopInv, InLoop, At, Loop, VFPlaces
<1>8. InLoop => made
  BY DEF LoopInv, Serves
<1> QED
  BY <1>4, <1>5, <1>6, <1>7, <1>8 DEF InLoop, Loop, VFPlaces

\* A rail that nothing touches goes on to serve.
LEMMA SameServes ==
  ASSUME Serves, UNCHANGED <<files, pf, made, vf, profile>> PROVE Serves'
BY IdentityStays DEF Serves, Ethernet, RoCE, Identity, Writes

\* No step of the agent takes a serving rail down.
LEMMA ServingStep ==
  ASSUME TypeOK, LoopInv, Serves, Agent PROVE Serves'
<1>1. /\ profile.vfs \in BOOLEAN /\ pf \in PFs /\ files \in FileTypes
      /\ vf \in [VFs -> VFStates] /\ Ethernet \in BOOLEAN
  BY RailAssumption DEF TypeOK, FileTypes, Ethernet
<1>2. CASE StartPass \/ EndPass \/ stepVfGuids
  BY <1>2, SameServes DEF StartPass, EndPass, stepVfGuids, host, InStep, InPass
<1>3. CASE applyVfGuids
  <2>1. CASE Unbind \/ WriteAttr \/ Bind \/ WriteRules
    BY <2>1, ServingAgent DEF Unbind, WriteAttr, Bind, WriteRules, At
  <2>4. CASE Gone
    BY <2>4, ServingAgent DEF Gone, InLoop, Loop, VFPlaces
  <2>2. CASE Readback
    BY <2>2, SameServes DEF Readback, InVfGuids, InPass
  <2>3. CASE RemoveRules
    <3>1. ~Ethernet
      BY <2>3, ServingAgent DEF RemoveRules, At, InLoop, Loop
    <3>2. /\ Fixed /\ UNCHANGED vf
          /\ files'.netplan = files.netplan /\ files'.pf = files.pf
      BY <2>3, RulesDo
    <3>3. Identity' = Identity /\ Ethernet' = Ethernet
      BY <3>2, IdentityStays DEF Fixed
    <3> QED
      BY <3>1, <3>2, <3>3 DEF Serves, Fixed, RoCE
  <2> QED
    BY <1>3, <2>1, <2>2, <2>3, <2>4 DEF applyVfGuids
<1>4. ASSUME profile' = profile
      PROVE  Identity' = Identity /\ Ethernet' = Ethernet /\ RoCE' = RoCE
  BY <1>4, IdentityStays DEF RoCE
<1>5. CASE stepFabricNetplan
  <2>1. files' = files /\ UNCHANGED <<pf, made, vf, profile>>
    BY <1>1, <1>5 DEF stepFabricNetplan, Serves, FileTypes, InStep, InPass
  <2> QED
    BY <2>1, SameServes
<1>6. CASE netplanApply
  <2>1. pf' = pf /\ UNCHANGED <<files, made, vf, profile>>
    BY <1>1, <1>6 DEF netplanApply, Serves, PFs, InStep, InPass
  <2> QED
    BY <2>1, SameServes
<1>7. CASE stepSriovNumVFs
  <2>1. profile' = profile /\ files' = files
    BY <1>7 DEF stepSriovNumVFs, InStep, InPass
  <2>2. CASE profile.vfs
    <3>1. made /\ ~(switchdevFlip /\ pf.eswitch = "legacy")
      BY <2>2 DEF Serves, switchdevFlip
    <3>2. pf' = pf /\ vf' = vf /\ made'
      BY <1>1, <1>7, <3>1 DEF stepSriovNumVFs, PFs
    <3> QED
      BY <1>4, <2>1, <2>2, <3>2 DEF Serves
  <2>3. CASE ~profile.vfs
    <3>1. ~switchdevFlip
      BY <2>3 DEF switchdevFlip
    <3>2. pf' = pf
      BY <1>1, <1>7, <3>1 DEF stepSriovNumVFs, PFs
    <3> QED
      BY <1>4, <2>1, <2>3, <3>2 DEF Serves
  <2> QED
    BY <2>2, <2>3
<1>8. CASE stepUdevRules
  <2>1. Ethernet => udevCurrent
    BY DEF Serves, udevCurrent, railVFNetdevs
  <2>2. UNCHANGED <<files, pf, made, vf, profile>>
    BY <1>8, <2>1 DEF stepUdevRules, InStep, InPass
  <2> QED
    BY <2>2, SameServes
<1>9. CASE stepLosslessRoce
  <2>1. UNCHANGED <<files, made, vf, profile>>
    BY <1>9 DEF stepLosslessRoce, InStep, InPass
  <2>2. /\ pf'.netplan = pf.netplan /\ pf'.name = pf.name /\ pf'.up = pf.up
        /\ pf'.acs = pf.acs /\ pf'.eswitch = pf.eswitch
        /\ RoCE => pf'.lossless
    <3>1. CASE pf' = pf
      BY <3>1 DEF Serves
    <3>2. CASE pf' = [pf EXCEPT !.lossless = RoCE \/ @]
      BY <1>1, <3>2 DEF PFs
    <3> QED
      BY <1>9, <3>1, <3>2 DEF stepLosslessRoce
  <2> QED
    BY <1>4, <2>1, <2>2 DEF Serves
<1>10. CASE stepDisableACS
  <2>1. UNCHANGED <<files, made, vf, profile>>
    BY <1>10 DEF stepDisableACS, InStep, InPass
  <2>2. /\ pf'.netplan = pf.netplan /\ pf'.name = pf.name /\ pf'.up = pf.up
        /\ pf'.lossless = pf.lossless /\ pf'.eswitch = pf.eswitch
        /\ ~profile.vfs => ~pf'.acs
    <3>1. CASE pf' = pf
      BY <3>1 DEF Serves
    <3>2. CASE pf' = [pf EXCEPT !.acs = @ /\ profile.vfs]
      BY <1>1, <3>2 DEF PFs
    <3> QED
      BY <1>10, <3>1, <3>2 DEF stepDisableACS
  <2> QED
    BY <1>4, <2>1, <2>2 DEF Serves
<1> QED
  BY <1>2, <1>3, <1>5, <1>6, <1>7, <1>8, <1>9, <1>10 DEF Agent

\* ConvergedLeftAlone: the pass of every five minutes, with its failures, does
\* not take a serving rail down, however many VFs it has.
THEOREM ServingRests == Spec => ConvergedLeftAlone
<1>1. TypeOK /\ LoopInv => [Serves /\ Agent => Serves']_vars
  BY ServingStep
<1> QED
  BY <1>1, LoopInvariant, PTL DEF ConvergedLeftAlone

-----------------------------------------------------------------------------
(* What a boot, a fault and a step leave alone *)

\* A boot leaves what is in the files, and no pass, verdict or request.
LEMMA BootDoes ==
  ASSUME TypeOK, Boot \/ Reboot
  PROVE  /\ UNCHANGED <<files, profile>> /\ agent' = idle
         /\ ~pending' /\ ~verified' /\ ~InLoop'
         /\ pf'.netplan = files.netplan /\ pf'.eswitch = "legacy"
         /\ \A v \in VFs : /\ vf'[v].bound /\ vf'[v].right = {}
                           /\ ~vf'[v].resets /\ ~vf'[v].up
<1>1. /\ UNCHANGED <<files, profile>> /\ agent' = idle
      /\ ~pending' /\ ~verified'
      /\ pf' = BootedPF(files) /\ vf' = [v \in VFs |-> BareVF(files)]
  BY DEF Boot, Reboot, Booted
<1>2. ~InLoop'
  BY <1>1 DEF InLoop, Loop, VFPlaces, idle
<1> QED
  BY <1>1, <1>2 DEF BootedPF, BareVF

\* Only a boot mends what a tearing fault tore.
LEMMA TornBefore ==
  ASSUME TypeOK, [Next]_vars, ~torn'
  PROVE  ~torn \/ Boot \/ Reboot
<1>1. ASSUME NEW f, Spend(f) PROVE ~torn
  BY <1>1, SpendType
<1>2. NoFault => ~torn
  BY DEF NoFault
<1>3. UNCHANGED vars => ~torn
  BY DEF vars, env
<1> QED
  BY <1>1, <1>2, <1>3
     DEF Next, Agent, applyVfGuids, StartPass, EndPass, stepFabricNetplan,
         netplanApply, stepSriovNumVFs, stepVfGuids, Unbind, WriteAttr, Bind,
         Readback, RemoveRules, WriteRules, stepUdevRules, stepLosslessRoce,
         stepDisableACS, FirmwareResetsNode, env, Restart, Drift, EditProfile,
         Gone, Resume

\* And only a boot takes down the VFs behind which vfGuids gave up.
LEMMA PartedBefore ==
  ASSUME TypeOK, [Next]_vars, ~parted'
  PROVE  ~parted \/ Boot \/ Reboot
<1>1. GivesUp => parted'
  BY DEF GivesUp
<1>2. CASE parted' = parted
  BY <1>2
<1>3. CASE parted' # parted
  BY <1>1, <1>3
     DEF Next, Agent, applyVfGuids, StartPass, EndPass, stepFabricNetplan,
         netplanApply, stepSriovNumVFs, stepVfGuids, Gone, Unbind, WriteAttr,
         Bind, Readback, RemoveRules, WriteRules, stepUdevRules,
         stepLosslessRoce, stepDisableACS, FirmwareResetsNode, Restart, Drift,
         EditProfile, Resume, InStep, GoesOn, vars
<1> QED
  BY <1>2, <1>3

\* A fault of Tearing tears the boot.
LEMMA Tears == ASSUME NEW f \in Tearing, Spend(f) PROVE torn'
BY DEF Spend

\* A restart and an edit tear.
LEMMA RestartTears == Restart \/ EditProfile => torn'
BY Tears DEF Restart, EditProfile, Tearing

\* The settings of the PF and the files that a step is not about.
LEMMA PFKeeps ==
  ASSUME TypeOK,
         \/ StartPass \/ EndPass \/ stepVfGuids \/ applyVfGuids
         \/ stepUdevRules \/ stepLosslessRoce \/ stepDisableACS
         \/ FirmwareResetsNode \/ Resume \/ UNCHANGED vars
  PROVE  /\ pf'.netplan = pf.netplan /\ pf'.eswitch = pf.eswitch
         /\ files'.netplan = files.netplan /\ profile' = profile
         /\ made' = made
<1>1. pf \in PFs /\ files \in FileTypes
  BY DEF TypeOK, FileTypes
<1>2. CASE \/ StartPass \/ EndPass \/ stepVfGuids \/ FirmwareResetsNode
           \/ Resume \/ UNCHANGED vars
  BY <1>2 DEF StartPass, EndPass, stepVfGuids, FirmwareResetsNode, Resume, InStep,
              InPass, host, env, vars
<1>3. CASE applyVfGuids
  BY <1>3, GoneDoes, UnbindDoes, WriteDoes, BindDoes, ReadbackDoes, RulesDo
     DEF applyVfGuids, Fixed
<1>4. CASE stepUdevRules
  BY <1>1, <1>4 DEF stepUdevRules, InStep, InPass, PFs, FileTypes
<1>5. CASE stepLosslessRoce
  BY <1>1, <1>5 DEF stepLosslessRoce, InStep, InPass, PFs
<1>6. CASE stepDisableACS
  BY <1>1, <1>6 DEF stepDisableACS, InStep, InPass, PFs
<1> QED
  BY <1>2, <1>3, <1>4, <1>5, <1>6

\* A driver that probes again: the eswitch may fall back, the VFs are bare, or
\* as they were but for the one.
LEMMA DriftDoes ==
  ASSUME TypeOK, Drift
  PROVE  /\ UNCHANGED <<files, profile, pending, parted>>
         /\ torn => torn'
         /\ agent'.step = agent.step /\ agent'.todo = agent.todo
         /\ agent'.writes = agent.writes /\ agent'.moved /\ ~verified'
         /\ pf'.netplan = pf.netplan /\ pf'.eswitch \in {pf.eswitch, "legacy"}
         /\ \/ /\ made' = made
               /\ \A v \in VFs : /\ vf'[v].bound = vf[v].bound
                                 /\ vf'[v].right \subseteq vf[v].right
                                 /\ vf'[v].staged \subseteq vf[v].staged
                                 /\ vf'[v].resets => vf[v].resets
                                 /\ vf'[v].up => vf[v].up
                                 /\ vf'[v].name = vf[v].name
            \/ /\ made' = ~profile.vfs
               /\ \A v \in VFs : vf'[v] = BareVF(files)
<1>1. /\ pf \in PFs /\ agent \in Passes /\ vf \in [VFs -> VFStates]
      /\ UNCHANGED <<files, profile, pending, parted>> /\ ~verified'
      /\ agent' = [agent EXCEPT !.moved = TRUE]
  BY DEF Drift, TypeOK
<1>2. /\ agent'.step = agent.step /\ agent'.todo = agent.todo
      /\ agent'.writes = agent.writes /\ agent'.moved
  BY <1>1 DEF Passes
<1>3. torn => torn'
  BY SpendType DEF Drift
<1>4. CASE vf' = vf /\ made' = made
           /\ pf' = [pf EXCEPT !.up = FALSE, !.lossless = FALSE]
  BY <1>1, <1>2, <1>3, <1>4 DEF PFs
<1>5. CASE /\ pf' = [pf EXCEPT !.up = FALSE, !.lossless = FALSE,
                               !.eswitch = "legacy"]
           /\ made' = ~profile.vfs /\ vf' = BareVFs
  BY <1>1, <1>2, <1>3, <1>5 DEF PFs, BareVFs
<1>6. CASE /\ \E v \in VFs : vf' = [vf EXCEPT ![v].right = {}, ![v].up = FALSE]
           /\ pf' = pf /\ made' = made
  <2>1. PICK v \in VFs : vf' = [vf EXCEPT ![v].right = {}, ![v].up = FALSE]
    BY <1>6
  <2>2. \A w \in VFs : /\ vf'[w].bound = vf[w].bound
                       /\ vf'[w].right \subseteq vf[w].right
                       /\ vf'[w].staged \subseteq vf[w].staged
                       /\ vf'[w].resets => vf[w].resets
                       /\ vf'[w].up => vf[w].up
                       /\ vf'[w].name = vf[w].name
    BY <1>1, <2>1 DEF VFStates
  <2> QED
    BY <1>1, <1>2, <1>3, <1>6, <2>2
<1> QED
  BY <1>4, <1>5, <1>6 DEF Drift

-----------------------------------------------------------------------------
(* The PF between the passes *)

\* A pending request ends the pass at its first step.
PendingInv == pending => agent.step \in {"idle", "netplanMTU", "netplanApply"}

\* On a boot that nothing has torn, networkd runs what the file says, unless
\* a pending request has left that to the boot.
NetplanInv ==
  ~torn => pf.netplan = files.netplan \/ pending \/ At("netplanApply")

\* And the eswitch has only been flipped for a profile that wants it so.
EswitchInv == ~torn => (pf.eswitch = "switchdev" => switchdevFlip)

PFInv == PendingInv /\ NetplanInv /\ EswitchInv

\* A host as it booted.
LEMMA PFInit == Init => PFInv
BY DEF Init, PFInv, PendingInv, NetplanInv, EswitchInv, BootedPF

\* No step runs under a pending request but the first.
LEMMA PendingStep ==
  ASSUME TypeOK, PendingInv, [Next]_vars PROVE PendingInv'
<1>1. agent \in Passes /\ {"idle", "sriovNumVFs", "netplanApply"} \subseteq Places
  BY DEF TypeOK, Places, VFPlaces
<1>2. CASE StartPass
  <2>1. agent'.step = "netplanMTU"
    BY <1>2, IdleType DEF StartPass, Passes
  <2> QED
    BY <2>1 DEF PendingInv
<1>3. CASE stepFabricNetplan \/ netplanApply
  <2>1. pending' = pending
    BY <1>3 DEF stepFabricNetplan, netplanApply, InStep, InPass
  <2>2. \A done \in BOOLEAN : /\ pending => AfterNetplan(done) = "idle"
                              /\ AfterNetplan(done) \in Places
    BY <1>1 DEF AfterNetplan, Places
  <2>3. \/ \E done \in BOOLEAN : Ends(done, AfterNetplan(done))
        \/ Goto("netplanApply")
    BY <1>3 DEF stepFabricNetplan, netplanApply
  <2>4. \/ \E done \in BOOLEAN : agent'.step = AfterNetplan(done)
        \/ agent'.step = "netplanApply"
    BY <1>1, <2>2, <2>3, EndsType, GotoType
  <2> QED
    BY <2>1, <2>2, <2>4 DEF PendingInv
<1>4. CASE \/ stepSriovNumVFs \/ stepVfGuids \/ applyVfGuids
           \/ stepUdevRules \/ stepLosslessRoce \/ stepDisableACS \/ EndPass
  <2>1. pending' = pending
    BY <1>4 DEF stepSriovNumVFs, stepVfGuids, applyVfGuids, Unbind, WriteAttr,
       Bind, Readback, RemoveRules, WriteRules, stepUdevRules, Gone,
       stepLosslessRoce, stepDisableACS, EndPass, InStep, InPass, InVfGuids
  <2>2. agent.step \notin {"idle", "netplanMTU", "netplanApply"}
    BY <1>4 DEF stepSriovNumVFs, stepVfGuids, applyVfGuids, Unbind, WriteAttr,
       Bind, Readback, RemoveRules, WriteRules, stepUdevRules, Gone,
       stepLosslessRoce, stepDisableACS, EndPass, At
  <2> QED
    BY <2>1, <2>2 DEF PendingInv
<1>5. CASE Reboot \/ Boot \/ Restart \/ EditProfile
  BY <1>5 DEF Reboot, Boot, Booted, Restart, EditProfile, PendingInv
<1>6. CASE FirmwareResetsNode \/ Resume \/ UNCHANGED vars
  BY <1>6 DEF FirmwareResetsNode, Resume, vars, PendingInv
<1>7. CASE Drift
  BY <1>7, DriftDoes DEF PendingInv
<1> QED
  BY <1>2, <1>3, <1>4, <1>5, <1>6, <1>7 DEF Next, Agent

\* Every step keeps the PF between the file and the profile.
LEMMA PFStep ==
  ASSUME TypeOK, PFInv, [Next]_vars PROVE PFInv'
<1>1. PendingInv'
  BY PendingStep DEF PFInv
<1>2. SUFFICES ASSUME ~torn' PROVE NetplanInv' /\ EswitchInv'
  BY <1>1 DEF PFInv, NetplanInv, EswitchInv
<1>3. CASE Boot \/ Reboot
  BY <1>3, BootDoes DEF NetplanInv, EswitchInv
<1>4. CASE ~(Boot \/ Reboot)
  <2>1. ~torn
    BY <1>2, <1>4, TornBefore
  <2>2. /\ pf.netplan = files.netplan \/ pending \/ At("netplanApply")
        /\ pf.eswitch = "switchdev" => switchdevFlip
        /\ pf \in PFs /\ files \in FileTypes /\ agent \in Passes
    BY <2>1 DEF PFInv, NetplanInv, EswitchInv, TypeOK, FileTypes
  <2>3. CASE stepFabricNetplan
    <3>0. ~Spend("netplan")
      BY <1>2, Tears DEF Tearing
    <3>1. pf' = pf /\ profile' = profile /\ pending' = pending
      BY <2>3 DEF stepFabricNetplan, InStep, InPass
    <3>2. \/ files'.netplan = files.netplan
          \/ pending
          \/ agent'.step = "netplanApply"
      BY <2>2, <2>3, <3>0, GotoType
         DEF stepFabricNetplan, FileTypes, Places, VFPlaces
    <3>3. At("netplanMTU")
      BY <2>3 DEF stepFabricNetplan
    <3> QED
      BY <2>2, <3>1, <3>2, <3>3 DEF NetplanInv, EswitchInv, switchdevFlip, At
  <2>4. CASE netplanApply
    <3>1. ~Spend("netplan")
      BY <1>2, Tears DEF Tearing
    <3>2. /\ pf' = [pf EXCEPT !.netplan = files.netplan]
          /\ profile' = profile /\ files' = files
      BY <2>4, <3>1 DEF netplanApply, InStep, InPass
    <3>3. pf'.netplan = files'.netplan /\ pf'.eswitch = pf.eswitch
      BY <2>2, <3>2 DEF PFs
    <3> QED
      BY <2>2, <3>2, <3>3 DEF NetplanInv, EswitchInv, switchdevFlip
  <2>5. CASE stepSriovNumVFs
    <3>1. /\ profile' = profile /\ files' = files /\ pending' = pending
          /\ At("sriovNumVFs")
      BY <2>5 DEF stepSriovNumVFs, InStep, InPass
    <3>2. /\ pf'.netplan = pf.netplan
          /\ pf'.eswitch = "switchdev" => switchdevFlip
      BY <2>2, <2>5 DEF stepSriovNumVFs, PFs
    <3> QED
      BY <2>2, <3>1, <3>2 DEF NetplanInv, EswitchInv, switchdevFlip, At
  <2>6. CASE Restart \/ EditProfile
    BY <1>2, <2>6, RestartTears
  <2>7. CASE \/ StartPass \/ EndPass \/ stepVfGuids \/ applyVfGuids
             \/ stepUdevRules \/ stepLosslessRoce \/ stepDisableACS
    <3>1. /\ pf'.netplan = pf.netplan /\ pf'.eswitch = pf.eswitch
          /\ files'.netplan = files.netplan /\ profile' = profile
      BY <2>7, PFKeeps
    <3>2. ~At("netplanApply")
      BY <2>7 DEF stepVfGuids, applyVfGuids, Gone, Unbind, WriteAttr, StartPass,
         Bind, Readback, RemoveRules, WriteRules, stepUdevRules,
         stepLosslessRoce, stepDisableACS, EndPass, At
    <3>3. pending => pending'
      BY <2>7 DEF stepVfGuids, applyVfGuids, Gone, Unbind, WriteAttr, StartPass,
         Bind, Readback, RemoveRules, WriteRules, stepUdevRules,
         stepLosslessRoce, stepDisableACS, EndPass, InStep, InPass, InVfGuids
    <3> QED
      BY <2>2, <3>1, <3>2, <3>3 DEF NetplanInv, EswitchInv, switchdevFlip
  <2>8. CASE FirmwareResetsNode \/ Drift \/ Resume \/ UNCHANGED vars
    <3>1. /\ pf'.netplan = pf.netplan /\ pf'.eswitch \in {pf.eswitch, "legacy"}
          /\ files'.netplan = files.netplan /\ profile' = profile
      BY <2>8, PFKeeps, DriftDoes
    <3>2. pending' = pending /\ agent'.step = agent.step
      BY <2>8, DriftDoes DEF FirmwareResetsNode, Resume, vars
    <3> QED
      BY <2>2, <3>1, <3>2 DEF NetplanInv, EswitchInv, switchdevFlip, At
  <2> QED
    BY <1>4, <2>3, <2>4, <2>5, <2>6, <2>7, <2>8 DEF Next, Agent
<1> QED
  BY <1>3, <1>4

-----------------------------------------------------------------------------
(* FabricServes *)

\* The writes that a bounce may have left.
Left ==
  IF ~Ethernet THEN {<<"port", "policy", "node">>, <<"policy", "node">>, <<"node">>}
  ELSE IF profile.eswitch = "legacy" THEN {<<"mac", "node">>, <<"node">>}
  ELSE {<<"node">>}

\* The node GUID is the last to be staged.
StagedInv ==
  At("write") => agent.writes \in Left /\ "node" \notin vf[Current].staged

\* On a boot that nothing has torn no VF carries what its identity has not,
\* only the VF that is being bounced is unbound, and the firmware resets a
\* node GUID that is still to be written.
BoundInv ==
  ~torn => \A v \in VFs :
    /\ vf[v].right \subseteq Identity
    /\ vf[v].bound \/ (agent.step \in {"write", "bind"} /\ v = Current)
    /\ vf[v].resets => At("write") /\ v = Current /\ agent.writes = <<"node">>

\* And where the PF has lost its VFs, those it will have are bare.
Bare(v) == vf[v].bound /\ vf[v].right = {} /\ ~vf[v].resets
BareInv == ~torn /\ profile.vfs /\ ~made => \A v \in VFs : Bare(v)

IdentityInv == StagedInv /\ BoundInv /\ BareInv

\* On a boot that nothing has torn the rules of the VFs are written where all
\* have their identity outside a bounce,
RulesInv ==
  ~torn /\ Ethernet /\ profile.vfs /\ ~InLoop /\ (\A v \in VFs : ~Mismatch(v))
    => files.vf = profile.rail

\* and where udevRules comes upon VFs and vfGuids has not given up on them;
TriggerInv ==
  ~torn /\ ~parted /\ Ethernet /\ profile.vfs /\ At("udevRules") /\ made
    => files.vf = profile.rail

\* so that the VFs that are up have the names in them.
NamesInv ==
  ~torn /\ ~parted /\ Ethernet /\ profile.vfs
    => \A v \in VFs : vf[v].up => vf[v].name = profile.rail

NamedInv == RulesInv /\ TriggerInv /\ NamesInv

\* What the steps of a pass leave behind them.
Netplanned == files.netplan = profile.rail /\ pf.netplan = profile.rail
Counted == profile.vfs => made /\ pf.eswitch = profile.eswitch
Identified ==
  profile.vfs => /\ \A v \in VFs : vf[v].bound /\ vf[v].right = Identity
                 /\ Ethernet => files.vf = profile.rail
Named ==
  Ethernet => /\ files.pf = profile.rail /\ pf.name = profile.rail /\ pf.up
              /\ profile.vfs => \A v \in VFs : vf[v].up
Lossless == RoCE => pf.lossless
NoACS == ~profile.vfs => ~pf.acs

PastLossless == {"disableACS", "end"}
PastNames    == {"losslessRoce"} \cup PastLossless
PastIdentity == {"udevRules"} \cup PastNames
PastCount    == {"vfGuids"} \cup Loop \cup PastIdentity
PastNetplan  == {"sriovNumVFs"} \cup PastCount

\* A VF with a policy has it from before its node GUID on: it is not read back.
PolicyWritten ==
  /\ ~Ethernet
  /\ At("write") => agent.writes = <<"node">>
  /\ agent.step \in {"write", "bind", "readback"}
  => "policy" \in vf[Current].right

\* A pass that is clean so far, and under which no driver has probed again,
\* has brought about what the steps behind it are for.
Clean == ~torn /\ agent.clean /\ ~agent.moved

SoFar ==
  /\ At("netplanApply") => files.netplan = profile.rail
  /\ agent.step \in PastNetplan => Netplanned
  /\ agent.step \in PastCount => Counted
  /\ InLoop => \A v \in VFs :
       ~Mismatch(v) \/ (v \in agent.todo /\ agent.step \in VFPlaces)
  /\ PolicyWritten
  /\ agent.step \in PastIdentity => Identified
  /\ agent.step \in PastNames => Named
  /\ agent.step \in PastLossless => Lossless
  /\ At("end") => NoACS

PassInv == Clean => SoFar

\* The attributes of an identity, written out.
LEMMA IdentityIs ==
  /\ ~Ethernet => Writes = <<"port", "policy", "node">>
                  /\ Identity = {"port", "policy", "node"}
  /\ Ethernet /\ profile.eswitch = "legacy"
       => Writes = <<"mac", "node">> /\ Identity = {"mac", "node"}
  /\ Ethernet /\ profile.eswitch # "legacy"
       => Writes = <<"node">> /\ Identity = {"node"}
<1>1. ASSUME Writes = <<"port", "policy", "node">>
      PROVE  Identity = {"port", "policy", "node"}
  <2>1. DOMAIN Writes = 1..3 /\ Writes[1] = "port" /\ Writes[2] = "policy"
        /\ Writes[3] = "node"
    BY <1>1
  <2> QED
    BY <2>1 DEF Identity
<1>2. ASSUME Writes = <<"mac", "node">> PROVE Identity = {"mac", "node"}
  <2>1. DOMAIN Writes = 1..2 /\ Writes[1] = "mac" /\ Writes[2] = "node"
    BY <1>2
  <2> QED
    BY <2>1 DEF Identity
<1>3. ASSUME Writes = <<"node">> PROVE Identity = {"node"}
  <2>1. DOMAIN Writes = 1..1 /\ Writes[1] = "node"
    BY <1>3
  <2> QED
    BY <2>1 DEF Identity
<1>4. /\ ~Ethernet => Writes = <<"port", "policy", "node">>
      /\ Ethernet /\ profile.eswitch = "legacy" => Writes = <<"mac", "node">>
      /\ Ethernet /\ profile.eswitch # "legacy" => Writes = <<"node">>
  BY Zenon DEF Writes
<1> QED
  BY <1>1, <1>2, <1>3, <1>4

\* The writes that are left: each is of the identity, the node GUID comes
\* last, the MAC just before it.
LEMMA LeftDoes ==
  /\ Writes \in Left
  /\ "node" \in Identity
  /\ \A s \in Left :
       /\ Head(s) \in Identity
       /\ Len(s) # 1 => Tail(s) \in Left /\ Head(s) # "node"
       /\ Len(s) = 1 => Head(s) # "mac"
       /\ Head(s) = "mac" => Tail(s) = <<"node">>
<1>1. Writes \in Left /\ "node" \in Identity
  BY IdentityIs DEF Left
<1> DEFINE Ok(s) == /\ Head(s) \in Identity
                    /\ Len(s) # 1 => Tail(s) \in Left /\ Head(s) # "node"
                    /\ Len(s) = 1 => Head(s) # "mac"
                    /\ Head(s) = "mac" => Tail(s) = <<"node">>
<1>2. Ok(<<"node">>)
  BY <1>1
<1>3. <<"port", "policy", "node">> \in Left => Ok(<<"port", "policy", "node">>)
  <2> DEFINE s == <<"port", "policy", "node">>
  <2>1. /\ Head(s) = "port" /\ Len(s) = 3 /\ Tail(s) = <<"policy", "node">>
        /\ Len(s) # 1 /\ s # <<"mac", "node">> /\ s # <<"node">>
    OBVIOUS
  <2> HIDE DEF s
  <2>2. ASSUME s \in Left PROVE ~Ethernet
    BY <2>1, <2>2 DEF Left
  <2>3. ASSUME ~Ethernet
        PROVE  "port" \in Identity /\ <<"policy", "node">> \in Left
    BY <2>3, IdentityIs DEF Left
  <2>4. s \in Left => Ok(s)
    BY <2>1, <2>2, <2>3
  <2> QED
    BY <2>4 DEF s
<1>4. <<"policy", "node">> \in Left => Ok(<<"policy", "node">>)
  <2> DEFINE s == <<"policy", "node">>
  <2>1. /\ Head(s) = "policy" /\ Len(s) = 2 /\ Tail(s) = <<"node">>
        /\ Len(s) # 1 /\ s # <<"mac", "node">> /\ s # <<"node">>
    OBVIOUS
  <2> HIDE DEF s
  <2>2. ASSUME s \in Left PROVE ~Ethernet
    BY <2>1, <2>2 DEF Left
  <2>3. ASSUME ~Ethernet PROVE "policy" \in Identity /\ <<"node">> \in Left
    BY <2>3, IdentityIs DEF Left
  <2>4. s \in Left => Ok(s)
    BY <2>1, <2>2, <2>3
  <2> QED
    BY <2>4 DEF s
<1>5. <<"mac", "node">> \in Left => Ok(<<"mac", "node">>)
  <2> DEFINE s == <<"mac", "node">>
  <2>1. /\ Head(s) = "mac" /\ Len(s) = 2 /\ Tail(s) = <<"node">>
        /\ Len(s) # 1 /\ s # <<"port", "policy", "node">>
        /\ s # <<"policy", "node">> /\ s # <<"node">>
    OBVIOUS
  <2> HIDE DEF s
  <2>2. ASSUME s \in Left PROVE Ethernet /\ profile.eswitch = "legacy"
    BY <2>1, <2>2 DEF Left
  <2>3. ASSUME Ethernet, profile.eswitch = "legacy"
        PROVE "mac" \in Identity /\ <<"node">> \in Left
    BY <2>3, IdentityIs DEF Left
  <2>4. s \in Left => Ok(s)
    BY <2>1, <2>2, <2>3
  <2> QED
    BY <2>4 DEF s
<1>6. \A s \in Left : \/ s = <<"port", "policy", "node">>
                      \/ s = <<"policy", "node">>
                      \/ s = <<"mac", "node">>
                      \/ s = <<"node">>
  BY DEF Left
<1> HIDE DEF Ok
<1>7. \A s \in Left : Ok(s)
  BY <1>2, <1>3, <1>4, <1>5, <1>6, Zenon
<1> QED
  BY <1>1, <1>7 DEF Ok

\* A VF that loses what it has, under a pass that is where it was.
LEMMA WorseKeepsIdentity ==
  ASSUME TypeOK, IdentityInv, profile' = profile, torn => torn',
         agent'.step = agent.step, agent'.todo = agent.todo,
         agent'.writes = agent.writes, made' = made,
         \A v \in VFs : /\ vf'[v].bound = vf[v].bound
                        /\ vf'[v].right \subseteq vf[v].right
                        /\ vf'[v].staged \subseteq vf[v].staged
                        /\ vf'[v].resets => vf[v].resets
  PROVE  IdentityInv'
<1>1. Current' = Current /\ Left' = Left /\ Identity' = Identity
  BY IdentityStays DEF Current, Left, Ethernet
<1>2. At("write") => Current \in VFs
  BY CurrentType DEF At, VFPlaces
<1>3. StagedInv'
  BY <1>1, <1>2 DEF IdentityInv, StagedInv, At
<1>4. BoundInv'
  BY <1>1 DEF IdentityInv, BoundInv, At
<1>5. BareInv'
  BY DEF IdentityInv, BareInv, Bare
<1> QED
  BY <1>3, <1>4, <1>5 DEF IdentityInv

\* And outside a bounce, or as one ends or begins.
LEMMA PassKeepsIdentity ==
  ASSUME TypeOK, BoundInv, BareInv, profile' = profile, torn => torn',
         agent.step \notin {"write", "bind"}, agent'.step # "write",
         made => made' \/ \A v \in VFs : Bare(v)',
         \A v \in VFs : /\ vf[v].bound => vf'[v].bound
                        /\ vf'[v].right \subseteq vf[v].right
                        /\ vf'[v].resets => vf[v].resets
  PROVE  IdentityInv'
<1>1. Identity' = Identity
  BY IdentityStays
<1>2. StagedInv'
  BY DEF StagedInv, At
<1>3. BoundInv'
  BY <1>1 DEF BoundInv, At
<1>4. BareInv'
  BY DEF BareInv, Bare
<1> QED
  BY <1>2, <1>3, <1>4 DEF IdentityInv

\* And in a bounce, where there are VFs.
LEMMA MadeIsNotBare ==
  ASSUME StagedInv', BoundInv', made' PROVE IdentityInv'
BY DEF IdentityInv, BareInv

\* VFs begin bound and without an identity.
LEMMA IdentityInit == Init => IdentityInv
BY DEF Init, IdentityInv, StagedInv, BoundInv, BareInv, Bare, At, idle, BareVF

\* The steps of a pass that bounce no VF leave each VF, or make it anew.
LEMMA OtherSteps ==
  ASSUME TypeOK,
         \/ StartPass \/ stepFabricNetplan \/ netplanApply \/ stepSriovNumVFs
         \/ stepVfGuids \/ RemoveRules \/ WriteRules
         \/ stepUdevRules \/ stepLosslessRoce \/ stepDisableACS \/ EndPass
  PROVE  /\ profile' = profile /\ agent.step \notin {"unbind", "write", "bind", "readback"}
         /\ agent'.step \notin {"write", "bind", "readback"}
         /\ torn => torn'
         /\ made => made' \/ \A v \in VFs : Bare(v)'
         /\ \A v \in VFs : /\ vf[v].bound => vf'[v].bound
                           /\ vf'[v].right \subseteq vf[v].right
                           /\ vf'[v].resets => vf[v].resets
<1>1. profile' = profile /\ agent.step \notin {"unbind", "write", "bind", "readback"}
  BY DEF StartPass, EndPass, stepFabricNetplan, netplanApply, stepSriovNumVFs,
     stepVfGuids, RemoveRules, WriteRules, stepUdevRules, stepLosslessRoce,
     stepDisableACS, InStep, InPass, At
<1>2. torn => torn'
  <2>1. (\E f : Spend(f)) \/ NoFault
    BY DEF StartPass, EndPass, stepFabricNetplan, netplanApply, stepSriovNumVFs,
       stepVfGuids, RemoveRules, WriteRules, stepUdevRules, stepLosslessRoce,
       stepDisableACS
  <2> QED
    BY <2>1, SpendType DEF NoFault
<1>3. agent'.step \notin {"write", "bind", "readback"}
  <2>1. CASE \/ StartPass \/ stepFabricNetplan \/ netplanApply
             \/ stepSriovNumVFs
             \/ stepUdevRules \/ stepLosslessRoce \/ stepDisableACS \/ EndPass
    BY <2>1, EntersElsewhere DEF InLoop, Loop, VFPlaces
  <2>2. CASE stepVfGuids
    <3>1. CASE \E done \in BOOLEAN : Ends(done, "udevRules")
      BY <3>1, EndsType DEF TypeOK, Places, VFPlaces
    <3>2. CASE agent' = [agent EXCEPT !.step = "unbind", !.todo = vfGuidPlan]
      BY <3>2 DEF TypeOK, Passes
    <3> QED
      BY <2>2, <3>1, <3>2, Zenon DEF stepVfGuids
  <2>3. CASE RemoveRules \/ WriteRules
    BY <2>3, RulesDo DEF Proceeds, GaveUp
  <2> QED
    BY <2>1, <2>2, <2>3
<1>4. \A v \in VFs : /\ vf[v].bound => vf'[v].bound
                     /\ vf'[v].right \subseteq vf[v].right
                     /\ vf'[v].resets => vf[v].resets
  <2>1. vf' = vf \/ vf' = BareVFs \/ \E ups \in SUBSET VFs : Triggered(ups)
    BY DEF StartPass, EndPass, stepFabricNetplan, netplanApply, stepSriovNumVFs,
       stepVfGuids, RemoveRules, WriteRules, stepUdevRules, stepLosslessRoce,
       stepDisableACS, host
  <2>2. CASE vf' = vf
    BY <2>2
  <2>3. CASE vf' = BareVFs
    BY <2>3 DEF BareVFs, BareVF
  <2>4. CASE \E ups \in SUBSET VFs : Triggered(ups)
    BY <2>4, TriggeredDoes, TypeParts
  <2> QED
    BY <2>1, <2>2, <2>3, <2>4
<1>5. made => made' \/ \A v \in VFs : Bare(v)'
  <2>1. CASE stepSriovNumVFs
    <3>1. CASE made' = TRUE
      BY <3>1
    <3>2. CASE UNCHANGED made
      BY <3>2
    <3>3. CASE vf' = BareVFs
      <4>1. \A v \in VFs : vf'[v].bound /\ vf'[v].right = {} /\ ~vf'[v].resets
        BY <3>3 DEF BareVFs, BareVF
      <4> QED
        BY <4>1 DEF Bare
    <3> QED
      BY <2>1, <3>1, <3>2, <3>3 DEF stepSriovNumVFs
  <2>2. CASE ~stepSriovNumVFs
    BY <2>2 DEF StartPass, EndPass, stepFabricNetplan, netplanApply,
       stepVfGuids, RemoveRules, WriteRules, stepUdevRules, stepLosslessRoce,
       stepDisableACS, host
  <2> QED
    BY <2>1, <2>2
<1> QED
  BY <1>1, <1>2, <1>3, <1>4, <1>5

\* A torn boot is mended by a boot alone.
LEMMA SpendTears ==
  ASSUME TypeOK, NEW f, Spend(f) \/ NoFault PROVE torn => torn'
BY SpendType

\* Every step keeps the VFs but for the one being bounced.
LEMMA IdentityStep ==
  ASSUME TypeOK, LoopInv, IdentityInv, [Next]_vars PROVE IdentityInv'
<1>1. CASE \/ StartPass \/ stepFabricNetplan \/ netplanApply \/ stepSriovNumVFs
           \/ stepVfGuids \/ RemoveRules \/ WriteRules
           \/ stepUdevRules \/ stepLosslessRoce \/ stepDisableACS \/ EndPass
  <2>1. BoundInv /\ BareInv /\ agent.step \notin {"write", "bind"}
    BY <1>1, OtherSteps DEF IdentityInv
  <2> QED
    BY <1>1, <2>1, OtherSteps, PassKeepsIdentity
<1>2. CASE Unbind
  <2>0. made'
    BY <1>2 DEF Unbind, InVfGuids
  <2>1. /\ agent.step = "unbind" /\ profile' = profile
        /\ torn => torn'
        /\ Current \in VFs /\ Current \in agent.todo
    BY <1>2, UnbindDoes, CurrentType, SpendTears DEF Fixed, At, VFPlaces
  <2>2. CASE GaveUp /\ UNCHANGED vf
    BY <2>0, <2>1, <2>2, PassKeepsIdentity DEF GaveUp, IdentityInv
  <2>3. CASE /\ Proceeds("write") /\ agent'.writes = Writes /\ OthersStay
             /\ vf'[Current].staged = {}
             /\ vf'[Current].right = vf[Current].right
             /\ vf'[Current].resets = vf[Current].resets
    <3>1. /\ Current' = Current /\ Left' = Left /\ Identity' = Identity
          /\ agent'.step = "write"
      BY <2>1, <2>3, IdentityStays DEF Current, Left, Ethernet, Proceeds
    <3>2. StagedInv'
      BY <2>3, <3>1, LeftDoes DEF StagedInv
    <3>3. BoundInv'
      BY <2>1, <2>3, <3>1 DEF IdentityInv, BoundInv, OthersStay, At
    <3> QED
      BY <2>0, <3>2, <3>3, MadeIsNotBare
  <2> QED
    BY <1>2, <2>2, <2>3, UnbindDoes
<1>3. CASE WriteAttr
  <2> DEFINE w == agent.writes
  <2>0. made'
    BY <1>3 DEF WriteAttr, InVfGuids
  <2>1. /\ agent.step = "write" /\ profile' = profile
        /\ torn => torn'
        /\ Current \in VFs /\ ~vf[Current].resets /\ OthersStay
        /\ w \in Left /\ "node" \notin vf[Current].staged
        /\ vf[Current] \in VFStates
    BY <1>3, WriteDoes, CurrentType, SpendTears
       DEF Fixed, At, VFPlaces, IdentityInv, StagedInv
  <2>2. CASE GaveUp /\ vf'[Current] = Bound(vf[Current])
    <3>1. agent'.step = "udevRules" /\ Identity' = Identity
      BY <2>1, <2>2, IdentityStays DEF GaveUp
    <3>2. /\ vf'[Current].bound
          /\ vf'[Current].right \subseteq vf[Current].right
          /\ ~vf'[Current].resets
      BY <2>1, <2>2, BoundDoes
    <3>3. BoundInv'
      BY <2>1, <3>1, <3>2 DEF IdentityInv, BoundInv, OthersStay, At
    <3>4. StagedInv'
      BY <3>1 DEF StagedInv, At
    <3> QED
      BY <2>0, <3>3, <3>4, MadeIsNotBare
  <2>4. CASE GaveUp /\ Spend("bind")
    <3>1. torn'
      BY <2>4, Tears DEF Tearing
    <3> QED
      BY <2>4, <3>1 DEF GaveUp, IdentityInv, StagedInv, BoundInv, BareInv, At
  <2>3. CASE /\ \/ Proceeds("write") /\ Len(w) # 1
                \/ Proceeds("bind") /\ Len(w) = 1
             /\ agent'.writes = Tail(w)
             /\ vf'[Current].bound = vf[Current].bound
             /\ vf'[Current].right = vf[Current].right \cup {Head(w)}
             /\ vf'[Current].staged = vf[Current].staged \cup {Head(w)}
             /\ vf'[Current].resets = (Head(w) = "mac")
    <3>1. /\ Current' = Current /\ Left' = Left /\ Identity' = Identity
          /\ agent'.step \in {"write", "bind"}
      BY <2>1, <2>3, IdentityStays DEF Current, Left, Ethernet, Proceeds
    <3>2. /\ Head(w) \in Identity
          /\ Len(w) # 1 => Tail(w) \in Left /\ Head(w) # "node"
          /\ Len(w) = 1 => Head(w) # "mac"
          /\ Head(w) = "mac" => Tail(w) = <<"node">>
      BY <2>1, LeftDoes
    <3>3. agent'.step = "write" => Len(w) # 1
      BY <2>3 DEF Proceeds
    <3>4. StagedInv'
      BY <2>1, <2>3, <3>1, <3>2, <3>3 DEF StagedInv, At
    <3>5. agent'.step = "bind" => Len(w) = 1
      BY <2>3 DEF Proceeds
    <3>6. /\ vf'[Current].right = vf[Current].right \cup {Head(w)}
          /\ vf'[Current].resets =>
               agent'.step = "write" /\ agent'.writes = <<"node">>
      BY <2>3, <3>1, <3>2, <3>5
    <3>7. BoundInv'
      BY <2>1, <3>1, <3>2, <3>6 DEF IdentityInv, BoundInv, OthersStay, At
    <3> QED
      BY <2>0, <3>4, <3>7, MadeIsNotBare
  <2> QED
    BY <1>3, <2>2, <2>3, <2>4, WriteDoes
<1>4. CASE Bind
  <2>0. made'
    BY <1>4 DEF Bind, InVfGuids
  <2>1. /\ agent.step = "bind" /\ profile' = profile
        /\ torn => torn'
        /\ Current \in VFs /\ ~vf[Current].resets /\ OthersStay
        /\ vf[Current] \in VFStates
    BY <1>4, BindDoes, CurrentType, SpendTears DEF Fixed, At, VFPlaces
  <2>2. CASE GaveUp /\ Spend("bind")
    <3>1. torn'
      BY <2>2, Tears DEF Tearing
    <3> QED
      BY <2>2, <3>1 DEF GaveUp, IdentityInv, StagedInv, BoundInv, BareInv, At
  <2>3. CASE Proceeds("readback") /\ vf'[Current] = Bound(vf[Current])
    <3>1. agent'.step = "readback" /\ Identity' = Identity
      BY <2>1, <2>3, IdentityStays DEF Proceeds
    <3>2. /\ vf'[Current].bound
          /\ vf'[Current].right \subseteq vf[Current].right
          /\ ~vf'[Current].resets
      BY <2>1, <2>3, BoundDoes
    <3>3. BoundInv'
      BY <2>1, <3>1, <3>2 DEF IdentityInv, BoundInv, OthersStay, At
    <3>4. StagedInv'
      BY <3>1 DEF StagedInv, At
    <3> QED
      BY <2>0, <3>3, <3>4, MadeIsNotBare
  <2> QED
    BY <1>4, <2>2, <2>3, BindDoes
<1>5. CASE Readback
  <2>1. /\ agent.step = "readback" /\ profile' = profile /\ vf' = vf /\ torn' = torn
        /\ agent'.step # "write" /\ made' = made
    BY <1>5, ReadbackDoes DEF Fixed, At, NoFault, GaveUp
  <2> QED
    BY <2>1, PassKeepsIdentity DEF IdentityInv
<1>11. CASE Gone
  <2>1. /\ profile' = profile /\ vf' = vf /\ torn' = torn /\ made' = made /\ ~made
        /\ agent'.step = "udevRules"
    BY <1>11, GoneDoes DEF Fixed, NoFault, GaveUp
  <2>2. StagedInv' /\ BareInv'
    BY <2>1 DEF StagedInv, At, IdentityInv, BareInv, Bare
  <2>3. BoundInv'
    <3>1. Identity' = Identity
      BY <2>1, IdentityStays
    <3> QED
      BY <1>11, <2>1, <3>1, GoneDoes DEF IdentityInv, BareInv, Bare, BoundInv,
         LoopInv, InLoop, Loop, VFPlaces
  <2> QED
    BY <2>2, <2>3 DEF IdentityInv
<1>6. CASE Boot \/ Reboot
  BY <1>6, BootDoes DEF IdentityInv, StagedInv, BoundInv, BareInv, Bare, At, idle
<1>7. CASE Restart \/ EditProfile
  <2>1. torn' /\ agent'.step # "write"
    BY <1>7, RestartTears DEF Restart, EditProfile, idle, At
  <2> QED
    BY <2>1 DEF IdentityInv, StagedInv, BoundInv, BareInv, At
<1>8. CASE FirmwareResetsNode
  <2>1. PICK v \in VFs :
          vf' = [vf EXCEPT ![v].resets = FALSE, ![v].right = @ \ {"node"},
                           ![v].staged = @ \ {"node"}]
    BY <1>8 DEF FirmwareResetsNode
  <2>2. \A u \in VFs : /\ vf'[u].bound = vf[u].bound
                       /\ vf'[u].right \subseteq vf[u].right
                       /\ vf'[u].staged \subseteq vf[u].staged
                       /\ vf'[u].resets => vf[u].resets
    BY <2>1 DEF TypeOK, VFStates
  <2>3. UNCHANGED <<profile, torn, agent, made>>
    BY <1>8 DEF FirmwareResetsNode, env
  <2> QED
    BY <2>2, <2>3, WorseKeepsIdentity
<1>9. CASE Drift
  <2>1. /\ agent'.step = agent.step /\ agent'.todo = agent.todo
        /\ agent'.writes = agent.writes
        /\ profile' = profile
        /\ torn => torn'
    BY <1>9, DriftDoes
  <2>2. CASE \A v \in VFs : vf'[v] = BareVF(files)
    <3>1. \A v \in VFs : Bare(v)' /\ vf'[v].staged = {}
      BY <2>2 DEF Bare, BareVF
    <3>2. Left' = Left /\ Current' = Current /\ (At("write") => Current \in VFs)
      BY <2>1, CurrentType, IdentityStays DEF Current, Left, Ethernet, At, VFPlaces
    <3>3. StagedInv'
      BY <2>1, <3>1, <3>2 DEF IdentityInv, StagedInv, At
    <3> QED
      BY <3>1, <3>3 DEF IdentityInv, BoundInv, BareInv, Bare
  <2>3. CASE ~\A v \in VFs : vf'[v] = BareVF(files)
    BY <1>9, <2>1, <2>3, DriftDoes, WorseKeepsIdentity
  <2> QED
    BY <2>2, <2>3
<1>10. CASE Resume \/ UNCHANGED vars
  BY <1>10, WorseKeepsIdentity DEF Resume, vars, env, host
<1> QED
  BY <1>1, <1>2, <1>3, <1>4, <1>5, <1>6, <1>7, <1>8, <1>9, <1>10, <1>11
     DEF Next, Agent, applyVfGuids

\* No VF carries an identity before its first pass, and none is up.
LEMMA NamedInit == Init => NamedInv
<1>1. Init => \A v \in VFs : vf[v].right = {} /\ ~vf[v].up
  BY DEF Init, BareVF
<1>2. (\A v \in VFs : vf[v].right = {}) => \A v \in VFs : Mismatch(v)
  BY NodeIsIdentity DEF Mismatch, Reads
<1>3. Init => ~At("udevRules")
  BY DEF Init, idle, At
<1> QED
  BY <1>1, <1>2, <1>3, RailAssumption
     DEF NamedInv, RulesInv, TriggerInv, NamesInv

\* A VF that has lost its identity: the rules stay.
LEMMA WorseKeepsRules ==
  ASSUME RulesInv, profile' = profile, torn => torn',
         InLoop => InLoop', files'.vf = files.vf,
         \A v \in VFs : /\ vf'[v].bound = vf[v].bound
                        /\ vf'[v].right \subseteq vf[v].right
  PROVE  RulesInv'
<1>1. \A v \in VFs : Mismatch(v) => Mismatch(v)'
  BY IdentityStays DEF Mismatch, Reads
<1>2. Ethernet' = Ethernet
  BY IdentityStays
<1> QED
  BY <1>1, <1>2 DEF RulesInv

\* Where a VF has a wrong identity nothing is said of them,
LEMMA WrongKeepsRules ==
  ASSUME NEW v \in VFs, Mismatch(v)' PROVE RulesInv'
BY DEF RulesInv

\* and a VF without its node GUID has one.
LEMMA BareKeepsRules ==
  ASSUME profile' = profile, NEW v \in VFs, "node" \notin vf'[v].right
  PROVE  RulesInv'
<1>1. "node" \in Identity'
  BY IdentityStays, NodeIsIdentity
<1>2. Mismatch(v)'
  BY <1>1 DEF Mismatch, Reads
<1> QED
  BY <1>2, WrongKeepsRules

\* Every step keeps the rules of VFs that have their identity.
LEMMA RulesStep ==
  ASSUME TypeOK, LoopInv, IdentityInv, RulesInv, [Next]_vars PROVE RulesInv'
<1>0. /\ vf \in [VFs -> VFStates] /\ files \in FileTypes
      /\ agent \in Passes
      /\ agent.step \in VFPlaces => Current \in VFs /\ Current \in agent.todo
      /\ \E v \in VFs : TRUE
  BY CurrentType, RailAssumption DEF TypeOK, FileTypes
<1>1. CASE \/ StartPass \/ stepFabricNetplan \/ netplanApply \/ stepSriovNumVFs
           \/ stepVfGuids \/ stepUdevRules \/ stepLosslessRoce
           \/ stepDisableACS \/ EndPass
  <2>1. profile' = profile /\ (torn => torn')
    BY <1>1, OtherSteps
  <2>2. files'.vf = files.vf /\ ~InLoop
    BY <1>0, <1>1 DEF StartPass, EndPass, stepFabricNetplan, netplanApply,
       stepSriovNumVFs, stepVfGuids, stepUdevRules, stepLosslessRoce,
       stepDisableACS, host, InStep, InPass, FileTypes, InLoop, Loop, VFPlaces,
       At
  <2>3. vf' = vf \/ vf' = BareVFs \/ \E ups \in SUBSET VFs : Triggered(ups)
    BY <1>1 DEF StartPass, EndPass, stepFabricNetplan, netplanApply,
       stepSriovNumVFs, stepVfGuids, stepUdevRules, stepLosslessRoce,
       stepDisableACS, host
  <2>4. CASE vf' = vf
    BY <2>1, <2>2, <2>4, WorseKeepsRules
  <2>5. CASE vf' = BareVFs
    <3>1. \A v \in VFs : "node" \notin vf'[v].right
      BY <2>5 DEF BareVFs, BareVF
    <3> QED
      BY <1>0, <2>1, <3>1, BareKeepsRules
  <2>6. CASE \E ups \in SUBSET VFs : Triggered(ups)
    <3>1. \A v \in VFs : vf'[v].bound = vf[v].bound /\ vf'[v].right = vf[v].right
      BY <2>6, TriggeredDoes, TypeParts
    <3> QED
      BY <2>1, <2>2, <3>1, WorseKeepsRules
  <2> QED
    BY <2>3, <2>4, <2>5, <2>6
<1>2. CASE Gone
  <2>1. InLoop /\ ~made /\ profile' = profile /\ vf' = vf /\ torn' = torn
    BY <1>2, GoneDoes DEF InLoop, Loop, VFPlaces, Fixed, NoFault
  <2>2. CASE torn
    BY <2>1, <2>2 DEF RulesInv
  <2>3. CASE ~torn
    <3>1. \A v \in VFs : "node" \notin vf'[v].right
      BY <2>1, <2>3 DEF LoopInv, IdentityInv, BareInv, Bare
    <3> QED
      BY <1>0, <2>1, <3>1, BareKeepsRules
  <2> QED
    BY <2>2, <2>3
<1>4. CASE Unbind
  <2>1. At("unbind") /\ profile' = profile
    BY <1>4, UnbindDoes DEF Fixed
  <2>2. CASE GaveUp /\ UNCHANGED vf
    <3>1. Current \in VFs /\ Mismatch(Current)
      BY <1>0, <2>1 DEF LoopInv, InLoop, Loop, VFPlaces, At
    <3>2. \A v \in VFs : Mismatch(v)' = Mismatch(v)
      BY <2>1, <2>2, IdentityStays
    <3> QED
      BY <3>1, <3>2, Zenon DEF RulesInv
  <2>3. CASE Proceeds("write")
    BY <2>3 DEF RulesInv, Proceeds, InLoop, Loop, VFPlaces
  <2> QED
    BY <1>4, <2>2, <2>3, UnbindDoes
<1>5. CASE WriteAttr
  <2>1. /\ agent.step = "write" /\ profile' = profile
        /\ Current \in VFs /\ vf[Current] \in VFStates
        /\ "node" \notin vf[Current].staged
    BY <1>0, <1>5, WriteDoes DEF Fixed, At, VFPlaces, IdentityInv, StagedInv
  <2>2. CASE GaveUp /\ vf'[Current] = Bound(vf[Current])
    <3>1. "node" \notin vf'[Current].right
      BY <2>1, <2>2 DEF Bound, VFStates
    <3>2. \E v \in VFs : "node" \notin vf'[v].right
      BY <2>1, <3>1
    <3> QED
      BY <2>1, <3>2, BareKeepsRules
  <2>3. CASE Proceeds("write") \/ Proceeds("bind")
    BY <2>3 DEF RulesInv, Proceeds, InLoop, Loop, VFPlaces
  <2>4. CASE Spend("bind")
    BY <2>4, Tears DEF Tearing, RulesInv
  <2> QED
    BY <1>5, <2>2, <2>3, <2>4, WriteDoes
<1>6. CASE Bind
  <2>1. CASE Spend("bind")
    BY <2>1, Tears DEF Tearing, RulesInv
  <2>2. CASE Proceeds("readback")
    BY <2>2 DEF RulesInv, Proceeds, InLoop, Loop, VFPlaces
  <2> QED
    BY <1>6, <2>1, <2>2, BindDoes
<1>7. CASE Readback
  <2>1. /\ agent.step = "readback" /\ profile' = profile /\ vf' = vf
        /\ Current \in VFs
    BY <1>0, <1>7, ReadbackDoes DEF Fixed, At, VFPlaces
  <2>2. CASE Mismatch(Current)
    <3>1. \E v \in VFs : Mismatch(v)'
      BY <2>1, <2>2, IdentityStays
    <3> QED
      BY <3>1 DEF RulesInv
  <2>3. CASE agent'.step = "removeRules" \/ agent'.step = "unbind"
    BY <2>3 DEF RulesInv, InLoop, Loop, VFPlaces
  <2> QED
    BY <1>7, <2>2, <2>3, ReadbackDoes
<1>8. CASE RemoveRules \/ WriteRules
  <2>1. profile' = profile /\ vf' = vf /\ Ethernet' = Ethernet
    BY <1>8, RulesDo, IdentityStays DEF Fixed
  <2>2. CASE Proceeds("writeRules")
    BY <2>2 DEF RulesInv, Proceeds, InLoop, Loop, VFPlaces
  <2>3. CASE ~Ethernet
    BY <2>1, <2>3 DEF RulesInv
  <2>4. CASE At("writeRules") /\ files'.vf = profile.rail
    BY <2>1, <2>4 DEF RulesInv
  <2>5. CASE Spend("files")
    BY <2>5, Tears DEF Tearing, RulesInv
  <2> QED
    BY <1>8, <2>2, <2>3, <2>4, <2>5, RulesDo
<1>9. CASE Boot \/ Reboot
  <2>1. profile' = profile /\ \A v \in VFs : "node" \notin vf'[v].right
    BY <1>9, BootDoes
  <2> QED
    BY <1>0, <2>1, BareKeepsRules
<1>10. CASE Restart \/ EditProfile
  BY <1>10, RestartTears DEF RulesInv
<1>11. CASE FirmwareResetsNode
  <2>1. PICK v \in VFs :
          vf' = [vf EXCEPT ![v].resets = FALSE, ![v].right = @ \ {"node"},
                           ![v].staged = @ \ {"node"}]
    BY <1>11 DEF FirmwareResetsNode
  <2>2. "node" \notin vf'[v].right
    BY <1>0, <2>1 DEF VFStates
  <2>3. profile' = profile
    BY <1>11 DEF FirmwareResetsNode, env
  <2> QED
    BY <2>2, <2>3, BareKeepsRules
<1>12. CASE Drift
  <2>1. /\ agent'.step = agent.step /\ profile' = profile /\ (torn => torn')
        /\ files' = files
    BY <1>12, DriftDoes
  <2>2. CASE \A v \in VFs : vf'[v] = BareVF(files)
    BY <1>0, <2>1, <2>2, BareKeepsRules DEF BareVF
  <2>3. CASE \A v \in VFs : /\ vf'[v].bound = vf[v].bound
                            /\ vf'[v].right \subseteq vf[v].right
    BY <2>1, <2>3, WorseKeepsRules DEF InLoop
  <2> QED
    BY <1>12, <2>2, <2>3, DriftDoes
<1>13. CASE Resume \/ UNCHANGED vars
  BY <1>13, WorseKeepsRules DEF Resume, vars, env, host, InLoop
<1> QED
  BY <1>1, <1>2, <1>4, <1>5, <1>6, <1>7, <1>8, <1>9, <1>10, <1>11, <1>12,
     <1>13 DEF Next, Agent, applyVfGuids

\* udevRules is reached with the rules written, or with no VF, or vfGuids has
\* given up.
LEMMA TriggerStep ==
  ASSUME TypeOK, LoopInv, RulesInv, TriggerInv, [Next]_vars PROVE TriggerInv'
<1>1. SUFFICES ASSUME ~torn', ~parted', Ethernet', profile'.vfs,
                      agent'.step = "udevRules", made'
               PROVE  files'.vf = profile'.rail
  BY DEF TriggerInv, At
<1>2. CASE Boot \/ Reboot
  BY <1>1, <1>2, BootDoes DEF idle
<1>3. CASE Restart \/ EditProfile
  BY <1>1, <1>3, RestartTears
<1>4. CASE ~(Boot \/ Reboot \/ Restart \/ EditProfile)
  <2>1. ~torn /\ ~parted
    BY <1>1, <1>4, TornBefore, PartedBefore
  <2>2. ASSUME profile' = profile, made' = made, files' = files,
               agent'.step = agent.step
        PROVE  files'.vf = profile'.rail
    BY <1>1, <2>1, <2>2, IdentityStays DEF TriggerInv, At
  <2>3. CASE FirmwareResetsNode \/ Resume \/ UNCHANGED vars
    BY <2>2, <2>3 DEF FirmwareResetsNode, Resume, vars, host, env
  <2>4. CASE Drift
    BY <1>1, <2>2, <2>4, DriftDoes
  <2>5. CASE \/ StartPass \/ stepFabricNetplan \/ netplanApply \/ stepSriovNumVFs
             \/ stepUdevRules \/ stepLosslessRoce \/ stepDisableACS \/ EndPass
    <3>1. /\ \A done \in BOOLEAN : /\ AfterNetplan(done) \in Places
                                  /\ AfterNetplan(done) # "udevRules"
          /\ {"netplanApply", "vfGuids", "losslessRoce", "disableACS", "end"}
               \subseteq Places
          /\ agent \in Passes
      BY DEF AfterNetplan, Places, TypeOK
    <3>2. CASE StartPass \/ EndPass
      <4>1. StartPass => agent'.step = "netplanMTU"
        BY IdleType DEF StartPass, Passes
      <4>2. EndPass => agent'.step = "idle"
        BY DEF EndPass, idle
      <4> QED
        BY <1>1, <3>2, <4>1, <4>2
    <3>3. ASSUME NEW p \in Places, p # "udevRules",
                 Goto(p) \/ \E done \in BOOLEAN : Ends(done, p)
          PROVE  FALSE
      BY <1>1, <3>1, <3>3, EndsType, GotoType
    <3> QED
      BY <2>5, <3>1, <3>2, <3>3
         DEF stepFabricNetplan, netplanApply, stepSriovNumVFs, stepUdevRules,
             stepLosslessRoce, stepDisableACS
  <2>6. CASE stepVfGuids
    <3>1. /\ UNCHANGED <<files, profile, made, vf>> /\ ~InLoop
          /\ Ethernet' = Ethernet
      BY <2>6, IdentityStays DEF stepVfGuids, host, InStep, InPass, InLoop, Loop,
         VFPlaces, At
    <3>2. CASE vfGuidPlan = {}
      <4>1. \A v \in VFs : ~Mismatch(v)
        BY <3>2 DEF vfGuidPlan
      <4> QED
        BY <1>1, <2>1, <3>1, <4>1 DEF RulesInv
    <3>3. CASE vfGuidPlan # {}
      <4>1. agent' = [agent EXCEPT !.step = "unbind", !.todo = vfGuidPlan]
        BY <1>1, <2>6, <3>1, <3>3, Zenon DEF stepVfGuids
      <4>2. agent'.step = "unbind"
        BY <4>1 DEF TypeOK, Passes
      <4> QED
        BY <1>1, <4>2
    <3> QED
      BY <3>2, <3>3
  <2>7. CASE applyVfGuids
    <3>1. ~GaveUp
      BY <1>1 DEF GaveUp
    <3>2. profile' = profile /\ Ethernet' = Ethernet
      BY <2>7, GoneDoes, UnbindDoes, WriteDoes, BindDoes, ReadbackDoes, RulesDo,
         IdentityStays DEF applyVfGuids, Fixed
    <3> QED
      BY <1>1, <2>7, <3>1, <3>2, GoneDoes, UnbindDoes, WriteDoes, BindDoes,
         ReadbackDoes, RulesDo DEF applyVfGuids, Proceeds
  <2> QED
    BY <1>4, <2>3, <2>4, <2>5, <2>6, <2>7 DEF Next, Agent
<1> QED
  BY <1>2, <1>3, <1>4

\* A VF comes up behind a trigger, under the name in the rules, and loses that
\* name only as it goes down.
LEMMA NamesStep ==
  ASSUME TypeOK, IdentityInv, TriggerInv, NamesInv, [Next]_vars
  PROVE  NamesInv'
<1>1. SUFFICES ASSUME ~torn', ~parted', Ethernet', profile'.vfs,
                      NEW v \in VFs, vf'[v].up
               PROVE  vf'[v].name = profile'.rail
  BY DEF NamesInv
<1>0. /\ vf \in [VFs -> VFStates]
      /\ agent.step \in VFPlaces => Current \in VFs
  BY CurrentType DEF TypeOK
<1>2. CASE Boot \/ Reboot
  BY <1>1, <1>2, BootDoes
<1>3. CASE Restart \/ EditProfile
  BY <1>1, <1>3, RestartTears
<1>4. CASE ~(Boot \/ Reboot \/ Restart \/ EditProfile)
  <2>1. ~torn /\ ~parted
    BY <1>1, <1>4, TornBefore, PartedBefore
  <2>2. ASSUME profile' = profile, vf[v].up, vf'[v].name = vf[v].name
        PROVE  vf'[v].name = profile'.rail
    BY <1>1, <2>1, <2>2, IdentityStays DEF NamesInv
  <2>3. CASE \/ StartPass \/ stepFabricNetplan \/ netplanApply \/ stepVfGuids
             \/ stepLosslessRoce \/ stepDisableACS \/ EndPass
             \/ Resume \/ UNCHANGED vars
    <3>1. vf' = vf /\ profile' = profile
      BY <2>3 DEF StartPass, EndPass, stepFabricNetplan, netplanApply, stepVfGuids,
         stepLosslessRoce, stepDisableACS, Resume, vars, host, env, InStep, InPass
    <3> QED
      BY <1>1, <2>2, <3>1
  <2>4. CASE stepSriovNumVFs
    <3>1. profile' = profile /\ (vf' = vf \/ vf' = BareVFs)
      BY <2>4 DEF stepSriovNumVFs, InStep, InPass
    <3> QED
      BY <1>1, <2>2, <3>1 DEF BareVFs, BareVF
  <2>5. CASE FirmwareResetsNode
    <3>1. profile' = profile /\ vf'[v].up = vf[v].up /\ vf'[v].name = vf[v].name
      BY <1>0, <2>5 DEF FirmwareResetsNode, env, VFStates
    <3> QED
      BY <1>1, <2>2, <3>1
  <2>6. CASE Drift
    BY <1>1, <2>2, <2>6, DriftDoes DEF BareVF
  <2>7. CASE applyVfGuids
    <3>1. profile' = profile /\ (v = Current \/ vf'[v] = vf[v] \/ vf' = vf)
      BY <1>1, <2>7, GoneDoes, UnbindDoes, WriteDoes, BindDoes, ReadbackDoes,
         RulesDo DEF applyVfGuids, Fixed, OthersStay
    <3>2. CASE vf'[v] = vf[v]
      BY <1>1, <2>2, <3>1, <3>2
    <3>3. CASE v = Current /\ vf'[v] # vf[v]
      <4>1. CASE Unbind
        BY <1>1, <3>3, <4>1, UnbindDoes
      <4>2. CASE WriteAttr
        BY <1>0, <1>1, <2>2, <3>1, <3>3, <4>2, WriteDoes, BoundDoes
      <4>3. CASE Bind
        <5>1. vf'[v] = Bound(vf[v]) /\ vf[v] \in VFStates
          BY <1>0, <3>3, <4>3, BindDoes
        <5> QED
          BY <1>1, <5>1, BoundDoes
      <4>4. CASE Gone \/ Readback \/ RemoveRules \/ WriteRules
        BY <3>3, <4>4, GoneDoes, ReadbackDoes, RulesDo
      <4> QED
        BY <2>7, <4>1, <4>2, <4>3, <4>4 DEF applyVfGuids
    <3> QED
      BY <3>1, <3>2, <3>3
  <2>8. CASE stepUdevRules
    <3>1. profile' = profile /\ made' = made /\ At("udevRules") /\ Ethernet' = Ethernet
      BY <2>8, IdentityStays DEF stepUdevRules, InStep, InPass
    <3>2. CASE vf[v].up
      <4>1. vf'[v].name = vf[v].name
        BY <2>8, <3>2, TriggeredDoes, TypeParts DEF stepUdevRules
      <4> QED
        BY <2>2, <3>1, <3>2, <4>1
    <3>3. CASE ~vf[v].up
      <4>1. PICK ups \in SUBSET VFs : Triggered(ups)
        BY <1>1, <2>8, <3>3 DEF stepUdevRules
      <4>2. v \in railVFNetdevs
        BY <1>1, <3>3, <4>1, TriggeredDoes, TypeParts
      <4>3. made /\ vf'[v].name = files.vf
        BY <3>3, <4>1, <4>2, TriggeredDoes, TypeParts DEF railVFNetdevs
      <4>4. files.vf = profile.rail
        BY <1>1, <2>1, <3>1, <4>3 DEF TriggerInv
      <4> QED
        BY <3>1, <4>3, <4>4
    <3> QED
      BY <3>2, <3>3
  <2> QED
    BY <1>4, <2>3, <2>4, <2>5, <2>6, <2>7, <2>8 DEF Next, Agent
<1> QED
  BY <1>2, <1>3, <1>4

\* Every step keeps the names with the rules.
LEMMA NamedStep ==
  ASSUME TypeOK, LoopInv, IdentityInv, NamedInv, [Next]_vars PROVE NamedInv'
BY RulesStep, TriggerStep, NamesStep DEF NamedInv

\* A step that ends in a clean pass was Done, in a pass that was clean.
LEMMA CleanEnds ==
  ASSUME TypeOK, NEW done \in BOOLEAN, NEW next \in Places, Ends(done, next),
         agent'.clean, ~agent'.moved
  PROVE  /\ done /\ agent.clean /\ ~agent.moved
         /\ agent'.step = next /\ agent'.todo = {}
<1>1. /\ agent'.step = next /\ agent'.todo = {} /\ agent'.moved = agent.moved
      /\ agent'.clean = (agent.clean /\ done) /\ agent.clean \in BOOLEAN
  BY EndsType DEF TypeOK, Passes
<1> QED
  BY <1>1, Zenon

\* Between passes nothing has been brought about yet.
LEMMA AtRestSoFar ==
  ASSUME agent'.step \in {"idle", "netplanMTU"} PROVE SoFar'
BY DEF SoFar, PolicyWritten, At, InLoop, Loop, VFPlaces, PastNetplan, PastCount, PastIdentity,
   PastNames, PastLossless

\* What has been brought about, at each place.
LEMMA Behind ==
  ASSUME SoFar
  PROVE  /\ InLoop \/ agent.step \in PastCount => Netplanned /\ Counted
         /\ agent.step \in {"sriovNumVFs"} \cup PastCount => Netplanned
         /\ agent.step \in PastIdentity => Identified
         /\ agent.step \in PastNames => Named
         /\ agent.step \in PastLossless => Lossless
         /\ At("end") => NoACS
BY DEF SoFar, InLoop, PastNetplan, PastCount

\* VFs that are bound and of which none has a wrong identity have it whole.
LEMMA IdentityWhole ==
  ASSUME TypeOK, IdentityInv, ~torn, agent.step \notin {"write", "bind"},
         \A v \in VFs : ~Mismatch(v)
  PROVE  \A v \in VFs : vf[v].bound /\ vf[v].right = Identity
BY DEF IdentityInv, BoundInv, Mismatch, Reads

\* netplanMTU and netplan apply bring about the netplan.
LEMMA NetplanPass ==
  ASSUME TypeOK, PFInv, Clean => SoFar, stepFabricNetplan \/ netplanApply,
         Clean'
  PROVE  SoFar'
<1>0. /\ agent \in Passes /\ pf \in PFs /\ files \in FileTypes
      /\ AfterNetplan(TRUE) \in Places /\ "netplanApply" \in Places
      /\ profile' = profile /\ pending' = pending
  BY DEF TypeOK, FileTypes, AfterNetplan, Places, VFPlaces, stepFabricNetplan,
         netplanApply, InStep, InPass
<1>1. /\ agent'.clean /\ ~agent'.moved /\ ~torn'
      /\ ~Spend("netplan")
  BY Tears DEF Clean, Tearing
<1>2. ASSUME files'.netplan = profile.rail, pf'.netplan = profile.rail,
             agent'.step = "sriovNumVFs"
      PROVE  SoFar'
  BY <1>0, <1>2
     DEF SoFar, At, InLoop, Loop, VFPlaces, PastNetplan, PastCount,
         PastIdentity, PastNames, PastLossless, Netplanned, PolicyWritten
<1>3. ASSUME files'.netplan = profile.rail, agent'.step = "netplanApply"
      PROVE  SoFar'
  BY <1>0, <1>3
     DEF SoFar, At, InLoop, Loop, VFPlaces, PastNetplan, PastCount,
         PastIdentity, PastNames, PastLossless, PolicyWritten
<1>4. ASSUME pending, agent'.step = AfterNetplan(TRUE) PROVE SoFar'
  BY <1>4, AtRestSoFar DEF AfterNetplan
<1>5. CASE stepFabricNetplan
  <2>1. /\ files'.netplan = profile.rail /\ pf' = pf
        /\ At("netplanMTU") /\ NoFault
    BY <1>0, <1>1, <1>5 DEF stepFabricNetplan, FileTypes
  <2>2. CASE Goto("netplanApply")
    BY <1>0, <1>3, <2>1, <2>2, GotoType
  <2>3. CASE /\ Ends(TRUE, AfterNetplan(TRUE))
             /\ files.netplan = profile.rail \/ pending
    <3>1. agent'.step = AfterNetplan(TRUE)
      BY <1>0, <1>1, <2>3, CleanEnds
    <3>2. CASE pending
      BY <1>4, <3>1, <3>2
    <3>3. CASE ~pending
      <4>1. pf.netplan = files.netplan
        BY <1>1, <2>1, <3>3 DEF PFInv, NetplanInv, NoFault, At
      <4> QED
        BY <1>2, <2>1, <2>3, <3>1, <3>3, <4>1 DEF AfterNetplan
    <3> QED
      BY <3>2, <3>3
  <2> QED
    BY <1>1, <1>5, <2>2, <2>3 DEF stepFabricNetplan
<1>6. CASE netplanApply
  <2>2. CASE /\ pf' = [pf EXCEPT !.netplan = files.netplan]
             /\ Ends(TRUE, AfterNetplan(TRUE)) /\ NoFault
    <3>1. /\ agent.clean /\ ~agent.moved /\ agent'.step = AfterNetplan(TRUE)
      BY <1>0, <1>1, <2>2, CleanEnds
    <3>2. files' = files /\ At("netplanApply")
      BY <1>6 DEF netplanApply
    <3>3. files.netplan = profile.rail
      BY <1>1, <2>2, <3>1, <3>2 DEF Clean, NoFault, SoFar
    <3>4. pf'.netplan = profile.rail
      BY <1>0, <2>2, <3>3 DEF PFs
    <3> QED
      BY <1>2, <1>4, <3>1, <3>2, <3>3, <3>4 DEF AfterNetplan
  <2> QED
    BY <1>1, <1>6, <2>2 DEF netplanApply
<1> QED
  BY <1>5, <1>6

\* sriovNumVFs brings about the VFs and their eswitch.
LEMMA CountPass ==
  ASSUME TypeOK, PFInv, Clean => SoFar, stepSriovNumVFs, Clean'
  PROVE  SoFar'
<1>0. /\ agent \in Passes /\ pf \in PFs /\ "vfGuids" \in Places
      /\ profile' = profile /\ files' = files /\ At("sriovNumVFs")
  BY DEF TypeOK, Places, VFPlaces, stepSriovNumVFs, InStep, InPass
<1>1. agent'.clean /\ ~agent'.moved /\ ~torn'
  BY DEF Clean
<1>2. ~Ends(FALSE, "vfGuids")
  BY <1>0, <1>1, CleanEnds
<1>3. /\ pf' = [pf EXCEPT !.eswitch =
                  IF switchdevFlip /\ pf.eswitch = "legacy" THEN "switchdev"
                  ELSE @]
      /\ made' = TRUE /\ Ends(TRUE, "vfGuids") /\ NoFault
  BY <1>2 DEF stepSriovNumVFs
<1>4. agent.clean /\ ~agent.moved /\ ~torn /\ agent'.step = "vfGuids"
  BY <1>0, <1>1, <1>3, CleanEnds DEF NoFault
<1>5. Netplanned /\ (pf.eswitch = "switchdev" => switchdevFlip)
  BY <1>0, <1>4 DEF Clean, SoFar, At, PastNetplan, PFInv, EswitchInv
<1>6. profile.eswitch \in {"legacy", "switchdev"}
  BY RailAssumption DEF TypeOK
<1>7. pf'.netplan = pf.netplan /\ (profile.vfs => pf'.eswitch = profile.eswitch)
  BY <1>0, <1>3, <1>5, <1>6 DEF PFs, switchdevFlip
<1> QED
  BY <1>0, <1>3, <1>4, <1>5, <1>7
     DEF SoFar, At, InLoop, Loop, VFPlaces, PastNetplan, PastCount,
         PastIdentity, PastNames, PastLossless, Netplanned, Counted,
         PolicyWritten

\* What a bounce leaves of what is behind it.
LEMMA StillCounted ==
  ASSUME Netplanned, Counted, profile' = profile, pf' = pf, made' = made,
         files'.netplan = files.netplan
  PROVE  Netplanned' /\ Counted'
BY DEF Netplanned, Counted

\* vfGuids is behind the pass.
LEMMA EndsIdentified ==
  ASSUME Netplanned', Counted', Identified', agent'.step = "udevRules"
  PROVE  SoFar'
BY DEF SoFar, At, InLoop, Loop, VFPlaces, PastNames, PastLossless, PolicyWritten

\* A bounce goes on.
LEMMA LoopsOn ==
  ASSUME Netplanned', Counted', PolicyWritten', agent'.step \in Loop,
         \A v \in VFs : \/ ~Mismatch(v)'
                        \/ v \in agent'.todo /\ agent'.step \in VFPlaces
  PROVE  SoFar'
BY DEF SoFar, At, InLoop, Loop, VFPlaces, PastIdentity, PastNames, PastLossless

\* vfGuids finds the identities right, or begins with those that are not.
LEMMA PlanPass ==
  ASSUME TypeOK, IdentityInv, NamedInv, Clean => SoFar, stepVfGuids, Clean'
  PROVE  SoFar'
<1>0. /\ agent \in Passes /\ "udevRules" \in Places
      /\ profile' = profile /\ UNCHANGED <<files, pf, made, vf>>
      /\ At("vfGuids") /\ torn' = torn
  BY DEF TypeOK, Places, VFPlaces, stepVfGuids, InStep, InPass, host, NoFault
<1>1. agent'.clean /\ ~agent'.moved /\ ~torn'
  BY DEF Clean
<1>2. ~Ends(FALSE, "udevRules")
  BY <1>0, <1>1, CleanEnds
<1>3. ASSUME agent.clean, ~agent.moved PROVE Netplanned' /\ Counted'
  <2>1. Netplanned /\ Counted
    BY <1>0, <1>1, <1>3 DEF Clean, SoFar, At, PastNetplan, PastCount
  <2> QED
    BY <1>0, <2>1, StillCounted
<1>4. CASE Ends(TRUE, "udevRules")
  <2>1. agent.clean /\ ~agent.moved /\ agent'.step = "udevRules"
    BY <1>0, <1>1, <1>4, CleanEnds
  <2>2. Identified'
    <3>1. CASE ~profile.vfs
      BY <1>0, <3>1 DEF Identified
    <3>2. CASE profile.vfs
      <4>1. CASE vfGuidPlan = {}
        <5>1. \A v \in VFs : ~Mismatch(v)
          BY <4>1 DEF vfGuidPlan
        <5>2. \A v \in VFs : vf[v].bound /\ vf[v].right = Identity
          BY <1>0, <1>1, <5>1, IdentityWhole DEF At
        <5>3. Ethernet => files.vf = profile.rail
          BY <1>0, <1>1, <3>2, <5>1
             DEF NamedInv, RulesInv, InLoop, Loop, VFPlaces, At
        <5> QED
          BY <1>0, <5>2, <5>3, IdentityStays DEF Identified
      <4>2. CASE vfGuidPlan # {}
        <5>1. agent' = [agent EXCEPT !.step = "unbind", !.todo = vfGuidPlan]
          BY <1>2, <3>2, <4>2, Zenon DEF stepVfGuids
        <5>2. agent'.step = "unbind"
          BY <1>0, <5>1 DEF Passes
        <5> QED
          BY <2>1, <5>2
      <4> QED
        BY <4>1, <4>2
    <3> QED
      BY <3>1, <3>2
  <2> QED
    BY <1>3, <2>1, <2>2, EndsIdentified
<1>5. CASE agent' = [agent EXCEPT !.step = "unbind", !.todo = vfGuidPlan]
  <2>1. /\ agent'.step = "unbind" /\ agent'.todo = vfGuidPlan
        /\ agent'.clean = agent.clean /\ agent'.moved = agent.moved
    BY <1>0, <1>5 DEF Passes
  <2>2. \A v \in VFs : ~Mismatch(v)' \/ v \in agent'.todo
    BY <1>0, <2>1, IdentityStays DEF vfGuidPlan
  <2>3. PolicyWritten'
    BY <2>1 DEF PolicyWritten
  <2> QED
    BY <1>1, <1>3, <2>1, <2>2, <2>3, LoopsOn DEF Loop, VFPlaces
<1> QED
  BY <1>2, <1>4, <1>5 DEF stepVfGuids

\* A VF that reads back right has its identity whole, its policy with it.
LEMMA ReadsWhole ==
  ASSUME PolicyWritten, At("readback"), ReadsBack(Current) PROVE ~Mismatch(Current)
<1>1. CASE Ethernet
  BY <1>1, IdentityIs DEF ReadsBack, Mismatch
<1>2. CASE ~Ethernet
  <2>1. "policy" \in Reads(Current)
    BY <1>2 DEF PolicyWritten, Reads, At
  <2> QED
    BY <2>1 DEF ReadsBack, Mismatch
<1> QED
  BY <1>1, <1>2

\* The policy is written just before the node GUID.
LEMMA PolicyStep ==
  ASSUME TypeOK, IdentityInv, PolicyWritten, applyVfGuids, ~GaveUp
  PROVE  PolicyWritten'
<1>0. /\ vf \in [VFs -> VFStates]
      /\ agent.step \in VFPlaces => Current \in VFs
  BY CurrentType DEF TypeOK
<1>1. CASE Unbind
  <2>1. agent'.step = "write" /\ agent'.writes = Writes /\ Ethernet' = Ethernet
    BY <1>1, UnbindDoes, IdentityStays DEF Proceeds, Fixed
  <2>2. ~Ethernet => Writes # <<"node">>
    BY IdentityIs
  <2> QED
    BY <2>1, <2>2 DEF PolicyWritten, At
<1>2. CASE WriteAttr
  <2> DEFINE w == agent.writes
  <2>1. /\ At("write") /\ w \in Left /\ Ethernet' = Ethernet
        /\ \/ agent'.step = "write" /\ Len(w) # 1
           \/ agent'.step = "bind" /\ Len(w) = 1
        /\ agent'.todo = agent.todo /\ agent'.writes = Tail(w)
        /\ vf'[Current].right = vf[Current].right \cup {Head(w)}
    BY <1>2, WriteDoes, IdentityStays
       DEF Proceeds, Fixed, IdentityInv, StagedInv
  <2>2. Current' = Current
    BY <2>1 DEF Current
  <2>3. SUFFICES ASSUME ~Ethernet, ~(w = <<"node">>),
                        agent'.step = "write" => Tail(w) = <<"node">>
                 PROVE  "policy" \in vf[Current].right \cup {Head(w)}
    BY <2>1, <2>2 DEF PolicyWritten, At
  <2>4. CASE w = <<"port", "policy", "node">>
    <3>1. Len(w) # 1 /\ Tail(w) = <<"policy", "node">>
      BY <2>4
    <3>2. <<"policy", "node">> # <<"node">>
      OBVIOUS
    <3> QED
      BY <2>1, <2>3, <3>1, <3>2
  <2>5. CASE w = <<"policy", "node">>
    BY <2>5
  <2> QED
    BY <2>1, <2>3, <2>4, <2>5 DEF Left
<1>3. CASE Bind
  <2>1. /\ At("bind") /\ Ethernet' = Ethernet /\ agent'.step = "readback"
        /\ agent'.todo = agent.todo /\ vf'[Current] = Bound(vf[Current])
        /\ Current \in VFs /\ vf[Current] \in VFStates
    BY <1>0, <1>3, BindDoes, IdentityStays DEF Proceeds, Fixed, At, VFPlaces
  <2>2. Current' = Current
    BY <2>1 DEF Current
  <2>3. "policy" \in vf[Current].right => "policy" \in vf'[Current].right
    BY <2>1 DEF Bound, VFStates
  <2> QED
    BY <2>1, <2>2, <2>3 DEF PolicyWritten, At
<1>4. CASE Gone \/ Readback \/ RemoveRules \/ WriteRules
  <2>1. agent'.step \in {"removeRules", "unbind", "writeRules", "udevRules"}
    BY <1>4, GoneDoes, ReadbackDoes, RulesDo DEF Proceeds, GaveUp
  <2> QED
    BY <2>1 DEF PolicyWritten
<1> QED
  BY <1>1, <1>2, <1>3, <1>4 DEF applyVfGuids

\* The bounce of the VFs brings about their identities.
LEMMA BouncePass ==
  ASSUME TypeOK, LoopInv, IdentityInv, Clean => SoFar, applyVfGuids, Clean'
  PROVE  SoFar'
<1>0. agent'.clean /\ ~agent'.moved /\ ~torn'
  BY DEF Clean
<1>1. /\ Fixed /\ files'.netplan = files.netplan /\ ~GaveUp /\ InLoop
      /\ agent.step \in VFPlaces => Current \in VFs /\ Current \in agent.todo
  <2>1. applyVfGuids => InLoop
    BY DEF applyVfGuids, Gone, Unbind, WriteAttr, Bind, Readback, RemoveRules,
           WriteRules, At, InLoop, Loop, VFPlaces
  <2> QED
    BY <1>0, <2>1, GoneDoes, UnbindDoes, WriteDoes, BindDoes, ReadbackDoes,
       RulesDo, CurrentType DEF applyVfGuids, GaveUp
<1>2. profile.vfs
  BY <1>1 DEF LoopInv
<1>3. ASSUME agent'.clean = agent.clean, agent'.moved = agent.moved,
             torn' = torn
      PROVE  /\ Netplanned' /\ Counted' /\ ~torn
             /\ PolicyWritten /\ PolicyWritten'
             /\ \A v \in VFs : \/ ~Mismatch(v)
                               \/ v \in agent.todo /\ agent.step \in VFPlaces
  <2>1. SoFar /\ ~torn /\ PolicyWritten
    BY <1>0, <1>3 DEF Clean, SoFar
  <2>2. Netplanned /\ Counted
    BY <1>1, <2>1, Behind
  <2>3. PolicyWritten'
    BY <1>1, <2>1, PolicyStep
  <2> QED
    BY <1>1, <2>1, <2>2, <2>3, StillCounted DEF SoFar, Fixed
<1>4. ASSUME Proceeds("write") \/ Proceeds("bind") \/ Proceeds("readback"),
             agent.step \in VFPlaces, OthersStay, NoFault
      PROVE  SoFar'
  <2>1. /\ agent'.clean = agent.clean /\ agent'.moved = agent.moved
        /\ torn' = torn /\ agent'.todo = agent.todo
        /\ agent'.step \in VFPlaces /\ agent'.step \in Loop
    BY <1>4 DEF Proceeds, NoFault, VFPlaces, Loop
  <2>2. \A v \in VFs : ~Mismatch(v)' \/ v \in agent'.todo
    BY <1>1, <1>3, <1>4, <2>1, IdentityStays DEF OthersStay, Fixed
  <2> QED
    BY <1>3, <2>1, <2>2, LoopsOn
<1>5. CASE Unbind
  BY <1>1, <1>4, <1>5, UnbindDoes DEF At, VFPlaces
<1>6. CASE WriteAttr
  BY <1>1, <1>4, <1>6, WriteDoes DEF At, VFPlaces
<1>7. CASE Bind
  BY <1>1, <1>4, <1>7, BindDoes DEF At, VFPlaces
<1>8. CASE Readback
  <2>1. /\ agent'.clean = agent.clean /\ agent'.moved = agent.moved
        /\ torn' = torn /\ vf' = vf /\ At("readback") /\ ReadsBack(Current)
        /\ agent'.todo = agent.todo \ {Current}
        /\ agent'.step = IF agent'.todo = {} THEN "removeRules" ELSE "unbind"
    BY <1>1, <1>8, ReadbackDoes DEF NoFault
  <2>2. ~Mismatch(Current)
    BY <1>3, <2>1, ReadsWhole
  <2>3. \A v \in VFs : ~Mismatch(v)' \/ v \in agent'.todo
    BY <1>1, <1>3, <2>1, <2>2, IdentityStays DEF Fixed
  <2> QED
    BY <1>3, <2>1, <2>3, LoopsOn DEF Loop, VFPlaces
<1>10. CASE Gone
  BY <1>1, <1>10, GoneDoes
<1>9. CASE RemoveRules \/ WriteRules
  <2>1. /\ vf' = vf /\ profile' = profile /\ agent.step \notin VFPlaces
        /\ agent.step \notin {"write", "bind"}
    BY <1>9, RulesDo DEF Fixed, At, VFPlaces
  <2>2. /\ agent'.clean = agent.clean /\ agent'.moved = agent.moved
        /\ torn' = torn
        /\ \/ Ethernet /\ Proceeds("writeRules")
           \/ agent'.step = "udevRules" /\ (~Ethernet \/ files'.vf = profile.rail)
    BY <1>1, <1>9, RulesDo DEF Proceeds, NoFault
  <2>3. \A v \in VFs : ~Mismatch(v) /\ ~Mismatch(v)'
    BY <1>3, <2>1, <2>2, IdentityStays
  <2>4. CASE Proceeds("writeRules")
    BY <1>3, <2>2, <2>3, <2>4, LoopsOn DEF Proceeds, Loop
  <2>5. CASE agent'.step = "udevRules" /\ (~Ethernet \/ files'.vf = profile.rail)
    <3>1. \A v \in VFs : vf[v].bound /\ vf[v].right = Identity
      BY <1>3, <2>1, <2>2, <2>3, IdentityWhole
    <3>2. Identified'
      BY <2>1, <2>5, <3>1, IdentityStays DEF Identified
    <3> QED
      BY <1>3, <2>2, <2>5, <3>2, EndsIdentified
  <2> QED
    BY <2>2, <2>4, <2>5
<1> QED
  BY <1>5, <1>6, <1>7, <1>8, <1>9, <1>10 DEF applyVfGuids

\* udevRules brings about the names.
LEMMA UdevPass ==
  ASSUME TypeOK, Clean => SoFar, stepUdevRules, Clean'
  PROVE  SoFar'
<1>0. /\ agent \in Passes /\ pf \in PFs /\ files \in FileTypes
      /\ vf \in [VFs -> VFStates] /\ "losslessRoce" \in Places
      /\ profile' = profile /\ made' = made /\ At("udevRules")
  BY DEF TypeOK, FileTypes, Places, VFPlaces, stepUdevRules, InStep, InPass
<1>1. agent'.clean /\ ~agent'.moved /\ ~torn'
  BY DEF Clean
<1>2. ~Ends(FALSE, "losslessRoce")
  BY <1>0, <1>1, CleanEnds
<1>3. Ends(TRUE, "losslessRoce") /\ NoFault
  BY <1>2 DEF stepUdevRules
<1>4. agent.clean /\ ~agent.moved /\ ~torn /\ agent'.step = "losslessRoce"
  BY <1>0, <1>1, <1>3, CleanEnds DEF NoFault
<1>5. Netplanned /\ Counted /\ Identified
  BY <1>0, <1>4, Behind DEF Clean, At, PastCount, PastIdentity
<1>6. ASSUME Netplanned', Counted', Identified', Named' PROVE SoFar'
  BY <1>4, <1>6
     DEF SoFar, At, InLoop, Loop, VFPlaces, PastLossless, PolicyWritten
<1>7. CASE (~Ethernet \/ udevCurrent) /\ UNCHANGED <<files, pf, vf>>
  <2>1. Netplanned' /\ Counted' /\ Identified'
    BY <1>0, <1>5, <1>7, StillCounted, IdentityStays DEF Identified
  <2>2. ASSUME Ethernet, udevCurrent, profile.vfs
        PROVE  \A v \in VFs : vf[v].up
    BY <1>5, <2>2 DEF Counted, Identified, udevCurrent, railVFNetdevs
  <2>3. Named
    BY <1>7, <2>2 DEF Named, udevCurrent
  <2>4. Named'
    BY <1>0, <1>7, <2>3, IdentityStays DEF Named
  <2> QED
    BY <1>6, <2>1, <2>4
<1>8. CASE /\ files' = [files EXCEPT !.pf = profile.rail]
           /\ pf' = [pf EXCEPT !.name = profile.rail, !.up = TRUE]
           /\ Triggered(VFs)
  <2>1. /\ files'.pf = profile.rail /\ files'.netplan = files.netplan
        /\ files'.vf = files.vf
        /\ pf'.name = profile.rail /\ pf'.up /\ pf'.netplan = pf.netplan
        /\ pf'.eswitch = pf.eswitch
    BY <1>0, <1>8 DEF FileTypes, PFs
  <2>2. profile.vfs => \A v \in VFs : v \in railVFNetdevs
    BY <1>5 DEF railVFNetdevs, Counted, Identified
  <2>3. profile.vfs =>
          \A v \in VFs : /\ vf'[v].up
                         /\ vf'[v].bound = vf[v].bound
                         /\ vf'[v].right = vf[v].right
    BY <1>8, <2>2, TriggeredDoes, TypeParts
  <2>4. Netplanned' /\ Counted'
    BY <1>0, <1>5, <2>1 DEF Netplanned, Counted
  <2>5. Identified'
    BY <1>0, <1>5, <2>1, <2>3, IdentityStays DEF Identified
  <2>6. Named'
    BY <1>0, <1>5, <2>1, <2>3, IdentityStays DEF Identified, Named
  <2> QED
    BY <1>6, <2>4, <2>5, <2>6
<1> QED
  BY <1>2, <1>7, <1>8 DEF stepUdevRules

\* The last two steps see to a setting of the PF each.
LEMMA LastPass ==
  ASSUME TypeOK, Clean => SoFar, stepLosslessRoce \/ stepDisableACS, Clean'
  PROVE  SoFar'
<1>0. /\ agent \in Passes /\ pf \in PFs
      /\ "disableACS" \in Places /\ "end" \in Places
      /\ UNCHANGED <<profile, files, made, vf>>
  BY DEF TypeOK, Places, VFPlaces, stepLosslessRoce, stepDisableACS, InStep, InPass
<1>1. agent'.clean /\ ~agent'.moved /\ ~torn'
  BY DEF Clean
<1>2. ~Ends(FALSE, "disableACS") /\ ~Ends(FALSE, "end")
  BY <1>0, <1>1, CleanEnds
<1>3. ASSUME agent.clean, ~agent.moved, ~torn,
             agent.step \in PastNames, agent'.step \in PastLossless,
             pf'.netplan = pf.netplan, pf'.eswitch = pf.eswitch,
             pf'.name = pf.name, pf'.up = pf.up,
             Lossless', agent'.step = "end" => NoACS'
      PROVE  SoFar'
  <2>1. Netplanned /\ Counted /\ Identified /\ Named
    BY <1>3, Behind DEF Clean, PastCount, PastIdentity
  <2>2. Netplanned' /\ Counted' /\ Identified' /\ Named'
    BY <1>0, <1>3, <2>1, IdentityStays
       DEF Netplanned, Counted, Identified, Named
  <2> QED
    BY <1>3, <2>2
       DEF SoFar, At, InLoop, Loop, VFPlaces, PastLossless, PolicyWritten
<1>4. CASE stepLosslessRoce
  <2>1. /\ pf' = [pf EXCEPT !.lossless = RoCE \/ @]
        /\ Ends(TRUE, "disableACS") /\ NoFault /\ At("losslessRoce")
    BY <1>2, <1>4 DEF stepLosslessRoce
  <2>2. agent.clean /\ ~agent.moved /\ ~torn /\ agent'.step = "disableACS"
    BY <1>0, <1>1, <2>1, CleanEnds DEF NoFault
  <2>3. /\ pf'.netplan = pf.netplan /\ pf'.eswitch = pf.eswitch
        /\ pf'.name = pf.name /\ pf'.up = pf.up
        /\ RoCE => pf'.lossless
    BY <1>0, <2>1 DEF PFs
  <2>4. Lossless'
    BY <1>0, <2>3, IdentityStays DEF Lossless, RoCE
  <2> QED
    BY <1>3, <2>1, <2>2, <2>3, <2>4 DEF At, PastNames, PastLossless
<1>5. CASE stepDisableACS
  <2>1. /\ pf' = [pf EXCEPT !.acs = @ /\ profile.vfs]
        /\ Ends(TRUE, "end") /\ NoFault /\ At("disableACS")
    BY <1>2, <1>5 DEF stepDisableACS
  <2>2. agent.clean /\ ~agent.moved /\ ~torn /\ agent'.step = "end"
    BY <1>0, <1>1, <2>1, CleanEnds DEF NoFault
  <2>3. /\ pf'.netplan = pf.netplan /\ pf'.eswitch = pf.eswitch
        /\ pf'.name = pf.name /\ pf'.up = pf.up
        /\ pf'.lossless = pf.lossless
        /\ ~profile.vfs => ~pf'.acs
    BY <1>0, <2>1 DEF PFs
  <2>4. Lossless
    BY <2>1, <2>2, Behind DEF At, PastLossless, Clean
  <2>5. Lossless' /\ NoACS'
    BY <1>0, <2>3, <2>4, IdentityStays DEF Lossless, RoCE, NoACS
  <2> QED
    BY <1>3, <2>1, <2>2, <2>3, <2>5 DEF At, PastNames, PastLossless
<1> QED
  BY <1>4, <1>5

\* The first pass has not begun.
LEMMA PassInit == Init => PassInv
BY DEF Init, idle, PassInv, Clean

\* Every step of a clean pass adds what it is for.
LEMMA PassStep ==
  ASSUME TypeOK, LoopInv, PFInv, IdentityInv, NamedInv, PassInv, [Next]_vars
  PROVE  PassInv'
<1>1. SUFFICES ASSUME Clean' PROVE SoFar'
  BY DEF PassInv
<1>2. Clean => SoFar
  BY DEF PassInv
<1>3. CASE StartPass \/ EndPass
  <2>1. StartPass => agent'.step = "netplanMTU"
    BY IdleType DEF StartPass, Passes
  <2>2. EndPass => agent'.step = "idle"
    BY DEF EndPass, idle
  <2> QED
    BY <1>3, <2>1, <2>2, AtRestSoFar
<1>4. CASE Boot \/ Reboot
  BY <1>4, BootDoes, AtRestSoFar DEF idle
<1>5. CASE Restart \/ EditProfile
  BY <1>1, <1>5, RestartTears DEF Clean
<1>6. CASE Drift
  BY <1>1, <1>6, DriftDoes DEF Clean
<1>7. CASE FirmwareResetsNode
  <2>1. PICK v \in VFs :
          /\ vf[v].resets
          /\ vf' = [vf EXCEPT ![v].resets = FALSE, ![v].right = @ \ {"node"},
                              ![v].staged = @ \ {"node"}]
    BY <1>7 DEF FirmwareResetsNode
  <2>2. UNCHANGED <<profile, torn, agent, files, pf, made>>
    BY <1>7 DEF FirmwareResetsNode, env
  <2>3. Clean /\ SoFar /\ ~torn
    BY <1>1, <1>2, <2>2 DEF Clean
  <2>4. agent.step = "write" /\ v \in agent.todo
    BY <2>1, <2>3, CurrentType DEF IdentityInv, BoundInv, At, VFPlaces
  <2>5. Netplanned' /\ Counted'
    BY <2>2, <2>3, <2>4, Behind, StillCounted DEF InLoop, Loop, VFPlaces
  <2>6. \A u \in VFs : ~Mismatch(u)' \/ (u \in agent'.todo /\ agent'.step \in VFPlaces)
    <3>1. \A u \in VFs \ {v} : vf'[u] = vf[u]
      BY <2>1 DEF TypeOK
    <3>2. \A u \in VFs :
            ~Mismatch(u) \/ (u \in agent.todo /\ agent.step \in VFPlaces)
      BY <2>3, <2>4 DEF SoFar, InLoop, Loop, VFPlaces
    <3>3. agent.step \in VFPlaces
      BY <2>4 DEF VFPlaces
    <3> QED
      BY <2>2, <2>4, <3>1, <3>2, <3>3, IdentityStays
  <2>7. PolicyWritten'
    <3>1. PolicyWritten /\ Current' = Current /\ Ethernet' = Ethernet
      BY <2>2, <2>3, IdentityStays DEF SoFar, Current
    <3>2. /\ agent.step \in VFPlaces => Current \in VFs
          /\ vf \in [VFs -> VFStates]
      BY CurrentType DEF TypeOK
    <3>3. \A u \in VFs : "policy" \in vf[u].right => "policy" \in vf'[u].right
      BY <2>1, <3>2 DEF VFStates
    <3> QED
      BY <2>2, <2>4, <3>1, <3>2, <3>3 DEF PolicyWritten, At, VFPlaces
  <2> QED
    BY <2>2, <2>4, <2>5, <2>6, <2>7, LoopsOn DEF Loop, VFPlaces
<1>8. CASE Resume \/ UNCHANGED vars
  <2>1. UNCHANGED <<profile, torn, agent, files, pf, made, vf>>
    BY <1>8 DEF Resume, vars, env, host
  <2>2. SoFar
    BY <1>1, <1>2, <2>1 DEF Clean
  <2>3. Identity' = Identity /\ \A v \in VFs : Mismatch(v)' = Mismatch(v)
    BY <2>1, IdentityStays
  <2>4. PolicyWritten' = PolicyWritten
    BY <2>1 DEF PolicyWritten, Ethernet, Current, At
  <2> QED
    BY <2>1, <2>2, <2>3, <2>4
       DEF SoFar, InLoop, At, Netplanned, Counted, Identified, Named, Lossless,
           RoCE, NoACS, Ethernet
<1> QED
  BY <1>1, <1>2, <1>3, <1>4, <1>5, <1>6, <1>7, <1>8,
     NetplanPass, CountPass, PlanPass, BouncePass, UdevPass, LastPass
     DEF Next, Agent

\* A pass that has ended clean has left a rail that serves.
VerifiedInv == verified /\ ~torn => Serves

\* A clean pass verifies a rail that serves, and nothing undoes that.
LEMMA VerifiedStep ==
  ASSUME TypeOK, LoopInv, IdentityInv, PassInv, VerifiedInv, [Next]_vars
  PROVE  VerifiedInv'
<1>1. SUFFICES ASSUME verified', ~torn' PROVE Serves'
  BY DEF VerifiedInv
<1>2. CASE Boot \/ Reboot
  BY <1>1, <1>2, BootDoes
<1>3. CASE Drift \/ Restart \/ EditProfile
  BY <1>1, <1>3, RestartTears, DriftDoes
<1>4. CASE EndPass
  <2>1. /\ UNCHANGED <<files, pf, made, vf, profile>> /\ ~torn
        /\ agent.clean /\ ~agent.moved /\ At("end")
    BY <1>1, <1>4 DEF EndPass, host, NoFault
  <2>2. /\ Netplanned /\ Counted /\ Identified /\ Named /\ Lossless /\ NoACS
    BY <2>1, Behind
       DEF PassInv, Clean, At, PastCount, PastIdentity, PastNames, PastLossless
  <2>3. Serves
    BY <2>2 DEF Serves, Netplanned, Counted, Identified, Named, Lossless, NoACS
  <2> QED
    BY <2>1, <2>3, SameServes
<1>5. ASSUME verified' = verified, ~Boot, ~Reboot PROVE Serves
  BY <1>1, <1>5, TornBefore DEF VerifiedInv
<1>6. CASE Agent /\ ~EndPass /\ ~Boot /\ ~Reboot
  <2>1. verified' = verified
    BY <1>6 DEF Agent, StartPass, stepFabricNetplan, netplanApply,
       stepSriovNumVFs, stepVfGuids, applyVfGuids, Unbind, WriteAttr, Bind,
       Readback, RemoveRules, WriteRules, stepUdevRules, stepLosslessRoce,
       stepDisableACS, Gone, InStep, InPass, InVfGuids
  <2> QED
    BY <1>5, <1>6, <2>1, ServingStep
<1>7. CASE FirmwareResetsNode /\ ~Boot /\ ~Reboot
  <2>1. PICK v \in VFs : vf[v].resets
    BY <1>7 DEF FirmwareResetsNode
  <2>2. verified' = verified /\ torn' = torn
    BY <1>7 DEF FirmwareResetsNode, env
  <2>3. agent.step = "write"
    BY <1>1, <2>1, <2>2 DEF IdentityInv, BoundInv, At
  <2> QED
    BY <1>5, <1>7, <2>2, <2>3, ServingAgent
<1>8. CASE (Resume \/ UNCHANGED vars) /\ ~Boot /\ ~Reboot
  BY <1>5, <1>8, SameServes DEF Resume, vars, env, host
<1> QED
  BY <1>2, <1>3, <1>4, <1>6, <1>7, <1>8 DEF Next

FabricInv == LoopInv /\ PFInv /\ IdentityInv /\ NamedInv /\ PassInv /\ VerifiedInv

\* FabricServes: a pass that ended clean on a boot nothing has torn means that
\* the rail serves, and it serves until the driver probes again, for any number
\* of VFs and whatever failed, drifted or was torn before; and the VFs go by
\* their names where vfGuids has not given up on this boot.
THEOREM CleanServes == Spec => []FabricServes
<1>1. Init => VerifiedInv
  BY DEF Init, VerifiedInv
<1>2. Init => FabricInv
  BY <1>1, LoopInit, PFInit, IdentityInit, NamedInit, PassInit DEF FabricInv
<1>3. TypeOK /\ FabricInv /\ [Next]_vars => FabricInv'
  BY LoopStep, PFStep, IdentityStep, NamedStep, PassStep, VerifiedStep
     DEF FabricInv
<1>4. FabricInv => FabricServes
  <2>1. SUFFICES ASSUME FabricInv, verified, ~torn, ~parted
                 PROVE  Serves /\ VFsNamed
    BY DEF FabricInv, VerifiedInv, FabricServes
  <2>2. Serves
    BY <2>1 DEF FabricInv, VerifiedInv
  <2> QED
    BY <2>1, <2>2 DEF FabricInv, NamedInv, NamesInv, VFsNamed, Serves
<1> QED
  BY <1>2, <1>3, <1>4, TypeCorrect, PTL DEF Spec
=============================================================================
