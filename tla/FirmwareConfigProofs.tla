------------------------- MODULE FirmwareConfigProofs -------------------------
(***************************************************************************)
(* Machine-checked proofs about FirmwareConfig, for any functions, classes *)
(* and firmware, any profiles, any bound and any faults:                   *)
(*                                                                         *)
(*   TypeCorrect         every variable keeps its type;                    *)
(*   VerdictHonest       a verdict of ok is true of the whole table;       *)
(*   RememberedIsBooted  once the walk is past the step, every device runs *)
(*                       the set of the profile, where no fault loses the  *)
(*                       request for the reboot.                           *)
(*                                                                         *)
(* VerdictIsTrue rests on the memo holding no key that the device has, and *)
(* on the lemma that a query without such keys shows the whole set.        *)
(* RememberedSetIsBooted is not inductive: one has to follow what the pass *)
(* has written (WrittenAsks) and what it has found in place (PassCarries), *)
(* and to know that a pass that fails fails for ever: a device that lacks  *)
(* a key of its set is reset and never set (UnfitIsStuck), so the request  *)
(* that such a failure swallows is missed by no node that gets to Ready.   *)
(***************************************************************************)
EXTENDS FirmwareConfig, TLAPS

Passes == [pc : Places, at : DOMAIN Fns, failed : BOOLEAN, written : BOOLEAN]

\* The functions are numbered from one, and each is a device.
LEMMA FnsAreDevices ==
  /\ Len(Fns) \in Nat \ {0}
  /\ DOMAIN Fns = 1..Len(Fns)
  /\ \A i \in DOMAIN Fns : Fns[i] \in Devices
  /\ \A d \in Devices : \E i \in DOMAIN Fns : Fns[i] = d
<1>1. Fns \in Seq(Devices) /\ Fns # <<>>
  BY DevicesAssumption
<1>2. Len(Fns) \in Nat /\ Len(Fns) # 0 /\ DOMAIN Fns = 1..Len(Fns)
  BY <1>1
<1> QED
  BY <1>2 DEF Devices

\* The pass goes on at a place of its own, with the next device or none.
LEMMA NextDeviceType ==
  ASSUME agent \in Passes, NEW first \in Places, NEW failed \in BOOLEAN,
         NEW written \in BOOLEAN, NextDevice(first, failed, written)
  PROVE  agent' \in Passes
<1>1. agent.at \in 1..Len(Fns)
  BY FnsAreDevices DEF Passes
<1>2. agent.at # Len(Fns) => agent.at + 1 \in DOMAIN Fns
  BY <1>1, FnsAreDevices
<1>3. 1 \in DOMAIN Fns
  BY FnsAreDevices
<1> QED
  BY <1>2, <1>3 DEF NextDevice, Passes, Places

\* A pass that moves on is a pass.
LEMMA GotoType ==
  ASSUME agent \in Passes, NEW pc \in Places, Goto(pc)
  PROVE  agent' \in Passes
BY DEF Goto, Passes

\* The pass between passes.
LEMMA IdleType == idle \in Passes
BY FnsAreDevices DEF idle, Passes, Places

\* Where a profile stands, what is wanted of a key is a value of the table.
LEMMA WantIsValue ==
  ASSUME NEW k, NEW p \in Profiles PROVE Want(k, p) \in Values
<1>1. p.lt \in {1, 2} /\ p.cc \in {0, 1}
  BY DevicesAssumption DEF Ethernet
<1>2. fwVFCount(p.vfs) \in Values
  BY DEF Values
<1> QED
  BY <1>1, <1>2 DEF Want, Values

\* Tables are put together device by device.
LEMMA TablesOf ==
  ASSUME NEW t, t = [d \in Devices |-> t[d]],
         \A d \in Devices : t[d] \in Table(d)
  PROVE  t \in Tables
<1>1. \A d \in Devices : t[d] \in UNION {Table(e) : e \in Devices}
  OBVIOUS
<1>2. t \in [Devices -> UNION {Table(e) : e \in Devices}]
  BY <1>1, Zenon
<1> QED
  BY <1>2 DEF Tables

\* The factory settings are a table of their device.
LEMMA DefaultsTable ==
  ASSUME NEW d \in Devices PROVE Defaults(d) \in Table(d)
BY DEF Defaults, Table, Values, Default

\* One device's table is written.
LEMMA WriteTable ==
  ASSUME nv \in Tables, NEW d \in Devices, NEW t \in Table(d),
         nv' = [nv EXCEPT ![d] = t]
  PROVE  /\ nv' \in Tables /\ nv'[d] = t
         /\ \A e \in Devices \ {d} : nv'[e] = nv[e]
<1>1. nv \in [Devices -> UNION {Table(e) : e \in Devices}]
  BY DEF Tables
<1>2. nv' = [e \in Devices |-> IF e = d THEN t ELSE nv[e]]
  BY <1>1
<1>3. \A e \in Devices : nv'[e] \in Table(e)
  BY <1>2 DEF Tables
<1>4. nv' = [e \in Devices |-> nv'[e]]
  BY <1>2
<1> HIDE DEF Devices
<1> QED
  BY <1>2, <1>3, <1>4, TablesOf


\* The device at hand is one of the host's.
LEMMA DevIsDevice == ASSUME TypeOK PROVE dev \in Devices
BY FnsAreDevices DEF TypeOK, dev

\* A boot makes tables out of tables.
LEMMA BootTables ==
  ASSUME nv \in Tables, nv' = [d \in Devices |-> AtBoot(d)]
  PROVE  nv' \in Tables
<1>1. \A d \in Devices : nv[d] \in [Exposes[d] -> Values]
  BY DEF Tables, Table
<1>2. \A d \in Devices : AtBoot(d) \in [Exposes[d] -> Values]
  BY <1>1 DEF AtBoot, Values
<1>3. \A d \in Devices : nv'[d] = AtBoot(d)
  BY Zenon
<1>4. nv' = [d \in Devices |-> nv'[d]]
  BY <1>3, Zenon
<1> QED
  BY <1>2, <1>3, <1>4, TablesOf DEF Table

\* A step that spends a fault spends one of the budget.
LEMMA SpendType ==
  ASSUME TypeOK, NEW f, Spend(f) \/ NoFault
  PROVE  faults' = faults /\ faultsLeft' \in 0..MaxFaults
BY DevicesAssumption DEF Spend, NoFault, budget, TypeOK

\* What a full read leaves in the memo are managed keys.
LEMMA MemoType ==
  ASSUME TypeOK, NEW d \in Devices, refreshMlxconfigExposure(d) \/ UNCHANGED memo
  PROVE  memo' \in [Devices -> SUBSET mlxconfigManagedKeys]
BY DEF refreshMlxconfigExposure, TypeOK

\* Init is well typed.
LEMMA InitType == Init => TypeOK
<1> SUFFICES ASSUME Init PROVE TypeOK
  OBVIOUS
<1>1. agent \in Passes
  BY IdleType DEF Init
<1>2. nv \in Tables
  <2>1. \A d \in Devices : nv[d] = Defaults(d)
    BY DEF Init
  <2>2. nv = [d \in Devices |-> nv[d]]
    BY DEF Init
  <2> QED
    BY <2>1, <2>2, DefaultsTable, TablesOf
<1>3. faultsLeft \in 0..MaxFaults
  BY DevicesAssumption DEF Init
<1>4. memo \in [Devices -> SUBSET mlxconfigManagedKeys]
  BY DEF Init
<1>5. verdict \in [Devices -> {"none", "ok", "drift", "failed"}]
  BY DEF Init
<1> QED
  BY <1>1, <1>2, <1>3, <1>4, <1>5, Zenon DEF Init, TypeOK, Passes

\* ... and every step keeps it so.
LEMMA NextType == ASSUME TypeOK, [Next]_vars PROVE TypeOK'
<1> USE DEF vars, process, devices
<1>0. /\ agent \in Passes /\ dev \in Devices
      /\ nv \in Tables /\ running \in Tables
  BY DevIsDevice DEF TypeOK, Passes
<1>1. CASE UNCHANGED vars
  BY <1>1 DEF TypeOK, budget
<1>2. CASE BeginCycle
  <2>1. /\ known' \subseteq Devices
        /\ \E f : Spend(f) \/ NoFault
    BY <1>2 DEF BeginCycle, enrichMellanox
  <2>2. agent' \in Passes
    BY <1>2, IdleType DEF BeginCycle, Passes, Places
  <2> QED
    BY <1>2, <2>1, <2>2, SpendType DEF BeginCycle, TypeOK, Passes
<1>3. CASE DetectDevice
  <2>1. /\ \E f : Spend(f) \/ NoFault
        /\ refreshMlxconfigExposure(dev) \/ UNCHANGED memo
    BY <1>3 DEF DetectDevice
  <2>2. agent' \in Passes
    BY <1>0, <1>3, NextDeviceType, GotoType DEF DetectDevice, Places
  <2> QED
    BY <1>0, <1>3, <2>1, <2>2, SpendType, MemoType
    DEF DetectDevice, InWalk, TypeOK, Passes
<1>4. CASE ResetDevice
  <2>1. \E f : Spend(f) \/ NoFault
    BY <1>4 DEF ResetDevice, CallFails
  <2>2. agent' \in Passes
    BY <1>0, <1>4, NextDeviceType, GotoType DEF ResetDevice, CallFails, Places
  <2>3. nv' \in Tables
    BY <1>0, <1>4, DefaultsTable, WriteTable DEF ResetDevice, CallFails
  <2> QED
    BY <1>4, <2>1, <2>2, <2>3, SpendType DEF ResetDevice, InWalk, TypeOK, Passes
<1>5. CASE SetDevice
  <2>1. \E f : Spend(f) \/ NoFault
    BY <1>5 DEF SetDevice, CallFails
  <2>2. agent' \in Passes
    BY <1>0, <1>5, NextDeviceType, GotoType DEF SetDevice, CallFails, Places
  <2>3. nv' \in Tables
    <3> DEFINE t == [k \in Exposes[dev] |->
                       IF k \in FlashSet(dev) THEN Want(k, profile) ELSE nv[dev][k]]
    <3>1. nv[dev] \in [Exposes[dev] -> Values]
      BY <1>0 DEF Tables, Table
    <3>2. t \in Table(dev)
      BY <3>1, WantIsValue DEF Table, TypeOK
    <3>3. nv' = [nv EXCEPT ![dev] = t] \/ nv' = nv
      BY <1>5 DEF SetDevice, CallFails
    <3> QED
      BY <1>0, <3>2, <3>3, WriteTable
  <2>4. early' \subseteq early
    BY <1>5 DEF SetDevice
  <2> QED
    BY <1>5, <2>1, <2>2, <2>3, <2>4, SpendType DEF SetDevice, InWalk, TypeOK, Passes
<1>6. CASE ReadbackDevice
  <2>1. /\ \E f : Spend(f) \/ NoFault
        /\ refreshMlxconfigExposure(dev) \/ UNCHANGED memo
        /\ nv' = nv
    BY <1>6 DEF ReadbackDevice, CallFails
  <2>2. agent' \in Passes
    BY <1>0, <1>6, NextDeviceType DEF ReadbackDevice, CallFails, Places, Deviates
  <2> QED
    BY <1>0, <1>6, <2>1, <2>2, SpendType, MemoType
    DEF ReadbackDevice, InWalk, TypeOK, Passes
<1>7. CASE EndWalkPass \/ EndVerification
  <2>1. /\ agent' \in Passes
        /\ phase' \in {"Walk", "Ready"} /\ requested' \in BOOLEAN
    BY <1>0, <1>7, IdleType DEF EndWalkPass, EndVerification, TypeOK, Asks, Passes
  <2> QED
    BY <1>7, <2>1 DEF EndWalkPass, EndVerification, NoFault, budget, TypeOK, Passes
<1>8. CASE VerifyDevice
  <2>1. /\ \E f : Spend(f) \/ NoFault
        /\ refreshMlxconfigExposure(dev) \/ UNCHANGED memo
    BY <1>8 DEF VerifyDevice
  <2>2. agent' \in Passes
    BY <1>0, <1>8, NextDeviceType DEF VerifyDevice, Places
  <2>3. verdict' \in [Devices -> {"none", "ok", "drift", "failed"}]
    BY <1>0, <1>8 DEF VerifyDevice, Verdict, Judged, TypeOK
  <2> QED
    BY <1>0, <1>8, <2>1, <2>2, <2>3, SpendType, MemoType
    DEF VerifyDevice, TypeOK, Passes
<1>9. CASE Reboot \/ Boot
  <2>1. /\ Booted /\ early' \subseteq Emulated
        /\ \E f : Spend(f) \/ NoFault
    BY <1>9 DEF Reboot, Boot
  <2>2. nv' \in Tables /\ running' \in Tables
    BY <1>0, <2>1, BootTables DEF Booted
  <2>3. agent' \in Passes
    BY <2>1, IdleType DEF Booted, NewProcess
  <2>4. /\ memo' \in [Devices -> SUBSET mlxconfigManagedKeys]
        /\ verdict' \in [Devices -> {"none", "ok", "drift", "failed"}]
    BY <2>1 DEF Booted, NewProcess
  <2> QED
    BY <2>1, <2>2, <2>3, <2>4, SpendType DEF Booted, NewProcess, TypeOK, Passes
<1>10. CASE Restart
  <2>1. agent' \in Passes /\ memo' \in [Devices -> SUBSET mlxconfigManagedKeys]
    BY <1>10, IdleType DEF Restart, NewProcess
  <2> QED
    BY <1>10, <2>1, SpendType DEF Restart, NewProcess, TypeOK, Passes
<1>11. CASE Foreign
  <2>0. PICK d \in Devices : \E k \in Exposes[d] :
        /\ nv' = [nv EXCEPT ![d][k] = Default]
        /\ verdict' = [verdict EXCEPT ![d] = "none"]
    BY <1>11 DEF Foreign
  <2>4. PICK k \in Exposes[d] :
          /\ nv' = [nv EXCEPT ![d][k] = Default]
          /\ verdict' = [verdict EXCEPT ![d] = "none"]
    BY <2>0
  <2>1. [nv[d] EXCEPT ![k] = Default] \in Table(d)
    BY <1>0 DEF Tables, Table, Values, Default
  <2>2. nv' \in Tables
    BY <1>0, <2>1, <2>4, WriteTable
  <2>3. verdict' \in [Devices -> {"none", "ok", "drift", "failed"}]
    BY <2>4 DEF TypeOK
  <2> QED
    BY <1>11, <2>2, <2>3, SpendType DEF Foreign, TypeOK, Passes
<1>12. CASE EditProfile
  BY <1>12, SpendType DEF EditProfile, TypeOK, Passes
<1>13. CASE checkpointReboot \/ \E d \in Devices : TableReady(d)
  BY <1>13 DEF checkpointReboot, TableReady, NoFault, budget, TypeOK, Passes
<1> QED
  BY <1>1, <1>2, <1>3, <1>4, <1>5, <1>6, <1>7, <1>8, <1>9, <1>10, <1>11, <1>12,
     <1>13 DEF Next, Agent

\* Every variable of the model keeps its type, whatever the devices, the
\* profiles and the faults (steps_mellanox.go: the pass stays among the devices
\* and every table among the values that a set can hold).
THEOREM TypeCorrect == Spec => []TypeOK
<1>1. TypeOK /\ [Next]_vars => TypeOK'
  BY NextType
<1> QED
  BY InitType, <1>1, PTL DEF Spec

-----------------------------------------------------------------------------
(* What the selective verification sees *)

\* The devices that the walk configures under the profile in force.
InScope(d) == Class[d] = "DPU" => profile.dpu

\* The set of a device that has been classified.
SetOf(d) == buildFlashSet(Class[d], Exposes[d], profile)

\* A query for what the probe claims, without keys that the device lacks, shows
\* every key of the set that the device has.
LEMMA SelectiveShowsSet ==
  ASSUME NEW c, NEW E, NEW p, NEW absent, absent \cap E = {},
         NEW shown,
         shown = (buildFlashSet(c, mlxconfigManagedKeys, p) \ absent) \cap E
  PROVE  buildFlashSet(c, E, p) \cap E \subseteq buildFlashSet(c, shown, p) \cap shown
<1> USE DEF buildFlashSet, Gated, Unconditional, addP2, mlxconfigManagedKeys
<1>1. CASE c = "none"
  BY <1>1
<1>2. CASE c # "none"
  <2>1. Gated(c, p) \cap E \subseteq shown
    BY <1>2
  <2>2. Unconditional(c) \cap E \subseteq shown
    BY <1>2
  <2>3. addP2(c, E, p) \cap E \subseteq shown
    BY <1>2
  <2>4. buildFlashSet(c, E, p) \cap E \subseteq shown
    BY <1>2, <2>1, <2>2, <2>3
  <2>5. addP2(c, E, p) \cap E \subseteq addP2(c, shown, p)
    BY <1>2, <2>3
  <2> QED
    BY <1>2, <2>1, <2>2, <2>3, <2>5
<1> QED
  BY <1>1, <1>2

\* A classified device whose set shows no drift carries it.  One whose table
\* still shows defaults does not: SR-IOV is in every set.
LEMMA NoDriftCarries ==
  ASSUME TypeOK, NEW d \in Devices, known = Devices,
         InScope(d) =>
           \A k \in SetOf(d) \cap Exposes[d] : ~mlxconfigDrift(d, k, Shown(d, k))
  PROVE  /\ InScope(d) => d \notin early
         /\ Carries(nv, d)
<1>1. ClassOf(d) = Class[d] /\ Class[d] # "none"
  BY DevicesAssumption DEF ClassOf
<1>2. ASSUME InScope(d)
      PROVE  d \notin early
  <2>1. "SRIOV_EN" \in SetOf(d) \cap Exposes[d]
    BY <1>1, DevicesAssumption DEF SetOf, buildFlashSet, Gated
  <2>2. Shown(d, "SRIOV_EN") = Want("SRIOV_EN", profile)
    BY <1>2, <2>1 DEF mlxconfigDrift, mlxconfigAirReverted
  <2>3. Want("SRIOV_EN", profile) = 1
    BY DEF Want
  <2> QED
    BY <2>2, <2>3 DEF Shown, Default
<1>3. ASSUME InScope(d), NEW k \in SetOf(d) \cap Exposes[d]
      PROVE  \/ nv[d][k] = Want(k, profile)
             \/ /\ Class[d] = "Air" /\ k = "ROCE_ADAPTIVE_ROUTING_EN"
                /\ nv[d][k] = 0
  <2>1. Shown(d, k) = nv[d][k]
    BY <1>2, <1>3 DEF Shown
  <2> QED
    BY <1>1, <1>3, <2>1 DEF mlxconfigDrift, mlxconfigAirReverted
<1> QED
  BY <1>2, <1>3 DEF Carries, Decided, InScope, SetOf

\* A verdict of ok on a device in scope is one on its whole set.
LEMMA OkCarries ==
  ASSUME TypeOK, NEW d \in Devices, known = Devices, memo[d] \cap Exposes[d] = {},
         NEW shown, shown \in {Candidates(d) \cap Exposes[d], Exposes[d]},
         Judged(d, shown) = "ok"
  PROVE  Carries(nv, d)
<1> DEFINE flash == buildFlashSet(Class[d], shown, profile)
<1>1. ClassOf(d) = Class[d]
  BY DEF ClassOf
<1>2. SetOf(d) \cap Exposes[d] \subseteq flash \cap shown
  <2>1. CASE shown = Exposes[d]
    BY <2>1 DEF SetOf
  <2>2. CASE shown = Candidates(d) \cap Exposes[d]
    BY <1>1, <2>2, SelectiveShowsSet DEF SetOf, Candidates
  <2> QED
    BY <2>1, <2>2
<1>3. \A k \in flash \cap shown : ~mlxconfigDrift(d, k, Shown(d, k))
  BY <1>1 DEF Judged
<1> HIDE DEF flash
<1> QED
  BY <1>2, <1>3, NoDriftCarries

\* There is always something to ask a device of.
LEMMA SomethingToAsk ==
  ASSUME NEW d \in Devices, known = Devices, memo[d] \cap Exposes[d] = {}
  PROVE  Candidates(d) # {}
<1>1. ClassOf(d) # "none"
  BY DevicesAssumption DEF ClassOf
<1>2. "NUM_OF_VFS" \in Candidates(d)
  BY <1>1, DevicesAssumption DEF Candidates, buildFlashSet, Unconditional
<1> QED
  BY <1>2

-----------------------------------------------------------------------------
(* The verdict is true *)

\* The memo holds no key that the device has.
MemoTrue == \A d \in Devices : memo[d] \cap Exposes[d] = {}

\* The walk's places and the verification's, which no pass mixes.
PlacePhase ==
  /\ agent.pc \in {"detect", "reset", "set", "readback"} => phase = "Walk"
  /\ agent.pc = "verify" => phase = "Ready"

\* Nothing is verified of a node in its walk.
WalkUnverified == phase = "Walk" => \A d \in Devices : verdict[d] = "none"

Classified == "classify" \notin faults

\* Where classification does not fail, a pass knows every device.
KnownAll ==
  Classified => /\ known \in {{}, Devices}
                /\ agent.pc # "idle" => known = Devices

VerdictInv == MemoTrue /\ PlacePhase /\ WalkUnverified /\ KnownAll /\ VerdictIsTrue

\* Nothing has been verified to begin with.
LEMMA VerdictInit == Init => VerdictInv
<1> SUFFICES ASSUME Init PROVE VerdictInv
  OBVIOUS
<1>1. /\ \A d \in Devices : memo[d] = {} /\ verdict[d] = "none"
      /\ agent.pc = "idle" /\ known = {}
  BY DEF Init, idle
<1> QED
  BY <1>1 DEF VerdictInv, MemoTrue, PlacePhase, WalkUnverified, KnownAll,
              VerdictIsTrue

\* The environment is chosen once.
LEMMA FaultsConstant == ASSUME [Next]_vars PROVE faults' = faults
<1> USE DEF vars, budget, NoFault, Spend, process, devices
<1>1. CASE UNCHANGED vars
  BY <1>1
<1>2. CASE BeginCycle
  BY <1>2 DEF BeginCycle, enrichMellanox
<1>3. CASE DetectDevice \/ ResetDevice \/ SetDevice \/ ReadbackDevice
  BY <1>3 DEF DetectDevice, ResetDevice, SetDevice, ReadbackDevice, CallFails
<1>4. CASE EndWalkPass \/ checkpointReboot \/ VerifyDevice \/ EndVerification
  BY <1>4 DEF EndWalkPass, checkpointReboot, VerifyDevice, EndVerification
<1>5. CASE Reboot \/ Boot \/ Restart \/ Foreign \/ EditProfile
  BY <1>5 DEF Reboot, Boot, Restart, Foreign, EditProfile
<1>6. CASE \E d \in Devices : TableReady(d)
  BY <1>6 DEF TableReady
<1> QED
  BY <1>1, <1>2, <1>3, <1>4, <1>5, <1>6 DEF Next, Agent

\* A full read puts in the memo only what the device lacks.
LEMMA MemoStaysTrue ==
  ASSUME TypeOK, MemoTrue, NEW d \in Devices,
         refreshMlxconfigExposure(d) \/ UNCHANGED memo
  PROVE  MemoTrue'
BY DEF refreshMlxconfigExposure, TypeOK, MemoTrue

\* The pass goes on at its first place or comes to its end.
LEMMA NextDevicePlace ==
  ASSUME NEW first, NEW failed, NEW written, NextDevice(first, failed, written)
  PROVE  agent'.pc \in {first, "end"}
BY DEF NextDevice

\* A pass that moves on keeps all but its place.
LEMMA GotoPlace ==
  ASSUME TypeOK, NEW pc, Goto(pc) PROVE agent' = [agent EXCEPT !.pc = pc] /\ agent'.pc = pc
BY DEF Goto, TypeOK

\* A verified device stays as it was verified when a boot loads its table: the
\* one value that a boot drops is the one that no verdict is about.
LEMMA BootCarries ==
  ASSUME NEW d \in Devices, Carries(nv, d), profile' = profile,
         nv'[d] = AtBoot(d)
  PROVE  Carries(nv, d)'
<1> SUFFICES ASSUME NEW k \in Decided(d)
             PROVE  \/ nv'[d][k] = Want(k, profile)
                    \/ /\ Class[d] = "Air" /\ k = "ROCE_ADAPTIVE_ROUTING_EN"
                       /\ nv'[d][k] = 0
  BY Zenon DEF Carries, Decided
<1>1. k \in Exposes[d]
  BY DEF Decided
<1>2. nv'[d][k] = IF Class[d] = "Air" /\ k = "ROCE_ADAPTIVE_ROUTING_EN" THEN 0
                  ELSE nv[d][k]
  BY <1>1 DEF AtBoot
<1> QED
  BY <1>2 DEF Carries

\* Another device's work, or none, leaves what this device carries alone.
LEMMA SameCarries ==
  ASSUME NEW d \in Devices, profile' = profile, nv'[d] = nv[d]
  PROVE  Carries(nv, d) <=> Carries(nv, d)'
BY DEF Carries, Decided

\* The memo and the verdict stay true of the device.
LEMMA VerdictStep ==
  ASSUME TypeOK, VerdictInv, [Next]_vars PROVE VerdictInv'
<1> USE DEF vars, process, devices
<1>0. /\ dev \in Devices /\ agent \in Passes
      /\ faults' = faults
      /\ \A d \in Devices : verdict[d] \in {"none", "ok", "drift", "failed"}
  BY DevIsDevice, FaultsConstant DEF TypeOK, Passes
<1>1. ASSUME UNCHANGED <<profile, verdict, nv>>
      PROVE  VerdictIsTrue'
  BY <1>0, <1>1, SameCarries, Zenon DEF VerdictInv, VerdictIsTrue
<1>2. ASSUME \A d \in Devices : verdict'[d] = "none"
      PROVE  VerdictIsTrue'
  BY <1>2 DEF VerdictIsTrue
<1>3. CASE UNCHANGED vars
  BY <1>0, <1>1, <1>3
  DEF VerdictInv, MemoTrue, PlacePhase, WalkUnverified, KnownAll, Classified
<1>4. CASE BeginCycle
  <2>1. /\ UNCHANGED <<profile, phase, memo, verdict, nv>>
        /\ agent'.pc = IF phase = "Ready" THEN "verify" ELSE "detect"
        /\ Classified => known' = Devices
    BY <1>4 DEF BeginCycle, enrichMellanox, idle, Classified, Spend
  <2> QED
    BY <1>0, <1>1, <2>1
    DEF VerdictInv, MemoTrue, PlacePhase, WalkUnverified, KnownAll, Classified, TypeOK
<1>5. CASE DetectDevice \/ ResetDevice \/ SetDevice \/ ReadbackDevice
  <2>1. /\ UNCHANGED <<profile, phase, known, verdict>>
        /\ agent.pc \in {"detect", "reset", "set", "readback"}
        /\ refreshMlxconfigExposure(dev) \/ UNCHANGED memo
    BY <1>5 DEF DetectDevice, ResetDevice, SetDevice, ReadbackDevice, InWalk, At
  <2>2. /\ phase = "Walk"
        /\ \A d \in Devices : verdict'[d] = "none"
    BY <2>1 DEF VerdictInv, PlacePhase, WalkUnverified
  <2>3. agent'.pc \in {"detect", "reset", "set", "readback", "end"}
    BY <1>0, <1>5, NextDevicePlace, GotoPlace
    DEF DetectDevice, ResetDevice, SetDevice, ReadbackDevice, CallFails
  <2>4. MemoTrue'
    BY <1>0, <2>1, MemoStaysTrue DEF VerdictInv
  <2> QED
    BY <1>0, <1>2, <2>1, <2>2, <2>3, <2>4
    DEF VerdictInv, PlacePhase, WalkUnverified, KnownAll, Classified
<1>6. CASE EndWalkPass
  <2>1. /\ UNCHANGED <<profile, known, memo, verdict, nv>>
        /\ phase = "Walk" /\ agent'.pc = "idle"
    BY <1>6 DEF EndWalkPass, idle
  <2> QED
    BY <1>0, <1>1, <2>1
    DEF VerdictInv, MemoTrue, PlacePhase, WalkUnverified, KnownAll, Classified
<1>7. CASE VerifyDevice
  <2>1. /\ UNCHANGED <<profile, phase, known, nv>>
        /\ agent.pc = "verify" /\ phase = "Ready"
        /\ refreshMlxconfigExposure(dev) \/ UNCHANGED memo
    BY <1>7 DEF VerifyDevice, At, VerdictInv, PlacePhase
  <2>2. agent'.pc \in {"verify", "end"}
    BY <1>7, NextDevicePlace DEF VerifyDevice
  <2>3. MemoTrue'
    BY <1>0, <2>1, MemoStaysTrue DEF VerdictInv
  <2>4. VerdictIsTrue'
    <3> SUFFICES ASSUME Classified, NEW d \in Devices, verdict'[d] = "ok"
                 PROVE  Carries(nv, d)
      BY <1>0, <2>1, SameCarries, Zenon DEF VerdictIsTrue, Classified
    <3>1. known = Devices /\ memo[d] \cap Exposes[d] = {}
      BY <2>1 DEF VerdictInv, KnownAll, MemoTrue
    <3>2. CASE d # dev
      <4>1. verdict[d] = "ok"
        BY <1>7, <3>2 DEF VerifyDevice, Verdict, TypeOK
      <4> QED
        BY <4>1 DEF VerdictInv, VerdictIsTrue, Classified
    <3>3. CASE d = dev
      <4>1. CASE ~InScope(d)
        BY <4>1 DEF Carries, Decided, InScope
      <4>2. CASE InScope(d)
        <5>1. mlxconfigScope(d) /\ Candidates(d) # {}
          BY <3>1, <4>2, SomethingToAsk DEF mlxconfigScope, ClassOf, InScope
        <5>2. PICK v : Verdict(v) /\ v \in
                {Judged(d, Candidates(d) \cap Exposes[d]), Judged(d, Exposes[d]),
                 "failed"}
          BY <1>7, <3>3, <5>1 DEF VerifyDevice
        <5>3. v = "ok"
          BY <3>3, <5>2 DEF Verdict, TypeOK
        <5> QED
          BY <3>1, <5>2, <5>3, OkCarries
      <4> QED
        BY <4>1, <4>2
    <3> QED
      BY <3>2, <3>3
  <2> QED
    BY <1>0, <2>1, <2>2, <2>3, <2>4
    DEF VerdictInv, PlacePhase, WalkUnverified, KnownAll, Classified
<1>8. CASE \/ EndVerification \/ checkpointReboot \/ Restart
           \/ \E d \in Devices : TableReady(d)
  <2>1. /\ UNCHANGED <<profile, phase, verdict, nv>>
        /\ \/ UNCHANGED <<agent, known, memo>>
           \/ /\ agent' = idle /\ known' \in {known, {}}
              /\ memo' \in {memo, [d \in Devices |-> {}]}
    BY <1>8 DEF EndVerification, checkpointReboot, Restart, TableReady, NewProcess
  <2>2. MemoTrue'
    BY <2>1 DEF VerdictInv, MemoTrue
  <2> QED
    BY <1>0, <1>1, <2>1, <2>2
    DEF VerdictInv, PlacePhase, WalkUnverified, KnownAll, Classified, idle
<1>9. CASE Reboot \/ Boot
  <2>1. Booted
    BY <1>9 DEF Reboot, Boot
  <2>2. /\ \A d \in Devices : verdict'[d] = "none" /\ memo'[d] = {}
        /\ known' = {} /\ agent'.pc = "idle"
    BY <2>1 DEF Booted, NewProcess, idle
  <2> QED
    BY <1>2, <2>2
    DEF VerdictInv, MemoTrue, PlacePhase, WalkUnverified, KnownAll
<1>10. CASE Foreign
  <2>0. PICK d \in Devices : \E k \in Exposes[d] :
          /\ nv' = [nv EXCEPT ![d][k] = Default]
          /\ verdict' = [verdict EXCEPT ![d] = "none"]
    BY <1>10 DEF Foreign
  <2>1. UNCHANGED <<profile, phase, process>> /\ phase = "Ready"
    BY <1>10 DEF Foreign
  <2>2. \A e \in Devices : verdict'[e] = "ok" =>
          verdict[e] = "ok" /\ nv'[e] = nv[e]
    BY <2>0 DEF TypeOK, Tables
  <2>3. VerdictIsTrue'
    BY <1>0, <2>1, <2>2, SameCarries DEF VerdictInv, VerdictIsTrue
  <2> QED
    BY <1>0, <2>1, <2>3
    DEF VerdictInv, MemoTrue, PlacePhase, WalkUnverified, KnownAll, Classified
<1>11. CASE EditProfile
  <2>1. /\ UNCHANGED <<agent, known, memo>> /\ agent.pc = "idle"
        /\ \A d \in Devices : verdict'[d] = "none"
    BY <1>11 DEF EditProfile, At
  <2> QED
    BY <1>0, <1>2, <2>1
    DEF VerdictInv, MemoTrue, PlacePhase, WalkUnverified, KnownAll, Classified
<1> QED
  BY <1>3, <1>4, <1>5, <1>6, <1>7, <1>8, <1>9, <1>10, <1>11 DEF Next, Agent

\* A verdict of ok is true of the whole table, whatever the memo of unexposed
\* keys has gone through (steps_mellanox.go, stepMlxconfigVerify).
THEOREM VerdictHonest == Spec => []VerdictIsTrue
<1>1. TypeOK /\ VerdictInv /\ [Next]_vars => TypeOK' /\ VerdictInv'
  BY NextType, VerdictStep
<1>2. Init => TypeOK /\ VerdictInv
  BY InitType, VerdictInit
<1>3. VerdictInv => VerdictIsTrue
  BY DEF VerdictInv
<1> QED
  BY <1>1, <1>2, <1>3, PTL DEF Spec

-----------------------------------------------------------------------------
(* What was set is booted *)

\* A pass begins clean, a request waits for its reboot, and a Ready node writes
\* nothing.
RestInv ==
  /\ agent.pc = "idle" => agent = idle
  /\ requested => agent.pc = "idle" /\ phase = "Walk"
  /\ phase = "Ready" => ~agent.written

Remembers == faults \cap Losing = {}

\* A device that lacks a key of its set: no call can write that set.
Unfit(d) == InScope(d) /\ ~(SetOf(d) \subseteq Exposes[d])

NoneUnfit == \A d \in Devices : ~Unfit(d)

\* The reset before the failing call leaves it at the defaults, and the walk
\* never gets past it.
UnfitIsStuck ==
  \A d \in Devices : Unfit(d) =>
    phase = "Walk" /\ \A k \in Exposes[d] : nv[d][k] = Default

\* The devices that the pass has done.
Behind == IF agent.pc = "end" THEN DOMAIN Fns ELSE 1..(agent.at - 1)

\* In an environment that loses nothing, a pass of the walk fails because of
\* such a device, and of each.
UnfitFails ==
  phase = "Walk" /\ agent.pc # "idle" =>
    \A i \in Behind : Unfit(Fns[i]) => agent.failed

FailedIsUnfit == agent.failed => ~NoneUnfit

\* A table that differs from the booted one is on its way to the reboot.
WrittenAsks ==
  NoneUnfit /\ ~foreign =>
    \/ nv = running
    \/ requested \/ agent.written \/ agent.pc \in {"set", "readback"}

\* The device at hand is one to configure, and is read back as it was set.
AtHand ==
  /\ agent.pc \in {"reset", "set", "readback"} => InScope(dev)
  /\ agent.pc = "readback" =>
       /\ dev \notin early
       /\ \A k \in SetOf(dev) \cap Exposes[dev] : nv[dev][k] = Want(k, profile)

\* A pass that has found nothing to write has found every set in place.
PassCarries ==
  /\ phase = "Walk" /\ agent.pc \in {"detect", "reset", "end"}
  /\ ~agent.failed /\ ~agent.written
  => \A i \in Behind : Carries(nv, Fns[i])

KeepsSets ==
  /\ UnfitIsStuck /\ UnfitFails /\ FailedIsUnfit /\ WrittenAsks /\ AtHand
  /\ PassCarries /\ SetIsBooted

BootInv == RestInv /\ (Remembers => KeepsSets)

\* No pass has begun.
LEMMA BootInit == Init => BootInv
<1> SUFFICES ASSUME Init PROVE BootInv
  OBVIOUS
<1>1. /\ agent = idle /\ requested = FALSE /\ phase = "Walk" /\ nv = running
      /\ \A d \in Devices : \A k \in Exposes[d] : nv[d][k] = Default
  BY DEF Init, Defaults
<1>2. agent.pc = "idle" /\ ~agent.failed
  BY <1>1 DEF idle
<1> QED
  BY <1>1, <1>2
  DEF BootInv, RestInv, KeepsSets, UnfitIsStuck, UnfitFails, FailedIsUnfit,
      WrittenAsks, AtHand, PassCarries, SetIsBooted

\* The device at hand is behind when the pass goes on.
LEMMA NextBehind ==
  ASSUME TypeOK, agent.pc # "end",
         NEW first \in Places \ {"end"}, NEW failed \in BOOLEAN,
         NEW written \in BOOLEAN, NextDevice(first, failed, written)
  PROVE  /\ Behind' = Behind \cup {agent.at}
         /\ agent'.failed = (agent.failed \/ failed)
         /\ agent'.written = (agent.written \/ written)
<1>1. agent.at \in 1..Len(Fns) /\ Len(Fns) \in Nat \ {0} /\ DOMAIN Fns = 1..Len(Fns)
  BY FnsAreDevices DEF TypeOK
<1>2. CASE agent.at = Len(Fns)
  <2>1. agent'.pc = "end"
    BY <1>2 DEF NextDevice
  <2>2. 1..Len(Fns) = 1..(Len(Fns) - 1) \cup {Len(Fns)}
    BY <1>1
  <2> QED
    BY <1>1, <1>2, <2>1, <2>2 DEF NextDevice, Behind
<1>3. CASE agent.at # Len(Fns)
  <2>1. agent'.pc = first /\ agent'.at = agent.at + 1
    BY <1>3 DEF NextDevice
  <2>2. 1..(agent.at + 1 - 1) = 1..(agent.at - 1) \cup {agent.at}
    BY <1>1
  <2> QED
    BY <1>1, <1>3, <2>1, <2>2 DEF NextDevice, Behind
<1> QED
  BY <1>2, <1>3

\* A device that carries its set is not at the defaults.
LEMMA CarriesFits ==
  ASSUME NEW d \in Devices, UnfitIsStuck, Carries(nv, d) PROVE ~Unfit(d)
<1> SUFFICES ASSUME Unfit(d) PROVE FALSE
  OBVIOUS
<1>1. Class[d] # "none"
  BY DevicesAssumption
<1>2. "SRIOV_EN" \in Exposes[d] /\ "SRIOV_EN" \in SetOf(d)
  BY <1>1, DevicesAssumption DEF SetOf, buildFlashSet, Gated
<1>3. "SRIOV_EN" \in Decided(d)
  BY <1>2 DEF Decided, SetOf, Unfit, InScope
<1>4. nv[d]["SRIOV_EN"] = 1
  BY <1>3 DEF Carries, Want
<1> QED
  BY <1>2, <1>4 DEF UnfitIsStuck, Default


\* Every step keeps a pass clean at its start and a request for its boot.
LEMMA RestStep ==
  ASSUME TypeOK, VerdictInv, RestInv, [Next]_vars PROVE RestInv'
<1> USE DEF vars, process, devices
<1>1. CASE UNCHANGED vars
  BY <1>1 DEF RestInv
<1>2. CASE BeginCycle
  <2>1. /\ agent'.pc # "idle" /\ ~agent'.written
        /\ requested' = FALSE
    BY <1>2 DEF BeginCycle, Held, idle, TypeOK
  <2> QED
    BY <2>1 DEF RestInv
<1>3. CASE DetectDevice \/ ResetDevice \/ SetDevice \/ ReadbackDevice
  <2>1. /\ UNCHANGED <<phase, requested>>
        /\ agent.pc \in {"detect", "reset", "set", "readback"}
    BY <1>3 DEF DetectDevice, ResetDevice, SetDevice, ReadbackDevice, InWalk, At
  <2>2. agent'.pc \in {"detect", "reset", "set", "readback", "end"}
    BY <1>3, NextDevicePlace, GotoPlace
    DEF DetectDevice, ResetDevice, SetDevice, ReadbackDevice, CallFails
  <2> QED
    BY <2>1, <2>2 DEF RestInv, VerdictInv, PlacePhase
<1>4. CASE EndWalkPass
  BY <1>4 DEF EndWalkPass, RestInv, idle, Asks, At
<1>5. CASE VerifyDevice
  <2>1. /\ UNCHANGED <<phase, requested>> /\ phase = "Ready" /\ agent.pc = "verify"
        /\ agent'.pc \in {"verify", "end"}
    BY <1>5, NextDevicePlace DEF VerifyDevice, At, VerdictInv, PlacePhase
  <2>2. agent'.written = agent.written
    BY <1>5 DEF VerifyDevice, NextDevice, TypeOK
  <2> QED
    BY <2>1, <2>2 DEF RestInv
<1>6. CASE EndVerification \/ Reboot \/ Boot \/ Restart
  <2>1. /\ UNCHANGED phase /\ agent' = idle
        /\ requested' = FALSE \/ requested' = requested
    BY <1>6 DEF EndVerification, Reboot, Boot, Booted, Restart, NewProcess
  <2> QED
    BY <2>1 DEF RestInv, idle
<1>7. CASE Foreign \/ checkpointReboot \/ \E d \in Devices : TableReady(d)
  BY <1>7 DEF Foreign, checkpointReboot, TableReady, RestInv
<1>8. CASE EditProfile
  BY <1>8 DEF EditProfile, RestInv, At
<1> QED
  BY <1>1, <1>2, <1>3, <1>4, <1>5, <1>6, <1>7, <1>8 DEF Next, Agent

\* One device of the walk's pass, in an environment that loses nothing.
LEMMA DetectKeeps ==
  ASSUME TypeOK, VerdictInv, RestInv, Remembers, KeepsSets, DetectDevice
  PROVE  KeepsSets'
<1>0. /\ agent.pc = "detect" /\ phase = "Walk" /\ known = Devices
      /\ dev \in Devices /\ agent \in Passes
      /\ UNCHANGED <<profile, phase, requested, running, nv, foreign, early>>
      /\ dev = Fns[agent.at]
  BY DevIsDevice
  DEF DetectDevice, At, InWalk, VerdictInv, PlacePhase, KnownAll, Classified,
      Remembers, Losing, TypeOK, Passes, dev
<1>1. /\ \A d \in Devices : Unfit(d)' <=> Unfit(d)
      /\ \A d \in Devices : Carries(nv, d)' <=> Carries(nv, d)
  BY <1>0, SameCarries DEF Unfit, InScope, SetOf
<1>2. /\ NoneUnfit' <=> NoneUnfit
      /\ UnfitIsStuck'
  BY <1>0, <1>1 DEF NoneUnfit, KeepsSets, UnfitIsStuck
<1>3. ClassOf(dev) = Class[dev] /\ (mlxconfigScope(dev) <=> InScope(dev))
  BY <1>0 DEF mlxconfigScope, ClassOf, InScope
<1>4. CASE NextDevice("detect", FALSE, FALSE) /\ (InScope(dev) => ~Deviates(dev, FlashSet(dev)))
  <2>1. Carries(nv, dev)
    BY <1>0, <1>3, <1>4, NoDriftCarries DEF Deviates, FlashSet, SetOf
  <2>2. ~Unfit(dev)
    BY <1>0, <2>1, CarriesFits DEF KeepsSets
  <2>3. /\ Behind' = Behind \cup {agent.at}
        /\ agent'.failed = agent.failed /\ agent'.written = agent.written
    BY <1>0, <1>4, NextBehind DEF Places, TypeOK
  <2>4. agent'.pc \in {"detect", "end"}
    BY <1>4, NextDevicePlace
  <2>5. \A i \in Behind : Fns[i] \in Devices
    BY <1>0, FnsAreDevices DEF Behind, Passes
  <2>6. UnfitFails'
    BY <1>0, <1>1, <2>2, <2>3, <2>5 DEF UnfitFails, KeepsSets
  <2>7. PassCarries'
    BY <1>0, <1>1, <2>1, <2>3, <2>5 DEF PassCarries, KeepsSets
  <2> QED
    BY <1>0, <1>2, <2>3, <2>4, <2>6, <2>7
    DEF KeepsSets, FailedIsUnfit, WrittenAsks, AtHand, SetIsBooted
<1>5. CASE Goto("reset") /\ InScope(dev)
  <2>1. /\ agent'.pc = "reset" /\ agent'.at = agent.at
        /\ agent'.failed = agent.failed /\ agent'.written = agent.written
    BY <1>0, <1>5 DEF Goto, Passes
  <2>2. Behind' = Behind /\ dev' = dev
    BY <1>0, <2>1 DEF Behind, dev
  <2>3. \A i \in Behind : Fns[i] \in Devices
    BY <1>0, FnsAreDevices DEF Behind, Passes
  <2>4. UnfitFails' /\ PassCarries'
    BY <1>0, <1>1, <2>1, <2>2, <2>3 DEF UnfitFails, PassCarries, KeepsSets
  <2>5. AtHand'
    BY <1>0, <1>5, <2>1, <2>2 DEF AtHand, InScope
  <2> QED
    BY <1>0, <1>2, <2>1, <2>4, <2>5
    DEF KeepsSets, FailedIsUnfit, WrittenAsks, SetIsBooted
<1> QED
  BY <1>3, <1>4, <1>5 DEF DetectDevice, Spend, Remembers, Losing

\* A reset device is written again before the pass ends, or fails it.
LEMMA ResetKeeps ==
  ASSUME TypeOK, VerdictInv, RestInv, Remembers, KeepsSets, ResetDevice
  PROVE  KeepsSets'
<1>0. /\ agent.pc = "reset" /\ phase = "Walk"
      /\ dev \in Devices /\ agent \in Passes
      /\ UNCHANGED <<profile, phase, requested, running, foreign, early>>
  BY DevIsDevice
  DEF ResetDevice, At, InWalk, VerdictInv, PlacePhase, TypeOK, Passes
<1>1. Goto("set") /\ nv' = [nv EXCEPT ![dev] = Defaults(dev)]
  BY DEF ResetDevice, CallFails, Spend, Remembers, Losing
<1>2. /\ agent'.pc = "set" /\ agent'.at = agent.at
      /\ agent'.failed = agent.failed /\ agent'.written = agent.written
  BY <1>0, <1>1 DEF Goto, Passes
<1>3. Behind' = Behind /\ dev' = dev /\ \A i \in Behind : Fns[i] \in Devices
  BY <1>0, <1>2, FnsAreDevices DEF Behind, dev, Passes
<1>4. \A d \in Devices : Unfit(d)' <=> Unfit(d)
  BY <1>0 DEF Unfit, InScope, SetOf
<1>5. UnfitIsStuck'
  <2>1. \A d \in Devices : nv'[d] \in {nv[d], Defaults(d)}
    BY <1>0, <1>1, DefaultsTable, WriteTable DEF TypeOK
  <2>2. \A d \in Devices : \A k \in Exposes[d] : Defaults(d)[k] = Default
    BY DEF Defaults
  <2> QED
    BY <1>0, <1>4, <2>1, <2>2 DEF UnfitIsStuck, KeepsSets
<1>6. UnfitFails'
  BY <1>0, <1>2, <1>3, <1>4 DEF UnfitFails, KeepsSets
<1>7. FailedIsUnfit'
  BY <1>2, <1>4 DEF FailedIsUnfit, NoneUnfit, KeepsSets
<1>8. AtHand'
  BY <1>0, <1>2, <1>3 DEF AtHand, InScope, KeepsSets
<1> QED
  BY <1>0, <1>2, <1>5, <1>6, <1>7, <1>8
  DEF KeepsSets, WrittenAsks, PassCarries, SetIsBooted

\* What the pass writes, its end asks to be booted.
LEMMA SetKeeps ==
  ASSUME TypeOK, VerdictInv, RestInv, Remembers, KeepsSets, SetDevice
  PROVE  KeepsSets'
<1>0. /\ agent.pc = "set" /\ phase = "Walk" /\ known = Devices
      /\ dev \in Devices /\ agent \in Passes /\ InScope(dev)
      /\ UNCHANGED <<profile, phase, requested, running, foreign>>
      /\ dev = Fns[agent.at]
  BY DevIsDevice
  DEF SetDevice, At, InWalk, VerdictInv, PlacePhase, KnownAll, Classified,
      Remembers, Losing, TypeOK, Passes, KeepsSets, AtHand, dev
<1>1. FlashSet(dev) = SetOf(dev)
  BY <1>0 DEF FlashSet, ClassOf, SetOf
<1>2. \A d \in Devices : Unfit(d)' <=> Unfit(d)
  BY <1>0 DEF Unfit, InScope, SetOf
<1>3. \A i \in Behind : Fns[i] \in Devices
  BY <1>0, FnsAreDevices DEF Behind, Passes
<1>4. CASE SetOf(dev) \subseteq Exposes[dev]
  <2> DEFINE t == [k \in Exposes[dev] |->
                     IF k \in FlashSet(dev) THEN Want(k, profile) ELSE nv[dev][k]]
  <2>1. /\ Goto("readback") /\ early' = early \ {dev}
        /\ nv' = [nv EXCEPT ![dev] = t]
    BY <1>1, <1>4 DEF SetDevice, CallFails, Spend, Remembers, Losing
  <2>2. /\ agent'.pc = "readback" /\ agent'.at = agent.at
        /\ agent'.failed = agent.failed /\ agent'.written = agent.written
    BY <1>0, <2>1 DEF Goto, Passes
  <2>3. Behind' = Behind /\ dev' = dev
    BY <1>0, <2>2 DEF Behind, dev
  <2>4. \A d \in Devices \ {dev} : nv'[d] = nv[d]
    BY <2>1 DEF TypeOK, Tables
  <2>5. nv'[dev] = t
    BY <1>0, <2>1 DEF TypeOK, Tables
  <2>6. UnfitIsStuck'
    BY <1>0, <1>2, <1>4, <2>4 DEF UnfitIsStuck, KeepsSets, Unfit
  <2>7. \A k \in SetOf(dev) \cap Exposes[dev] : nv'[dev][k] = Want(k, profile)
    BY <1>1, <2>5
  <2>8. AtHand'
    BY <1>0, <2>1, <2>2, <2>3, <2>7 DEF AtHand, InScope, SetOf
  <2>9. UnfitFails' /\ FailedIsUnfit'
    BY <1>0, <1>2, <1>3, <2>2, <2>3 DEF UnfitFails, FailedIsUnfit, NoneUnfit, KeepsSets
  <2> QED
    BY <1>0, <2>2, <2>6, <2>8, <2>9 DEF KeepsSets, WrittenAsks, PassCarries, SetIsBooted
<1>5. CASE ~(SetOf(dev) \subseteq Exposes[dev])
  <2>1. NextDevice("detect", TRUE, FALSE) /\ nv' = nv
    BY <1>1, <1>5 DEF SetDevice, CallFails, Spend, Remembers, Losing
  <2>2. /\ agent'.failed /\ agent'.pc \in {"detect", "end"}
    BY <2>1, NextDevicePlace, <1>0, NextBehind DEF Places
  <2>3. UnfitIsStuck' /\ ~NoneUnfit'
    BY <1>0, <1>2, <1>5, <2>1 DEF UnfitIsStuck, NoneUnfit, KeepsSets, Unfit
  <2> QED
    BY <1>0, <2>2, <2>3
    DEF KeepsSets, UnfitFails, FailedIsUnfit, WrittenAsks, AtHand, PassCarries,
        SetIsBooted
<1> QED
  BY <1>4, <1>5

\* A readback that fits leaves the device with its set, any other fails.
LEMMA ReadbackKeeps ==
  ASSUME TypeOK, VerdictInv, RestInv, Remembers, KeepsSets, ReadbackDevice
  PROVE  KeepsSets'
<1>0. /\ agent.pc = "readback" /\ phase = "Walk" /\ known = Devices
      /\ dev \in Devices /\ agent \in Passes
      /\ UNCHANGED <<profile, phase, requested, running, nv, foreign, early>>
      /\ dev = Fns[agent.at]
  BY DevIsDevice
  DEF ReadbackDevice, CallFails, At, InWalk, VerdictInv, PlacePhase, KnownAll,
      Classified, Remembers, Losing, Spend, TypeOK, Passes, dev
<1>1. /\ InScope(dev) /\ dev \notin early
      /\ \A k \in SetOf(dev) \cap Exposes[dev] : nv[dev][k] = Want(k, profile)
  BY <1>0 DEF KeepsSets, AtHand
<1>2. Deviates(dev, FlashSet(dev)) = FALSE
  BY <1>0, <1>1 DEF Deviates, FlashSet, ClassOf, SetOf, Shown, mlxconfigDrift
<1>3. NextDevice("detect", FALSE, TRUE)
  BY <1>2 DEF ReadbackDevice, CallFails, Spend, Remembers, Losing
<1>4. /\ Behind' = Behind \cup {agent.at} /\ agent'.pc \in {"detect", "end"}
      /\ agent'.failed = agent.failed /\ agent'.written
  BY <1>0, <1>3, NextBehind, NextDevicePlace DEF Places, TypeOK
<1>5. ~Unfit(dev)
  <2>1. Carries(nv, dev)
    BY <1>1 DEF Carries, Decided, SetOf
  <2> QED
    BY <1>0, <2>1, CarriesFits DEF KeepsSets
<1>6. \A d \in Devices : Unfit(d)' <=> Unfit(d)
  BY <1>0 DEF Unfit, InScope, SetOf
<1>7. \A i \in Behind : Fns[i] \in Devices
  BY <1>0, FnsAreDevices DEF Behind, Passes
<1>8. UnfitFails' /\ UnfitIsStuck' /\ FailedIsUnfit'
  BY <1>0, <1>4, <1>5, <1>6, <1>7
  DEF UnfitFails, UnfitIsStuck, FailedIsUnfit, NoneUnfit, KeepsSets
<1> QED
  BY <1>0, <1>4, <1>8 DEF KeepsSets, WrittenAsks, AtHand, PassCarries, SetIsBooted

\* The walk gets past the step with every set booted, or it does not.
LEMMA EndWalkKeeps ==
  ASSUME TypeOK, VerdictInv, RestInv, Remembers, KeepsSets, EndWalkPass
  PROVE  KeepsSets'
<1>0. /\ agent.pc = "end" /\ phase = "Walk" /\ ~requested
      /\ agent' = idle /\ agent'.pc = "idle" /\ ~agent'.failed
      /\ UNCHANGED <<profile, running, nv, foreign, early>>
      /\ requested' = (agent.written /\ ~agent.failed)
      /\ phase' = IF agent.failed \/ requested' THEN "Walk" ELSE "Ready"
  BY DEF EndWalkPass, At, devices, RestInv, idle, Asks
<1>1. /\ \A d \in Devices : Unfit(d)' <=> Unfit(d)
      /\ \A d \in Devices : Carries(running, d)' <=> Carries(running, d)
  BY <1>0 DEF Unfit, InScope, SetOf, Carries, Decided
<1>2. \A d \in Devices : \E i \in Behind : Fns[i] = d
  BY <1>0, FnsAreDevices DEF Behind
<1>3. NoneUnfit \/ agent.failed
  BY <1>0, <1>2 DEF NoneUnfit, UnfitFails, KeepsSets
<1>4. UnfitIsStuck'
  BY <1>0, <1>1, <1>3 DEF UnfitIsStuck, NoneUnfit, KeepsSets
<1>5. WrittenAsks'
  BY <1>0, <1>1 DEF WrittenAsks, NoneUnfit, FailedIsUnfit, KeepsSets
<1>6. ASSUME phase' = "Ready", ~foreign
      PROVE  \A d \in Devices : Carries(running, d)'
  <2>1. ~agent.failed /\ ~agent.written
    BY <1>0, <1>6
  <2>2. nv = running
    BY <1>0, <1>3, <1>6, <2>1 DEF WrittenAsks, KeepsSets
  <2>3. \A i \in Behind : Carries(nv, Fns[i])
    BY <1>0, <2>1 DEF PassCarries, KeepsSets
  <2> QED
    BY <1>1, <1>2, <2>2, <2>3
<1> QED
  BY <1>0, <1>4, <1>5, <1>6
  DEF KeepsSets, UnfitFails, FailedIsUnfit, AtHand, PassCarries, SetIsBooted


\* The verification writes nothing.
LEMMA VerifyKeeps ==
  ASSUME TypeOK, VerdictInv, RestInv, Remembers, KeepsSets,
         VerifyDevice \/ EndVerification
  PROVE  KeepsSets'
<1>1. /\ UNCHANGED <<profile, phase, requested, running, nv, foreign, early>>
      /\ phase = "Ready" /\ agent.pc \in {"verify", "end"}
  BY DEF VerifyDevice, EndVerification, At, devices, VerdictInv, PlacePhase
<1>2. /\ agent'.pc \in {"verify", "end", "idle"} /\ ~agent'.written
      /\ agent'.failed => agent.failed
  BY <1>1 DEF VerifyDevice, EndVerification, NextDevice, idle, RestInv, TypeOK
<1>3. /\ \A d \in Devices : Unfit(d)' <=> Unfit(d)
      /\ \A d \in Devices : Carries(running, d)' <=> Carries(running, d)
  BY <1>1 DEF Unfit, InScope, SetOf, Carries, Decided
<1>4. UnfitIsStuck' /\ WrittenAsks' /\ SetIsBooted'
  BY <1>1, <1>2, <1>3
  DEF UnfitIsStuck, WrittenAsks, SetIsBooted, NoneUnfit, KeepsSets, RestInv
<1>5. FailedIsUnfit'
  BY <1>2, <1>3 DEF FailedIsUnfit, NoneUnfit, KeepsSets
<1> QED
  BY <1>1, <1>2, <1>4, <1>5 DEF KeepsSets, UnfitFails, AtHand, PassCarries

\* A boot loads what the tables carry.
LEMMA BootKeeps ==
  ASSUME TypeOK, VerdictInv, RestInv, Remembers, KeepsSets, Booted
  PROVE  KeepsSets'
<1>1. /\ UNCHANGED <<profile, phase, foreign>>
      /\ agent'.pc = "idle" /\ ~agent'.failed
      /\ running' = nv' /\ \A d \in Devices : nv'[d] = AtBoot(d)
  BY DEF Booted, NewProcess, idle
<1>2. \A d \in Devices : Unfit(d)' <=> Unfit(d)
  BY <1>1 DEF Unfit, InScope, SetOf
<1>3. UnfitIsStuck'
  <2> SUFFICES ASSUME NEW d \in Devices, Unfit(d)
               PROVE  phase = "Walk" /\ \A k \in Exposes[d] : nv'[d][k] = Default
    BY <1>1, <1>2 DEF UnfitIsStuck
  <2>1. phase = "Walk" /\ \A k \in Exposes[d] : nv[d][k] = Default
    BY DEF UnfitIsStuck, KeepsSets
  <2>2. \A k \in Exposes[d] : AtBoot(d)[k] \in {nv[d][k], Default}
    BY DEF AtBoot, Default
  <2> QED
    BY <1>1, <2>1, <2>2
<1>4. ASSUME phase = "Ready", ~foreign
      PROVE  \A d \in Devices : Carries(running, d)'
  <2>1. NoneUnfit
    BY <1>4 DEF NoneUnfit, UnfitIsStuck, KeepsSets
  <2>2. nv = running
    BY <1>4, <2>1 DEF WrittenAsks, KeepsSets, RestInv, VerdictInv, PlacePhase
  <2>3. \A d \in Devices : Carries(nv, d)
    BY <1>4, <2>2 DEF KeepsSets, SetIsBooted
  <2>4. \A d \in Devices : Carries(nv, d)'
    BY <1>1, <2>3, BootCarries
  <2> QED
    BY <1>1, <2>4 DEF Carries, Decided
<1>5. SetIsBooted'
  BY <1>1, <1>4 DEF SetIsBooted
<1> QED
  BY <1>1, <1>3, <1>5
  DEF KeepsSets, UnfitFails, FailedIsUnfit, WrittenAsks, AtHand, PassCarries

\* Every step keeps what the written sets are owed.
LEMMA BootStep ==
  ASSUME TypeOK, VerdictInv, BootInv, [Next]_vars PROVE BootInv'
<1> USE DEF vars, process, devices
<1>0. RestInv' /\ (Remembers' <=> Remembers)
  BY RestStep, FaultsConstant DEF BootInv, Remembers
<1> SUFFICES ASSUME Remembers PROVE KeepsSets'
  BY <1>0 DEF BootInv
<1>1. RestInv /\ KeepsSets
  BY DEF BootInv
<1>2. CASE BeginCycle
  <2>1. /\ UNCHANGED <<profile, phase, requested, running, nv, foreign, early>>
        /\ agent.pc = "idle" /\ ~requested
        /\ agent'.pc \in {"verify", "detect"} /\ agent'.at = 1
        /\ ~agent'.written /\ ~agent'.failed
    BY <1>2 DEF BeginCycle, Held, At, idle
  <2>2. /\ \A d \in Devices : Unfit(d)' <=> Unfit(d)
        /\ \A d \in Devices : Carries(running, d)' <=> Carries(running, d)
    BY <2>1 DEF Unfit, InScope, SetOf, Carries, Decided
  <2>3. Behind' = {} /\ ~agent.written
    BY <1>1, <2>1 DEF Behind, RestInv, idle
  <2> QED
    BY <1>1, <2>1, <2>2, <2>3
    DEF KeepsSets, UnfitIsStuck, UnfitFails, FailedIsUnfit, WrittenAsks, AtHand,
        PassCarries, SetIsBooted, NoneUnfit
<1>3. CASE DetectDevice \/ ResetDevice \/ SetDevice \/ ReadbackDevice
  BY <1>1, <1>3, DetectKeeps, ResetKeeps, SetKeeps, ReadbackKeeps
<1>4. CASE EndWalkPass \/ VerifyDevice \/ EndVerification
  BY <1>1, <1>4, EndWalkKeeps, VerifyKeeps
<1>5. CASE Reboot \/ Boot
  BY <1>1, <1>5, BootKeeps DEF Reboot, Boot
<1>6. CASE Restart \/ EditProfile
  BY <1>6 DEF Restart, EditProfile, Spend, Remembers, Losing
<1>7. CASE Foreign
  <2>1. /\ UNCHANGED <<profile, phase, agent>> /\ phase = "Ready" /\ foreign'
    BY <1>7 DEF Foreign
  <2>2. \A d \in Devices : Unfit(d)' <=> Unfit(d)
    BY <2>1 DEF Unfit, InScope, SetOf
  <2>3. UnfitIsStuck' /\ FailedIsUnfit'
    BY <1>1, <2>1, <2>2 DEF KeepsSets, UnfitIsStuck, FailedIsUnfit, NoneUnfit
  <2>4. agent.pc \notin {"reset", "set", "readback"}
    BY <2>1 DEF VerdictInv, PlacePhase
  <2> QED
    BY <2>1, <2>3, <2>4
    DEF KeepsSets, UnfitFails, WrittenAsks, AtHand, PassCarries, SetIsBooted
<1>8. CASE \/ UNCHANGED vars \/ checkpointReboot
           \/ \E d \in Devices : TableReady(d)
  <2>1. /\ UNCHANGED <<profile, phase, agent, requested, nv, running, foreign>>
        /\ early' \subseteq early
    BY <1>8 DEF checkpointReboot, TableReady
  <2>2. /\ \A d \in Devices : Unfit(d)' <=> Unfit(d)
        /\ \A d \in Devices : Carries(running, d)' <=> Carries(running, d)
        /\ \A d \in Devices : Carries(nv, d)' <=> Carries(nv, d)
    BY <2>1 DEF Unfit, InScope, SetOf, Carries, Decided
  <2>3. Behind' = Behind /\ dev' = dev
    BY <2>1 DEF Behind, dev
  <2>4. \A i \in Behind : Fns[i] \in Devices
    BY FnsAreDevices DEF Behind, TypeOK
  <2>5. UnfitIsStuck' /\ UnfitFails' /\ FailedIsUnfit' /\ WrittenAsks'
    BY <1>1, <2>1, <2>2, <2>3, <2>4
    DEF KeepsSets, UnfitIsStuck, UnfitFails, FailedIsUnfit, WrittenAsks, NoneUnfit
  <2>6. AtHand'
    BY <1>1, <2>1, <2>3 DEF KeepsSets, AtHand, InScope, SetOf
  <2>7. PassCarries' /\ SetIsBooted'
    BY <1>1, <2>1, <2>2, <2>3, <2>4 DEF KeepsSets, PassCarries, SetIsBooted
  <2> QED
    BY <2>5, <2>6, <2>7 DEF KeepsSets
<1> QED
  BY <1>2, <1>3, <1>4, <1>5, <1>6, <1>7, <1>8 DEF Next, Agent

\* Once the step is done every device runs the set of the profile, in every
\* environment that forgets no request (steps_mellanox.go, stepMlxconfig).
THEOREM RememberedIsBooted == Spec => []RememberedSetIsBooted
<1>1. TypeOK /\ VerdictInv /\ BootInv /\ [Next]_vars
      => TypeOK' /\ VerdictInv' /\ BootInv'
  BY NextType, VerdictStep, BootStep
<1>2. Init => TypeOK /\ VerdictInv /\ BootInv
  BY InitType, VerdictInit, BootInit
<1>3. BootInv => RememberedSetIsBooted
  BY DEF BootInv, KeepsSets, RememberedSetIsBooted, Remembers
<1> QED
  BY <1>1, <1>2, <1>3, PTL DEF Spec
=============================================================================
