--------------------------- MODULE SriovStageProofs ---------------------------
(***************************************************************************)
(* Proofs about the VF counts on their way to the firmware, for any PFs,   *)
(* classes of firmware, demands, faults and bounds:                        *)
(*                                                                         *)
(*   TypeCorrect    every variable keeps its type                          *)
(*   LoadedOnce     OneWarmLoad: one warm reboot for one written value,    *)
(*                  and one more for each stage that was not recorded      *)
(*   ReadyFits      VFsFitCeiling: Ready promises what the firmware runs   *)
(*   HaltKeeps      ArmedForALoad: a reboot past Configuring is a load's    *)
(*                                                                         *)
(* OneWarmLoad rests on LoadInv.  A PF that has had all the reboots it may *)
(* have had has a stage that says so, of the value in the NV: it was a     *)
(* load then, is over once the boot is (StageInv: no stage is of a boot to *)
(* come) and is never anchored again.  A PF whose request waits has had    *)
(* fewer (PendInv).  Configuring is left with what the profile asks in the *)
(* NV (MlxInv), so that past it a stage is of that value (WrittenInv).     *)
(***************************************************************************)
EXTENDS SriovStage, TLAPS

Stages == [state : {Unset, "staged", "load", "cold"}, nv : Counts,
           reboots : Nat]

\* Counts are numbers, and no PF is without a demand.
LEMMA CountTypes ==
  /\ Demands \subseteq Nat \ {0} /\ Demands \subseteq Counts
  /\ Counts \subseteq Nat /\ 0 \in Counts
BY DemandAssumption DEF Counts

\* No stage is not a stage of the machine.
LEMMA UnsetIsNoStage == Unset \notin {"staged", "load", "cold"}
BY Zenon DEF Unset

-----------------------------------------------------------------------------
(* Types *)

StepType ==
  /\ phase \in {"Configuring", "Finalizing", "ColdRebootRequired", "Ready"}
  /\ mlx \in StepStates /\ sriov \in StepStates
  /\ reboots \in Nat /\ coldCond \in BOOLEAN

NoteType == stage \in [PFs -> Stages] /\ rewound \in BOOLEAN

CountType ==
  /\ want \in [PFs -> Demands] /\ nv \in [PFs -> Counts]
  /\ loaded \in [PFs -> Counts] /\ vfs \in [PFs -> Counts]
  /\ warmLoads \in [PFs -> Nat] /\ unnoted \in [PFs -> Nat]

MemoryType ==
  /\ pending \in SUBSET (PFs \cup {HostWide}) /\ armed \in BOOLEAN
  /\ faults \in FaultSets /\ faultsLeft \in 0..MaxFaults

\* TypeOK in the parts that the steps change.
LEMMA TypeParts == TypeOK <=> StepType /\ NoteType /\ CountType /\ MemoryType
BY DEF TypeOK, StepType, NoteType, CountType, MemoryType, Stages

\* The same of the next state.
LEMMA NextTypeParts ==
  StepType' /\ NoteType' /\ CountType' /\ MemoryType' => TypeOK'
BY TypeParts, PTL

\* Init is well typed.
LEMMA InitType == Init => TypeOK
<1> SUFFICES ASSUME Init PROVE TypeOK
  OBVIOUS
<1>1. StepType
  BY DEF Init, StepType, StepStates
<1>2. NoteType
  BY CountTypes DEF Init, NoteType, NoStage, Stages
<1>3. CountType
  BY CountTypes DEF Init, CountType, Counts
<1>4. MemoryType
  <2>1. faultsLeft \in 0..MaxFaults
    BY BoundsAssumption DEF Init
  <2> QED
    BY <2>1 DEF Init, MemoryType
<1> QED
  BY <1>1, <1>2, <1>3, <1>4, TypeParts

\* A fault is paid for.
LEMMA FaultsType ==
  ASSUME TypeOK, \E kinds : Suffer(kinds)
  PROVE  faults' \in FaultSets /\ faultsLeft' \in 0..MaxFaults
<1>1. PICK kinds : Suffer(kinds)
  OBVIOUS
<1>2. CASE kinds = {}
  BY <1>1, <1>2 DEF TypeOK, Suffer
<1>3. CASE kinds # {}
  BY <1>1, <1>3, BoundsAssumption DEF TypeOK, Suffer
<1> QED
  BY <1>2, <1>3

\* What the end of a cycle leaves of the requests.
LEMMA CheckpointType ==
  ASSUME TypeOK, NEW reqs \in SUBSET (PFs \cup {HostWide}),
         NEW quiet \in BOOLEAN, Checkpoint(reqs, quiet)
  PROVE  /\ pending' \in SUBSET (PFs \cup {HostWide}) /\ armed' \in BOOLEAN
         /\ \/ quiet /\ reqs # {} /\ armed' /\ pending' = {}
            \/ ~(quiet /\ reqs # {}) /\ armed' = armed /\ pending' = reqs
BY DEF Checkpoint, TypeOK

\* The stage of a PF, as it is read and as it is left.
LEMMA StageTypes ==
  ASSUME TypeOK, NEW p \in PFs, NEW unread
  PROVE  /\ stage[p] \in Stages /\ stageOf(p, unread) \in Stages
         /\ nextStageOf(p, unread) \in Stages
         /\ NoStage \in Stages
         /\ \A s \in {"staged", "load", "cold"}, n \in Counts :
              /\ Stage(s, n) \in Stages /\ Stage(s, n).state = s
              /\ Stage(s, n).nv = n /\ Stage(s, n).reboots = reboots
<1>1. stage[p] \in Stages /\ nv[p] \in Counts /\ reboots \in Nat
  BY TypeParts DEF NoteType, CountType, StepType
<1>2. NoStage \in Stages
  BY CountTypes DEF NoStage, Stages
<1>3. \A s \in {"staged", "load", "cold"}, n \in Counts :
        /\ Stage(s, n) \in Stages /\ Stage(s, n).state = s
        /\ Stage(s, n).nv = n /\ Stage(s, n).reboots = reboots
  BY <1>1 DEF Stage, Stages
<1>4. stageOf(p, unread) \in Stages
  BY <1>1, <1>3 DEF stageOf
<1>5. stageOf(p, unread).nv \in Counts
  BY <1>4 DEF Stages
<1>6. nextStageOf(p, unread) \in Stages
  BY <1>2, <1>3, <1>4, <1>5 DEF nextStageOf
<1> QED
  BY <1>1, <1>2, <1>3, <1>4, <1>6

\* What a pass of mlxconfig does: of the devices that drifted and did not fail
\* it stages some, and a PF it has not written keeps its history.
Configured(staged, anew, reqs, quiet) ==
  /\ staged \in SUBSET PFs /\ anew \in SUBSET PFs /\ staged \subseteq anew
  /\ reqs \in SUBSET (PFs \cup {HostWide}) /\ quiet \in BOOLEAN
  /\ nv' \in [PFs -> Counts]
  /\ \A p \in PFs : p \notin anew => nv'[p] = nv[p]
  /\ stage' = [p \in PFs |-> IF p \in staged
                             THEN Stage("staged", want[p]) ELSE stage[p]]
  /\ warmLoads' = [p \in PFs |-> IF p \in anew THEN 0 ELSE warmLoads[p]]
  /\ unnoted' = [p \in PFs |-> IF p \in anew THEN 0 ELSE unnoted[p]]
  /\ mlx' \in StepStates
  /\ mlx' = "Done" => \A p \in PFs : nv'[p] = want[p]
  /\ \/ phase' = phase
     \/ phase' = "Finalizing" /\ mlx' = "Done" /\ reqs = {}
  /\ reqs \subseteq pending \cup {HostWide}
  /\ Checkpoint(reqs, quiet)
  /\ vfs' \in [PFs -> Counts]
  /\ UNCHANGED <<sriov, reboots, coldCond, rewound, want, loaded>>

\* ConfigurePass is that.
LEMMA MlxconfigDoes ==
  ASSUME TypeOK, ConfigurePass
  PROVE  \E staged, anew, reqs, quiet : Configured(staged, anew, reqs, quiet)
<1>1. PICK failed \in SUBSET PFs, lost \in SUBSET PFs : Mlxconfig(failed, lost)
  BY DEF ConfigurePass
<1> DEFINE drifted == {p \in PFs : nv[p] # want[p]}
           written == drifted \ failed
           staged  == written \ lost
           anew    == {p \in PFs : p \in written \/ nv'[p] # nv[p]}
           result  == IF failed # {} THEN "Failed"
                      ELSE IF written # {} THEN "Blocked" ELSE "Done"
           reqs    == IF failed = {} /\ written # {} THEN pending \cup {HostWide}
                      ELSE pending
           quiet   == result = mlx /\ failed = {}
<1>2. /\ nv' \in {n \in [PFs -> Demands \cup {0}] : \A p \in PFs :
                    n[p] \in IF p \in written THEN {want[p]}
                            ELSE IF p \in drifted THEN {nv[p], 0, want[p]}
                            ELSE {nv[p]}}
      /\ stage' = [p \in PFs |-> IF p \in written \ lost
                                 THEN Stage("staged", want[p]) ELSE stage[p]]
      /\ warmLoads' = [p \in PFs |-> IF p \in written \/ nv'[p] # nv[p]
                                     THEN 0 ELSE warmLoads[p]]
      /\ unnoted' = [p \in PFs |-> IF p \in written \/ nv'[p] # nv[p]
                                   THEN 0 ELSE unnoted[p]]
      /\ mlx' = result
      /\ phase' = IF result = "Done" /\ reqs = {} THEN "Finalizing" ELSE phase
      /\ Checkpoint(reqs, quiet)
      /\ vfs' \in IF result = "Blocked" THEN FwReset(vfs) ELSE {vfs}
      /\ UNCHANGED <<sriov, reboots, coldCond, rewound, want, loaded>>
  BY <1>1, Zenon DEF Mlxconfig
<1>3. /\ staged \in SUBSET PFs /\ anew \in SUBSET PFs /\ staged \subseteq anew
      /\ \A p \in PFs : p \notin anew => nv'[p] = nv[p]
      /\ quiet \in BOOLEAN
      /\ reqs \in SUBSET (PFs \cup {HostWide})
      /\ reqs \subseteq pending \cup {HostWide}
  BY DEF TypeOK
<1>4. result \in StepStates
  BY DEF StepStates
<1>5. result = "Done" => \A p \in PFs : nv'[p] = want[p]
  <2>1. result = "Done" => failed = {} /\ written = {}
    OBVIOUS
  <2>2. failed = {} /\ written = {} => drifted = {}
    OBVIOUS
  <2>3. drifted = {} => \A p \in PFs : nv[p] = want[p] /\ p \notin written
                                       /\ p \notin drifted
    OBVIOUS
  <2> QED
    BY <1>2, <2>1, <2>2, <2>3
<1>6. nv' \in [PFs -> Counts]
  BY <1>2 DEF Counts
<1>7. vfs' \in [PFs -> Counts]
  BY <1>2 DEF FwReset, Counts, TypeOK
<1>8. /\ stage' = [p \in PFs |-> IF p \in staged
                                 THEN Stage("staged", want[p]) ELSE stage[p]]
      /\ warmLoads' = [p \in PFs |-> IF p \in anew THEN 0 ELSE warmLoads[p]]
      /\ unnoted' = [p \in PFs |-> IF p \in anew THEN 0 ELSE unnoted[p]]
  BY <1>2
<1> HIDE DEF staged, anew, written, result, reqs, quiet
<1>9. \/ phase' = phase
      \/ phase' = "Finalizing" /\ mlx' = "Done" /\ reqs = {}
  BY <1>2
<1>10. Configured(staged, anew, reqs, quiet)
  BY <1>2, <1>3, <1>4, <1>5, <1>6, <1>7, <1>8, <1>9 DEF Configured
<1> QED
  BY <1>10

\* ... and so is the host after a pass of Configuring.
LEMMA ConfigureType ==
  ASSUME TypeOK, ConfigurePass \/ LeaveConfiguring PROVE TypeOK'
<1>1. StepType /\ NoteType /\ CountType /\ MemoryType
  BY TypeParts
<1>2. faults' \in FaultSets /\ faultsLeft' \in 0..MaxFaults
  BY FaultsType DEF ConfigurePass, LeaveConfiguring
<1>3. CASE ConfigurePass
  <2>1. PICK staged, anew, reqs, quiet : Configured(staged, anew, reqs, quiet)
    BY <1>3, MlxconfigDoes
  <2>2. StepType'
    BY <1>1, <2>1 DEF Configured, StepType
  <2>3. NoteType'
    <3>1. \A p \in PFs : want[p] \in Counts
      BY <1>1, CountTypes DEF CountType
    <3> QED
      BY <1>1, <2>1, <3>1, StageTypes DEF Configured, NoteType
  <2>4. CountType'
    BY <1>1, <2>1 DEF Configured, CountType
  <2>5. MemoryType'
    BY <1>2, <2>1, CheckpointType DEF Configured, MemoryType
  <2> QED
    BY <2>2, <2>3, <2>4, <2>5, NextTypeParts
<1>4. CASE LeaveConfiguring
  <2>1. StepType'
    BY <1>1, <1>4 DEF LeaveConfiguring, StepType
  <2>2. NoteType' /\ CountType'
    BY <1>1, <1>4 DEF LeaveConfiguring, NoteType, CountType, notes, firmware,
       history
  <2>3. MemoryType'
    BY <1>1, <1>2, <1>4, CheckpointType DEF LeaveConfiguring, MemoryType
  <2> QED
    BY <2>1, <2>2, <2>3, NextTypeParts
<1> QED
  BY <1>3, <1>4

\* What a pass of sriovNumVFs does.  It rewinds the walk and fires nothing, or
\* it goes on and fires all its requests, or none.
Finalized(unread, lost, fired) ==
  /\ phase \in {"Finalizing", "ColdRebootRequired"}
  /\ ~armed /\ sriov # "Done"
  /\ UNCHANGED <<reboots, want, nv, loaded>>
  /\ stage' = [p \in PFs |-> IF p \in lost THEN stage[p]
                             ELSE nextStageOf(p, unread)]
  /\ coldCond' = (ColdPFs(unread) # {})
  /\ vfs' \in [PFs -> Counts]
  /\ Short = {} => vfs' = want
  /\ sriov' = IF Short = {} THEN "Done" ELSE "Blocked"
  /\ warmLoads' = [p \in PFs |-> IF p \notin Short THEN 0
                      ELSE warmLoads[p] + (IF p \in fired THEN 1 ELSE 0)]
  /\ unnoted' = [p \in PFs |-> IF p \notin Short THEN 0
                      ELSE unnoted[p] + (IF p \in lost THEN 1 ELSE 0)]
  /\ \/ /\ phase' = "Configuring" /\ mlx' = "Pending" /\ rewound' \in BOOLEAN
        /\ pending' = {} /\ armed' = armed /\ fired = {}
     \/ /\ phase' = IF Short = {} THEN "Ready" ELSE ColdOverlay
        /\ UNCHANGED <<mlx, rewound>>
        /\ \/ /\ Short # {} /\ armed' = TRUE /\ pending' = {}
              /\ fired = Requests(unread) /\ fired # {}
           \/ armed' = armed /\ pending' = Requests(unread) /\ fired = {}

\* FinalizePass is that.
LEMMA FinalizeDoes ==
  ASSUME TypeOK, FinalizePass
  PROVE  \E unread, lost, fired : Finalized(unread, lost, fired)
<1>1. PICK unread \in SUBSET Short, lost \in SUBSET (PFs \cup {HostWide}) :
        Finalize(unread, lost)
  BY DEF FinalizePass
<1> DEFINE given  == [p \in PFs |-> IF p \in Short THEN vfs[p] ELSE want[p]]
           moved  == {p \in PFs : nextStageOf(p, unread) # stage[p]}
           result == IF Short = {} THEN "Done" ELSE "Blocked"
           quiet  == result = sriov
           fired  == IF Rewinds(unread) THEN {} ELSE Fired(Requests(unread), quiet)
<1>2. /\ vfs' \in IF LoadPFs(unread) \cap moved = {} THEN {given}
                  ELSE FwReset(given)
      /\ stage' = [p \in PFs |-> IF p \in lost THEN stage[p]
                                 ELSE nextStageOf(p, unread)]
      /\ coldCond' = (ColdPFs(unread) # {})
      /\ sriov' = result
      /\ warmLoads' = [p \in PFs |-> IF p \notin Short THEN 0
                          ELSE warmLoads[p] + (IF p \in fired THEN 1 ELSE 0)]
      /\ unnoted' = [p \in PFs |-> IF p \notin Short THEN 0
                          ELSE unnoted[p] + (IF p \in lost THEN 1 ELSE 0)]
      /\ IF Rewinds(unread)
         THEN /\ phase' = "Configuring" /\ mlx' = "Pending"
              /\ rewound' = (HostWide \notin lost)
              /\ Checkpoint({}, FALSE)
         ELSE /\ phase' = IF result = "Done" THEN "Ready" ELSE ColdOverlay
              /\ Checkpoint(Requests(unread), quiet)
              /\ UNCHANGED <<mlx, rewound>>
      /\ UNCHANGED <<reboots, want, nv, loaded>>
  BY <1>1, Zenon DEF Finalize
<1>3. /\ phase \in {"Finalizing", "ColdRebootRequired"}
      /\ ~armed /\ sriov # "Done"
  BY DEF FinalizePass, walkStageFor
<1>4. /\ want \in [PFs -> Counts] /\ vfs \in [PFs -> Counts]
  BY CountTypes, TypeParts DEF CountType
<1>5. vfs' \in [PFs -> Counts]
  BY <1>2, <1>4 DEF FwReset, Counts
<1>6. Short = {} => vfs' = want
  <2>1. Short = {} => LoadPFs(unread) \cap moved = {}
    BY DEF LoadPFs
  <2>2. Short = {} => given = want
    BY <1>4
  <2> QED
    BY <1>2, <2>1, <2>2
<1>7. /\ result = "Done" <=> Short = {}
      /\ quiet \in BOOLEAN /\ (Short = {} => ~quiet)
  BY <1>3
<1> HIDE DEF result, quiet, given, moved
<1>8. CASE Rewinds(unread)
  <2>1. pending' = {} /\ armed' = armed
    BY <1>2, <1>8 DEF Checkpoint
  <2>2. fired = {}
    BY <1>8
  <2> HIDE DEF fired
  <2>3. Finalized(unread, lost, fired)
    BY <1>2, <1>3, <1>5, <1>6, <1>8, <2>1, <2>2 DEF Finalized, result
  <2> QED
    BY <2>3
<1>9. CASE ~Rewinds(unread)
  <2>1. \/ /\ Short # {} /\ armed' = TRUE /\ pending' = {}
           /\ fired = Requests(unread) /\ fired # {}
        \/ armed' = armed /\ pending' = Requests(unread) /\ fired = {}
    <3>1. Checkpoint(Requests(unread), quiet) /\ fired = Fired(Requests(unread), quiet)
      BY <1>2, <1>9
    <3> QED
      BY <1>7, <3>1 DEF Checkpoint, Fired
  <2>2. phase' = IF Short = {} THEN "Ready" ELSE ColdOverlay
    BY <1>2, <1>7, <1>9
  <2> HIDE DEF fired
  <2>3. Finalized(unread, lost, fired)
    BY <1>2, <1>3, <1>5, <1>6, <1>9, <2>1, <2>2 DEF Finalized, result
  <2> QED
    BY <2>3
<1> QED
  BY <1>8, <1>9

\* The requests of a pass are among those there were and its loads.
LEMMA RequestsType ==
  ASSUME TypeOK, NEW unread
  PROVE  Requests(unread) \in SUBSET (PFs \cup {HostWide})
<1>1. LoadPFs(unread) \subseteq PFs
  BY DEF LoadPFs, Short
<1>2. dropPendingReboots(ColdPFs(unread)) \subseteq pending
  BY DEF dropPendingReboots
<1> QED
  BY <1>1, <1>2 DEF Requests, TypeOK

\* ... and after a pass of Finalizing every variable has its type.
LEMMA FinalizeType == ASSUME TypeOK, FinalizePass PROVE TypeOK'
<1>1. StepType /\ NoteType /\ CountType /\ MemoryType
  BY TypeParts
<1>2. faults' \in FaultSets /\ faultsLeft' \in 0..MaxFaults
  BY FaultsType DEF FinalizePass
<1>3. PICK unread, lost, fired : Finalized(unread, lost, fired)
  BY FinalizeDoes
<1>4. phase' \in {"Configuring", "Finalizing", "ColdRebootRequired", "Ready"}
  BY <1>1, <1>3 DEF Finalized, ColdOverlay, StepType
<1>5. StepType'
  <2>1. mlx' \in StepStates /\ sriov' \in StepStates
    BY <1>1, <1>3 DEF Finalized, StepStates, StepType
  <2>2. reboots' \in Nat /\ coldCond' \in BOOLEAN
    BY <1>1, <1>3 DEF Finalized, StepType
  <2> QED
    BY <1>4, <2>1, <2>2 DEF StepType
<1>6. NoteType'
  <2>1. stage' \in [PFs -> Stages]
    BY <1>3, StageTypes DEF Finalized
  <2>2. rewound' \in BOOLEAN
    BY <1>1, <1>3 DEF Finalized, NoteType
  <2> QED
    BY <2>1, <2>2 DEF NoteType
<1>7. CountType'
  <2>1. /\ UNCHANGED <<want, nv, loaded>> /\ vfs' \in [PFs -> Counts]
    BY <1>3 DEF Finalized
  <2>2. /\ warmLoads' = [p \in PFs |-> IF p \notin Short THEN 0
                      ELSE warmLoads[p] + (IF p \in fired THEN 1 ELSE 0)]
        /\ unnoted' = [p \in PFs |-> IF p \notin Short THEN 0
                      ELSE unnoted[p] + (IF p \in lost THEN 1 ELSE 0)]
    BY <1>3 DEF Finalized
  <2>3. \A p \in PFs : warmLoads[p] \in Nat /\ unnoted[p] \in Nat
    BY <1>1 DEF CountType
  <2>4. warmLoads' \in [PFs -> Nat] /\ unnoted' \in [PFs -> Nat]
    BY <2>2, <2>3
  <2> QED
    BY <1>1, <2>1, <2>4 DEF CountType
<1>8. MemoryType'
  BY <1>1, <1>2, <1>3, RequestsType DEF Finalized, MemoryType
<1> QED
  BY <1>5, <1>6, <1>7, <1>8, NextTypeParts

\* What every boot does, with or without a power cycle.
LEMMA BootDoes ==
  ASSUME TypeOK, RebootFires \/ NaturalBoot \/ PowerCycle \/ UnaskedPowerCycle
  PROVE  /\ loaded' \in [PFs -> Counts] /\ vfs' \in [PFs -> Counts]
         /\ \A p \in PFs : loaded[p] <= nv[p] => loaded'[p] <= nv[p]
         /\ reboots' = reboots + 1 /\ sriov' \in StepStates
         /\ pending' = {} /\ armed' = FALSE
         /\ phase # "Ready" \/ armed \/ coldCond
         /\ UNCHANGED <<phase, mlx, coldCond, stage, rewound, want, nv, warmLoads, unnoted>>
<1>1. PICK power \in BOOLEAN : Boot(power)
  BY DEF RebootFires, NaturalBoot, PowerCycle, UnaskedPowerCycle
<1>2. /\ loaded' \in [PFs -> Counts] /\ reboots' = reboots + 1
      /\ pending' = {} /\ armed' = FALSE
      /\ UNCHANGED <<phase, mlx, coldCond, stage, rewound, want, nv, warmLoads, unnoted>>
      /\ vfs' = [p \in PFs |-> 0]
      /\ sriov' = IF sriov = "Done" THEN "Pending" ELSE sriov
      /\ \A p \in PFs : loaded'[p] \in Loads(p, power)
  BY <1>1 DEF Boot, Counts, notes, history
<1>3. vfs' \in [PFs -> Counts] /\ sriov' \in StepStates
  BY <1>2, CountTypes DEF StepStates, TypeOK
<1>4. ASSUME NEW p \in PFs, loaded[p] <= nv[p] PROVE loaded'[p] <= nv[p]
  <2>1. /\ loaded[p] \in Nat /\ nv[p] \in Nat /\ Clamp \in Nat
        /\ Firmware[p] \in FirmwareClasses
    BY CountTypes, DemandAssumption, FirmwareAssumption DEF TypeOK
  <2>2. \A n \in Loads(p, power) : n = nv[p] \/ n = loaded[p]
                                   \/ (n = Clamp /\ ~(nv[p] <= Clamp))
    BY <2>1 DEF Loads, FirmwareClasses
  <2> QED
    BY <1>2, <1>4, <2>1, <2>2
<1>5. phase # "Ready" \/ armed \/ coldCond
  BY DEF RebootFires, NaturalBoot, PowerCycle, UnaskedPowerCycle
<1> QED
  BY <1>2, <1>3, <1>4, <1>5

\* ... and after every step.
LEMMA NextType == ASSUME TypeOK, [Next]_vars PROVE TypeOK'
<1>1. StepType /\ NoteType /\ CountType /\ MemoryType
  BY TypeParts
<1>2. CASE Agent
  BY <1>2, ConfigureType, FinalizeType DEF Agent
<1>3. CASE RebootFires \/ NaturalBoot \/ PowerCycle \/ UnaskedPowerCycle
  <2>1. faults' \in FaultSets /\ faultsLeft' \in 0..MaxFaults
    BY <1>3, FaultsType
       DEF RebootFires, NaturalBoot, PowerCycle, UnaskedPowerCycle
  <2>2. /\ loaded' \in [PFs -> Counts] /\ vfs' \in [PFs -> Counts]
        /\ reboots' = reboots + 1 /\ sriov' \in StepStates
        /\ pending' = {} /\ armed' = FALSE
        /\ UNCHANGED <<phase, mlx, coldCond, stage, rewound, want, nv, warmLoads, unnoted>>
    BY <1>3, BootDoes
  <2>3. reboots' \in Nat
    BY <1>1, <2>2 DEF StepType
  <2>4. StepType'
    BY <1>1, <2>2, <2>3, Zenon DEF StepType
  <2>5. NoteType' /\ CountType' /\ MemoryType'
    BY <1>1, <2>1, <2>2 DEF NoteType, CountType, MemoryType
  <2> QED
    BY <2>4, <2>5, NextTypeParts
<1>4. CASE AgentRestart
  <2>1. faults' \in FaultSets /\ faultsLeft' \in 0..MaxFaults
    BY <1>4, FaultsType DEF AgentRestart
  <2>2. StepType' /\ NoteType' /\ CountType' /\ MemoryType'
    BY <1>1, <1>4, <2>1 DEF AgentRestart, status, notes, firmware, history,
       StepType, NoteType, CountType, MemoryType
  <2> QED
    BY <2>2, NextTypeParts
<1>5. CASE EditProfile
  <2>1. faults' \in FaultSets /\ faultsLeft' \in 0..MaxFaults
    BY <1>5, FaultsType DEF EditProfile
  <2>2. StepType' /\ NoteType' /\ CountType' /\ MemoryType'
    BY <1>1, <1>5, <2>1 DEF EditProfile, notes, firmware, history, StepStates,
       StepType, NoteType, CountType, MemoryType
  <2> QED
    BY <2>2, NextTypeParts
<1>6. CASE UNCHANGED vars
  BY <1>6 DEF vars, status, notes, firmware, memory, history, TypeOK
<1> QED
  BY <1>2, <1>3, <1>4, <1>5, <1>6 DEF Next

\* TypeOK: whatever the agent, the boots, the firmware and the operator do.
THEOREM TypeCorrect == Spec => []TypeOK
BY InitType, NextType, PTL DEF Spec

-----------------------------------------------------------------------------
(* VFsFitCeiling *)

\* A walk that is Ready has its VFs, and no reboot is on its way to it.
ReadyInv ==
  phase = "Ready" => ~armed /\ ~coldCond /\ Short = {} /\ vfs = want

\* No walk begins Ready.
LEMMA ReadyInit == Init => ReadyInv
BY DEF Init, ReadyInv

\* The last pass makes it so, and every step but an edit keeps it.
LEMMA ReadyStep == ASSUME TypeOK, ReadyInv, [Next]_vars PROVE ReadyInv'
<1>1. CASE ConfigurePass
  <2>1. phase' = phase \/ phase' = "Finalizing"
    BY <1>1, MlxconfigDoes DEF Configured
  <2>2. phase = "Configuring"
    BY <1>1 DEF ConfigurePass
  <2> QED
    BY <2>1, <2>2 DEF ReadyInv
<1>2. CASE LeaveConfiguring \/ EditProfile
  BY <1>2 DEF LeaveConfiguring, EditProfile, ReadyInv
<1>3. CASE FinalizePass
  <2>1. PICK unread, lost, fired : Finalized(unread, lost, fired)
    BY <1>3, FinalizeDoes
  <2>2. CASE phase' = "Ready"
    <3>1. Short = {}
      BY <2>1, <2>2 DEF Finalized, ColdOverlay
    <3>2. ColdPFs(unread) = {}
      BY <3>1 DEF ColdPFs
    <3>3. ~coldCond' /\ vfs' = want /\ UNCHANGED <<want, loaded, armed>> /\ ~armed
      BY <2>1, <2>2, <3>1, <3>2 DEF Finalized
    <3>4. Short' = Short
      BY <3>3 DEF Short
    <3> QED
      BY <3>1, <3>3, <3>4 DEF ReadyInv
  <2> QED
    BY <2>2 DEF ReadyInv
<1>4. CASE RebootFires \/ NaturalBoot \/ PowerCycle \/ UnaskedPowerCycle
  BY <1>4, BootDoes DEF ReadyInv
<1>5. CASE AgentRestart \/ UNCHANGED vars
  <2>1. UNCHANGED <<phase, armed, coldCond, want, loaded, vfs>>
    BY <1>5 DEF AgentRestart, vars, status, firmware, memory
  <2>2. Short' = Short
    BY <2>1 DEF Short
  <2> QED
    BY <2>1, <2>2 DEF ReadyInv
<1> QED
  BY <1>1, <1>2, <1>3, <1>4, <1>5 DEF Next, Agent

\* VFsFitCeiling: what Ready promises, the running firmware exposes, after any
\* boots, power cycles, edits and rewinds.
THEOREM ReadyFits == Spec => []VFsFitCeiling
<1>1. TypeOK /\ ReadyInv => VFsFitCeiling
  <2> SUFFICES ASSUME TypeOK, ReadyInv, phase = "Ready", NEW p \in PFs
               PROVE  vfs[p] = want[p] /\ want[p] <= loaded[p]
    BY DEF VFsFitCeiling
  <2>1. vfs = want /\ p \notin Short
    BY DEF ReadyInv
  <2>2. want[p] \in Nat /\ loaded[p] \in Nat
    BY CountTypes DEF TypeOK
  <2> QED
    BY <2>1, <2>2 DEF Short
<1>2. TypeOK /\ ReadyInv /\ [Next]_vars => ReadyInv'
  BY ReadyStep
<1> QED
  BY <1>1, <1>2, ReadyInit, TypeCorrect, PTL DEF Spec


-----------------------------------------------------------------------------
(* OneWarmLoad *)

Late == phase # "Configuring"

\* No stage is of a boot to come.
StageInv == \A p \in PFs : stage[p].reboots <= reboots

\* mlxconfig is Done with what the profile asks, and Configuring is left so.
MlxInv ==
  phase = "Configuring" /\ mlx = "Done" => \A p \in PFs : nv[p] = want[p]

\* Past Configuring a stage is of the value in the NV.
WrittenInv ==
  Late => \A p \in PFs : \/ nv[p] = want[p]
                         \/ stage[p].state = Unset
                         \/ stage[p].nv = nv[p]

\* The PF that has had every reboot it may have had has a stage that says so: a
\* load whose boot count is over by the time the agent is back, or what comes
\* after it.
WarmInv == \A p \in PFs :
  /\ warmLoads[p] <= 1 + unnoted[p]
  /\ warmLoads[p] = 1 + unnoted[p] =>
       /\ stage[p].state \in {"load", "cold"}
       /\ stage[p].nv >= nv[p]
       /\ stage[p].state = "load" => armed \/ Passed(stage[p])

\* A recorded request of a PF is that of its load, which no boot served yet, or
\* of a load that could not be recorded.
PendInv ==
  /\ HostWide \in pending => phase = "Configuring"
  /\ \A p \in PFs \cap pending :
       /\ Late /\ p \in Short
       /\ warmLoads[p] <= unnoted[p]
       /\ \/ warmLoads[p] < unnoted[p]
          \/ /\ stage[p].state = "load" /\ ~Passed(stage[p])
             /\ stage[p].nv >= want[p]

LoadInv == StageInv /\ MlxInv /\ WrittenInv /\ WarmInv /\ PendInv

\* The outcomes of the machine, by the stage the pass read or anchored.
LEMMA Outcomes ==
  ASSUME TypeOK, NEW p \in PFs, NEW unread
  PROVE  LET st == stageOf(p, unread) IN
         /\ st.state = Unset \/ st.nv < want[p]
              => sriovTotalvfsOutcome(p, unread) = "NeedsApply"
         /\ st.state # Unset /\ ~(st.nv < want[p]) =>
              /\ st.nv >= want[p]
              /\ st.state = "staged" => sriovTotalvfsOutcome(p, unread) =
                   IF Passed(st) THEN "WarmLoad" ELSE "StagedWait"
              /\ st.state = "load" => sriovTotalvfsOutcome(p, unread) =
                   IF Passed(st) THEN "WarmSpent" ELSE "WarmLoad"
              /\ st.state = "cold" => sriovTotalvfsOutcome(p, unread) =
                   IF Passed(st) THEN "ColdSpent" ELSE "ColdHold"
<1> DEFINE st == stageOf(p, unread)
<1>1. /\ st.state \in {Unset, "staged", "load", "cold"}
      /\ st.nv \in Nat /\ want[p] \in Nat
  BY StageTypes, CountTypes DEF Stages, TypeOK
<1>2. sriovTotalvfsOutcome(p, unread) =
        CASE st.state = Unset \/ st.nv < want[p]        -> "NeedsApply"
          [] st.nv >= want[p] /\ st.state = "staged" ->
               IF Passed(st) THEN "WarmLoad" ELSE "StagedWait"
          [] st.nv >= want[p] /\ st.state = "load"   ->
               IF Passed(st) THEN "WarmSpent" ELSE "WarmLoad"
          [] st.nv >= want[p] /\ st.state = "cold"   ->
               IF Passed(st) THEN "ColdSpent" ELSE "ColdHold"
  BY Zenon DEF sriovTotalvfsOutcome
<1> HIDE DEF st
<1>3. st.state = Unset \/ st.nv < want[p]
        => sriovTotalvfsOutcome(p, unread) = "NeedsApply"
  BY <1>1, <1>2, UnsetIsNoStage
<1>4. st.state # Unset /\ ~(st.nv < want[p]) =>
        /\ st.nv >= want[p]
        /\ st.state = "staged" => sriovTotalvfsOutcome(p, unread) =
             IF Passed(st) THEN "WarmLoad" ELSE "StagedWait"
        /\ st.state = "load" => sriovTotalvfsOutcome(p, unread) =
             IF Passed(st) THEN "WarmSpent" ELSE "WarmLoad"
        /\ st.state = "cold" => sriovTotalvfsOutcome(p, unread) =
             IF Passed(st) THEN "ColdSpent" ELSE "ColdHold"
  BY <1>1, <1>2, UnsetIsNoStage
<1> QED
  BY <1>3, <1>4 DEF st

\* Past Configuring, the stage a pass works on is of the value in the NV, or
\* of the demand the NV has reached.
LEMMA StageIsWritten ==
  ASSUME TypeOK, Late, WrittenInv, NEW p \in PFs, NEW unread
  PROVE  \/ stageOf(p, unread).state = Unset
         \/ stageOf(p, unread).nv = nv[p]
         \/ nv[p] = want[p] /\ stageOf(p, unread) = stage[p]
<1>1. nv[p] \in Counts
  BY DEF TypeOK
<1>2. CASE Anchored(p, unread)
  BY <1>1, <1>2, StageTypes DEF stageOf
<1>3. CASE ~Anchored(p, unread)
  BY <1>3 DEF stageOf, WrittenInv
<1> QED
  BY <1>2, <1>3

\* A PF that has had its reboots does not ask for another: its load is spent.
LEMMA WarmRests ==
  ASSUME TypeOK, WarmInv, ~armed, NEW p \in PFs, NEW unread,
         warmLoads[p] = 1 + unnoted[p]
  PROVE  /\ p \notin LoadPFs(unread)
         /\ p \in Short =>
              /\ nextStageOf(p, unread).state \in {"load", "cold"}
              /\ nextStageOf(p, unread).nv >= nv[p]
              /\ nextStageOf(p, unread).state = "load"
                   => Passed(nextStageOf(p, unread))
<1>1. /\ stage[p].state \in {"load", "cold"} /\ stage[p].nv >= nv[p]
      /\ stage[p].state = "load" => Passed(stage[p])
  BY DEF WarmInv
<1>2. /\ stage[p].nv \in Counts /\ stage[p].nv \in Nat
      /\ want[p] \in Nat /\ nv[p] \in Nat
  BY StageTypes, CountTypes DEF Stages, TypeOK
<1>3. stageOf(p, unread) = stage[p]
  BY <1>1, <1>2, UnsetIsNoStage DEF stageOf, Anchored
<1>4. sriovTotalvfsOutcome(p, unread) # "WarmLoad"
  BY <1>1, <1>2, <1>3, Outcomes, UnsetIsNoStage
<1>5. p \notin LoadPFs(unread)
  BY <1>4 DEF LoadPFs
<1>6. ASSUME p \in Short
      PROVE  nextStageOf(p, unread) \in {stage[p], Stage("cold", stage[p].nv)}
  BY <1>3, <1>4, <1>6 DEF nextStageOf
<1>7. /\ Stage("cold", stage[p].nv).state = "cold"
      /\ Stage("cold", stage[p].nv).nv = stage[p].nv
  BY <1>2, StageTypes
<1> QED
  BY <1>1, <1>5, <1>6, <1>7

\* The stage of a PF that asks for its reboot: a load of this boot.
LEMMA LoadStage ==
  ASSUME TypeOK, Late, WrittenInv, NEW unread, NEW p \in LoadPFs(unread)
  PROVE  /\ p \in PFs /\ p \in Short
         /\ nextStageOf(p, unread).state = "load"
         /\ ~Passed(nextStageOf(p, unread))
         /\ nextStageOf(p, unread).nv >= want[p]
         /\ nextStageOf(p, unread).nv >= nv[p]
<1>1. p \in PFs /\ p \in Short /\ sriovTotalvfsOutcome(p, unread) = "WarmLoad"
  BY DEF LoadPFs, Short
<1> DEFINE st == stageOf(p, unread)
<1>2. /\ st.state \in {Unset, "staged", "load", "cold"} /\ st.nv \in Counts
      /\ st.nv \in Nat /\ want[p] \in Nat /\ nv[p] \in Nat /\ reboots \in Nat
  BY <1>1, StageTypes, CountTypes DEF Stages, TypeOK
<1>3. /\ st.state # Unset /\ st.nv >= want[p]
      /\ \/ st.state = "staged"
         \/ st.state = "load" /\ ~Passed(st)
  BY <1>1, <1>2, Outcomes
<1>4. st.nv >= nv[p]
  <2>1. st.nv = nv[p] \/ nv[p] = want[p]
    BY <1>1, <1>3, StageIsWritten
  <2> HIDE DEF st
  <2> QED
    BY <1>2, <1>3, <2>1
<1>5. nextStageOf(p, unread) =
        IF st.state = "staged" THEN Stage("load", st.nv) ELSE st
  BY <1>1 DEF nextStageOf
<1>6. /\ Stage("load", st.nv).state = "load" /\ Stage("load", st.nv).nv = st.nv
      /\ Stage("load", st.nv).reboots = reboots
  BY <1>1, <1>2, StageTypes
<1> HIDE DEF st
<1>7. ~Passed(Stage("load", st.nv))
  BY <1>2, <1>6 DEF Passed
<1> QED
  BY <1>1, <1>3, <1>4, <1>5, <1>6, <1>7

\* Whose request a pass leaves: PFs that are short and have a reboot to spare, by
\* the load this pass works on or by one that could not be recorded.
LEMMA RequestsAreLoads ==
  ASSUME TypeOK, WarmInv, PendInv, Late, ~armed, NEW unread
  PROVE  /\ Requests(unread) \subseteq PFs /\ LoadPFs(unread) \subseteq Requests(unread)
         /\ \A p \in Requests(unread) :
              /\ p \in Short /\ warmLoads[p] <= unnoted[p]
              /\ p \in LoadPFs(unread) \/ warmLoads[p] < unnoted[p]
<1>1. HostWide \notin pending /\ HostWide \notin PFs
  BY FirmwareAssumption DEF PendInv, Late
<1>2. \A p \in PFs : warmLoads[p] \in Nat /\ unnoted[p] \in Nat
  BY DEF TypeOK
<1>3. ASSUME NEW p \in LoadPFs(unread)
      PROVE  p \in PFs /\ p \in Short /\ warmLoads[p] <= unnoted[p]
  <2>1. p \in PFs /\ p \in Short
    BY DEF LoadPFs, Short
  <2>2. warmLoads[p] <= 1 + unnoted[p] /\ warmLoads[p] # 1 + unnoted[p]
    BY <2>1, WarmRests DEF WarmInv
  <2> QED
    BY <1>2, <2>1, <2>2
<1>4. ASSUME NEW p \in PFs \cap pending
      PROVE  /\ p \in Short /\ warmLoads[p] <= unnoted[p]
             /\ p \in LoadPFs(unread) \/ warmLoads[p] < unnoted[p]
  <2>1. /\ p \in Short /\ warmLoads[p] <= unnoted[p]
        /\ \/ warmLoads[p] < unnoted[p]
           \/ /\ stage[p].state = "load" /\ ~Passed(stage[p])
              /\ stage[p].nv >= want[p]
    BY DEF PendInv
  <2>2. CASE /\ stage[p].state = "load" /\ ~Passed(stage[p])
             /\ stage[p].nv >= want[p]
    <3>1. stage[p].nv \in Nat /\ want[p] \in Nat
      BY StageTypes, CountTypes DEF Stages, TypeOK
    <3>2. stageOf(p, unread) = stage[p]
      BY <2>2, <3>1, UnsetIsNoStage DEF stageOf, Anchored
    <3>3. sriovTotalvfsOutcome(p, unread) = "WarmLoad"
      BY <2>2, <3>1, <3>2, Outcomes, UnsetIsNoStage
    <3> QED
      BY <2>1, <3>3 DEF LoadPFs
  <2> QED
    BY <2>1, <2>2
<1>5. pending \subseteq PFs
  BY <1>1 DEF TypeOK
<1>6. /\ Requests(unread) \subseteq pending \cup LoadPFs(unread)
      /\ LoadPFs(unread) \subseteq Requests(unread)
  BY DEF Requests, dropPendingReboots
<1> QED
  BY <1>3, <1>4, <1>5, <1>6

\* No reboot has fired and no stage is recorded.
LEMMA LoadInit == Init => LoadInv
<1> SUFFICES ASSUME Init PROVE LoadInv
  OBVIOUS
<1>1. /\ phase \in {"Configuring", "Finalizing"} /\ mlx = "Pending"
      /\ reboots = 0 /\ pending = {} /\ stage = [p \in PFs |-> NoStage]
      /\ warmLoads = [p \in PFs |-> 0] /\ unnoted = [p \in PFs |-> 0]
  BY DEF Init
<1>2. StageInv
  BY <1>1 DEF StageInv, NoStage
<1>3. MlxInv /\ PendInv
  BY <1>1 DEF MlxInv, PendInv
<1>4. WrittenInv
  BY <1>1 DEF WrittenInv, NoStage
<1>5. WarmInv
  BY <1>1 DEF WarmInv
<1> QED
  BY <1>2, <1>3, <1>4, <1>5 DEF LoadInv

\* A pass of mlxconfig forgets the reboots of what it writes, and leaves
\* Configuring with the NV the profile asks.
LEMMA MlxconfigLoad ==
  ASSUME TypeOK, LoadInv, ConfigurePass PROVE LoadInv'
<1>1. phase = "Configuring" /\ ~armed
  BY DEF ConfigurePass
<1>2. PICK staged, anew, reqs, quiet : Configured(staged, anew, reqs, quiet)
  BY MlxconfigDoes
<1>3. /\ \A p \in PFs : stage[p].reboots <= reboots
      /\ reboots \in Nat /\ \A p \in PFs : want[p] \in Counts
  BY CountTypes DEF LoadInv, StageInv, TypeOK
<1>4. StageInv'
  <2>1. ASSUME NEW p \in PFs PROVE stage'[p].reboots <= reboots
    <3>1. Stage("staged", want[p]).reboots = reboots
      BY <1>3, StageTypes
    <3>2. stage'[p] \in {stage[p], Stage("staged", want[p])}
      BY <1>2 DEF Configured
    <3> QED
      BY <1>3, <3>1, <3>2
  <2> QED
    BY <1>2, <2>1 DEF Configured, StageInv
<1>5. MlxInv'
  BY <1>2 DEF Configured, MlxInv
<1>6. WrittenInv'
  BY <1>1, <1>2 DEF Configured, WrittenInv, Late
<1>7. WarmInv'
  <2>1. ASSUME NEW p \in PFs
        PROVE  /\ warmLoads'[p] <= 1 + unnoted'[p]
               /\ warmLoads'[p] = 1 + unnoted'[p] =>
                    /\ stage'[p].state \in {"load", "cold"}
                    /\ stage'[p].nv >= nv'[p]
                    /\ stage'[p].state = "load" => reboots' > stage'[p].reboots
    <3>1. CASE p \in anew
      BY <1>2, <3>1 DEF Configured
    <3>2. CASE p \notin anew
      <4>1. /\ warmLoads'[p] = warmLoads[p] /\ unnoted'[p] = unnoted[p]
            /\ stage'[p] = stage[p] /\ nv'[p] = nv[p] /\ reboots' = reboots
        BY <1>2, <3>2 DEF Configured
      <4>2. /\ warmLoads[p] <= 1 + unnoted[p]
            /\ warmLoads[p] = 1 + unnoted[p] =>
                 /\ stage[p].state \in {"load", "cold"}
                 /\ stage[p].nv >= nv[p]
                 /\ stage[p].state = "load" => reboots > stage[p].reboots
        BY <1>1 DEF LoadInv, WarmInv, Passed
      <4> QED
        BY <4>1, <4>2
    <3> QED
      BY <3>1, <3>2
  <2> QED
    BY <2>1 DEF WarmInv, Passed
<1>8. PendInv'
  <2>1. \A p \in PFs : p \notin pending
    BY <1>1 DEF LoadInv, PendInv, Late
  <2>2. pending' = {} \/ pending' = reqs
    BY <1>2 DEF Configured, Checkpoint
  <2>3. \A p \in PFs : p \notin pending'
    BY <1>2, <2>1, <2>2, FirmwareAssumption DEF Configured
  <2>4. HostWide \in pending' => phase' = "Configuring"
    BY <1>1, <1>2, <2>2 DEF Configured
  <2> QED
    BY <2>3, <2>4 DEF PendInv
<1> QED
  BY <1>4, <1>5, <1>6, <1>7, <1>8 DEF LoadInv

\* The walk leaves Configuring as mlxconfig left it.
LEMMA LeaveLoad ==
  ASSUME TypeOK, LoadInv, LeaveConfiguring PROVE LoadInv'
<1>1. /\ phase = "Configuring" /\ ~armed /\ mlx = "Done"
      /\ Checkpoint(pending, TRUE)
      /\ UNCHANGED <<mlx, reboots, stage, want, nv, loaded, warmLoads, unnoted>>
  BY DEF LeaveConfiguring, notes, firmware, history
<1>2. \A p \in PFs : nv'[p] = want'[p]
  BY <1>1 DEF LoadInv, MlxInv
<1>3. StageInv'
  BY <1>1 DEF LoadInv, StageInv
<1>4. MlxInv' /\ WrittenInv'
  BY <1>2 DEF MlxInv, WrittenInv
<1>5. WarmInv'
  BY <1>1 DEF LoadInv, WarmInv, Passed
<1>6. PendInv'
  BY <1>1 DEF Checkpoint, PendInv
<1> QED
  BY <1>3, <1>4, <1>5, <1>6 DEF LoadInv

\* A boot serves the loads that were waiting for it.
LEMMA BootLoad ==
  ASSUME TypeOK, LoadInv,
         RebootFires \/ NaturalBoot \/ PowerCycle \/ UnaskedPowerCycle
  PROVE  LoadInv'
<1>1. /\ reboots' = reboots + 1 /\ pending' = {}
      /\ UNCHANGED <<phase, mlx, coldCond, stage, want, nv, warmLoads, unnoted>>
  BY BootDoes
<1>2. reboots \in Nat /\ \A p \in PFs : stage[p].reboots \in Nat
  BY StageTypes DEF Stages, TypeOK
<1>3. \A p \in PFs : stage'[p].reboots < reboots'
  BY <1>1, <1>2 DEF LoadInv, StageInv
<1>4. StageInv'
  BY <1>1, <1>2, <1>3 DEF StageInv
<1>5. MlxInv' /\ WrittenInv' /\ PendInv'
  BY <1>1 DEF LoadInv, MlxInv, WrittenInv, PendInv, Late
<1>6. WarmInv'
  <2>1. \A p \in PFs : Passed(stage[p])'
    BY <1>1, <1>2, <1>3 DEF Passed
  <2> QED
    BY <1>1, <2>1 DEF LoadInv, WarmInv
<1> QED
  BY <1>4, <1>5, <1>6 DEF LoadInv

\* A restart and an edit drop the requests, and an edit the walk with them.
LEMMA EditLoad ==
  ASSUME TypeOK, LoadInv, AgentRestart \/ EditProfile PROVE LoadInv'
<1>1. /\ pending' = {}
      /\ UNCHANGED <<reboots, coldCond, stage, nv, loaded, armed, warmLoads,
                     unnoted>>
      /\ \/ UNCHANGED <<phase, mlx, want>>
         \/ phase' = "Configuring" /\ mlx' = "Pending"
  BY DEF AgentRestart, EditProfile, status, notes, firmware, history
<1>2. StageInv' /\ MlxInv' /\ PendInv'
  BY <1>1 DEF LoadInv, StageInv, MlxInv, PendInv
<1>3. WrittenInv'
  BY <1>1 DEF LoadInv, WrittenInv, Late
<1>4. WarmInv'
  BY <1>1 DEF LoadInv, WarmInv, Passed
<1> QED
  BY <1>2, <1>3, <1>4 DEF LoadInv

\* The stage a pass leaves is of no boot to come, and of the value in the NV.
LEMMA NextStage ==
  ASSUME TypeOK, LoadInv, Late, NEW p \in PFs, NEW unread
  PROVE  /\ nextStageOf(p, unread).reboots <= reboots
         /\ \/ nv[p] = want[p] \/ nextStageOf(p, unread).state = Unset
            \/ nextStageOf(p, unread).nv = nv[p]
<1> DEFINE st == stageOf(p, unread)
<1>1. /\ NoStage.reboots = 0 /\ NoStage.state = Unset
      /\ stage[p].reboots <= reboots
      /\ nv[p] \in Counts /\ st.nv \in Counts /\ reboots \in Nat
  BY StageTypes DEF NoStage, LoadInv, StageInv, Stages, TypeOK
<1>2. /\ Stage("load", nv[p]).reboots = reboots
      /\ Stage("load", st.nv).reboots = reboots
      /\ Stage("cold", st.nv).reboots = reboots
      /\ Stage("load", st.nv).nv = st.nv /\ Stage("cold", st.nv).nv = st.nv
  BY <1>1, StageTypes
<1>3. st.reboots <= reboots
  BY <1>1, <1>2 DEF stageOf
<1>4. /\ \/ st.state = Unset \/ st.nv = nv[p] \/ nv[p] = want[p]
      /\ st.state = Unset => sriovTotalvfsOutcome(p, unread) = "NeedsApply"
  BY StageIsWritten, Outcomes DEF LoadInv
<1>5. nextStageOf(p, unread) =
        IF p \notin Short THEN NoStage
        ELSE IF sriovTotalvfsOutcome(p, unread) = "WarmLoad" /\ st.state = "staged"
             THEN Stage("load", st.nv)
        ELSE IF sriovTotalvfsOutcome(p, unread) = "WarmSpent"
             THEN Stage("cold", st.nv)
        ELSE st
  BY DEF nextStageOf
<1> HIDE DEF st
<1> QED
  BY <1>1, <1>2, <1>3, <1>4, <1>5

\* What a pass fires and what it could not record: the count of a PF that is
\* short goes up only for a load to spare, and stays behind what is not recorded.
LEMMA FinalizeCounts ==
  ASSUME TypeOK, LoadInv, NEW unread, NEW lost, NEW fired,
         Finalized(unread, lost, fired), NEW p \in PFs, p \in Short
  PROVE  /\ warmLoads[p] \in Nat /\ unnoted[p] \in Nat
         /\ warmLoads[p] <= 1 + unnoted[p]
         /\ warmLoads'[p] = warmLoads[p] + (IF p \in fired THEN 1 ELSE 0)
         /\ unnoted'[p] = unnoted[p] + (IF p \in lost THEN 1 ELSE 0)
         /\ stage'[p] = IF p \in lost THEN stage[p] ELSE nextStageOf(p, unread)
         /\ p \in fired => /\ armed' /\ warmLoads[p] <= unnoted[p]
                           /\ p \in LoadPFs(unread) \/ warmLoads[p] < unnoted[p]
<1>1. /\ stage' = [q \in PFs |-> IF q \in lost THEN stage[q]
                                 ELSE nextStageOf(q, unread)]
      /\ warmLoads' = [q \in PFs |-> IF q \notin Short THEN 0
                          ELSE warmLoads[q] + (IF q \in fired THEN 1 ELSE 0)]
      /\ unnoted' = [q \in PFs |-> IF q \notin Short THEN 0
                          ELSE unnoted[q] + (IF q \in lost THEN 1 ELSE 0)]
      /\ ~armed /\ Late
  BY DEF Finalized, Late
<1>2. /\ warmLoads[p] \in Nat /\ unnoted[p] \in Nat
      /\ warmLoads[p] <= 1 + unnoted[p]
  BY DEF TypeOK, LoadInv, WarmInv
<1>3. ASSUME p \in fired PROVE armed' /\ fired = Requests(unread)
  BY <1>3 DEF Finalized
<1> QED
  BY <1>1, <1>2, <1>3, RequestsAreLoads DEF LoadInv

\* A pass of sriovNumVFs fires a reboot only for the PFs whose load it begins
\* or waits for, and counts the load it could not record.
LEMMA FinalizeLoad ==
  ASSUME TypeOK, LoadInv, FinalizePass PROVE LoadInv'
<1>1. PICK unread, lost, fired : Finalized(unread, lost, fired)
  BY FinalizeDoes
<1>2. /\ Late /\ ~armed /\ UNCHANGED <<reboots, want, nv, loaded>>
      /\ stage' = [p \in PFs |-> IF p \in lost THEN stage[p]
                                 ELSE nextStageOf(p, unread)]
  BY <1>1 DEF Late, Finalized
<1>3. Short' = Short
  BY <1>2 DEF Short
<1>4. /\ reboots \in Nat /\ \A p \in PFs : Passed(stage[p])' <=>
           (IF p \in lost THEN Passed(stage[p]) ELSE Passed(nextStageOf(p, unread)))
  BY <1>2 DEF Passed, TypeOK
<1>5. StageInv'
  <2>1. \A p \in PFs : stage'[p].reboots <= reboots
    BY <1>2, NextStage DEF LoadInv, StageInv
  <2> QED
    BY <1>2, <2>1 DEF StageInv
<1>6. MlxInv'
  <2>1. \/ phase' = "Configuring" /\ mlx' = "Pending"
        \/ phase' # "Configuring"
    BY <1>1, <1>2 DEF Finalized, Late, ColdOverlay
  <2> QED
    BY <2>1 DEF MlxInv
<1>7. WrittenInv'
  BY <1>2, NextStage DEF LoadInv, WrittenInv
<1>8. WarmInv'
  <2>1. ASSUME NEW p \in PFs
        PROVE  /\ warmLoads'[p] <= 1 + unnoted'[p]
               /\ warmLoads'[p] = 1 + unnoted'[p] =>
                    /\ stage'[p].state \in {"load", "cold"}
                    /\ stage'[p].nv >= nv'[p]
                    /\ stage'[p].state = "load" => armed' \/ Passed(stage[p])'
    <3>1. CASE p \notin Short
      <4>1. warmLoads'[p] = 0 /\ unnoted'[p] = 0
        BY <1>1, <3>1 DEF Finalized
      <4> QED
        BY <4>1
    <3>2. CASE p \in Short /\ p \in fired
      <4>1. CASE p \in lost \/ warmLoads[p] < unnoted[p]
        <5>1. /\ warmLoads[p] \in Nat /\ unnoted[p] \in Nat
              /\ warmLoads[p] <= unnoted[p]
              /\ warmLoads'[p] = warmLoads[p] + 1
              /\ unnoted'[p] = unnoted[p] + (IF p \in lost THEN 1 ELSE 0)
          BY <1>1, <3>2, FinalizeCounts
        <5> QED
          BY <4>1, <5>1
      <4>2. CASE p \notin lost /\ ~(warmLoads[p] < unnoted[p])
        <5>1. /\ warmLoads[p] \in Nat /\ unnoted[p] \in Nat
              /\ warmLoads[p] <= unnoted[p]
              /\ warmLoads'[p] = warmLoads[p] + 1
              /\ unnoted'[p] = unnoted[p] + 0
              /\ p \in LoadPFs(unread) /\ armed'
              /\ stage'[p] = nextStageOf(p, unread)
          BY <1>1, <3>2, <4>2, FinalizeCounts
        <5>2. stage'[p].state = "load" /\ stage'[p].nv >= nv'[p]
          BY <1>2, <5>1, LoadStage DEF LoadInv
        <5> QED
          BY <5>1, <5>2
      <4> QED
        BY <4>1, <4>2
    <3>3. CASE p \in Short /\ p \notin fired
      <4>1. /\ warmLoads[p] \in Nat /\ unnoted[p] \in Nat
            /\ warmLoads[p] <= 1 + unnoted[p]
            /\ warmLoads'[p] = warmLoads[p] + 0
            /\ unnoted'[p] = unnoted[p] + (IF p \in lost THEN 1 ELSE 0)
            /\ p \notin lost => stage'[p] = nextStageOf(p, unread)
        BY <1>1, <3>3, FinalizeCounts
      <4>2. CASE p \in lost \/ warmLoads[p] # 1 + unnoted[p]
        BY <4>1, <4>2
      <4>3. CASE p \notin lost /\ warmLoads[p] = 1 + unnoted[p]
        <5>1. /\ nextStageOf(p, unread).state \in {"load", "cold"}
              /\ nextStageOf(p, unread).nv >= nv[p]
              /\ nextStageOf(p, unread).state = "load"
                   => Passed(nextStageOf(p, unread))
          BY <1>2, <3>3, <4>3, WarmRests DEF LoadInv
        <5> QED
          BY <1>2, <1>4, <4>1, <4>3, <5>1
      <4> QED
        BY <4>2, <4>3
    <3> QED
      BY <3>1, <3>2, <3>3
  <2> QED
    BY <2>1 DEF WarmInv
<1>9. PendInv'
  <2>1. CASE pending' = {}
    BY <2>1 DEF PendInv
  <2>2. CASE pending' # {}
    <3>1. /\ pending' = Requests(unread) /\ fired = {}
          /\ phase' = IF Short = {} THEN "Ready" ELSE ColdOverlay
      BY <1>1, <2>2 DEF Finalized
    <3>2. Late'
      BY <1>2, <3>1 DEF Late, ColdOverlay
    <3>3. HostWide \notin pending'
      BY <1>2, <3>1, RequestsAreLoads, FirmwareAssumption DEF LoadInv
    <3>4. ASSUME NEW p \in PFs \cap pending'
          PROVE  /\ p \in Short
                 /\ warmLoads'[p] <= unnoted'[p]
                 /\ \/ warmLoads'[p] < unnoted'[p]
                    \/ /\ stage'[p].state = "load" /\ ~Passed(stage[p])'
                       /\ stage'[p].nv >= want[p]
      <4>1. /\ p \in Short /\ warmLoads[p] <= unnoted[p]
            /\ p \in LoadPFs(unread) \/ warmLoads[p] < unnoted[p]
        BY <1>2, <3>1, RequestsAreLoads DEF LoadInv
      <4>2. /\ warmLoads[p] \in Nat /\ unnoted[p] \in Nat
            /\ warmLoads'[p] = warmLoads[p] + 0
            /\ unnoted'[p] = unnoted[p] + (IF p \in lost THEN 1 ELSE 0)
            /\ p \notin lost => stage'[p] = nextStageOf(p, unread)
        BY <1>1, <3>1, <4>1, FinalizeCounts
      <4>3. CASE p \in lost \/ warmLoads[p] < unnoted[p]
        BY <4>1, <4>2, <4>3
      <4>4. CASE p \notin lost /\ p \in LoadPFs(unread)
        <5>1. /\ nextStageOf(p, unread).state = "load"
              /\ ~Passed(nextStageOf(p, unread))
              /\ nextStageOf(p, unread).nv >= want[p]
          BY <1>2, <4>4, LoadStage DEF LoadInv
        <5> QED
          BY <1>4, <4>1, <4>2, <4>4, <5>1
      <4> QED
        BY <4>1, <4>3, <4>4
    <3> QED
      BY <1>2, <1>3, <3>2, <3>3, <3>4 DEF PendInv
  <2> QED
    BY <2>1, <2>2
<1> QED
  BY <1>5, <1>6, <1>7, <1>8, <1>9 DEF LoadInv

\* Every step keeps the loads and their reboots together.
LEMMA LoadStep == ASSUME TypeOK, LoadInv, [Next]_vars PROVE LoadInv'
<1>1. CASE Agent
  BY <1>1, MlxconfigLoad, LeaveLoad, FinalizeLoad DEF Agent
<1>2. CASE RebootFires \/ NaturalBoot \/ PowerCycle \/ UnaskedPowerCycle
  BY <1>2, BootLoad
<1>3. CASE AgentRestart \/ EditProfile
  BY <1>3, EditLoad
<1>4. CASE UNCHANGED vars
  <2>1. UNCHANGED <<phase, mlx, coldCond, reboots, stage, rewound, want, nv,
                    loaded, pending, armed, warmLoads, unnoted>>
    BY <1>4 DEF vars, status, notes, firmware, memory, history
  <2> QED
    BY <2>1 DEF LoadInv, StageInv, MlxInv, WrittenInv, WarmInv, PendInv, Late,
       Short, Passed
<1> QED
  BY <1>1, <1>2, <1>3, <1>4 DEF Next

\* OneWarmLoad: "the machine requests exactly one warm load reboot" for a
\* written value, and at most one more for each stage it could not record,
\* whatever boots, restarts, edits and rewinds come between.
THEOREM LoadedOnce == Spec => []OneWarmLoad
<1>1. LoadInv => OneWarmLoad
  BY DEF LoadInv, WarmInv, OneWarmLoad
<1>2. TypeOK /\ LoadInv /\ [Next]_vars => LoadInv'
  BY LoadStep
<1> QED
  BY <1>1, <1>2, LoadInit, TypeCorrect, PTL DEF Spec

-----------------------------------------------------------------------------
(* ArmedForALoad *)

\* ArmedForALoad: past Configuring every reboot that the agent arms is for a PF
\* that is short of its demand, in the boot its load belongs to, or for one
\* whose stage could not be recorded.  With every short PF cold, and recorded
\* so, no reboot is armed: only a sibling breaks into a cold halt.
THEOREM HaltKeeps == Spec => ArmedForALoad
<1> DEFINE Load(p) == /\ stage'[p].state = "load"
                      /\ stage'[p].reboots = reboots
                      /\ stage'[p].nv >= want[p]
           Justified ==
      ~armed /\ armed' /\ phase # "Configuring" =>
        \E p \in Short : Load(p) \/ unnoted'[p] > 0
<1>1. ASSUME TypeOK, LoadInv, [Next]_vars PROVE Justified
  <2> SUFFICES ASSUME ~armed, armed', Late PROVE Justified
    BY DEF Late
  <2>1. FinalizePass
    <3>1. ~UNCHANGED vars /\ ~AgentRestart /\ ~EditProfile
      BY DEF vars, memory, AgentRestart, EditProfile
    <3>2. ~(RebootFires \/ NaturalBoot \/ PowerCycle \/ UnaskedPowerCycle)
      BY DEF RebootFires, NaturalBoot, PowerCycle, UnaskedPowerCycle, Boot
    <3>3. ~ConfigurePass /\ ~LeaveConfiguring
      BY DEF Late, ConfigurePass, LeaveConfiguring
    <3> QED
      BY <1>1, <3>1, <3>2, <3>3 DEF Next, Agent
  <2>2. PICK unread, lost, fired : Finalized(unread, lost, fired)
    BY <1>1, <2>1, FinalizeDoes
  <2>3. fired = Requests(unread) /\ fired # {} /\ reboots' = reboots
    BY <2>2 DEF Finalized
  <2>4. PICK p \in fired : TRUE
    BY <2>3
  <2>5. p \in PFs /\ p \in Short
    BY <1>1, <2>3, <2>4, RequestsAreLoads DEF LoadInv
  <2>6. /\ warmLoads[p] \in Nat /\ unnoted[p] \in Nat
        /\ unnoted'[p] = unnoted[p] + (IF p \in lost THEN 1 ELSE 0)
        /\ stage'[p] = IF p \in lost THEN stage[p] ELSE nextStageOf(p, unread)
        /\ p \in LoadPFs(unread) \/ warmLoads[p] < unnoted[p]
    BY <1>1, <2>2, <2>4, <2>5, FinalizeCounts
  <2>7. CASE p \in lost \/ warmLoads[p] < unnoted[p]
    <3>1. unnoted'[p] > 0
      BY <2>6, <2>7
    <3> QED
      BY <2>5, <3>1
  <2>8. CASE p \notin lost /\ p \in LoadPFs(unread)
    <3>1. /\ stage'[p] = nextStageOf(p, unread) /\ stage'[p].state = "load"
          /\ ~Passed(stage'[p]) /\ stage'[p].nv >= want[p]
      BY <1>1, <2>6, <2>8, LoadStage DEF LoadInv
    <3>2. /\ stage'[p].reboots <= reboots
          /\ stage'[p].reboots \in Nat /\ reboots \in Nat
      BY <1>1, <2>5, <3>1, NextStage, StageTypes DEF Stages, TypeOK
    <3>3. stage'[p].reboots = reboots
      BY <3>1, <3>2 DEF Passed
    <3> QED
      BY <2>5, <3>1, <3>3
  <2> QED
    BY <2>6, <2>7, <2>8
<1>2. TypeOK /\ LoadInv /\ [Next]_vars => LoadInv'
  BY LoadStep
<1>3. TypeOK /\ LoadInv /\ [Next]_vars =>
        [~armed /\ armed' /\ phase # "Configuring" =>
           \E p \in Short : \/ /\ stage'[p].state = "load"
                               /\ stage'[p].reboots = reboots
                               /\ stage'[p].nv >= want[p]
                            \/ unnoted'[p] > 0]_vars
  BY <1>1
<1> QED
  BY <1>2, <1>3, LoadInit, TypeCorrect, PTL DEF Spec, ArmedForALoad
=============================================================================
