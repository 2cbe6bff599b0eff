---------------------------- MODULE FirmwareConfig ----------------------------
(***************************************************************************)
(* The mlxconfig step over the adapters of one host: the walk reads each   *)
(* device's whole table, builds the set its class wants, and resets and    *)
(* sets what deviates; a Ready node only verifies, with a query that names *)
(* keys and leaves out those the device is remembered not to expose        *)
(* (internal/agent/steps_mellanox.go, inventory.go).                       *)
(*                                                                         *)
(* The work on a device is cut at every mlxconfig call, and the process    *)
(* may die between any two.  One key stands for all that buildFlashSet     *)
(* emits by the same rule.  The devices are external: a table is read as   *)
(* it was last written, except on an emulated adapter (DSX Air), which     *)
(* shows defaults right after a boot and drops one value at every boot.    *)
(* The VF count's own path to the silicon is SriovStage.                   *)
(***************************************************************************)
EXTENDS Naturals, Sequences, FiniteSets

CONSTANTS
  Fns,        \* the functions in scope of spec.rails, in PCI order: one at least
  Class,      \* Class[d]: what enrichMellanox makes of d
  Exposes,    \* Exposes[d]: the managed keys its firmware knows
  Strict,     \* those whose tool rejects a query naming an unknown key
  Profiles,   \* [lt, cc, vfs, dpu]: link type, roceCC, VF count, DPUs managed
  MaxFaults,  \* bound: faults in one behaviour
  FaultSets   \* the environments: each a set of faults, see FaultKinds

FaultKinds ==
  { "tool",      \* an mlxconfig call fails
    "classify",  \* the query that classifies a device fails
    "restart",   \* the agent's process dies
    "boot",      \* the host boots
    "preinit",   \* an emulated table shows defaults after a boot
    "foreign",   \* somebody else changes the firmware config of a Ready node
    "edit" }     \* the profile is edited

\* A bug: a key is emitted and not listed.
mlxconfigManagedKeys_Short ==
  { "SRIOV_EN", "NUM_OF_VFS", "LINK_TYPE_P1", "LINK_TYPE_P2",
    "ROCE_ADAPTIVE_ROUTING_EN", "INTERNAL_CPU_OFFLOAD_ENGINE" }

mlxconfigManagedKeys ==
  { "SRIOV_EN", "NUM_OF_VFS", "LINK_TYPE_P1", "LINK_TYPE_P2",
    "ROCE_RTT_RESP_DSCP_P2", "ROCE_ADAPTIVE_ROUTING_EN",
    "INTERNAL_CPU_OFFLOAD_ENGINE" }

Devices == {Fns[i] : i \in DOMAIN Fns}

Ethernet == 2   \* linkTypeNum

ASSUME DevicesAssumption ==
  /\ Fns \in Seq(Devices) /\ Fns # <<>>
  /\ Class \in [Devices -> {"SuperNIC", "ConnectX7", "ConnectX4", "Air", "DPU"}]
  /\ \A d \in Devices : {"NUM_OF_VFS", "SRIOV_EN"} \subseteq Exposes[d]
  /\ Strict \subseteq Devices
  /\ \A p \in Profiles : /\ p.lt \in {1, Ethernet} /\ p.cc \in {0, 1}
                         /\ p.vfs \in Nat /\ p.dpu \in BOOLEAN
  /\ MaxFaults \in Nat
  /\ FaultSets \in SUBSET SUBSET FaultKinds

VARIABLES
  profile,
  phase,      \* "Walk" until the step is Done, then "Ready"
  agent,      \* where the pass is: pc, device, what failed, what was written
  known,      \* the devices classified in this process (mftCache)
  memo,       \* mlxconfigUnexposed of this process
  requested,  \* the process owes a reboot: recorded, or on its timer
  required,   \* RebootRequired on the NodePrep
  verdict,    \* what the last verification of each device said
  nv,         \* each device's firmware configuration, as it will boot
  running,    \* ... and as it booted
  early,      \* emulated devices whose table still shows defaults
  foreign,    \* history: the firmware config of the Ready node was changed
  faults, faultsLeft

process == <<agent, known, memo, requested>>
devices == <<nv, running, early>>
budget  == <<faults, faultsLeft>>
vars == <<profile, phase, process, required, verdict, devices, foreign, budget>>

Spend(f) == /\ f \in faults
            /\ faultsLeft > 0
            /\ faultsLeft' = faultsLeft - 1
            /\ UNCHANGED faults

NoFault == UNCHANGED budget

Default == 0
Defaults(d) == [k \in Exposes[d] |-> Default]
idle == [pc |-> "idle", at |-> 1, failed |-> FALSE, written |-> FALSE]

NewProcess ==
  /\ agent' = idle /\ known' = {} /\ requested' = FALSE
  /\ memo' = [d \in Devices |-> {}]

Init ==
  /\ profile \in Profiles
  /\ phase = "Walk"
  /\ agent = idle /\ known = {} /\ requested = FALSE /\ required = FALSE
  /\ memo = [d \in Devices |-> {}]
  /\ verdict = [d \in Devices |-> "none"]
  /\ nv = [d \in Devices |-> Defaults(d)]
  /\ running = nv
  /\ early = {}
  /\ foreign = FALSE
  /\ faults \in FaultSets /\ faultsLeft = MaxFaults
-----------------------------------------------------------------------------
(* The set a device's class wants, from the keys a query has shown *)

\* fwVFCount: the firmware never carries fewer than one VF.
fwVFCount(n) == IF n > 1 THEN n ELSE 1

Want(k, p) ==
  CASE k \in {"LINK_TYPE_P1", "LINK_TYPE_P2"} -> p.lt
    [] k = "NUM_OF_VFS"                       -> fwVFCount(p.vfs)
    [] k = "ROCE_ADAPTIVE_ROUTING_EN"         -> p.cc
    [] k = "ROCE_RTT_RESP_DSCP_P2"            -> 48
    [] OTHER                                  -> 1

\* addKV: emitted when the query shows the key.
Gated(c, p) ==
  {"SRIOV_EN"}
  \cup (IF p.lt = Ethernet /\ c \in {"SuperNIC", "ConnectX7", "Air"}
        THEN {"ROCE_ADAPTIVE_ROUTING_EN"} ELSE {})
  \cup (IF c \in {"ConnectX4", "ConnectX7"} THEN {"LINK_TYPE_P1"} ELSE {})
  \cup (IF c = "DPU" THEN {"INTERNAL_CPU_OFFLOAD_ENGINE"} ELSE {})

\* Emitted whatever the query shows.
Unconditional(c) ==
  {"NUM_OF_VFS"}
  \cup (IF c \in {"SuperNIC", "Air", "DPU"} THEN {"LINK_TYPE_P1"} ELSE {})

\* The second port, of a device that shows one.
addP2(c, shown, p) ==
  IF c = "Air" \/ "LINK_TYPE_P2" \notin shown THEN {}
  ELSE {"LINK_TYPE_P2"}
       \cup (IF p.lt = Ethernet THEN {"ROCE_RTT_RESP_DSCP_P2"} \cap shown ELSE {})

\* The keys of the set; an unclassified device has none.
buildFlashSet(c, shown, p) ==
  IF c = "none" THEN {}
  ELSE (Gated(c, p) \cap shown) \cup Unconditional(c) \cup addP2(c, shown, p)

ClassOf(d) == IF d \in known THEN Class[d] ELSE "none"

mlxconfigScope(d) == ClassOf(d) = "DPU" => profile.dpu

\* A bug: the emulator's value is drift.
mlxconfigAirReverted_Never(d, k, cur) == FALSE

mlxconfigAirReverted(d, k, cur) ==
  /\ ClassOf(d) = "Air" /\ k = "ROCE_ADAPTIVE_ROUTING_EN"
  /\ Want(k, profile) = 1 /\ cur = 0

mlxconfigDrift(d, k, cur) ==
  ~mlxconfigAirReverted(d, k, cur) /\ cur # Want(k, profile)

\* What a query shows of key k of device d.
Shown(d, k) == IF d \in early THEN Default ELSE nv[d][k]

Deviates(d, flash) ==
  \E k \in flash \cap Exposes[d] : mlxconfigDrift(d, k, Shown(d, k))

FlashSet(d) == buildFlashSet(ClassOf(d), Exposes[d], profile)

\* A full read is the authority on what a device exposes.
refreshMlxconfigExposure(d) ==
  memo' = [memo EXCEPT ![d] = mlxconfigManagedKeys \ Exposes[d]]
-----------------------------------------------------------------------------
(* A cycle: the inventory, then the walk's pass or the verification *)

\* Until the checkpoint arms its timer the passes find every table as it was
\* written; from then on RebootRequired holds walk and verification.
Held == requested \/ required

\* refreshInventory: a device not in the cache is classified, or is not.
enrichMellanox ==
  \/ known' = Devices /\ NoFault
  \/ \E d \in Devices \ known : known' = Devices \ {d} /\ Spend("classify")

BeginCycle ==
  /\ agent.pc = "idle" /\ ~Held
  /\ enrichMellanox
  /\ agent' = [idle EXCEPT !.pc = IF phase = "Ready" THEN "verify" ELSE "detect"]
  /\ UNCHANGED <<profile, phase, memo, requested, required, verdict, devices,
                 foreign>>

At(pc) == agent.pc = pc
dev == Fns[agent.at]

\* A bug: the loop does not end at the last device.
NextDevice_PastLast(first, failed, written) ==
  agent' = [pc |-> first, at |-> agent.at + 1,
            failed |-> agent.failed \/ failed,
            written |-> agent.written \/ written]

\* The pass goes on with the next device.
NextDevice(first, failed, written) ==
  agent' = [pc |-> IF agent.at = Len(Fns) THEN "end" ELSE first,
            at |-> IF agent.at = Len(Fns) THEN 1 ELSE agent.at + 1,
            failed |-> agent.failed \/ failed,
            written |-> agent.written \/ written]

Goto(pc) == agent' = [agent EXCEPT !.pc = pc]

InWalk ==
  UNCHANGED <<profile, phase, known, requested, required, verdict, running,
              foreign>>

\* The full query, and what deviates.  A key that is missing from the query is
\* an error only when something else deviates.
DetectDevice ==
  /\ At("detect")
  /\ \/ /\ ~mlxconfigScope(dev)
        /\ NextDevice("detect", FALSE, FALSE)
        /\ UNCHANGED memo /\ NoFault
     \/ /\ mlxconfigScope(dev)
        /\ refreshMlxconfigExposure(dev)
        /\ IF Deviates(dev, FlashSet(dev)) THEN Goto("reset")
           ELSE NextDevice("detect", FALSE, FALSE)
        /\ NoFault
     \/ /\ mlxconfigScope(dev)
        /\ NextDevice("detect", TRUE, FALSE)
        /\ UNCHANGED memo /\ Spend("tool")
  /\ InWalk /\ UNCHANGED <<nv, early>>

CallFails == NextDevice("detect", TRUE, FALSE) /\ Spend("tool") /\ UNCHANGED nv

ResetDevice ==
  /\ At("reset")
  /\ \/ nv' = [nv EXCEPT ![dev] = Defaults(dev)] /\ Goto("set") /\ NoFault
     \/ CallFails
  /\ InWalk /\ UNCHANGED <<memo, early>>

\* One call sets all keys; a key the device does not know fails it.
SetDevice ==
  /\ At("set")
  /\ \/ /\ FlashSet(dev) \subseteq Exposes[dev]
        /\ nv' = [nv EXCEPT ![dev] =
             [k \in Exposes[dev] |->
                IF k \in FlashSet(dev) THEN Want(k, profile) ELSE @[k]]]
        /\ early' = early \ {dev}
        /\ Goto("readback") /\ NoFault
     \/ /\ ~(FlashSet(dev) \subseteq Exposes[dev])
        /\ NextDevice("detect", TRUE, FALSE)
        /\ UNCHANGED <<nv, early>> /\ NoFault
     \/ CallFails /\ UNCHANGED early
  /\ InWalk /\ UNCHANGED memo

\* The post-set verification.
ReadbackDevice ==
  /\ At("readback")
  /\ \/ /\ refreshMlxconfigExposure(dev)
        /\ NextDevice("detect", Deviates(dev, FlashSet(dev)), TRUE)
        /\ UNCHANGED nv /\ NoFault
     \/ CallFails /\ UNCHANGED memo
  /\ InWalk /\ UNCHANGED early

\* A bug: a pass that wrote is a pass that is done.
Asks_Never == FALSE

\* A failure on any device hides what was written to the others.
Asks == agent.written /\ ~agent.failed

\* stepMlxconfig ends: Failed, Blocked on the reboot it asks for, or Done.
EndWalkPass ==
  /\ At("end") /\ phase = "Walk"
  /\ requested' = Asks
  /\ phase' = IF agent.failed \/ Asks THEN "Walk" ELSE "Ready"
  /\ agent' = idle
  /\ NoFault
  /\ UNCHANGED <<profile, known, memo, required, verdict, devices, foreign>>

\* The first pass that changes nothing arms the recorded request.
checkpointReboot ==
  /\ At("idle") /\ requested /\ ~required
  /\ required' = TRUE
  /\ NoFault
  /\ UNCHANGED <<profile, phase, process, verdict, devices, foreign>>
-----------------------------------------------------------------------------
(* stepMlxconfigVerify *)

\* flashQueryKeys against the probe that claims every managed key, without the
\* keys the device is remembered not to expose (mlxconfigQueryableKeys).
Candidates(d) ==
  buildFlashSet(ClassOf(d), mlxconfigManagedKeys, profile) \ memo[d]

Rejected(d) == d \in Strict /\ ~(Candidates(d) \subseteq Exposes[d])

\* The verdict on d from a query that showed the keys in shown.
Judged(d, shown) ==
  LET flash == buildFlashSet(ClassOf(d), shown, profile) IN
  IF flash \ shown # {} \/ \E k \in flash \cap shown :
                              mlxconfigDrift(d, k, Shown(d, k))
  THEN "drift" ELSE "ok"

Verdict(v) == verdict' = [verdict EXCEPT ![dev] = v]

\* Nothing is written: the device is skipped, answers the selective query, or
\* is read in full after the query was rejected or failed.
VerifyDevice ==
  /\ At("verify")
  /\ \/ /\ ~mlxconfigScope(dev) \/ Candidates(dev) = {}
        /\ Verdict("ok") /\ UNCHANGED memo /\ NoFault
     \/ /\ mlxconfigScope(dev) /\ Candidates(dev) # {}
        /\ \/ /\ ~Rejected(dev)
              /\ Verdict(Judged(dev, Candidates(dev) \cap Exposes[dev]))
              /\ UNCHANGED memo /\ NoFault
           \/ /\ IF Rejected(dev) THEN NoFault ELSE Spend("tool")
              /\ Verdict(Judged(dev, Exposes[dev]))
              /\ refreshMlxconfigExposure(dev)
           \/ Verdict("failed") /\ UNCHANGED memo /\ Spend("tool")
  /\ NextDevice("verify", FALSE, FALSE)
  /\ UNCHANGED <<profile, phase, known, requested, required, devices, foreign>>

EndVerification ==
  /\ At("end") /\ phase = "Ready"
  /\ agent' = idle
  /\ NoFault
  /\ UNCHANGED <<profile, phase, known, memo, requested, required, verdict,
                 devices, foreign>>
-----------------------------------------------------------------------------
(* The host and its environment *)

\* The emulated adapter drops one value at every boot.
AtBoot(d) ==
  [k \in Exposes[d] |->
     IF Class[d] = "Air" /\ k = "ROCE_ADAPTIVE_ROUTING_EN" THEN 0 ELSE nv[d][k]]

Emulated == {d \in Devices : Class[d] = "Air"}

Booted ==
  /\ nv' = [d \in Devices |-> AtBoot(d)]
  /\ running' = nv'
  /\ NewProcess /\ required' = FALSE
  /\ verdict' = [d \in Devices |-> "none"]
  /\ UNCHANGED <<profile, phase, foreign>>

Reboot ==
  /\ requested /\ required
  /\ Booted
  /\ \/ early' = {} /\ NoFault
     \/ early' = Emulated /\ Spend("preinit")

\* RebootRequired whose timer went with its process: it holds the walk until
\* somebody boots the host.
Orphaned == required /\ ~requested

Boot ==
  /\ Booted
  /\ \/ early' = {} /\ IF Orphaned THEN NoFault ELSE Spend("boot")
     \/ early' = Emulated /\ Spend("preinit")

TableReady(d) ==
  /\ d \in early
  /\ early' = early \ {d} /\ NoFault
  /\ UNCHANGED <<profile, phase, process, required, verdict, nv, running,
                 foreign>>

\* The request goes with the process, its condition stays.
Restart ==
  /\ NewProcess /\ Spend("restart")
  /\ UNCHANGED <<profile, phase, required, verdict, devices, foreign>>

\* Somebody resets a key of a Ready node's adapter.
Foreign ==
  /\ phase = "Ready" /\ Spend("foreign")
  /\ \E d \in Devices : \E k \in Exposes[d] :
       /\ nv' = [nv EXCEPT ![d][k] = Default]
       /\ verdict' = [verdict EXCEPT ![d] = "none"]
  /\ foreign' = TRUE
  /\ UNCHANGED <<profile, phase, process, required, running, early>>

\* A profile edit re-opens the walk and forgets the request, unless its timer
\* is armed.
EditProfile ==
  /\ Spend("edit") /\ At("idle")
  /\ profile' \in Profiles \ {profile}
  /\ phase' = "Walk" /\ requested' = (requested /\ required)
  /\ verdict' = [d \in Devices |-> "none"]
  /\ UNCHANGED <<agent, known, memo, required, devices, foreign>>

Agent ==
  \/ BeginCycle
  \/ DetectDevice \/ ResetDevice \/ SetDevice \/ ReadbackDevice \/ EndWalkPass
  \/ checkpointReboot \/ VerifyDevice \/ EndVerification

Next ==
  \/ Agent \/ Reboot \/ Boot \/ Restart \/ Foreign \/ EditProfile
  \/ \E d \in Devices : TableReady(d)

Spec == Init /\ [][Next]_vars

\* The agent polls, its reboot lands, an emulated table becomes readable.
FairSpec ==
  /\ Spec
  /\ WF_vars(Agent) /\ WF_vars(Reboot)
  /\ \A d \in Devices : WF_vars(TableReady(d))
-----------------------------------------------------------------------------
(* Properties *)

Values == {0, 1, 2, 48} \cup {fwVFCount(p.vfs) : p \in Profiles}
Table(d) == [Exposes[d] -> Values]

\* One table for every device, over the keys it exposes.
Tables == {t \in [Devices -> UNION {Table(d) : d \in Devices}] :
             \A d \in Devices : t[d] \in Table(d)}

Places == {"idle", "detect", "reset", "set", "readback", "verify", "end"}

\* Every variable has its type.
TypeOK ==
  /\ profile \in Profiles /\ phase \in {"Walk", "Ready"}
  /\ agent \in [pc : Places, at : DOMAIN Fns, failed : BOOLEAN, written : BOOLEAN]
  /\ known \subseteq Devices
  /\ memo \in [Devices -> SUBSET mlxconfigManagedKeys]
  /\ requested \in BOOLEAN /\ required \in BOOLEAN /\ foreign \in BOOLEAN
  /\ verdict \in [Devices -> {"none", "ok", "drift", "failed"}]
  /\ nv \in Tables /\ running \in Tables
  /\ early \subseteq Emulated
  /\ faults \in FaultSets /\ faultsLeft \in 0..MaxFaults

\* The managed keys of d that the profile decides, when d is read in full.
Decided(d) == IF Class[d] = "DPU" /\ ~profile.dpu THEN {}
              ELSE buildFlashSet(Class[d], Exposes[d], profile) \cap Exposes[d]

Carries(table, d) ==
  \A k \in Decided(d) :
    \/ table[d][k] = Want(k, profile)
    \/ Class[d] = "Air" /\ k = "ROCE_ADAPTIVE_ROUTING_EN" /\ table[d][k] = 0

\* The selective verification sees what the walk's full read would: a device it
\* calls verified carries the whole set, whatever the memo of unexposed keys
\* has gone through (steps_mellanox.go, flashQueryKeys: "a key the walk WOULD
\* manage but the query missed cannot exist"), unless the device could not be
\* classified and was skipped.
VerdictIsTrue ==
  "classify" \notin faults =>
    \A d \in Devices : verdict[d] = "ok" => Carries(nv, d)

\* "A device that was changed raises RebootRequired: SR-IOV/eswitch firmware
\* config only takes effect on reboot" (steps_mellanox.go, stepMlxconfig): once
\* the step is Done, every device runs what its table carries.
SetIsBooted ==
  phase = "Ready" /\ ~foreign => \A d \in Devices : Carries(running, d)

\* The faults that lose the request: the pass that wrote a device ends on
\* another failure, the process dies, an edit starts over, a device is skipped.
Losing == {"tool", "restart", "edit", "classify"}

\* SetIsBooted as far as the code keeps it.
RememberedSetIsBooted == faults \cap Losing = {} => SetIsBooted

\* The walk gets past the step and the verification agrees with it for ever
\* after, whatever fails, dies, boots or is edited, as long as nobody else
\* writes the firmware config, every device is classified and no restart falls
\* into the grace period of the reboot: no reboot loop, no standing drift on a
\* node the walk has configured.
FirmwareConverges ==
  faults \cap {"foreign", "classify"} = {} =>
    <>[](Orphaned \/ (phase = "Ready" /\ \A d \in Devices : verdict[d] = "ok"))
=============================================================================
