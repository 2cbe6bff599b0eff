------------------------------ MODULE RailFabric ------------------------------
(***************************************************************************)
(* What the critical network steps do to one rail of the host, pass after  *)
(* pass: netplanMTU, sriovNumVFs, vfGuids, udevRules, losslessRoce and     *)
(* disableACS (internal/agent/steps.go, steps_mellanox.go), run in this    *)
(* order by every verification of a boot and by the walk.  A step looks    *)
(* first and repairs what it finds wrong; vfGuids is cut at every write to *)
(* sysfs and to the udev rules, and the process may die between any two.   *)
(* A walk that has spent its attempts is Failed, and makes no more passes; *)
(* a Ready node is verified for ever (internal/agent/agent.go).            *)
(*                                                                         *)
(* The kernel, the firmware and udev are external: a VF is created bare, a *)
(* VF that is bound without a staged node GUID gets a default one, and a   *)
(* boot takes with it whatever is not in a file.  mlxconfig is only its    *)
(* reboot request (SriovStage and AgentWalk have the rest), the OVS steps  *)
(* are in OvsRails.                                                        *)
(***************************************************************************)
EXTENDS Naturals, Sequences, FiniteSetsExt, TLC

CONSTANTS
  VFs,        \* the rail's virtual functions: numbers, bounced in order
  Profiles,   \* [link, eswitch, vfs, roce, rail]: what it says of this rail
  MaxFaults,  \* bound: faults in one behaviour
  FaultSets   \* the environments: each a set of faults, see FaultKinds

FaultKinds ==
  { "boot",     \* the host boots
    "drift",    \* a driver probes again, or a PF loses its settings
    "write",    \* a sysfs attribute of an unbound VF cannot be written
    "exec",     \* a command fails, its step with it
    \* and those that a boot, and only a boot, is sure to repair:
    "bind",     \* the driver does not take a VF back
    "files",    \* a udev rule file cannot be written
    "netplan",  \* the netplan file is not written well, or not applied
    "edit",     \* the profile is edited
    "restart" } \* the agent's process dies

Tearing == {"bind", "files", "netplan", "edit", "restart"}

None == "none"

ASSUME RailAssumption ==
  /\ VFs \in SUBSET Nat /\ VFs # {}
  /\ \A p \in Profiles :
       /\ p.link \in {"Ethernet", "InfiniBand"}
       /\ p.eswitch \in {"legacy", "switchdev"}
       /\ p.vfs \in BOOLEAN /\ p.roce \in BOOLEAN /\ p.rail # None
  /\ MaxFaults \in Nat
  /\ FaultSets \in SUBSET SUBSET FaultKinds

VARIABLES
  profile,   \* the profile in force
  phase,     \* of the NodePrep: "walk" for those of the walk, "Ready", "Failed"
  asks,      \* the firmware is not as the profile wants it: mlxconfig will ask
  pending,   \* pendingReboot of the process: mlxconfig has asked
  agent,     \* where the pass is: step, verdict so far, VFs and writes to do
  verified,  \* history: the last pass on this boot found or made all right, and
             \* no driver has probed again under it or since
  files,     \* for which rail each file is: netplan, pf (70, 60), vf (71, 61)
  pf,        \* the physical function's runtime settings
  made,      \* sriov_numvfs is the profile's count
  vf,        \* each VF: bound, the attributes that are right, those staged
  torn,      \* history: a Tearing fault since the last boot
  parted,    \* history: vfGuids gave up between two VFs since the last boot
  faults, faultsLeft

host == <<files, pf, made, vf>>
env  == <<profile, asks, torn, faults, faultsLeft>>
vars == <<host, env, phase, pending, agent, verified, parted>>

Spend(f) == /\ f \in faults
            /\ faultsLeft > 0
            /\ faultsLeft' = faultsLeft - 1
            /\ torn' = (torn \/ f \in Tearing)
            /\ UNCHANGED faults

NoFault == UNCHANGED <<torn, faults, faultsLeft>>

Ethernet == profile.link = "Ethernet"

\* roceCC, and a PF of the device class that losslessRoce is for.
RoCE == Ethernet /\ profile.roce

\* What is on the host after a boot, given the files.  Naming, networkd and
\* the kernel: external.
BootedPF(f) ==
  [name |-> f.pf, netplan |-> f.netplan, up |-> FALSE, eswitch |-> "legacy",
   lossless |-> FALSE, acs |-> TRUE]

BareVF(f) ==
  [bound |-> TRUE, right |-> {}, staged |-> {}, resets |-> FALSE,
   name |-> f.vf, up |-> FALSE]

BareVFs == [v \in VFs |-> BareVF(files)]

noFiles == [netplan |-> None, pf |-> None, vf |-> None]
idle == [step |-> "idle", clean |-> FALSE, moved |-> FALSE, todo |-> {},
         writes |-> <<>>]

Init ==
  /\ profile \in Profiles
  /\ phase = "walk"
  /\ asks \in BOOLEAN
  /\ pending = FALSE
  /\ agent = idle
  /\ verified = FALSE
  /\ files = noFiles
  /\ pf = BootedPF(noFiles)
  /\ made = ~profile.vfs
  /\ vf = [v \in VFs |-> BareVF(noFiles)]
  /\ torn = FALSE /\ parted = FALSE
  /\ faults \in FaultSets /\ faultsLeft = MaxFaults
-----------------------------------------------------------------------------
(* The pass *)

At(s) == agent.step = s

Goto(s) == agent' = [agent EXCEPT !.step = s]

\* A step ends, Done or not; whatever the verdict, the next one runs.
Ends(done, next) ==
  agent' = [agent EXCEPT !.step = next, !.clean = @ /\ done, !.todo = {},
                         !.writes = <<>>]

\* bootVerify, or a pass of the walk, whose mlxconfig writes what is asked: of
\* a Ready node nothing is.
StartPass ==
  /\ At("idle") /\ ~pending /\ phase # "Failed"
  /\ agent' = [idle EXCEPT !.step = "netplanMTU", !.clean = TRUE]
  /\ pending' = asks /\ asks' = FALSE
  /\ NoFault
  /\ UNCHANGED <<profile, phase, verified, parted, host>>

InPass == UNCHANGED <<profile, phase, asks, pending, verified>>
InStep == InPass /\ UNCHANGED parted

\* The last step is behind.  In the walk a clean pass makes the node Ready, and
\* a failed one may have been the last of its attempts (AgentWalk counts them).
EndPass ==
  /\ At("end")
  /\ verified' = (agent.clean /\ ~agent.moved)
  /\ phase' \in IF agent.clean \/ phase = "Ready" THEN {"Ready"}
                ELSE {"walk", "Failed"}
  /\ agent' = idle
  /\ NoFault
  /\ UNCHANGED <<profile, asks, pending, parted, host>>

\* The resume annotation of an operator.
Resume ==
  /\ phase = "Failed" /\ At("idle")
  /\ phase' = "walk"
  /\ UNCHANGED <<host, env, pending, agent, verified, parted>>
-----------------------------------------------------------------------------
(* netplanMTU: stepFabricNetplan *)

\* A pending request leaves the file to the boot, and holds the walk for it; a
\* walk does not go past a stage that is not done.
AfterNetplan(done) ==
  IF pending THEN "idle" ELSE IF done \/ phase = "Ready" THEN "sriovNumVFs" ELSE "end"

stepFabricNetplan ==
  /\ At("netplanMTU")
  /\ \/ /\ files' = [files EXCEPT !.netplan = profile.rail]
        /\ IF files.netplan = profile.rail \/ pending
           THEN Ends(TRUE, AfterNetplan(TRUE)) ELSE Goto("netplanApply")
        /\ NoFault
     \/ \* not written; or written, and chmod fails: the next pass finds a match
        /\ files' \in {files, [files EXCEPT !.netplan = profile.rail]}
        /\ files.netplan # profile.rail
        /\ Ends(FALSE, AfterNetplan(FALSE)) /\ Spend("netplan")
  /\ InStep /\ UNCHANGED <<pf, made, vf>>

netplanApply ==
  /\ At("netplanApply")
  /\ \/ pf' = [pf EXCEPT !.netplan = files.netplan]
        /\ Ends(TRUE, AfterNetplan(TRUE)) /\ NoFault
     \/ UNCHANGED pf
        /\ Ends(FALSE, AfterNetplan(FALSE)) /\ Spend("netplan")
  /\ InStep /\ UNCHANGED <<files, made, vf>>
-----------------------------------------------------------------------------
(* sriovNumVFs: stepSriovNumVFs on this PF *)

switchdevFlip == profile.vfs /\ profile.eswitch = "switchdev"

\* The eswitch is flipped with no VF there; then the count is set.  One of the
\* commands fails before the VFs are taken down, at the flip or at the count.
stepSriovNumVFs ==
  /\ At("sriovNumVFs")
  /\ LET flips   == switchdevFlip /\ pf.eswitch = "legacy"
         flipped == [pf EXCEPT !.eswitch = IF flips THEN "switchdev" ELSE @]
     IN
     \/ /\ pf' = flipped
        /\ made' = TRUE
        /\ vf' = IF made /\ ~flips THEN vf ELSE BareVFs
        /\ Ends(TRUE, "vfGuids") /\ NoFault
     \/ /\ \/ UNCHANGED <<pf, made, vf>>
           \/ flips /\ pf' \in {pf, flipped} /\ made' = FALSE /\ vf' = BareVFs
        /\ Ends(FALSE, "vfGuids") /\ Spend("exec")
  /\ InStep /\ UNCHANGED files
-----------------------------------------------------------------------------
(* vfGuids: vfGuidPlan, applyVfGuids *)

\* A bug: the node GUID goes first.
Writes_NodeFirst ==
  IF ~Ethernet THEN <<"node", "port", "policy">>
  ELSE IF profile.eswitch = "legacy" THEN <<"node", "mac">> ELSE <<"node">>

\* The identity attributes, in the order they are written: node last.
Writes ==
  IF ~Ethernet THEN <<"port", "policy", "node">>
  ELSE IF profile.eswitch = "legacy" THEN <<"mac", "node">> ELSE <<"node">>

Identity == {Writes[i] : i \in DOMAIN Writes}

\* The MAC is read from the netdev, which an unbound VF has not.
Reads(v) == vf[v].right \ (IF vf[v].bound THEN {} ELSE {"mac"})

Mismatch(v) == Identity \ Reads(v) # {}

\* A bug: every VF is bounced, as the bash script does.
vfGuidPlan_All == VFs

vfGuidPlan == {v \in VFs : Mismatch(v)}

stepVfGuids ==
  /\ At("vfGuids")
  /\ IF ~profile.vfs           THEN Ends(TRUE, "udevRules")
     ELSE IF ~made             THEN Ends(FALSE, "udevRules")   \* Blocked
     ELSE IF vfGuidPlan = {}   THEN Ends(TRUE, "udevRules")
     ELSE agent' = [agent EXCEPT !.step = "unbind", !.todo = vfGuidPlan]
  /\ NoFault
  /\ InStep /\ UNCHANGED host

Current == Min(agent.todo)

SetVF(r) == vf' = [vf EXCEPT ![Current] = r]

InVfGuids == InPass /\ UNCHANGED <<files, pf, made>>

\* applyVfGuids returns an error: the VFs behind it are bound, and have no rules.
GivesUp == Ends(FALSE, "udevRules") /\ parted' = TRUE
GoesOn  == UNCHANGED parted

\* The PF's driver has probed again, and the VF's files are gone.
Gone ==
  /\ agent.step \in {"unbind", "write", "bind", "readback"} /\ ~made
  /\ GivesUp /\ NoFault
  /\ InVfGuids /\ UNCHANGED vf

\* The driver has no VF to let go of when the VF is not bound: ENODEV.
Unbind ==
  /\ At("unbind") /\ made
  /\ LET w == vf[Current] IN
     \/ /\ w.bound
        /\ SetVF([w EXCEPT !.bound = FALSE, !.staged = {}, !.up = FALSE])
        /\ agent' = [agent EXCEPT !.step = "write", !.writes = Writes]
        /\ GoesOn /\ NoFault
     \/ /\ UNCHANGED vf
        /\ GivesUp
        /\ \/ ~w.bound /\ NoFault
           \/ Spend("exec")
  /\ InVfGuids

\* The driver takes VF w back.  External: an unstaged node GUID is lost, and
\* the netdev is new.
Bound(w) ==
  [w EXCEPT !.bound = TRUE, !.up = FALSE, !.name = files.vf,
            !.right = IF "node" \in w.staged THEN @ ELSE @ \ {"node"}]

\* The two seconds after a MAC write: the firmware has reset the node GUID.
GapPassed == ~vf[Current].resets

WriteAttr ==
  /\ At("write") /\ GapPassed /\ made
  /\ LET w == vf[Current]
         a == Head(agent.writes)
     IN
     \/ /\ SetVF([w EXCEPT !.right = @ \cup {a}, !.staged = @ \cup {a},
                           !.resets = (a = "mac")])
        /\ agent' = [agent EXCEPT
             !.writes = Tail(@),
             !.step = IF Len(agent.writes) = 1 THEN "bind" ELSE @]
        /\ GoesOn /\ NoFault
     \/ /\ GivesUp    \* "Leave the driver bound again before bailing out"
        /\ \/ SetVF(Bound(w)) /\ Spend("write")
           \/ UNCHANGED vf /\ Spend("bind")
  /\ InVfGuids

\* A write to a VF's MAC resets its node GUID, a little later.
FirmwareResetsNode ==
  \E v \in VFs :
    /\ vf[v].resets
    /\ vf' = [vf EXCEPT ![v].resets = FALSE,
                        ![v].right = @ \ {"node"}, ![v].staged = @ \ {"node"}]
    /\ UNCHANGED <<files, pf, made, env, phase, pending, agent, verified, parted>>

Bind ==
  /\ At("bind") /\ GapPassed /\ made
  /\ \/ /\ SetVF(Bound(vf[Current]))
        /\ Goto("readback") /\ GoesOn /\ NoFault
     \/ /\ UNCHANGED vf
        /\ GivesUp /\ Spend("bind")
  /\ InVfGuids

\* What is read back of a VF: not its policy.
ReadsBack(v) == Identity \ Reads(v) \subseteq {"policy"}

\* A bug: the loop does not end at the last VF.
Readback_PastLast ==
  /\ At("readback") /\ made
  /\ IF ~ReadsBack(Current) THEN GivesUp
     ELSE /\ agent' = [agent EXCEPT !.todo = @ \ {Current}, !.step = "unbind"]
          /\ GoesOn
  /\ NoFault
  /\ InVfGuids /\ UNCHANGED vf

Readback ==
  /\ At("readback") /\ made
  /\ LET left == agent.todo \ {Current} IN
     IF ~ReadsBack(Current) THEN GivesUp
     ELSE /\ agent' = [agent EXCEPT
               !.todo = left,
               !.step = IF left = {} THEN "removeRules" ELSE "unbind"]
          /\ GoesOn
  /\ NoFault
  /\ InVfGuids /\ UNCHANGED vf

\* Behind the last VF the rename rules are removed and written anew.
RemoveRules ==
  /\ At("removeRules")
  /\ \/ /\ files' = [files EXCEPT !.vf = None]
        /\ IF Ethernet THEN Goto("writeRules") ELSE Ends(TRUE, "udevRules")
        /\ GoesOn /\ NoFault
     \/ UNCHANGED files
        /\ GivesUp /\ Spend("files")
  /\ InPass /\ UNCHANGED <<pf, made, vf>>

\* A bug: the rules are removed and not written.
WriteRules_Never ==
  /\ At("writeRules")
  /\ Ends(TRUE, "udevRules") /\ NoFault
  /\ UNCHANGED files
  /\ InStep /\ UNCHANGED <<pf, made, vf>>

WriteRules ==
  /\ At("writeRules")
  /\ \/ files' = [files EXCEPT !.vf = profile.rail]
        /\ Ends(TRUE, "udevRules") /\ GoesOn /\ NoFault
     \/ UNCHANGED files
        /\ GivesUp /\ Spend("files")
  /\ InPass /\ UNCHANGED <<pf, made, vf>>

applyVfGuids ==
  Gone \/ Unbind \/ WriteAttr \/ Bind \/ Readback \/ RemoveRules \/ WriteRules
-----------------------------------------------------------------------------
(* udevRules, losslessRoce, disableACS *)

\* The existing VF netdevs of the rail.
railVFNetdevs == {v \in VFs : profile.vfs /\ made /\ vf[v].bound}

udevCurrent ==
  /\ files.pf = profile.rail
  /\ pf.name = profile.rail /\ pf.up
  /\ \A v \in railVFNetdevs : vf[v].up

\* The trigger renames a netdev that is down: no VF was taken down for it.  Then
\* the VFs of ups are brought up.
Triggered(ups) ==
  vf' = [v \in VFs |->
          IF v \in railVFNetdevs
          THEN [vf[v] EXCEPT !.name = IF vf[v].up THEN @ ELSE files.vf,
                             !.up = @ \/ v \in ups]
          ELSE vf[v]]

\* A misnamed PF is taken down; rules, triggers, and everything up.  Or a command
\* fails, before the triggers or behind them.
stepUdevRules ==
  /\ At("udevRules")
  /\ LET ruled   == [files EXCEPT !.pf = profile.rail]
         taken   == [pf EXCEPT !.up = @ /\ pf.name = profile.rail]
         renamed == [pf EXCEPT !.name = profile.rail, !.up = TRUE]
     IN
     \/ /\ ~Ethernet \/ udevCurrent
        /\ UNCHANGED <<files, pf, vf>>
        /\ Ends(TRUE, "losslessRoce") /\ NoFault
     \/ /\ Ethernet /\ ~udevCurrent
        /\ files' = ruled /\ pf' = renamed /\ Triggered(VFs)
        /\ Ends(TRUE, "losslessRoce") /\ NoFault
     \/ /\ Ethernet /\ ~udevCurrent
        /\ \/ /\ files' \in {files, ruled} /\ pf' \in {pf, taken}
              /\ UNCHANGED vf
           \/ /\ files' = ruled
              /\ pf' \in {pf, [renamed EXCEPT !.up = taken.up], renamed}
              /\ \E ups \in SUBSET VFs : Triggered(ups)
        /\ Ends(FALSE, "losslessRoce") /\ Spend("exec")
  /\ InStep /\ UNCHANGED made

\* Applied on every pass and read back.
stepLosslessRoce ==
  /\ At("losslessRoce")
  /\ \/ pf' = [pf EXCEPT !.lossless = RoCE \/ @]
        /\ Ends(TRUE, "disableACS") /\ NoFault
     \/ UNCHANGED pf
        /\ Ends(FALSE, "disableACS") /\ RoCE /\ Spend("exec")
  /\ InStep /\ UNCHANGED <<files, made, vf>>

\* ACS is disabled, unless there are VFs.
stepDisableACS ==
  /\ At("disableACS")
  /\ \/ pf' = [pf EXCEPT !.acs = @ /\ profile.vfs]
        /\ Ends(TRUE, "end") /\ NoFault
     \/ UNCHANGED pf
        /\ Ends(FALSE, "end") /\ ~profile.vfs /\ pf.acs /\ Spend("exec")
  /\ InStep /\ UNCHANGED <<files, made, vf>>
-----------------------------------------------------------------------------
(* Boots, the process, the environment *)

Booted(f) ==
  /\ pending' = FALSE
  /\ agent' = idle /\ verified' = FALSE
  /\ pf' = BootedPF(f)
  /\ made' = ~profile.vfs
  /\ vf' = [v \in VFs |-> BareVF(f)]
  /\ torn' = FALSE /\ parted' = FALSE
  /\ UNCHANGED <<files, profile, phase, asks>>

\* The reboot that mlxconfig asked for, at the walk's quiet checkpoint.
Reboot ==
  /\ pending /\ At("idle")
  /\ Booted(files)
  /\ UNCHANGED <<faults, faultsLeft>>

Boot ==
  /\ "boot" \in faults /\ faultsLeft > 0
  /\ faultsLeft' = faultsLeft - 1 /\ UNCHANGED faults
  /\ Booted(files)

Restart ==
  /\ Spend("restart")
  /\ pending' = FALSE /\ agent' = idle
  /\ UNCHANGED <<host, profile, phase, asks, verified, parted>>

\* The PF loses its settings, or its driver probes again and takes the VFs with
\* it (so does a failed openibd that losslessRoce restarts, if its start brings
\* the driver up anew); or a VF's driver probes, and its identity is lost.
Drift ==
  /\ Spend("drift")
  /\ \/ /\ pf' = [pf EXCEPT !.up = FALSE, !.lossless = FALSE]
        /\ UNCHANGED <<made, vf>>
     \/ /\ pf' = [pf EXCEPT !.up = FALSE, !.lossless = FALSE, !.eswitch = "legacy"]
        /\ made' = ~profile.vfs /\ vf' = BareVFs
     \/ \E v \in VFs : vf' = [vf EXCEPT ![v].right = {}, ![v].up = FALSE]
        /\ UNCHANGED <<pf, made>>
  /\ verified' = FALSE /\ agent' = [agent EXCEPT !.moved = TRUE]
  /\ UNCHANGED <<profile, phase, asks, pending, files, parted>>

\* A profile edit re-opens the walk.  A change of link type is left out.
EditProfile ==
  /\ Spend("edit") /\ At("idle")
  /\ \E p \in Profiles \ {profile} :
       /\ p.link = profile.link
       /\ profile' = p
       /\ made' = (made /\ p.vfs = profile.vfs)
  /\ asks' \in BOOLEAN
  /\ phase' = "walk" /\ pending' = FALSE /\ verified' = FALSE
  /\ UNCHANGED <<agent, files, pf, vf, parted>>

Agent ==
  \/ StartPass \/ stepFabricNetplan \/ netplanApply \/ stepSriovNumVFs
  \/ stepVfGuids \/ applyVfGuids \/ stepUdevRules \/ stepLosslessRoce
  \/ stepDisableACS \/ EndPass

Next ==
  \/ Agent \/ Reboot \/ FirmwareResetsNode
  \/ Boot \/ Restart \/ Drift \/ EditProfile \/ Resume

Spec == Init /\ [][Next]_vars

\* Passes go on, unless the node is Failed; what the agent asked for and the
\* firmware began happens.
FairSpec ==
  /\ Spec
  /\ WF_vars(Agent) /\ WF_vars(Reboot) /\ WF_vars(FirmwareResetsNode)
-----------------------------------------------------------------------------
(* Properties *)

Attributes == {"mac", "port", "policy", "node"}
Rails == {p.rail : p \in Profiles} \cup {None}

\* The places of a pass; VFPlaces are about the VF that is being bounced.
VFPlaces == {"unbind", "write", "bind", "readback"}
Places == VFPlaces \cup
  {"idle", "netplanMTU", "netplanApply", "sriovNumVFs", "vfGuids",
   "removeRules", "writeRules", "udevRules", "losslessRoce", "disableACS",
   "end"}

Passes == [step : Places, clean : BOOLEAN, moved : BOOLEAN,
           todo : SUBSET VFs, writes : Seq(Attributes)]
PFs == [name : Rails, netplan : Rails, up : BOOLEAN,
        eswitch : {"legacy", "switchdev"}, lossless : BOOLEAN, acs : BOOLEAN]
VFStates == [bound : BOOLEAN, right : SUBSET Attributes,
             staged : SUBSET Attributes, resets : BOOLEAN,
             name : Rails, up : BOOLEAN]

\* Every variable has its type, and a bounce has a VF and a write to do.
TypeOK ==
  /\ profile \in Profiles
  /\ phase \in {"walk", "Ready", "Failed"}
  /\ asks \in BOOLEAN /\ pending \in BOOLEAN /\ verified \in BOOLEAN
  /\ agent \in Passes
  /\ agent.step \in VFPlaces => agent.todo # {}
  /\ At("write") => agent.writes # <<>>
  /\ files \in [netplan : Rails, pf : Rails, vf : Rails]
  /\ pf \in PFs
  /\ vf \in [VFs -> VFStates]
  /\ made \in BOOLEAN /\ torn \in BOOLEAN /\ parted \in BOOLEAN
  /\ faults \in FaultSets /\ faultsLeft \in 0..MaxFaults

\* The rail is as the profile wants it, on the host as it runs and in its files.
Serves ==
  /\ files.netplan = profile.rail /\ pf.netplan = profile.rail
  /\ Ethernet => files.pf = profile.rail /\ pf.name = profile.rail /\ pf.up
  /\ RoCE => pf.lossless
  /\ ~profile.vfs => ~pf.acs
  /\ profile.vfs =>
       /\ made
       /\ pf.eswitch = profile.eswitch
       /\ \A v \in VFs : vf[v].bound /\ vf[v].right = Identity
       /\ Ethernet => files.vf = profile.rail /\ \A v \in VFs : vf[v].up

\* The VFs go by the names that the rules give them.
VFsNamed == Ethernet /\ profile.vfs => \A v \in VFs : vf[v].name = profile.rail

\* "Runtime-critical steps verified on boot": when a pass ends clean, on a boot
\* that has seen no tearing fault, the rail serves until the driver probes again,
\* whatever failed, drifted or was torn on earlier boots (agent.go, bootVerify);
\* and under its names, unless vfGuids gave up halfway on this boot: nothing
\* takes a VF down for its name or looks at it.
FabricServes == verified /\ ~torn => Serves /\ (parted \/ VFsNamed)

\* A rail that serves is left alone by every step of every pass; only the
\* environment takes it down (steps_mellanox.go: "a detect-first rerun must not
\* bounce converged ones").
ConvergedLeftAlone ==
  [][Serves /\ Agent => Serves']_vars

\* Whatever failed, drifted or was torn: after the last boot or fault the rail
\* is brought up and stays up, unless this boot itself was torn or the walk has
\* failed for good.
FabricConverges ==
  <>[](~torn /\ phase # "Failed") => <>[](verified /\ Serves)
=============================================================================
