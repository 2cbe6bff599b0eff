------------------------------ MODULE AgentWalk ------------------------------
(***************************************************************************)
(* The node agent of one node: the poll cycle of internal/agent/agent.go.  *)
(*                                                                         *)
(* A cycle reads the NodePrep, then writes it back in several separate     *)
(* API patches with host work in between.  The model cuts the cycle at     *)
(* every such write and at every step body, so that a reboot, an agent     *)
(* restart or a failed patch can fall between any two of them.  Only the   *)
(* agent writes the fields modelled here (the controller's conditions are  *)
(* in Admission and TaintContract), so reading a field at the point of use *)
(* is the same as reading it when the cycle began.                         *)
(*                                                                         *)
(* A step body is abstracted to its kind, that is to what it leaves behind *)
(* on the host and what it asks for:                                       *)
(*   plain    persistent host configuration (lldpdConfig, kubeletState)    *)
(*   install  aptPackages: staged until the next boot; asks for a reboot   *)
(*            that halts the pass, when it installs and never again        *)
(*   cmdline  the grub tail of aptPackages: staged until the next boot;    *)
(*            asks again as long as the running kernel lacks the parameter *)
(*   latch    mlxconfig: staged in firmware NV; Blocked and asking on the  *)
(*            pass that writes it, Done and silent when the NV matches     *)
(*   runtime  sriovNumVFs and its peers: established on the running boot,  *)
(*            wiped by every boot                                          *)
(*                                                                         *)
(* Not modelled here: the SR-IOV cold halt and the imported-walk rewind,   *)
(* the FIPS hold, inventory, the boot hook.                                *)
(***************************************************************************)
EXTENDS NodePrepPhases, FiniteSets

CONSTANTS
  Steps,        \* the steps of stepDefs
  StageOf,      \* stage of a step
  Kind,         \* what its body does, see above
  Order,        \* its position in stepDefs
  Critical,     \* the steps boot-verify re-runs
  Want,         \* Want[g][s]: the value profile generation g asks of step s
  MaxAttempts,  \* maxStepAttempts
  MaxGen,       \* bound: profile generations
  MaxFaults,    \* bound: faults in one behaviour
  FaultSets     \* the environments: each a set of faults, see FaultKinds

Kinds == {"plain", "install", "cmdline", "latch", "runtime"}

FaultKinds ==
  { "stepFail",   \* a body fails with no effect, counted
    "transient",  \* a body fails on infrastructure, not counted
    "partial",    \* a staging body fails after it changed the host
    "patch",      \* a status patch outside the torn windows fails
    "condPatch",  \* the RebootRequired patch of requestReboot fails
    "boot",       \* the node reboots for a reason of its own
    "restart",    \* the agent process restarts on the same boot
    "rebootCmd",  \* the reboot command fails
    "torn",       \* the process dies inside a two-patch update
    "revoke",     \* the controller withdraws an admission
    "edit",       \* the operator edits the profile
    "resume" }    \* the operator resumes a Failed NodePrep

ASSUME StepsAssumption ==
  /\ IsFiniteSet(Steps)
  /\ StageOf \in [Steps -> WalkStages]
  /\ Kind \in [Steps -> Kinds]
  /\ Order \in [Steps -> Nat]
  /\ Critical \in SUBSET Steps
  \* boot-verify re-runs no body that asks for a reboot
  /\ \A s \in Critical : Kind[s] \notin {"install", "cmdline"}
  \* aptPackages, the one step that halts a pass, is not of the last stage
  /\ \A s \in Steps : Kind[s] = "install" => StageOf[s] # "Finalizing"

ASSUME ProfileAssumption ==
  /\ MaxGen \in Nat \ {0}
  /\ Want \in [1..MaxGen -> [Steps -> Nat \ {0}]]

ASSUME BoundsAssumption ==
  /\ MaxAttempts \in Nat \ {0}
  /\ MaxFaults \in Nat
  /\ FaultSets \in SUBSET SUBSET FaultKinds

VARIABLES
  \* NodePrep status and metadata (the API server; survives everything)
  phase, ledger, observedGen, bootId, rebootTotal, rebootRequired,
  bootVerified, resumeAsked,
  \* written by others: the profile's generation, the admission conditions
  profileGen, admitted,
  \* the host
  boot,          \* the running boot
  applied,       \* value each step last put on the host, 0 for none
  staged,        \* steps whose value waits for a boot
  fresh,         \* runtime steps established on the running boot
  \* the agent process (lost with it)
  pc, led, todo, verdict, pending, progressed, rebootIssued, timer, pacing,
  \* the environment this behaviour lives in, and its bound
  faults, faultsLeft

api  == <<phase, ledger, observedGen, bootId, rebootTotal, rebootRequired,
          bootVerified, resumeAsked>>
ext  == <<profileGen, admitted>>
host == <<boot, applied, staged, fresh>>
pass == <<led, todo, verdict>>
mem  == <<pending, progressed, rebootIssued, timer, pacing>>
vars == <<api, ext, host, pc, pass, mem, faults, faultsLeft>>
-----------------------------------------------------------------------------
(* Faults *)

\* A step that uses up one fault of kind f.
Spend(f) == /\ f \in faults
            /\ faultsLeft > 0
            /\ faultsLeft' = faultsLeft - 1
            /\ UNCHANGED faults

NoFault == UNCHANGED <<faults, faultsLeft>>

\* Between the two patches of a profile reset, or the three writes of a resume.
TornWindow == {"rephase", "resuming", "resumePhase"}

PatchFails == \/ pc \notin TornWindow /\ Spend("patch")
              \/ pc \in TornWindow /\ Spend("torn")
-----------------------------------------------------------------------------
(* The step ledger (status.steps) *)

Entry == [st : StepStates \cup {"Absent"}, att : Nat]

PendingEntry == [st |-> "Pending", att |-> 0]

\* A bug: a profile edit re-opens the failed steps only.
Reopened_KeepsDone(l) ==
  [s \in Steps |-> IF l[s].st = "Failed" THEN PendingEntry ELSE l[s]]

\* A profile edit re-opens every recorded step.
Reopened(l) ==
  [s \in Steps |-> IF l[s].st \in {"Absent", "Pending"}
                   THEN l[s] ELSE PendingEntry]

\* A new boot re-opens the converged runtime steps.
BootReopened(l) ==
  [s \in Steps |-> IF Kind[s] = "runtime" /\ l[s].st = "Done"
                   THEN PendingEntry ELSE l[s]]

\* Resume gives every failed step a fresh budget.
Retried(l) ==
  [s \in Steps |-> IF l[s].st = "Failed" THEN PendingEntry ELSE l[s]]

stepsForStage(p) == {s \in Steps : StageOf[s] = p}

\* ensureSteps for the stage being walked: missing entries start Pending.
ensureSteps(l, p) ==
  [s \in Steps |-> IF s \in stepsForStage(p) /\ l[s].st = "Absent"
                   THEN PendingEntry ELSE l[s]]
-----------------------------------------------------------------------------
(* Reboot requests *)

\* A bug: the DOCA request is an ordinary one.
hasHaltNowRequest_Never(reqs) == FALSE

\* Does a request stop the pass it is made in?
hasHaltNowRequest(reqs) == \E s \in reqs : Kind[s] = "install"

\* Kinds whose value waits for a boot.
Stages(s) == Kind[s] \in {"install", "cmdline", "latch"}

Init ==
  /\ phase \in ImportedPhases
  /\ ledger = [s \in Steps |-> [st |-> "Absent", att |-> 0]]
  /\ observedGen = 1 /\ profileGen = 1
  /\ bootId = 0 /\ boot = 1 /\ rebootTotal = 0
  /\ rebootRequired = FALSE /\ bootVerified = FALSE /\ resumeAsked = FALSE
  /\ admitted \in BOOLEAN
  \* an imported walk finds what the bash left behind
  /\ applied = [s \in Steps |->
       IF stageRank[StageOf[s]] < stageRank[phase] THEN Want[1][s] ELSE 0]
  /\ staged = {} /\ fresh = {}
  /\ pc = "cycle" /\ led = ledger /\ todo = {} /\ verdict = "done"
  /\ pending = {} /\ progressed = FALSE /\ rebootIssued = FALSE
  /\ timer = FALSE /\ pacing = {}
  /\ faults \in FaultSets /\ faultsLeft = MaxFaults
-----------------------------------------------------------------------------
(* Top of the cycle: profile edits *)

\* First patch of a profile reset: steps and observedProfileGeneration.  The
\* in-memory requests are dropped before the patch, whether or not it lands.
ReopenForProfile ==
  /\ pc = "cycle"
  /\ profileGen # observedGen
  /\ pending' = {}
  /\ \/ /\ ledger' = Reopened(ledger)
        /\ led' = ledger'
        /\ observedGen' = profileGen
        /\ pc' = "rephase"
        /\ NoFault
     \/ /\ PatchFails
        /\ UNCHANGED <<ledger, led, observedGen, pc>>
  /\ UNCHANGED <<phase, bootId, rebootTotal, rebootRequired, bootVerified,
                 resumeAsked, ext, host, todo, verdict, progressed,
                 rebootIssued, timer, pacing>>

\* Second patch: the phase.  Its error is ignored.
RephaseForProfile ==
  /\ pc = "rephase"
  /\ pc' = "cycle"
  /\ \/ phase' = "Provisioning" /\ NoFault
     \/ PatchFails /\ UNCHANGED phase
  /\ UNCHANGED <<ledger, observedGen, bootId, rebootTotal, rebootRequired,
                 bootVerified, resumeAsked, ext, host, pass, mem>>

(* The boot protocol *)

\* Bugs: a condition survives the boot.
BootConditions_KeepsVerified == rebootRequired' = FALSE /\ UNCHANGED bootVerified
BootConditions_KeepsRequired == bootVerified' = FALSE /\ UNCHANGED rebootRequired

\* The conditions of a boot_id change.
BootConditions == bootVerified' = FALSE /\ rebootRequired' = FALSE

\* One patch: bootId, reboot count, conditions, re-opened runtime steps.
SyncBoot ==
  /\ pc = "cycle"
  /\ profileGen = observedGen
  /\ bootId # boot
  /\ \/ /\ bootId' = boot
        /\ NoFault
        /\ pc' = "synced"
        /\ IF bootId = 0
           THEN UNCHANGED <<rebootTotal, bootVerified, rebootRequired,
                            ledger, led>>
           ELSE /\ rebootTotal' = rebootTotal + 1
                /\ BootConditions
                /\ ledger' = BootReopened(ledger)
                /\ led' = ledger'
     \/ /\ PatchFails
        /\ UNCHANGED <<bootId, pc, rebootTotal, bootVerified, rebootRequired,
                       ledger, led>>
  /\ UNCHANGED <<phase, observedGen, resumeAsked, ext, host, todo, verdict,
                 mem>>

\* The rest of the cycle, with the profile seen at its start.
PastBootProtocol ==
  \/ pc = "synced"
  \/ pc = "cycle" /\ profileGen = observedGen /\ bootId = boot

(* Resume of a Failed NodePrep: annotation, steps, phase, in this order *)

Resume ==
  /\ PastBootProtocol
  /\ phase = "Failed" /\ resumeAsked
  /\ resumeAsked' = FALSE
  /\ pacing' = {}
  /\ pc' = "resuming"
  /\ NoFault
  /\ UNCHANGED <<phase, ledger, observedGen, bootId, rebootTotal,
                 rebootRequired, bootVerified, ext, host, pass, pending,
                 progressed, rebootIssued, timer>>

ResumeSteps ==
  /\ pc = "resuming"
  /\ pc' = "resumePhase"
  /\ \/ ledger' = Retried(ledger) /\ led' = ledger' /\ NoFault
     \/ PatchFails /\ UNCHANGED <<ledger, led>>
  /\ UNCHANGED <<phase, observedGen, bootId, rebootTotal, rebootRequired,
                 bootVerified, resumeAsked, ext, host, todo, verdict, mem>>

\* A bug: the resume stops after the steps.
ResumePhase_Forgotten ==
  /\ pc = "resumePhase" /\ pc' = "cycle" /\ NoFault
  /\ UNCHANGED <<api, ext, host, pass, mem>>

\* The last of the three writes; its error is ignored.
ResumePhase ==
  /\ pc = "resumePhase"
  /\ pc' = "cycle"
  /\ \/ phase' = "Provisioning" /\ NoFault
     \/ PatchFails /\ UNCHANGED phase
  /\ UNCHANGED <<ledger, observedGen, bootId, rebootTotal, rebootRequired,
                 bootVerified, resumeAsked, ext, host, pass, mem>>
-----------------------------------------------------------------------------
(* The stage pass.  RebootRequired = True holds every action of this section
   until the boot protocol clears it. *)

Walking == PastBootProtocol /\ ~rebootRequired

\* Ready and Failed owe no reboot.  A Failed node waits for the annotation,
\* or could not remove it.
IdleFailed ==
  /\ Walking
  /\ phase = "Failed"
  /\ pending # {} \/ pc = "synced"
  /\ \/ ~resumeAsked /\ NoFault
     \/ resumeAsked /\ PatchFails
  /\ pending' = {}
  /\ pc' = "cycle"
  /\ UNCHANGED <<api, ext, host, pass, progressed, rebootIssued, timer,
                 pacing>>

StartWalk ==
  /\ Walking
  /\ phase = "Pending"
  /\ progressed' = FALSE
  /\ pc' = "checkpoint"
  /\ \/ phase' = "Provisioning" /\ NoFault
     \/ PatchFails /\ UNCHANGED phase
  /\ UNCHANGED <<ledger, observedGen, bootId, rebootTotal, rebootRequired,
                 bootVerified, resumeAsked, ext, host, pass, pending,
                 rebootIssued, timer, pacing>>

\* A pass that runs no step: a halt-now request, or a closed admission gate.
HoldPass ==
  /\ Walking
  /\ phase \in WalkStages
  /\ hasHaltNowRequest(pending) \/ (phase = "Provisioning" /\ ~admitted)
  /\ progressed' = FALSE
  /\ pc' = "checkpoint"
  /\ NoFault
  /\ UNCHANGED <<api, ext, host, pass, pending, rebootIssued, timer, pacing>>

BeginPass ==
  /\ Walking
  /\ phase \in WalkStages
  /\ ~hasHaltNowRequest(pending)
  /\ phase = "Provisioning" => admitted
  /\ led' = ensureSteps(ledger, phase)
  /\ todo' = {s \in stepsForStage(phase) : led'[s].st # "Done"}
  /\ verdict' = "done"
  /\ progressed' = FALSE
  /\ pc' = "pass"
  /\ NoFault
  /\ UNCHANGED <<api, ext, host, pending, rebootIssued, timer, pacing>>

\* The step the loop is at.
IsCurrent(s) ==
  /\ pc = "pass"
  /\ s \in todo
  /\ \A r \in todo : Order[s] <= Order[r]

\* A step that failed recently is passed over; it keeps the stage open.
SkipPaced(s) ==
  /\ IsCurrent(s)
  /\ s \in pacing
  /\ todo' = todo \ {s}
  /\ verdict' = IF verdict = "done" THEN "hold" ELSE verdict
  /\ NoFault
  /\ UNCHANGED <<api, ext, host, pc, led, mem>>

wanted(s) == Want[observedGen][s]

\* The host after the body of s put its value there.
Applies(s) ==
  /\ applied' = [applied EXCEPT ![s] = wanted(s)]
  /\ staged' = IF Stages(s) /\ applied[s] # wanted(s)
               THEN staged \cup {s} ELSE staged
  /\ fresh' = IF Kind[s] = "runtime" THEN fresh \cup {s} ELSE fresh
  /\ UNCHANGED boot

\* A bug: a body asks whether or not it changed the host.
Requests_Always(s) == Stages(s)

\* Does a body that succeeds ask for a reboot?
Requests(s) ==
  \/ Stages(s) /\ applied[s] # wanted(s)
  \/ Kind[s] = "cmdline" /\ s \in staged

\* The body of s succeeds.  A latch that wrote is Blocked until a later pass
\* finds it matching; everything else is Done.  A halt-now request ends the
\* pass.
RunStep(s) ==
  /\ IsCurrent(s)
  /\ s \notin pacing
  /\ LET blocked == Kind[s] = "latch" /\ applied[s] # wanted(s)
         entry   == [led[s] EXCEPT !.st = IF blocked THEN "Blocked" ELSE "Done"]
     IN  /\ led' = [led EXCEPT ![s] = entry]
         /\ verdict' = IF blocked /\ verdict = "done" THEN "hold" ELSE verdict
         /\ progressed' = (progressed \/ entry # led[s])
  /\ pending' = IF Requests(s) THEN pending \cup {s} ELSE pending
  /\ todo' = IF hasHaltNowRequest(pending') THEN {} ELSE todo \ {s}
  /\ Applies(s)
  /\ NoFault
  /\ UNCHANGED <<api, ext, pc, rebootIssued, timer, pacing>>

\* The body of s fails: without effect, or after it staged its value (the
\* packages are installed but a later command fails; one device is set and
\* the next one is not).  Either way it asks for nothing.  A grub drop-in that
\* is written when update-grub fails is left out: no boot applies it.
FailStep(s) ==
  /\ IsCurrent(s)
  /\ s \notin pacing
  /\ led' = [led EXCEPT ![s] = [st |-> "Failed", att |-> @.att + 1]]
  /\ verdict' = IF led'[s].att >= MaxAttempts THEN "failed"
                ELSE IF verdict = "done" THEN "hold" ELSE verdict
  /\ progressed' = TRUE
  /\ pacing' = pacing \cup {s}
  /\ todo' = todo \ {s}
  /\ \/ Spend("stepFail") /\ UNCHANGED host
     \/ Spend("partial") /\ Kind[s] \in {"install", "latch"} /\ Applies(s)
  /\ UNCHANGED <<api, ext, pc, pending, rebootIssued, timer>>

\* An infrastructure failure is paced but costs no attempt.
FailTransiently(s) ==
  /\ IsCurrent(s)
  /\ s \notin pacing
  /\ Spend("transient")
  /\ led' = [led EXCEPT ![s].st = "Failed"]
  /\ verdict' = IF verdict = "done" THEN "hold" ELSE verdict
  /\ progressed' = (progressed \/ led[s].st # "Failed")
  /\ pacing' = pacing \cup {s}
  /\ todo' = todo \ {s}
  /\ UNCHANGED <<api, ext, host, pc, pending, rebootIssued, timer>>

\* The pass's results are written; a failed write is only logged and the
\* decision below still uses the local ledger.
PatchLedger ==
  /\ pc = "pass" /\ todo = {}
  /\ pc' = "advance"
  /\ \/ ledger' = led /\ NoFault
     \/ PatchFails /\ UNCHANGED ledger
  /\ UNCHANGED <<phase, observedGen, bootId, rebootTotal, rebootRequired,
                 bootVerified, resumeAsked, ext, host, pass, mem>>

AdvanceTo(p) ==
  /\ pc' = "checkpoint"
  /\ \/ phase' = p /\ NoFault
     \/ PatchFails /\ UNCHANGED phase
  /\ UNCHANGED <<ledger, observedGen, bootId, rebootTotal, rebootRequired,
                 bootVerified, resumeAsked, ext, host, pass, mem>>

FailWalk ==
  /\ pc = "advance" /\ verdict = "failed"
  /\ AdvanceTo("Failed")

\* A bug: a recorded request rides along into the next stage.
NoRequestInTheWay_Ignored == TRUE

\* A recorded reboot request blocks the stage transition.
NoRequestInTheWay == pending = {}

\* A step holds the stage, or a recorded reboot request does.  The passage to
\* Ready is exempt from the latter.
HoldStage ==
  /\ pc = "advance"
  /\ \/ verdict = "hold"
     \/ verdict = "done" /\ ~NoRequestInTheWay /\ nextStage[phase] # "Ready"
  /\ pc' = "checkpoint"
  /\ NoFault
  /\ UNCHANGED <<api, ext, host, pass, mem>>

AdvanceStage ==
  /\ pc = "advance" /\ verdict = "done"
  /\ NoRequestInTheWay /\ nextStage[phase] # "Ready"
  /\ AdvanceTo(nextStage[phase])
-----------------------------------------------------------------------------
(* Boot verification: on the way to Ready, and on a Ready node *)

BeginFinalVerify ==
  /\ pc = "advance" /\ verdict = "done"
  /\ nextStage[phase] = "Ready"
  /\ pc' = "verify"
  /\ NoFault
  /\ UNCHANGED <<api, ext, host, pass, mem>>

\* Due at once on a boot this process has not verified, then on an interval.
BeginReadyVerify ==
  /\ Walking
  /\ phase = "Ready"
  /\ pending' = {}
  /\ pc' = "verify"
  /\ NoFault
  /\ UNCHANGED <<api, ext, host, pass, progressed, rebootIssued, timer, pacing>>

\* The critical bodies all run, whatever the others return; mlxconfig only
\* compares.  bad is the set that does not return Done.
bootVerify(bad) ==
  LET drifted  == {s \in Critical : Kind[s] = "latch" /\ applied[s] # wanted(s)}
      restored == {s \in Critical \ bad : Kind[s] # "latch"}
      verified == [s \in Steps |->
        IF s \notin Critical \/ led[s].st = "Absent" THEN led[s]
        ELSE [led[s] EXCEPT !.st = IF s \in bad THEN "Failed" ELSE "Done"]]
  IN  /\ drifted \subseteq bad
      /\ applied' = [s \in Steps |->
                       IF s \in restored THEN wanted(s) ELSE applied[s]]
      /\ fresh' = fresh \cup {s \in restored : Kind[s] = "runtime"}
      /\ led' = verified
      /\ \/ ledger' = verified /\ bad \subseteq drifted /\ NoFault
         \/ ledger' = verified /\ ~(bad \subseteq drifted) /\ Spend("stepFail")
         \/ UNCHANGED ledger /\ bad \subseteq drifted /\ PatchFails
      /\ verdict' = IF bad = {} THEN "done" ELSE "hold"

VerifyBodies ==
  /\ pc = "verify"
  /\ pc' = "record"
  /\ \E bad \in SUBSET Critical : bootVerify(bad)
  /\ UNCHANGED <<phase, observedGen, bootId, rebootTotal, rebootRequired,
                 bootVerified, resumeAsked, ext, boot, staged, todo, mem>>

\* The BootVerified condition; its error is ignored.
RecordVerify ==
  /\ pc = "record"
  /\ pc' = IF phase = "Ready" THEN "cycle"
           ELSE IF verdict = "done" THEN "ready" ELSE "checkpoint"
  /\ \/ bootVerified' = (verdict = "done") /\ NoFault
     \/ PatchFails /\ UNCHANGED bootVerified
  /\ UNCHANGED <<phase, ledger, observedGen, bootId, rebootTotal,
                 rebootRequired, resumeAsked, ext, host, pass, mem>>

EnterReady ==
  /\ pc = "ready"
  /\ AdvanceTo("Ready")
-----------------------------------------------------------------------------
(* The reboot checkpoint *)

\* Fires one reboot for every recorded request once a pass changed nothing.
\* requestReboot ignores the error of its condition patch.
FireReboot ==
  /\ pc = "checkpoint"
  /\ ~progressed /\ ~rebootIssued /\ pending # {}
  /\ pending' = {}
  /\ rebootIssued' = TRUE /\ timer' = TRUE
  /\ pc' = "cycle"
  /\ \/ rebootRequired' = TRUE /\ NoFault
     \/ Spend("condPatch") /\ UNCHANGED rebootRequired
  /\ UNCHANGED <<phase, ledger, observedGen, bootId, rebootTotal, bootVerified,
                 resumeAsked, ext, host, pass, progressed, pacing>>

PassCheckpoint ==
  /\ pc = "checkpoint"
  /\ progressed \/ rebootIssued \/ pending = {}
  /\ pc' = "cycle"
  /\ NoFault
  /\ UNCHANGED <<api, ext, host, pass, mem>>

BackoffExpires(s) ==
  /\ s \in pacing
  /\ pacing' = pacing \ {s}
  /\ NoFault
  /\ UNCHANGED <<api, ext, host, pc, pass, pending, progressed, rebootIssued,
                 timer>>
-----------------------------------------------------------------------------
(* Death and rebirth of the agent process *)

NewProcess ==
  /\ pc' = "cycle" /\ led' = ledger /\ todo' = {} /\ verdict' = "done"
  /\ pending' = {} /\ progressed' = FALSE /\ rebootIssued' = FALSE
  /\ timer' = FALSE /\ pacing' = {}
  /\ UNCHANGED <<api, ext>>

MayDie == pc \notin TornWindow \/ "torn" \in faults

NewBoot ==
  /\ boot' = boot + 1
  /\ staged' = {} /\ fresh' = {}
  /\ UNCHANGED applied
  /\ NewProcess

\* The grace period ends and the reboot command runs.
RebootFires ==
  /\ timer /\ MayDie
  /\ NewBoot /\ NoFault

RebootCommandFails ==
  /\ timer
  /\ timer' = FALSE
  /\ Spend("rebootCmd")
  /\ UNCHANGED <<api, ext, host, pc, pass, pending, progressed, rebootIssued,
                 pacing>>

NaturalBoot ==
  /\ MayDie
  /\ NewBoot /\ Spend("boot")

AgentRestart ==
  /\ MayDie
  /\ NewProcess /\ Spend("restart")
  /\ UNCHANGED host
-----------------------------------------------------------------------------
(* The controller and the operator *)

\* FlashAdmitted is not False, and MaintenanceAdmitted is True on a control
\* plane; decided by the controller, see Admission.
Admit ==
  /\ ~admitted
  /\ admitted' = TRUE
  /\ NoFault
  /\ UNCHANGED <<api, profileGen, host, pc, pass, mem>>

Revoke ==
  /\ admitted
  /\ admitted' = FALSE
  /\ Spend("revoke")
  /\ UNCHANGED <<api, profileGen, host, pc, pass, mem>>

EditProfile ==
  /\ profileGen < MaxGen
  /\ profileGen' = profileGen + 1
  /\ Spend("edit")
  /\ UNCHANGED <<api, admitted, host, pc, pass, mem>>

AskResume ==
  /\ phase = "Failed" /\ ~resumeAsked
  /\ resumeAsked' = TRUE
  /\ Spend("resume")
  /\ UNCHANGED <<phase, ledger, observedGen, bootId, rebootTotal,
                 rebootRequired, bootVerified, ext, host, pc, pass, mem>>
-----------------------------------------------------------------------------
StepAction(s) ==
  SkipPaced(s) \/ RunStep(s) \/ FailStep(s) \/ FailTransiently(s)

Agent ==
  \/ ReopenForProfile \/ RephaseForProfile
  \/ SyncBoot
  \/ Resume \/ ResumeSteps \/ ResumePhase
  \/ IdleFailed \/ StartWalk \/ HoldPass \/ BeginPass
  \/ \E s \in Steps : StepAction(s)
  \/ PatchLedger \/ FailWalk \/ HoldStage \/ AdvanceStage
  \/ BeginFinalVerify \/ BeginReadyVerify \/ VerifyBodies \/ RecordVerify
  \/ EnterReady
  \/ FireReboot \/ PassCheckpoint

Environment ==
  \/ \E s \in Steps : BackoffExpires(s)
  \/ RebootFires \/ RebootCommandFails \/ NaturalBoot \/ AgentRestart
  \/ Admit \/ Revoke \/ EditProfile \/ AskResume

Next == Agent \/ Environment

Spec == Init /\ [][Next]_vars

(***************************************************************************)
(* Fairness.  The poll loop runs a cycle every interval for as long as the *)
(* process lives (Run), an armed reboot timer runs out, a backoff runs out *)
(* and the controller's resync keeps admitting.  Faults and the operator   *)
(* are never fair.                                                         *)
(***************************************************************************)
Fairness ==
  /\ WF_vars(Agent)
  /\ WF_vars(RebootFires)
  /\ WF_vars(Admit)
  /\ \A s \in Steps : WF_vars(BackoffExpires(s))

FairSpec == Spec /\ Fairness
-----------------------------------------------------------------------------
(* Properties *)

PCs == TornWindow \cup {"cycle", "synced", "pass", "advance", "verify",
                        "record", "ready", "checkpoint"}

\* Every variable has its type.
TypeOK ==
  /\ phase \in Phases \ {"ColdRebootRequired"}
  /\ ledger \in [Steps -> Entry] /\ led \in [Steps -> Entry]
  /\ observedGen \in 1..MaxGen /\ profileGen \in 1..MaxGen
  /\ boot \in Nat \ {0} /\ bootId \in Nat /\ rebootTotal \in Nat
  /\ rebootRequired \in BOOLEAN /\ bootVerified \in BOOLEAN
  /\ resumeAsked \in BOOLEAN /\ admitted \in BOOLEAN
  /\ applied \in [Steps -> Nat]
  /\ staged \in SUBSET Steps /\ fresh \in SUBSET Steps
  /\ pc \in PCs
  /\ todo \in SUBSET Steps /\ verdict \in {"done", "hold", "failed"}
  /\ pending \in SUBSET Steps
  /\ progressed \in BOOLEAN /\ rebootIssued \in BOOLEAN /\ timer \in BOOLEAN
  /\ pacing \in SUBSET Steps
  /\ faults \in FaultSets /\ faultsLeft \in 0..MaxFaults

\* BootVerified vouches for the boot whose id it is recorded with: when
\* status says "verified" and its bootId is the running boot, every critical
\* runtime step was established on this boot (agent.go, boot protocol and
\* boot-verify; the worker label and the taint release rest on it).
VerifiedMeansThisBoot ==
  bootVerified /\ bootId = boot =>
    \A s \in Critical : Kind[s] = "runtime" => s \in fresh

\* The faults that make the agent forget what it asked for, or act on a
\* request whose condition was not written.
Forgetful == {"restart", "partial", "edit", "resume", "condPatch"}

\* A node that reads Ready carries what the profile generation it observed asks
\* of every step, whatever failed, booted or was edited on the way, unless the
\* process died between the two patches of a profile reset (agent.go, the
\* profile-edit comment: "a new profile generation invalidates every step ...
\* and each step re-converges").
ReadyConverged ==
  "torn" \notin faults /\ phase = "Ready" /\ pc # "rephase"
  => \A s \in Steps : applied[s] = Want[observedGen][s]

\* The agent only ever has a reboot armed when the host carries something a
\* boot would apply: no reboot loop, however passes, edits, restarts and
\* failures interleave (agent.go, requestRebootBg and checkpointReboot).
RebootIsOwed == timer => staged # {}

\* Once the DOCA install asked for its reboot, no step body touches the host
\* before the boot (agent.go, requestRebootHalt: "later steps must not run
\* against a host that is about to reboot").
NoWorkOnHaltedHost ==
  [][ /\ faults \cap Forgetful = {}
      /\ \E s \in staged : Kind[s] = "install"
      /\ boot' = boot
      => UNCHANGED <<applied, fresh>> ]_vars

\* The walk, seen from outside.
Contract == INSTANCE NodePrepContract WITH
  vouched   <- IF bootVerified THEN bootId ELSE 0,
  live      <- \A s \in Critical : Kind[s] = "runtime" => s \in fresh,
  owed      <- staged # {},
  armed     <- timer,
  remembers <- faults \cap Forgetful = {}

\* The agent implements the contract of a node, see NodePrepContract: with all
\* its cycles, failures, restarts and boots it vouches for live boots only,
\* reboots only what owes a boot, and moves through the stages in order
\* (agent.go, cycle, runStage, bootVerify, checkpointReboot).
HonoursContract == Contract!Spec

\* The faults after which nothing the agent asked for is lost for good: its
\* process and its reboot command survive.
Enduring == {"stepFail", "transient", "partial", "patch", "condPatch", "boot",
             "revoke", "edit", "resume"}

\* Left alone, the walk ends: Ready and verified on the running boot for the
\* running profile, or Failed and waiting for the operator.
Settles ==
  faults \subseteq Enduring =>
    <>[]( \/ phase = "Failed"
          \/ phase = "Ready" /\ bootVerified /\ bootId = boot
               /\ observedGen = profileGen )

\* A resume annotation on a Failed NodePrep is honoured (agent.go, design
\* section 5.2 recovery).
ResumeHonoured ==
  faults \subseteq Enduring =>
    (phase = "Failed" /\ resumeAsked ~> phase # "Failed")
=============================================================================
