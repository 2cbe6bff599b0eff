--------------------------- MODULE AgentWalkProofs ---------------------------
(***************************************************************************)
(* Machine-checked proofs about AgentWalk, for every set of steps, every   *)
(* profile, every bound and every choice of faults:                        *)
(*                                                                         *)
(*   TypeCorrect      every variable keeps its type;                       *)
(*   VerifyHonest     BootVerified vouches for the running boot;           *)
(*   RebootJustified  an armed reboot has something to apply;              *)
(*   ReadyIsConverged a Ready node's host carries the whole profile;       *)
(*   HaltedHostRests  no step works on a host that is told to halt;        *)
(*   ContractHonoured the walk implements NodePrepContract.                *)
(*                                                                         *)
(* Each is the consequence of an inductive invariant, a conjunction of the *)
(* named parts below.  Every induction has one step per action.            *)
(***************************************************************************)
EXTENDS AgentWalk, TLAPS

\* A pass runs in a stage that has steps, so nextStage is applied to one.
PassInWalkStage == pc \in {"pass", "advance"} => phase \in WalkStages

TypeInv == TypeOK /\ PassInWalkStage

\* No boot is recorded before it happened, and past the boot protocol the
\* recorded boot is the running one.
BootOrder ==
  /\ bootId <= boot
  /\ pc \notin {"cycle", "rephase"} => bootId = boot

\* Nothing is verified before the first boot is recorded.
UnbootedUnverified == bootId = 0 => ~bootVerified

\* What VerifiedMeansThisBoot promises of the critical runtime steps.
CriticalFresh == \A s \in Critical : Kind[s] = "runtime" => s \in fresh

\* A good verdict about to be recorded was reached on this boot.
VerdictSound == pc = "record" /\ verdict = "done" => CriticalFresh

VerifyInv ==
  BootOrder /\ UnbootedUnverified /\ VerdictSound /\ VerifiedMeansThisBoot

\* What is asked for is waiting for a boot.
RequestsStaged == pending \subseteq staged

RebootInv == RequestsStaged /\ RebootIsOwed
-----------------------------------------------------------------------------
(* The helpers on the ledger preserve its type *)

\* ensureSteps, the re-opening of steps and the fresh budgets all return a
\* ledger (agent.go, ensureSteps and the resets of cycle).
LEMMA LedgerHelpers ==
  ASSUME NEW l \in [Steps -> Entry], NEW p
  PROVE  /\ Reopened(l) \in [Steps -> Entry]
         /\ BootReopened(l) \in [Steps -> Entry]
         /\ Retried(l) \in [Steps -> Entry]
         /\ ensureSteps(l, p) \in [Steps -> Entry]
<1>1. PendingEntry \in Entry
  BY DEF PendingEntry, Entry, StepStates
<1> QED
  BY <1>1 DEF Reopened, BootReopened, Retried, ensureSteps

\* The stage after a walk stage is a phase the walk may take.
LEMMA NextStageType ==
  \A p \in WalkStages : nextStage[p] \in Phases \ {"ColdRebootRequired"}
BY DEF nextStage, WalkStages, Phases

\* What a profile asks of a step is a number.
LEMMA WantType ==
  ASSUME observedGen \in 1..MaxGen, NEW s \in Steps
  PROVE  wanted(s) \in Nat
BY ProfileAssumption DEF wanted
-----------------------------------------------------------------------------
(* Types *)

\* A fresh or imported NodePrep starts in its types (Init: the status the
\* agent finds on its first cycle).
LEMMA TypeInit == Init => TypeInv
<1> SUFFICES ASSUME Init PROVE TypeInv
  OBVIOUS
<1>1. applied \in [Steps -> Nat]
  <2>1. 1 \in 1..MaxGen
    BY ProfileAssumption
  <2>2. \A s \in Steps : Want[1][s] \in Nat
    BY <2>1, ProfileAssumption
  <2> QED
    BY <2>2 DEF Init
<1>2. ledger \in [Steps -> Entry]
  BY DEF Init, Entry
<1>3. phase \in Phases \ {"ColdRebootRequired"}
  BY DEF Init, ImportedPhases, FromLegacy, Phases, WalkStages
<1>4. /\ observedGen \in 1..MaxGen /\ profileGen \in 1..MaxGen
      /\ boot \in Nat \ {0} /\ bootId \in Nat /\ rebootTotal \in Nat
      /\ faults \in FaultSets /\ faultsLeft \in 0..MaxFaults
  BY ProfileAssumption, BoundsAssumption DEF Init
<1>5. led \in [Steps -> Entry]
  BY <1>2 DEF Init
<1>6. /\ rebootRequired \in BOOLEAN /\ bootVerified \in BOOLEAN
      /\ resumeAsked \in BOOLEAN /\ admitted \in BOOLEAN
      /\ progressed \in BOOLEAN /\ rebootIssued \in BOOLEAN
      /\ timer \in BOOLEAN
  BY DEF Init
<1>7. /\ staged \in SUBSET Steps /\ fresh \in SUBSET Steps
      /\ todo \in SUBSET Steps /\ verdict \in {"done", "hold", "failed"}
      /\ pending \in SUBSET Steps /\ pacing \in SUBSET Steps
      /\ pc \in PCs
  BY DEF Init, PCs
<1>8. PassInWalkStage
  BY DEF Init, PassInWalkStage
<1> QED
  BY <1>1, <1>2, <1>3, <1>4, <1>5, <1>6, <1>7, <1>8 DEF TypeInv, TypeOK

\* TypeOK in two halves, one for each prover: the flags and everything else.
FlagTypes ==
  /\ rebootRequired \in BOOLEAN /\ bootVerified \in BOOLEAN
  /\ resumeAsked \in BOOLEAN /\ admitted \in BOOLEAN
  /\ progressed \in BOOLEAN /\ rebootIssued \in BOOLEAN /\ timer \in BOOLEAN

DataTypes ==
  /\ phase \in Phases \ {"ColdRebootRequired"}
  /\ ledger \in [Steps -> Entry] /\ led \in [Steps -> Entry]
  /\ observedGen \in 1..MaxGen /\ profileGen \in 1..MaxGen
  /\ boot \in Nat \ {0} /\ bootId \in Nat /\ rebootTotal \in Nat
  /\ applied \in [Steps -> Nat]
  /\ staged \in SUBSET Steps /\ fresh \in SUBSET Steps
  /\ pc \in PCs
  /\ todo \in SUBSET Steps /\ verdict \in {"done", "hold", "failed"}
  /\ pending \in SUBSET Steps
  /\ pacing \in SUBSET Steps
  /\ faults \in FaultSets /\ faultsLeft \in 0..MaxFaults

\* Every action leaves the flags flags.
LEMMA FlagStep == TypeInv /\ [Next]_vars => FlagTypes'
<1> SUFFICES ASSUME TypeInv, [Next]_vars PROVE FlagTypes'
  OBVIOUS
<1> USE DEF TypeInv, TypeOK, FlagTypes, api, ext, host, pass, mem
<1>1. CASE ReopenForProfile
  BY <1>1 DEF ReopenForProfile
<1>2. CASE RephaseForProfile
  BY <1>2 DEF RephaseForProfile
<1>3. CASE SyncBoot
  BY <1>3 DEF SyncBoot, BootConditions
<1>4. CASE Resume
  BY <1>4 DEF Resume
<1>5. CASE ResumeSteps
  BY <1>5 DEF ResumeSteps
<1>6. CASE ResumePhase
  BY <1>6 DEF ResumePhase
<1>7. CASE IdleFailed
  BY <1>7 DEF IdleFailed
<1>8. CASE StartWalk
  BY <1>8 DEF StartWalk
<1>9. CASE HoldPass
  BY <1>9 DEF HoldPass
<1>10. CASE BeginPass
  BY <1>10 DEF BeginPass
<1>11. ASSUME NEW s \in Steps, SkipPaced(s) PROVE FlagTypes'
  BY <1>11 DEF SkipPaced
<1>12. ASSUME NEW s \in Steps, RunStep(s) PROVE FlagTypes'
  BY <1>12 DEF RunStep
<1>13. ASSUME NEW s \in Steps, FailStep(s) PROVE FlagTypes'
  BY <1>13 DEF FailStep
<1>14. ASSUME NEW s \in Steps, FailTransiently(s) PROVE FlagTypes'
  BY <1>14 DEF FailTransiently
<1>15. CASE PatchLedger
  BY <1>15 DEF PatchLedger
<1>16. CASE FailWalk
  BY <1>16 DEF FailWalk, AdvanceTo
<1>17. CASE HoldStage
  BY <1>17 DEF HoldStage
<1>18. CASE AdvanceStage
  BY <1>18 DEF AdvanceStage, AdvanceTo
<1>19. CASE BeginFinalVerify
  BY <1>19 DEF BeginFinalVerify
<1>20. CASE BeginReadyVerify
  BY <1>20 DEF BeginReadyVerify
<1>21. CASE VerifyBodies
  BY <1>21 DEF VerifyBodies, bootVerify
<1>22. CASE RecordVerify
  BY <1>22 DEF RecordVerify
<1>23. CASE EnterReady
  BY <1>23 DEF EnterReady, AdvanceTo
<1>24. CASE FireReboot
  BY <1>24 DEF FireReboot
<1>25. CASE PassCheckpoint
  BY <1>25 DEF PassCheckpoint
<1>26. ASSUME NEW s \in Steps, BackoffExpires(s) PROVE FlagTypes'
  BY <1>26 DEF BackoffExpires
<1>27. CASE RebootFires
  BY <1>27 DEF RebootFires, NewBoot, NewProcess
<1>28. CASE RebootCommandFails
  BY <1>28 DEF RebootCommandFails
<1>29. CASE NaturalBoot
  BY <1>29 DEF NaturalBoot, NewBoot, NewProcess
<1>30. CASE AgentRestart
  BY <1>30 DEF AgentRestart, NewProcess
<1>31. CASE Admit
  BY <1>31 DEF Admit
<1>32. CASE Revoke
  BY <1>32 DEF Revoke
<1>33. CASE EditProfile
  BY <1>33 DEF EditProfile
<1>34. CASE AskResume
  BY <1>34 DEF AskResume
<1>35. CASE UNCHANGED vars
  BY <1>35 DEF vars
<1> QED
  BY <1>1, <1>2, <1>3, <1>4, <1>5, <1>6, <1>7, <1>8, <1>9, <1>10, <1>11,
     <1>12, <1>13, <1>14, <1>15, <1>16, <1>17, <1>18, <1>19, <1>20, <1>21,
     <1>22, <1>23, <1>24, <1>25, <1>26, <1>27, <1>28, <1>29, <1>30, <1>31,
     <1>32, <1>33, <1>34, <1>35 DEF Next, Agent, Environment, StepAction

\* Every action keeps the data in its types.
LEMMA DataStep == TypeInv /\ [Next]_vars => DataTypes' /\ PassInWalkStage'
<1> SUFFICES ASSUME TypeInv, [Next]_vars PROVE DataTypes' /\ PassInWalkStage'
  OBVIOUS
<1> USE BoundsAssumption
    DEF TypeInv, TypeOK, DataTypes, PassInWalkStage, PCs, TornWindow, Phases,
        WalkStages, api, ext, host, pass, mem, NoFault, Spend
<1>1. CASE ReopenForProfile
  <2>1. /\ pc = "cycle" /\ phase' = phase /\ pending' \in SUBSET Steps
        /\ faults' = faults /\ pc' \in {"cycle", "rephase"}
        /\ faultsLeft' \in 0..MaxFaults
    BY <1>1 DEF ReopenForProfile, PatchFails
  <2>2. /\ ledger' \in [Steps -> Entry] /\ led' \in [Steps -> Entry]
        /\ observedGen' \in 1..MaxGen
    BY <1>1, LedgerHelpers DEF ReopenForProfile
  <2> QED
    BY <1>1, <2>1, <2>2 DEF ReopenForProfile
<1>2. CASE RephaseForProfile
  BY <1>2 DEF RephaseForProfile, PatchFails
<1>3. CASE SyncBoot
  BY <1>3, LedgerHelpers DEF SyncBoot, PatchFails
<1>4. CASE Resume
  BY <1>4 DEF Resume
<1>5. CASE ResumeSteps
  BY <1>5, LedgerHelpers DEF ResumeSteps, PatchFails
<1>6. CASE ResumePhase
  BY <1>6 DEF ResumePhase, PatchFails
<1>7. CASE IdleFailed
  BY <1>7 DEF IdleFailed, PatchFails
<1>8. CASE StartWalk
  BY <1>8 DEF StartWalk, PatchFails
<1>9. CASE HoldPass
  BY <1>9 DEF HoldPass
<1>10. CASE BeginPass
  BY <1>10, LedgerHelpers DEF BeginPass, stepsForStage
<1>11. ASSUME NEW s \in Steps, SkipPaced(s) PROVE DataTypes' /\ PassInWalkStage'
  BY <1>11 DEF SkipPaced, IsCurrent
<1>12. ASSUME NEW s \in Steps, RunStep(s) PROVE DataTypes' /\ PassInWalkStage'
  BY <1>12, WantType DEF RunStep, IsCurrent, Applies, hasHaltNowRequest,
     Entry, StepStates
<1>13. ASSUME NEW s \in Steps, FailStep(s) PROVE DataTypes' /\ PassInWalkStage'
  BY <1>13, WantType DEF FailStep, IsCurrent, Applies, Entry, StepStates
<1>14. ASSUME NEW s \in Steps, FailTransiently(s) PROVE DataTypes' /\ PassInWalkStage'
  BY <1>14 DEF FailTransiently, IsCurrent, Entry, StepStates
<1>15. CASE PatchLedger
  BY <1>15 DEF PatchLedger, PatchFails
<1>16. CASE FailWalk
  BY <1>16 DEF FailWalk, AdvanceTo, PatchFails
<1>17. CASE HoldStage
  BY <1>17 DEF HoldStage
<1>18. CASE AdvanceStage
  BY <1>18, NextStageType DEF AdvanceStage, AdvanceTo, PatchFails
<1>19. CASE BeginFinalVerify
  BY <1>19 DEF BeginFinalVerify
<1>20. CASE BeginReadyVerify
  BY <1>20 DEF BeginReadyVerify
<1>21. CASE VerifyBodies
  <2>1. PICK bad \in SUBSET Critical : bootVerify(bad)
    BY <1>21 DEF VerifyBodies
  <2> DEFINE verified == [s \in Steps |->
        IF s \notin Critical \/ led[s].st = "Absent" THEN led[s]
        ELSE [led[s] EXCEPT !.st = IF s \in bad THEN "Failed" ELSE "Done"]]
  <2>2. ASSUME NEW e \in Entry, NEW x \in StepStates
        PROVE  [e EXCEPT !.st = x] \in Entry
    BY DEF Entry
  <2>3. verified \in [Steps -> Entry]
    BY <2>2 DEF StepStates
  <2>4. led' = verified /\ ledger' \in {ledger, verified}
    BY <2>1 DEF bootVerify
  <2>5. applied' \in [Steps -> Nat]
    BY <2>1, WantType DEF bootVerify
  <2>6. fresh' \in SUBSET Steps
    BY <2>1, StepsAssumption DEF bootVerify
  <2>7. verdict' \in {"done", "hold", "failed"}
    BY <2>1 DEF bootVerify
  <2>8. faults' \in FaultSets /\ faultsLeft' \in 0..MaxFaults
    BY <2>1 DEF bootVerify, PatchFails
  <2> QED
    BY <1>21, <2>3, <2>4, <2>5, <2>6, <2>7, <2>8 DEF VerifyBodies
<1>22. CASE RecordVerify
  BY <1>22 DEF RecordVerify, PatchFails
<1>23. CASE EnterReady
  BY <1>23 DEF EnterReady, AdvanceTo, PatchFails
<1>24. CASE FireReboot
  BY <1>24 DEF FireReboot
<1>25. CASE PassCheckpoint
  BY <1>25 DEF PassCheckpoint
<1>26. ASSUME NEW s \in Steps, BackoffExpires(s) PROVE DataTypes' /\ PassInWalkStage'
  BY <1>26 DEF BackoffExpires
<1>27. CASE RebootFires
  BY <1>27 DEF RebootFires, NewBoot, NewProcess
<1>28. CASE RebootCommandFails
  BY <1>28 DEF RebootCommandFails
<1>29. CASE NaturalBoot
  BY <1>29 DEF NaturalBoot, NewBoot, NewProcess
<1>30. CASE AgentRestart
  BY <1>30 DEF AgentRestart, NewProcess
<1>31. CASE Admit
  BY <1>31 DEF Admit
<1>32. CASE Revoke
  BY <1>32 DEF Revoke
<1>33. CASE EditProfile
  BY <1>33, ProfileAssumption DEF EditProfile
<1>34. CASE AskResume
  BY <1>34 DEF AskResume
<1>35. CASE UNCHANGED vars
  BY <1>35 DEF vars
<1> QED
  BY <1>1, <1>2, <1>3, <1>4, <1>5, <1>6, <1>7, <1>8, <1>9, <1>10, <1>11,
     <1>12, <1>13, <1>14, <1>15, <1>16, <1>17, <1>18, <1>19, <1>20, <1>21,
     <1>22, <1>23, <1>24, <1>25, <1>26, <1>27, <1>28, <1>29, <1>30, <1>31,
     <1>32, <1>33, <1>34, <1>35 DEF Next, Agent, Environment, StepAction

\* Types and the place of a pass hold in every state the agent, the host and
\* the operator can bring about.
LEMMA TypeInvariant == Spec => []TypeInv
<1>1. Init => TypeInv
  BY TypeInit
<1>2. TypeInv /\ [Next]_vars => TypeInv'
  BY FlagStep, DataStep DEF TypeInv, TypeOK, FlagTypes, DataTypes
<1> QED
  BY <1>1, <1>2, PTL DEF Spec

\* Every variable has its type in every reachable state.
THEOREM TypeCorrect == Spec => []TypeOK
<1>1. TypeInv => TypeOK
  BY DEF TypeInv
<1> QED
  BY <1>1, TypeInvariant, PTL
-----------------------------------------------------------------------------
(* What the actions leave alone *)

\* A step that boots nothing, verifies nothing, works on nothing and asks for
\* nothing, and that enters the cycle only past the boot protocol.
QuietStep ==
  /\ UNCHANGED <<boot, bootId, bootVerified, fresh, staged>>
  /\ pc' = "record" => pc = "record" /\ verdict' = verdict
  /\ \/ pc' \in {"cycle", "rephase"}
     \/ pc \notin {"cycle", "rephase"}
     \/ bootId = boot
  /\ pending' \subseteq pending
  /\ timer' \in {timer, FALSE}

\* The few actions that are not quiet.
LoudStep ==
  \/ SyncBoot
  \/ \E s \in Steps : RunStep(s) \/ FailStep(s)
  \/ VerifyBodies \/ RecordVerify \/ FireReboot
  \/ RebootFires \/ NaturalBoot

\* Every other action of the agent, the host and the operator is quiet.
LEMMA QuietOrLoud ==
  ASSUME [Next]_vars PROVE QuietStep \/ LoudStep
<1> USE DEF QuietStep, api, ext, host, pass, mem
<1>1. CASE ReopenForProfile
  BY <1>1 DEF ReopenForProfile
<1>2. CASE RephaseForProfile
  BY <1>2 DEF RephaseForProfile
<1>3. CASE Resume
  BY <1>3 DEF Resume, PastBootProtocol
<1>4. CASE ResumeSteps
  BY <1>4 DEF ResumeSteps
<1>5. CASE ResumePhase
  BY <1>5 DEF ResumePhase
<1>6. CASE IdleFailed
  BY <1>6 DEF IdleFailed
<1>7. CASE StartWalk
  BY <1>7 DEF StartWalk, Walking, PastBootProtocol
<1>8. CASE HoldPass
  BY <1>8 DEF HoldPass, Walking, PastBootProtocol
<1>9. CASE BeginPass
  BY <1>9 DEF BeginPass, Walking, PastBootProtocol
<1>10. ASSUME NEW s \in Steps, SkipPaced(s) PROVE QuietStep
  BY <1>10 DEF SkipPaced, IsCurrent
<1>11. ASSUME NEW s \in Steps, FailTransiently(s) PROVE QuietStep
  BY <1>11 DEF FailTransiently, IsCurrent
<1>12. CASE PatchLedger
  BY <1>12 DEF PatchLedger
<1>13. CASE FailWalk
  BY <1>13 DEF FailWalk, AdvanceTo
<1>14. CASE HoldStage
  BY <1>14 DEF HoldStage
<1>15. CASE AdvanceStage
  BY <1>15 DEF AdvanceStage, AdvanceTo
<1>16. CASE BeginFinalVerify
  BY <1>16 DEF BeginFinalVerify
<1>17. CASE BeginReadyVerify
  BY <1>17 DEF BeginReadyVerify, Walking, PastBootProtocol
<1>18. CASE EnterReady
  BY <1>18 DEF EnterReady, AdvanceTo
<1>19. CASE PassCheckpoint
  BY <1>19 DEF PassCheckpoint
<1>20. ASSUME NEW s \in Steps, BackoffExpires(s) PROVE QuietStep
  BY <1>20 DEF BackoffExpires
<1>21. CASE RebootCommandFails
  BY <1>21 DEF RebootCommandFails
<1>22. CASE AgentRestart
  BY <1>22 DEF AgentRestart, NewProcess
<1>23. CASE Admit
  BY <1>23 DEF Admit
<1>24. CASE Revoke
  BY <1>24 DEF Revoke
<1>25. CASE EditProfile
  BY <1>25 DEF EditProfile
<1>26. CASE AskResume
  BY <1>26 DEF AskResume
<1>27. CASE UNCHANGED vars
  BY <1>27 DEF vars
<1> QED
  BY <1>1, <1>2, <1>3, <1>4, <1>5, <1>6, <1>7, <1>8, <1>9, <1>10, <1>11,
     <1>12, <1>13, <1>14, <1>15, <1>16, <1>17, <1>18, <1>19, <1>20, <1>21,
     <1>22, <1>23, <1>24, <1>25, <1>26, <1>27 DEF LoudStep, Next, Agent,
     Environment, StepAction
-----------------------------------------------------------------------------
(* BootVerified vouches for the running boot *)

\* Nothing is verified, and nothing is booted, before the first cycle.
LEMMA VerifyInit == Init => VerifyInv
BY DEF Init, VerifyInv, BootOrder, UnbootedUnverified, VerdictSound,
       VerifiedMeansThisBoot

\* What is established on a boot stays until the next one.
LEMMA FreshGrows ==
  ASSUME [Next]_vars PROVE fresh \subseteq fresh' \/ RebootFires \/ NaturalBoot
<1> USE DEF api, ext, host, pass, mem
<1>1. CASE QuietStep
  BY <1>1 DEF QuietStep
<1>2. CASE SyncBoot
  BY <1>2 DEF SyncBoot
<1>3. ASSUME NEW s \in Steps, RunStep(s) PROVE fresh \subseteq fresh'
  BY <1>3 DEF RunStep, Applies
<1>4. ASSUME NEW s \in Steps, FailStep(s) PROVE fresh \subseteq fresh'
  BY <1>4 DEF FailStep, Applies
<1>5. CASE VerifyBodies
  BY <1>5 DEF VerifyBodies, bootVerify
<1>6. CASE RecordVerify
  BY <1>6 DEF RecordVerify
<1>7. CASE FireReboot
  BY <1>7 DEF FireReboot
<1> QED
  BY <1>1, <1>2, <1>3, <1>4, <1>5, <1>6, <1>7, QuietOrLoud DEF LoudStep

\* No action records a boot that has not happened, and only the boot protocol
\* of cycle lets the agent past a recorded boot that is not the running one.
LEMMA BootOrderStep ==
  ASSUME TypeInv, BootOrder, [Next]_vars PROVE BootOrder'
<1> USE DEF BootOrder, TypeInv, TypeOK, api, ext, host, pass, mem
<1>1. CASE QuietStep
  BY <1>1 DEF QuietStep
<1>2. CASE SyncBoot
  BY <1>2 DEF SyncBoot
<1>3. ASSUME NEW s \in Steps, RunStep(s) \/ FailStep(s) PROVE BootOrder'
  <2>1. boot' = boot /\ bootId' = bootId /\ pc' = pc
    BY <1>3 DEF RunStep, FailStep, Applies
  <2> QED
    BY <2>1
<1>4. CASE VerifyBodies
  BY <1>4 DEF VerifyBodies
<1>5. CASE RecordVerify
  BY <1>5 DEF RecordVerify
<1>6. CASE FireReboot
  BY <1>6 DEF FireReboot
<1>7. CASE RebootFires \/ NaturalBoot
  <2>1. boot' = boot + 1 /\ bootId' = bootId /\ pc' = "cycle"
    BY <1>7 DEF RebootFires, NaturalBoot, NewBoot, NewProcess
  <2> QED
    BY <2>1
<1> QED
  BY <1>1, <1>2, <1>3, <1>4, <1>5, <1>6, <1>7, QuietOrLoud DEF LoudStep

\* No action verifies before a boot is recorded: bootVerify runs past the
\* boot protocol only.
LEMMA UnbootedUnverifiedStep ==
  ASSUME TypeInv, BootOrder, UnbootedUnverified, [Next]_vars
  PROVE  UnbootedUnverified'
<1> USE DEF UnbootedUnverified, api, ext, host, pass, mem
<1>0. boot # 0
  BY DEF TypeInv, TypeOK
<1>1. CASE QuietStep
  BY <1>1 DEF QuietStep
<1>2. CASE SyncBoot
  BY <1>0, <1>2 DEF SyncBoot
<1>3. ASSUME NEW s \in Steps, RunStep(s) \/ FailStep(s)
      PROVE  UnbootedUnverified'
  BY <1>3 DEF RunStep, FailStep
<1>4. CASE VerifyBodies
  BY <1>4 DEF VerifyBodies
<1>5. CASE RecordVerify
  BY <1>0, <1>5 DEF RecordVerify, BootOrder
<1>6. CASE FireReboot
  BY <1>6 DEF FireReboot
<1>7. CASE RebootFires \/ NaturalBoot
  BY <1>7 DEF RebootFires, NaturalBoot, NewBoot, NewProcess
<1> QED
  BY <1>1, <1>2, <1>3, <1>4, <1>5, <1>6, <1>7, QuietOrLoud DEF LoudStep

\* A good verdict of bootVerify stays sound until it is recorded: a boot in
\* between loses the verdict with the process.
LEMMA VerdictSoundStep ==
  ASSUME TypeInv, VerdictSound, [Next]_vars PROVE VerdictSound'
<1> USE DEF VerdictSound, CriticalFresh, api, ext, host, pass, mem
<1>1. CASE QuietStep
  BY <1>1 DEF QuietStep
<1>2. CASE SyncBoot
  BY <1>2 DEF SyncBoot
<1>3. ASSUME NEW s \in Steps, RunStep(s) \/ FailStep(s) PROVE VerdictSound'
  BY <1>3 DEF RunStep, FailStep, IsCurrent
<1>4. CASE VerifyBodies
  <2>1. PICK bad \in SUBSET Critical : bootVerify(bad)
    BY <1>4 DEF VerifyBodies
  <2>2. CASE bad = {}
    <3>1. \A s \in Critical : Kind[s] = "runtime" => s \in fresh'
      BY <2>1, <2>2 DEF bootVerify
    <3> QED
      BY <3>1
  <2>3. CASE bad # {}
    <3>1. verdict' = "hold"
      BY <2>1, <2>3 DEF bootVerify
    <3> QED
      BY <3>1
  <2> QED
    BY <2>2, <2>3
<1>5. CASE RecordVerify
  BY <1>5 DEF RecordVerify
<1>6. CASE FireReboot
  BY <1>6 DEF FireReboot
<1>7. CASE RebootFires \/ NaturalBoot
  BY <1>7 DEF RebootFires, NaturalBoot, NewBoot, NewProcess
<1> QED
  BY <1>1, <1>2, <1>3, <1>4, <1>5, <1>6, <1>7, QuietOrLoud DEF LoudStep

\* No action breaks what BootVerified vouches for: a new boot makes the
\* recorded bootId stale at once, and the patch that refreshes it clears the
\* condition in the same write (agent.go, boot protocol).
LEMMA VerifiedStep ==
  ASSUME TypeInv, VerifyInv, [Next]_vars PROVE VerifiedMeansThisBoot'
<1> USE DEF VerifiedMeansThisBoot, api, ext, host, pass, mem
<1>1. CASE QuietStep
  BY <1>1 DEF QuietStep, VerifyInv
<1>2. CASE SyncBoot
  <2>1. CASE pc' = "synced"
    <3>1. ~bootVerified'
      BY <1>2, <2>1
         DEF SyncBoot, BootConditions, VerifyInv, UnbootedUnverified
    <3> QED
      BY <3>1
  <2>2. CASE pc' # "synced"
    <3>1. bootId' = bootId /\ boot' = boot /\ bootId # boot
      BY <1>2, <2>2 DEF SyncBoot
    <3> QED
      BY <3>1
  <2> QED
    BY <2>1, <2>2
<1>3. ASSUME NEW s \in Steps, RunStep(s) \/ FailStep(s)
      PROVE  VerifiedMeansThisBoot'
  <2>1. fresh \subseteq fresh'
    BY <1>3, FreshGrows
       DEF RunStep, FailStep, RebootFires, NaturalBoot, NewBoot, NewProcess,
           Applies
  <2>2. UNCHANGED <<boot, bootId, bootVerified>>
    BY <1>3 DEF RunStep, FailStep, Applies
  <2> QED
    BY <2>1, <2>2 DEF VerifyInv
<1>4. CASE VerifyBodies
  <2>1. fresh \subseteq fresh'
    BY <1>4 DEF VerifyBodies, bootVerify
  <2>2. UNCHANGED <<boot, bootId, bootVerified>>
    BY <1>4 DEF VerifyBodies
  <2> QED
    BY <2>1, <2>2 DEF VerifyInv
<1>5. CASE RecordVerify
  BY <1>5 DEF RecordVerify, VerifyInv, VerdictSound, CriticalFresh
<1>6. CASE FireReboot
  BY <1>6 DEF FireReboot, VerifyInv
<1>7. CASE RebootFires \/ NaturalBoot
  <2>1. boot' = boot + 1 /\ bootId' = bootId
    BY <1>7 DEF RebootFires, NaturalBoot, NewBoot, NewProcess
  <2>2. bootId' # boot'
    BY <2>1 DEF TypeInv, TypeOK, VerifyInv, BootOrder
  <2> QED
    BY <2>2
<1> QED
  BY <1>1, <1>2, <1>3, <1>4, <1>5, <1>6, <1>7, QuietOrLoud DEF LoudStep

\* When status says verified and its bootId is the running boot, every critical
\* runtime step was established on that boot, whatever patches fail, boots and
\* restarts come between the verification and its record.
THEOREM VerifyHonest == Spec => []VerifiedMeansThisBoot
<1>1. Init => VerifyInv
  BY VerifyInit
<1>2. TypeInv /\ VerifyInv /\ [Next]_vars => VerifyInv'
  BY BootOrderStep, UnbootedUnverifiedStep, VerdictSoundStep, VerifiedStep
     DEF VerifyInv
<1>3. VerifyInv => VerifiedMeansThisBoot
  BY DEF VerifyInv
<1> QED
  BY <1>1, <1>2, <1>3, TypeInvariant, PTL DEF Spec
-----------------------------------------------------------------------------
(* An armed reboot has something to apply *)

\* Requests and the armed reboot keep to staged changes: a body asks for what
\* it staged, and firing clears the requests (agent.go, checkpointReboot).
LEMMA RebootStep ==
  ASSUME RebootInv, [Next]_vars PROVE RebootInv'
<1> USE DEF RebootInv, RequestsStaged, RebootIsOwed, api, ext, host, pass, mem
<1>1. CASE QuietStep
  <2>1. staged' = staged /\ pending' \subseteq pending
    BY <1>1 DEF QuietStep
  <2>2. timer' => timer
    BY <1>1, Zenon DEF QuietStep
  <2>3. RequestsStaged'
    BY <2>1
  <2> QED
    BY <2>1, <2>2, <2>3
<1>2. CASE SyncBoot
  BY <1>2 DEF SyncBoot
<1>3. ASSUME NEW s \in Steps, RunStep(s) PROVE RebootInv'
  <2>1. staged \subseteq staged' /\ timer' = timer
    BY <1>3 DEF RunStep, Applies
  <2>2. pending' \subseteq pending \cup {s}
    BY <1>3 DEF RunStep
  <2>3. ASSUME s \in pending' PROVE s \in pending \/ s \in staged'
    BY <1>3, <2>3 DEF RunStep, Requests, Applies
  <2> QED
    BY <2>1, <2>2, <2>3
<1>4. ASSUME NEW s \in Steps, FailStep(s) PROVE RebootInv'
  <2>1. staged \subseteq staged' /\ timer' = timer /\ pending' = pending
    BY <1>4 DEF FailStep, Applies
  <2> QED
    BY <2>1
<1>5. CASE VerifyBodies
  BY <1>5 DEF VerifyBodies
<1>6. CASE RecordVerify
  BY <1>6 DEF RecordVerify
<1>7. CASE FireReboot
  <2>1. staged # {} /\ staged' = staged /\ pending' = {}
    BY <1>7 DEF FireReboot
  <2> QED
    BY <2>1
<1>8. CASE RebootFires \/ NaturalBoot
  BY <1>8 DEF RebootFires, NaturalBoot, NewBoot, NewProcess
<1> QED
  BY <1>1, <1>2, <1>3, <1>4, <1>5, <1>6, <1>7, <1>8, QuietOrLoud DEF LoudStep

\* The agent never has a reboot armed on a host with nothing to apply, under
\* any faults: it cannot reboot a node in a loop.
THEOREM RebootJustified == Spec => []RebootIsOwed
<1>1. Init => RebootInv
  BY DEF Init, RebootInv, RequestsStaged, RebootIsOwed
<1>2. RebootInv /\ [Next]_vars => RebootInv'
  BY RebootStep
<1>3. RebootInv => RebootIsOwed
  BY DEF RebootInv
<1> QED
  BY <1>1, <1>2, <1>3, PTL DEF Spec
-----------------------------------------------------------------------------
(* A Ready node carries what its profile asks *)

\* The host carries what the observed generation asks of s.
AtWanted(s) == applied[s] = wanted(s)

\* Done is never believed of a step whose value is not on the host, neither in
\* the status nor in the agent's copy of it.
LedgersTrue ==
  \A s \in Steps : ledger[s].st = "Done" \/ led[s].st = "Done" => AtWanted(s)

\* What the walk left behind it is in place.  The exception is the reset of a
\* profile edit, between its two patches.
StagesBehind ==
  phase \in WalkStages \cup {"Ready"} /\ pc # "rephase" =>
    \A s \in Steps : stageRank[StageOf[s]] < stageRank[phase] => AtWanted(s)

\* A pass that still stands to be good has done every step it has passed,
\* unless a halt-now request dropped the rest of them.
PassTrue ==
  /\ pc = "pass" => todo \subseteq stepsForStage(phase)
  /\ pc = "advance" => todo = {}
  /\ pc \in {"pass", "advance"} /\ hasHaltNowRequest(pending) =>
       phase # "Finalizing"
  /\ pc \in {"pass", "advance"} /\ verdict = "done" =>
       \/ hasHaltNowRequest(pending)
       \/ \A s \in stepsForStage(phase) \ todo : led[s].st = "Done"

\* The final verification starts with every step in place.
VerifyPath ==
  pc \in {"verify", "record", "ready"} => \A s \in Steps : AtWanted(s)

Untorn == "torn" \notin faults

ConvergedInv ==
  Untorn => LedgersTrue /\ StagesBehind /\ PassTrue /\ VerifyPath

\* A step that does nothing to what ConvergedInv is about.
CalmStep ==
  /\ UNCHANGED <<applied, observedGen>>
  /\ ledger' = ledger /\ led' \in {led, ledger}
  /\ phase' \in {phase, "Provisioning", "Failed"}
  /\ pc = "rephase" => pc' = "rephase" \/ phase' = "Provisioning"
  /\ pc' \in {"pass", "advance"} =>
       UNCHANGED <<pc, phase, todo, verdict, pending, led>>
  /\ pc' \in {"verify", "record", "ready"} => pc \in {"verify", "record", "ready"}

\* The actions that write a ledger, work on the host, end a pass or advance.
BusyStep ==
  \/ ReopenForProfile \/ SyncBoot \/ ResumeSteps \/ BeginPass
  \/ \E s \in Steps : StepAction(s)
  \/ PatchLedger \/ AdvanceStage \/ BeginFinalVerify \/ BeginReadyVerify
  \/ VerifyBodies \/ EnterReady

\* No action changes the environment a behaviour lives in.
LEMMA FaultsConstant == [Next]_vars => faults' = faults
<1> SUFFICES ASSUME [Next]_vars PROVE faults' = faults
  OBVIOUS
<1> USE DEF NoFault, Spend, PatchFails
<1>1. CASE ReopenForProfile \/ RephaseForProfile \/ SyncBoot
  BY <1>1 DEF ReopenForProfile, RephaseForProfile, SyncBoot
<1>2. CASE Resume \/ ResumeSteps \/ ResumePhase \/ IdleFailed
  BY <1>2 DEF Resume, ResumeSteps, ResumePhase, IdleFailed
<1>3. CASE StartWalk \/ HoldPass \/ BeginPass
  BY <1>3 DEF StartWalk, HoldPass, BeginPass
<1>4. ASSUME NEW s \in Steps, StepAction(s) PROVE faults' = faults
  BY <1>4 DEF StepAction, SkipPaced, RunStep, FailStep, FailTransiently
<1>5. CASE PatchLedger \/ FailWalk \/ HoldStage \/ AdvanceStage
  BY <1>5 DEF PatchLedger, FailWalk, HoldStage, AdvanceStage, AdvanceTo
<1>6. CASE BeginFinalVerify \/ BeginReadyVerify \/ VerifyBodies
  BY <1>6 DEF BeginFinalVerify, BeginReadyVerify, VerifyBodies, bootVerify
<1>7. CASE RecordVerify \/ EnterReady \/ FireReboot \/ PassCheckpoint
  BY <1>7 DEF RecordVerify, EnterReady, AdvanceTo, FireReboot, PassCheckpoint
<1>8. ASSUME NEW s \in Steps, BackoffExpires(s) PROVE faults' = faults
  BY <1>8 DEF BackoffExpires
<1>9. CASE RebootFires \/ RebootCommandFails \/ NaturalBoot \/ AgentRestart
  BY <1>9 DEF RebootFires, RebootCommandFails, NaturalBoot, AgentRestart
<1>10. CASE Admit \/ Revoke \/ EditProfile \/ AskResume
  BY <1>10 DEF Admit, Revoke, EditProfile, AskResume
<1>11. CASE UNCHANGED vars
  BY <1>11 DEF vars
<1> QED
  BY <1>1, <1>2, <1>3, <1>4, <1>5, <1>6, <1>7, <1>8, <1>9, <1>10, <1>11
     DEF Next, Agent, Environment

\* Every other action is calm: boots, restarts, the checkpoint, holds, failed
\* walks and everything the operator and the controller do.
LEMMA CalmOrBusy ==
  ASSUME [Next]_vars, Untorn PROVE CalmStep \/ BusyStep
<1> USE DEF CalmStep, Untorn, TornWindow, api, ext, host, pass, mem
<1>1. CASE RephaseForProfile
  BY <1>1 DEF RephaseForProfile, PatchFails, Spend
<1>2. CASE Resume
  BY <1>2 DEF Resume, PastBootProtocol
<1>3. CASE ResumePhase
  BY <1>3 DEF ResumePhase
<1>4. CASE IdleFailed
  BY <1>4 DEF IdleFailed, Walking, PastBootProtocol
<1>5. CASE StartWalk
  BY <1>5 DEF StartWalk, Walking, PastBootProtocol
<1>6. CASE HoldPass
  BY <1>6 DEF HoldPass, Walking, PastBootProtocol
<1>7. CASE FailWalk
  BY <1>7 DEF FailWalk, AdvanceTo
<1>8. CASE HoldStage
  BY <1>8 DEF HoldStage
<1>9. CASE RecordVerify
  BY <1>9 DEF RecordVerify
<1>10. CASE FireReboot
  BY <1>10 DEF FireReboot
<1>11. CASE PassCheckpoint
  BY <1>11 DEF PassCheckpoint
<1>12. ASSUME NEW s \in Steps, BackoffExpires(s) PROVE CalmStep
  BY <1>12 DEF BackoffExpires
<1>13. CASE RebootFires \/ NaturalBoot
  BY <1>13 DEF RebootFires, NaturalBoot, MayDie, NewBoot, NewProcess
<1>14. CASE RebootCommandFails
  BY <1>14 DEF RebootCommandFails
<1>15. CASE AgentRestart
  BY <1>15 DEF AgentRestart, MayDie, NewProcess
<1>16. CASE Admit
  BY <1>16 DEF Admit
<1>17. CASE Revoke
  BY <1>17 DEF Revoke
<1>18. CASE EditProfile
  BY <1>18 DEF EditProfile
<1>19. CASE AskResume
  BY <1>19 DEF AskResume
<1>20. CASE UNCHANGED vars
  BY <1>20 DEF vars
<1> QED
  BY <1>1, <1>2, <1>3, <1>4, <1>5, <1>6, <1>7, <1>8, <1>9, <1>10, <1>11,
     <1>12, <1>13, <1>14, <1>15, <1>16, <1>17, <1>18, <1>19, <1>20
     DEF BusyStep, Next, Agent, Environment

\* What lies before the next stage is this stage and what lies before it.
LEMMA StageOrder ==
  \A p, q \in WalkStages :
    stageRank[p] < stageRank[nextStage[q]] => p = q \/ stageRank[p] < stageRank[q]
BY DEF WalkStages, Phases, stageRank, nextStage

\* All the stages lie before Ready, and before what follows Finalizing.
LEMMA ReadyIsLast ==
  /\ \A p \in WalkStages : stageRank[p] < stageRank["Ready"]
  /\ \A p \in WalkStages : stageRank[p] >= stageRank["Provisioning"]
  /\ \A p \in WalkStages : nextStage[p] = "Ready" => p = "Finalizing"
BY DEF WalkStages, Phases, stageRank, nextStage

\* A node starts with an empty ledger, behind it what the bash walk did.
LEMMA ConvergedInit == Init => ConvergedInv
<1> SUFFICES ASSUME Init PROVE LedgersTrue /\ StagesBehind /\ PassTrue /\ VerifyPath
  BY DEF ConvergedInv
<1>1. LedgersTrue
  BY DEF Init, LedgersTrue
<1>2. \A s \in Steps : stageRank[StageOf[s]] < stageRank[phase] => AtWanted(s)
  BY DEF Init, AtWanted, wanted
<1> QED
  BY <1>1, <1>2 DEF Init, StagesBehind, PassTrue, VerifyPath

\* A calm step keeps every part.
LEMMA ConvergedCalm ==
  ASSUME TypeInv, ConvergedInv, Untorn, CalmStep
  PROVE  LedgersTrue' /\ StagesBehind' /\ PassTrue' /\ VerifyPath'
<1> USE DEF ConvergedInv, CalmStep
<1>0. \A s \in Steps : AtWanted(s)' <=> AtWanted(s)
  BY DEF AtWanted, wanted
<1>1. LedgersTrue'
  BY <1>0 DEF LedgersTrue
<1>2. StagesBehind'
  <2> SUFFICES ASSUME phase' \in WalkStages \cup {"Ready"}, pc' # "rephase",
                      NEW s \in Steps,
                      stageRank[StageOf[s]] < stageRank[phase']
               PROVE  AtWanted(s)
    BY <1>0 DEF StagesBehind
  <2>1. StageOf[s] \in WalkStages
    BY StepsAssumption
  <2>2. phase' # "Provisioning"
    BY <2>1, ReadyIsLast DEF WalkStages, Phases, stageRank
  <2>3. phase' = phase /\ pc # "rephase"
    BY <2>2 DEF WalkStages
  <2> QED
    BY <2>3 DEF StagesBehind
<1>3. PassTrue'
  <2>1. CASE pc' \in {"pass", "advance"}
    BY <2>1 DEF PassTrue, stepsForStage, hasHaltNowRequest
  <2>2. CASE pc' \notin {"pass", "advance"}
    BY <2>2 DEF PassTrue
  <2> QED
    BY <2>1, <2>2
<1>4. VerifyPath'
  BY <1>0 DEF VerifyPath
<1> QED
  BY <1>1, <1>2, <1>3, <1>4

\* The step bodies of a pass keep every part: they mark Done only what they
\* put on the host, and only a halt-now request drops steps undone.
LEMMA ConvergedPass ==
  ASSUME TypeInv, ConvergedInv, Untorn, NEW s \in Steps, StepAction(s)
  PROVE  LedgersTrue' /\ StagesBehind' /\ PassTrue' /\ VerifyPath'
<1> USE DEF ConvergedInv, api, ext, host, pass, mem
<1>1. /\ pc = "pass" /\ pc' = "pass" /\ s \in todo
      /\ phase' = phase /\ observedGen' = observedGen /\ ledger' = ledger
  BY DEF StepAction, SkipPaced, RunStep, FailStep, FailTransiently, IsCurrent
<1>2. \A r \in Steps : applied'[r] = applied[r] \/ applied'[r] = wanted(r)
  BY DEF StepAction, SkipPaced, RunStep, FailStep, FailTransiently, Applies,
     TypeInv, TypeOK
<1>3. \A r \in Steps : AtWanted(r) => AtWanted(r)'
  BY <1>1, <1>2 DEF AtWanted, wanted
<1>4. StagesBehind' /\ VerifyPath'
  BY <1>1, <1>3 DEF StagesBehind, VerifyPath
<1>5. led \in [Steps -> Entry] /\ applied \in [Steps -> Nat]
  BY DEF TypeInv, TypeOK
<1>6. s \in stepsForStage(phase) /\ todo \subseteq stepsForStage(phase)
  BY <1>1 DEF PassTrue
<1>7. CASE SkipPaced(s)
  <2>1. led' = led /\ todo' = todo \ {s} /\ verdict' # "done" /\ pending' = pending
    BY <1>7 DEF SkipPaced
  <2> QED
    BY <1>1, <1>3, <1>4, <2>1
       DEF LedgersTrue, PassTrue, stepsForStage, hasHaltNowRequest
<1>8. CASE RunStep(s)
  <2>1. applied'[s] = wanted(s)
    BY <1>5, <1>8 DEF RunStep, Applies
  <2>2. /\ \A r \in Steps \ {s} : led'[r] = led[r]
        /\ led'[s].st \in {"Blocked", "Done"}
        /\ led'[s].st = "Blocked" => verdict' # "done"
        /\ verdict' = "done" => verdict = "done"
    BY <1>5, <1>8 DEF RunStep, Entry
  <2>3. LedgersTrue'
    BY <1>1, <1>3, <2>1, <2>2 DEF LedgersTrue, AtWanted, wanted
  <2>4. /\ pending \subseteq pending' /\ pending' \subseteq pending \cup {s}
        /\ todo' = IF hasHaltNowRequest(pending') THEN {} ELSE todo \ {s}
    BY <1>8 DEF RunStep
  <2>5. ASSUME hasHaltNowRequest(pending') PROVE phase # "Finalizing"
    <3>1. hasHaltNowRequest(pending) \/ Kind[s] = "install"
      BY <2>4, <2>5 DEF hasHaltNowRequest
    <3> QED
      BY <1>1, <1>6, <3>1, StepsAssumption DEF PassTrue, stepsForStage
  <2>6. ASSUME verdict' = "done", ~hasHaltNowRequest(pending'),
               NEW r \in stepsForStage(phase) \ todo'
        PROVE  led'[r].st = "Done"
    <3>1. ~hasHaltNowRequest(pending)
      BY <2>4, <2>6 DEF hasHaltNowRequest
    <3>2. r = s \/ r \notin todo
      BY <2>4, <2>6
    <3>3. r \in Steps
      BY DEF stepsForStage
    <3> QED
      BY <1>1, <2>2, <2>6, <3>1, <3>2, <3>3 DEF PassTrue
  <2>7. hasHaltNowRequest(pending)' = hasHaltNowRequest(pending')
        /\ stepsForStage(phase)' = stepsForStage(phase)
    BY <1>1 DEF hasHaltNowRequest, stepsForStage
  <2>8. PassTrue'
    BY <1>1, <1>6, <2>4, <2>5, <2>6, <2>7 DEF PassTrue
  <2> QED
    BY <1>4, <2>3, <2>8
<1>9. CASE FailStep(s) \/ FailTransiently(s)
  <2>1. /\ led'[s].st = "Failed" /\ \A r \in Steps \ {s} : led'[r] = led[r]
        /\ todo' = todo \ {s} /\ pending' = pending
    BY <1>5, <1>9 DEF FailStep, FailTransiently, Entry
  <2>2. verdict' # "done"
    BY <1>9 DEF FailStep, FailTransiently
  <2>3. LedgersTrue'
    BY <1>1, <1>3, <2>1 DEF LedgersTrue
  <2>4. PassTrue'
    BY <1>1, <1>6, <2>1, <2>2 DEF PassTrue, stepsForStage, hasHaltNowRequest
  <2> QED
    BY <1>4, <2>3, <2>4
<1> QED
  BY <1>7, <1>8, <1>9 DEF StepAction

\* The other busy actions keep every part.
LEMMA ConvergedBusy ==
  ASSUME TypeInv, ConvergedInv, Untorn,
         \/ ReopenForProfile \/ SyncBoot \/ ResumeSteps \/ BeginPass
         \/ PatchLedger \/ AdvanceStage \/ BeginFinalVerify \/ BeginReadyVerify
         \/ VerifyBodies \/ EnterReady
  PROVE  LedgersTrue' /\ StagesBehind' /\ PassTrue' /\ VerifyPath'
<1> USE DEF ConvergedInv, api, ext, host, pass, mem
<1>0. /\ ledger \in [Steps -> Entry] /\ led \in [Steps -> Entry]
      /\ applied \in [Steps -> Nat] /\ StageOf \in [Steps -> WalkStages]
      /\ phase \in Phases \ {"ColdRebootRequired"}
  BY StepsAssumption DEF TypeInv, TypeOK
<1>1. ASSUME UNCHANGED <<applied, observedGen>>
      PROVE  \A s \in Steps : AtWanted(s)' <=> AtWanted(s)
  BY <1>1 DEF AtWanted, wanted
<1>2. CASE ReopenForProfile
  <2>1. CASE pc' = "rephase"
    <3>1. ledger' = Reopened(ledger) /\ led' = ledger'
      BY <1>2, <2>1 DEF ReopenForProfile
    <3>2. \A s \in Steps : ledger'[s].st # "Done" /\ led'[s].st # "Done"
      BY <3>1 DEF Reopened, PendingEntry
    <3> QED
      BY <2>1, <3>2 DEF LedgersTrue, StagesBehind, PassTrue, VerifyPath
  <2>2. CASE pc' # "rephase"
    <3>1. /\ UNCHANGED <<applied, observedGen, ledger, led, phase, pc>>
          /\ pc = "cycle"
      BY <1>2, <2>2 DEF ReopenForProfile
    <3> QED
      BY <1>1, <3>1 DEF LedgersTrue, StagesBehind, PassTrue, VerifyPath
  <2> QED
    BY <2>1, <2>2
<1>3. CASE SyncBoot \/ ResumeSteps
  <2>1. /\ UNCHANGED <<applied, observedGen, phase>> /\ pc # "rephase"
        /\ pc' \in {"cycle", "synced", "resumePhase"}
    BY <1>3 DEF SyncBoot, ResumeSteps
  <2>2. \A s \in Steps : /\ ledger'[s].st = "Done" => ledger[s].st = "Done"
                         /\ led'[s].st = "Done" => \/ ledger[s].st = "Done"
                                                   \/ led[s].st = "Done"
    BY <1>3 DEF SyncBoot, ResumeSteps, BootReopened, Retried, PendingEntry
  <2> QED
    BY <1>1, <2>1, <2>2 DEF LedgersTrue, StagesBehind, PassTrue, VerifyPath
<1>4. CASE BeginPass
  <2>1. /\ UNCHANGED <<applied, observedGen, phase, pending, ledger>>
        /\ pc # "rephase" /\ pc' = "pass" /\ ~hasHaltNowRequest(pending)
    BY <1>4 DEF BeginPass, Walking, PastBootProtocol
  <2>2. /\ led' = ensureSteps(ledger, phase)
        /\ todo' = {s \in stepsForStage(phase) : led'[s].st # "Done"}
    BY <1>4 DEF BeginPass
  <2>3. \A s \in Steps : led'[s].st = "Done" => ledger[s].st = "Done"
    BY <2>2 DEF ensureSteps, PendingEntry
  <2>4. ~hasHaltNowRequest(pending)'
    BY <2>1 DEF hasHaltNowRequest
  <2>5. PassTrue'
    BY <2>1, <2>2, <2>4 DEF PassTrue, stepsForStage
  <2> QED
    BY <1>1, <2>1, <2>3, <2>5 DEF LedgersTrue, StagesBehind, VerifyPath
<1>5. CASE PatchLedger
  <2>1. /\ UNCHANGED <<applied, observedGen, phase, pending, led, todo, verdict>>
        /\ ledger' \in {led, ledger}
        /\ pc = "pass" /\ pc' = "advance" /\ todo = {}
    BY <1>5 DEF PatchLedger
  <2> QED
    BY <1>1, <2>1 DEF LedgersTrue, StagesBehind, PassTrue, VerifyPath,
       hasHaltNowRequest, stepsForStage
<1>6. ASSUME pc = "advance", verdict = "done", ~hasHaltNowRequest(pending)
      PROVE  \A s \in Steps :
               stageRank[StageOf[s]] < stageRank[nextStage[phase]] => AtWanted(s)
  <2> SUFFICES ASSUME NEW s \in Steps,
                      stageRank[StageOf[s]] < stageRank[nextStage[phase]]
               PROVE  AtWanted(s)
    OBVIOUS
  <2>1. phase \in WalkStages /\ StageOf[s] \in WalkStages
    BY <1>0, <1>6 DEF TypeInv, PassInWalkStage
  <2>2. CASE StageOf[s] = phase
    BY <1>6, <2>2 DEF PassTrue, stepsForStage, LedgersTrue
  <2>3. CASE stageRank[StageOf[s]] < stageRank[phase]
    BY <1>6, <2>1, <2>3 DEF StagesBehind
  <2> QED
    BY <2>1, <2>2, <2>3, StageOrder
<1>7. CASE AdvanceStage
  <2>1. /\ UNCHANGED <<applied, observedGen, ledger, led>>
        /\ pc = "advance" /\ verdict = "done" /\ pending = {}
        /\ pc' = "checkpoint" /\ phase' \in {phase, nextStage[phase]}
    BY <1>7 DEF AdvanceStage, AdvanceTo, NoRequestInTheWay
  <2>2. ~hasHaltNowRequest(pending)
    BY <2>1 DEF hasHaltNowRequest
  <2>3. StagesBehind'
    BY <1>1, <1>6, <2>1, <2>2 DEF StagesBehind
  <2> QED
    BY <1>1, <2>1, <2>3 DEF LedgersTrue, PassTrue, VerifyPath
<1>8. CASE BeginFinalVerify
  <2>1. /\ UNCHANGED <<applied, observedGen, ledger, led, phase>>
        /\ pc = "advance" /\ verdict = "done" /\ pc' = "verify"
        /\ nextStage[phase] = "Ready"
    BY <1>8 DEF BeginFinalVerify
  <2>2. phase = "Finalizing"
    BY <2>1, ReadyIsLast DEF TypeInv, PassInWalkStage
  <2>3. ~hasHaltNowRequest(pending)
    BY <2>1, <2>2 DEF PassTrue
  <2>4. \A s \in Steps : AtWanted(s)
    BY <1>0, <1>6, <2>1, <2>3, ReadyIsLast
  <2> QED
    BY <1>1, <2>1, <2>4 DEF LedgersTrue, StagesBehind, PassTrue, VerifyPath
<1>9. CASE BeginReadyVerify
  <2>1. /\ UNCHANGED <<applied, observedGen, ledger, led, phase>>
        /\ pc # "rephase" /\ pc' = "verify" /\ phase = "Ready"
    BY <1>9 DEF BeginReadyVerify, Walking, PastBootProtocol
  <2>2. \A s \in Steps : AtWanted(s)
    BY <1>0, <2>1, ReadyIsLast DEF StagesBehind
  <2> QED
    BY <1>1, <2>1, <2>2 DEF LedgersTrue, StagesBehind, PassTrue, VerifyPath
<1>10. CASE VerifyBodies
  <2>1. PICK bad \in SUBSET Critical : bootVerify(bad)
    BY <1>10 DEF VerifyBodies
  <2>2. /\ UNCHANGED <<observedGen, phase>> /\ pc = "verify" /\ pc' = "record"
    BY <1>10 DEF VerifyBodies
  <2>3. \A s \in Steps : applied'[s] \in {applied[s], wanted(s)}
    BY <2>1 DEF bootVerify
  <2>4. \A s \in Steps : AtWanted(s)
    BY <2>2 DEF VerifyPath
  <2>5. \A s \in Steps : AtWanted(s)'
    BY <2>2, <2>3, <2>4 DEF AtWanted, wanted
  <2> QED
    BY <2>2, <2>5 DEF LedgersTrue, StagesBehind, PassTrue, VerifyPath
<1>11. CASE EnterReady
  <2>1. /\ UNCHANGED <<applied, observedGen, ledger, led>>
        /\ pc = "ready" /\ pc' = "checkpoint"
    BY <1>11 DEF EnterReady, AdvanceTo
  <2>2. \A s \in Steps : AtWanted(s)
    BY <2>1 DEF VerifyPath
  <2> QED
    BY <1>1, <2>1, <2>2 DEF LedgersTrue, StagesBehind, PassTrue, VerifyPath
<1> QED
  BY <1>2, <1>3, <1>4, <1>5, <1>7, <1>8, <1>9, <1>10, <1>11

\* Every step keeps every part, in an environment without torn updates.
LEMMA ConvergedStep ==
  ASSUME TypeInv, ConvergedInv, [Next]_vars PROVE ConvergedInv'
<1> SUFFICES ASSUME Untorn
             PROVE  LedgersTrue' /\ StagesBehind' /\ PassTrue' /\ VerifyPath'
  BY FaultsConstant DEF ConvergedInv, Untorn
<1> QED
  BY CalmOrBusy, ConvergedCalm, ConvergedPass, ConvergedBusy DEF BusyStep

\* A node that reads Ready carries what the generation it observed asks of
\* every step, however passes, failures, boots, restarts, edits and resumes
\* interleave: only a death between the two patches of a profile reset can
\* break it (agent.go, cycle, ensureSteps, runStage, bootVerify).
THEOREM ReadyIsConverged == Spec => []ReadyConverged
<1>1. Init => ConvergedInv
  BY ConvergedInit
<1>2. TypeInv /\ ConvergedInv /\ [Next]_vars => ConvergedInv'
  BY ConvergedStep
<1>3. ConvergedInv => ReadyConverged
  <2> SUFFICES ASSUME ConvergedInv, Untorn, phase = "Ready", pc # "rephase",
                      NEW s \in Steps
               PROVE  applied[s] = Want[observedGen][s]
    BY DEF ReadyConverged, Untorn
  <2>1. StageOf[s] \in WalkStages
    BY StepsAssumption
  <2> QED
    BY <2>1, ReadyIsLast DEF ConvergedInv, StagesBehind, AtWanted, wanted
<1> QED
  BY <1>1, <1>2, <1>3, TypeInvariant, PTL DEF Spec

-----------------------------------------------------------------------------
(* Where the walk stands, under any faults *)

\* The agent holds for a required reboot before it does anything of a walk.
HoldsClear ==
  pc \in {"pass", "advance", "verify", "record", "ready", "checkpoint"} =>
    ~rebootRequired

\* A boot leaves nothing that waits for one, and nothing is added before the
\* boot protocol has seen it.
BootClears == bootId # boot => staged = {}

\* Boot verification runs at the end of the walk, and the way to Ready is open
\* to a host on which it was good.
VerifyPlace ==
  /\ pc \in {"verify", "record"} => phase \in {"Finalizing", "Ready"}
  /\ pc = "ready" => phase = "Finalizing" /\ CriticalFresh

PlaceInv == HoldsClear /\ BootClears /\ VerifyPlace

\* Every action keeps the walk in its place.
LEMMA PlaceStep ==
  ASSUME TypeInv, VerifyInv, PlaceInv, [Next]_vars PROVE PlaceInv'
<1> USE DEF PlaceInv, HoldsClear, BootClears, VerifyPlace, CriticalFresh,
        api, ext, host, pass, mem
<1>1. CASE ReopenForProfile \/ RephaseForProfile
  BY <1>1 DEF ReopenForProfile, RephaseForProfile
<1>2. CASE SyncBoot
  <2>1. /\ UNCHANGED <<phase, boot, staged, fresh>> /\ pc' \in {"cycle", "synced"}
        /\ bootId' # boot' => bootId # boot
    BY <1>2 DEF SyncBoot
  <2> QED
    BY <2>1
<1>3. CASE Resume \/ ResumeSteps \/ ResumePhase \/ IdleFailed
  BY <1>3 DEF Resume, ResumeSteps, ResumePhase, IdleFailed
<1>4. CASE StartWalk \/ HoldPass \/ BeginPass
  BY <1>4 DEF StartWalk, HoldPass, BeginPass, Walking
<1>5. ASSUME NEW s \in Steps, StepAction(s) PROVE PlaceInv'
  <2>1. /\ UNCHANGED <<bootId, boot, rebootRequired>>
        /\ pc = "pass" /\ pc' = "pass"
    BY <1>5 DEF StepAction, SkipPaced, RunStep, FailStep, FailTransiently,
       IsCurrent, Applies
  <2>2. bootId = boot
    BY <2>1 DEF VerifyInv, BootOrder
  <2> QED
    BY <2>1, <2>2
<1>6. CASE PatchLedger \/ FailWalk \/ HoldStage \/ AdvanceStage
  BY <1>6 DEF PatchLedger, FailWalk, HoldStage, AdvanceStage, AdvanceTo
<1>7. CASE BeginFinalVerify
  <2>1. phase = "Finalizing"
    BY <1>7, ReadyIsLast DEF BeginFinalVerify, TypeInv, PassInWalkStage
  <2> QED
    BY <1>7, <2>1 DEF BeginFinalVerify
<1>8. CASE BeginReadyVerify
  BY <1>8 DEF BeginReadyVerify, Walking
<1>9. CASE VerifyBodies
  <2>1. /\ UNCHANGED <<phase, bootId, boot, rebootRequired, staged>>
        /\ pc = "verify" /\ pc' = "record"
    BY <1>9 DEF VerifyBodies
  <2> QED
    BY <2>1
<1>10. CASE RecordVerify
  <2>1. /\ UNCHANGED <<phase, bootId, boot, rebootRequired, staged, fresh>>
        /\ pc = "record" /\ pc' \in {"cycle", "ready", "checkpoint"}
        /\ pc' = "ready" => phase # "Ready" /\ verdict = "done"
    BY <1>10 DEF RecordVerify
  <2> QED
    BY <2>1 DEF VerifyInv, VerdictSound
<1>11. CASE EnterReady \/ PassCheckpoint
  BY <1>11 DEF EnterReady, AdvanceTo, PassCheckpoint
<1>12. CASE FireReboot
  BY <1>12 DEF FireReboot
<1>13. ASSUME NEW s \in Steps, BackoffExpires(s) PROVE PlaceInv'
  BY <1>13 DEF BackoffExpires
<1>14. CASE RebootFires \/ NaturalBoot
  BY <1>14 DEF RebootFires, NaturalBoot, NewBoot, NewProcess
<1>15. CASE RebootCommandFails
  BY <1>15 DEF RebootCommandFails
<1>16. CASE AgentRestart
  BY <1>16 DEF AgentRestart, NewProcess
<1>17. CASE Admit \/ Revoke \/ EditProfile \/ AskResume
  BY <1>17 DEF Admit, Revoke, EditProfile, AskResume
<1>18. CASE UNCHANGED vars
  BY <1>18 DEF vars
<1> QED
  BY <1>1, <1>2, <1>3, <1>4, <1>5, <1>6, <1>7, <1>8, <1>9, <1>10, <1>11,
     <1>12, <1>13, <1>14, <1>15, <1>16, <1>17, <1>18
     DEF Next, Agent, Environment

\* What is verified, asked for and in its place, in every reachable state.
LEMMA BaseInvariant == Spec => [](TypeInv /\ VerifyInv /\ RebootInv /\ PlaceInv)
<1>1. Init => VerifyInv /\ RebootInv /\ PlaceInv
  BY VerifyInit DEF Init, RebootInv, RequestsStaged, RebootIsOwed, PlaceInv,
     HoldsClear, BootClears, VerifyPlace
<1>2. TypeInv /\ VerifyInv /\ [Next]_vars => VerifyInv'
  BY BootOrderStep, UnbootedUnverifiedStep, VerdictSoundStep, VerifiedStep
     DEF VerifyInv
<1>3. TypeInv /\ VerifyInv /\ PlaceInv /\ [Next]_vars => PlaceInv'
  BY PlaceStep
<1>4. RebootInv /\ [Next]_vars => RebootInv'
  BY RebootStep
<1> QED
  BY <1>1, <1>2, <1>3, <1>4, TypeInvariant, PTL DEF Spec
-----------------------------------------------------------------------------
(* An agent that forgets nothing *)

Remembers == faults \cap Forgetful = {}

\* Without edits and resumes the walk is never started over.
NeverReopened ==
  ~resumeAsked /\ observedGen = profileGen /\ pc \notin TornWindow

\* What waits for a boot is asked for, or the boot is required; or the walk is
\* over.
StagedIsHeld ==
  \/ staged \subseteq pending
  \/ rebootRequired
  \/ phase \in {"Failed", "Ready"}

\* The packages of a halt-now request wait for a boot.
InstallStaged == \E s \in staged : Kind[s] = "install"

\* A halt-now request ends its pass, and the walk does not end on one.
HaltHolds ==
  /\ pc = "pass" /\ hasHaltNowRequest(pending) => todo = {}
  /\ pc = "pass" => todo \subseteq stepsForStage(phase)
  /\ pc \in {"pass", "advance"} /\ InstallStaged => phase # "Finalizing"
  /\ pc \in {"verify", "record", "ready"} \/ phase = "Ready" => ~InstallStaged

\* An armed reboot holds the walk until it comes.
ArmedHolds == timer => rebootRequired /\ bootId = boot

RememberInv ==
  Remembers => NeverReopened /\ StagedIsHeld /\ HaltHolds /\ ArmedHolds

\* Every action keeps an agent that forgets nothing to its word.
LEMMA RememberStep ==
  ASSUME TypeInv, VerifyInv, PlaceInv, RememberInv, Remembers, [Next]_vars
  PROVE  NeverReopened' /\ StagedIsHeld' /\ HaltHolds' /\ ArmedHolds'
<1> USE DEF NeverReopened, StagedIsHeld, HaltHolds, ArmedHolds, InstallStaged,
        TornWindow, api, ext, host, pass, mem
<1>0. NeverReopened /\ StagedIsHeld /\ HaltHolds /\ ArmedHolds
  BY DEF RememberInv
<1>a. \A f \in {"restart", "partial", "edit", "resume", "condPatch"} : ~Spend(f)
  BY DEF Remembers, Forgetful, Spend
<1>1. CASE ReopenForProfile \/ RephaseForProfile
  BY <1>0, <1>1 DEF ReopenForProfile, RephaseForProfile
<1>2. CASE SyncBoot
  <2>1. /\ UNCHANGED <<phase, profileGen, observedGen, resumeAsked, staged,
                       pending, timer, boot>>
        /\ pc' \in {"cycle", "synced"} /\ bootId # boot
    BY <1>2 DEF SyncBoot
  <2>2. staged = {} /\ ~timer
    BY <1>0, <2>1 DEF PlaceInv, BootClears
  <2> QED
    BY <1>0, <2>1, <2>2
<1>3. CASE Resume \/ ResumeSteps \/ ResumePhase
  BY <1>0, <1>3 DEF Resume, ResumeSteps, ResumePhase
<1>4. CASE IdleFailed
  BY <1>0, <1>4 DEF IdleFailed, Walking, PastBootProtocol
<1>5. CASE StartWalk
  BY <1>0, <1>5 DEF StartWalk
<1>6. CASE HoldPass
  BY <1>0, <1>6 DEF HoldPass
<1>7. CASE BeginPass
  <2>1. /\ UNCHANGED <<phase, profileGen, observedGen, resumeAsked, staged,
                       pending, timer, boot, bootId, rebootRequired>>
        /\ pc' = "pass" /\ ~rebootRequired /\ phase \in WalkStages
        /\ ~hasHaltNowRequest(pending)
    BY <1>7 DEF BeginPass, Walking
  <2>2. todo' \subseteq stepsForStage(phase')
    BY <1>7 DEF BeginPass, stepsForStage
  <2>3. staged \subseteq pending
    BY <1>0, <2>1 DEF WalkStages
  <2>4. ~InstallStaged /\ ~hasHaltNowRequest(pending')
    BY <2>1, <2>3 DEF hasHaltNowRequest
  <2>5. phase' # "Ready"
    BY <2>1 DEF WalkStages
  <2> QED
    BY <1>0, <2>1, <2>2, <2>3, <2>4, <2>5
<1>8. ASSUME NEW s \in Steps, SkipPaced(s) \/ FailTransiently(s)
      PROVE  NeverReopened' /\ StagedIsHeld' /\ HaltHolds' /\ ArmedHolds'
  <2>1. /\ UNCHANGED <<phase, profileGen, observedGen, resumeAsked, staged,
                       pending, timer, boot, bootId, rebootRequired, pc>>
        /\ pc = "pass" /\ s \in todo /\ todo' = todo \ {s}
    BY <1>8 DEF SkipPaced, FailTransiently, IsCurrent
  <2>2. stepsForStage(phase') = stepsForStage(phase)
        /\ hasHaltNowRequest(pending') = hasHaltNowRequest(pending)
    BY <2>1
  <2> QED
    BY <1>0, <2>1, <2>2
<1>9. ASSUME NEW s \in Steps, FailStep(s)
      PROVE  NeverReopened' /\ StagedIsHeld' /\ HaltHolds' /\ ArmedHolds'
  <2>1. /\ UNCHANGED <<phase, profileGen, observedGen, resumeAsked, staged,
                       pending, timer, boot, bootId, rebootRequired, pc>>
        /\ pc = "pass" /\ s \in todo /\ todo' = todo \ {s}
    BY <1>a, <1>9 DEF FailStep, IsCurrent
  <2>2. stepsForStage(phase') = stepsForStage(phase)
        /\ hasHaltNowRequest(pending') = hasHaltNowRequest(pending)
    BY <2>1
  <2> QED
    BY <1>0, <2>1, <2>2
<1>10. ASSUME NEW s \in Steps, RunStep(s)
       PROVE  NeverReopened' /\ StagedIsHeld' /\ HaltHolds' /\ ArmedHolds'
  <2>1. /\ UNCHANGED <<phase, profileGen, observedGen, resumeAsked, timer,
                       boot, bootId, rebootRequired, pc>>
        /\ pc = "pass" /\ s \in todo
    BY <1>10 DEF RunStep, IsCurrent, Applies
  <2>2. ~rebootRequired /\ phase \in WalkStages
    BY <2>1 DEF PlaceInv, HoldsClear, TypeInv, PassInWalkStage
  <2>3. staged \subseteq pending
    BY <1>0, <2>2 DEF WalkStages
  <2>4. /\ staged' \subseteq staged \cup {s} /\ pending \subseteq pending'
        /\ s \in staged' => s \in staged \/ s \in pending'
    BY <1>10 DEF RunStep, Applies, Requests
  <2>5. staged' \subseteq pending'
    BY <2>3, <2>4
  <2>6. hasHaltNowRequest(pending') => todo' = {}
    BY <1>10 DEF RunStep
  <2>7. s \in stepsForStage(phase) /\ todo' \subseteq stepsForStage(phase')
    BY <1>0, <1>10, <2>1 DEF RunStep
  <2>8. InstallStaged' => phase' # "Finalizing"
    <3>1. Kind[s] = "install" => phase # "Finalizing"
      BY <2>7, StepsAssumption DEF stepsForStage
    <3> QED
      BY <1>0, <2>1, <2>4, <3>1
  <2>9. phase' # "Ready"
    BY <2>1, <2>2 DEF WalkStages
  <2> QED
    BY <1>0, <2>1, <2>5, <2>6, <2>7, <2>8, <2>9
<1>11. CASE PatchLedger
  BY <1>0, <1>11 DEF PatchLedger
<1>12. CASE FailWalk
  BY <1>0, <1>12 DEF FailWalk, AdvanceTo
<1>13. CASE HoldStage \/ PassCheckpoint
  BY <1>0, <1>13 DEF HoldStage, PassCheckpoint
<1>14. CASE AdvanceStage
  <2>1. /\ UNCHANGED <<profileGen, observedGen, resumeAsked, staged,
                       pending, timer, boot, bootId, rebootRequired>>
        /\ pc = "advance" /\ pc' = "checkpoint" /\ pending = {}
        /\ phase' \in {phase, nextStage[phase]} /\ nextStage[phase] # "Ready"
    BY <1>14 DEF AdvanceStage, AdvanceTo, NoRequestInTheWay
  <2>2. ~rebootRequired /\ phase \in WalkStages
    BY <2>1 DEF PlaceInv, HoldsClear, TypeInv, PassInWalkStage
  <2>3. staged = {}
    BY <1>0, <2>1, <2>2 DEF WalkStages
  <2> QED
    BY <1>0, <2>1, <2>3
<1>15. CASE BeginFinalVerify
  <2>1. /\ UNCHANGED <<phase, profileGen, observedGen, resumeAsked, staged,
                       pending, timer, boot, bootId, rebootRequired>>
        /\ pc = "advance" /\ pc' = "verify" /\ nextStage[phase] = "Ready"
    BY <1>15 DEF BeginFinalVerify
  <2>2. phase = "Finalizing"
    BY <2>1, ReadyIsLast DEF TypeInv, PassInWalkStage
  <2> QED
    BY <1>0, <2>1, <2>2
<1>16. CASE BeginReadyVerify
  BY <1>0, <1>16 DEF BeginReadyVerify
<1>17. CASE VerifyBodies
  BY <1>0, <1>17 DEF VerifyBodies
<1>18. CASE RecordVerify
  BY <1>0, <1>18 DEF RecordVerify
<1>19. CASE EnterReady
  BY <1>0, <1>19 DEF EnterReady, AdvanceTo
<1>20. CASE FireReboot
  <2>1. /\ UNCHANGED <<phase, profileGen, observedGen, resumeAsked, staged,
                       boot, bootId>>
        /\ pc = "checkpoint" /\ pc' = "cycle" /\ rebootRequired'
    BY <1>20, <1>a DEF FireReboot
  <2>2. bootId = boot
    BY <2>1 DEF VerifyInv, BootOrder
  <2> QED
    BY <1>0, <2>1, <2>2
<1>21. ASSUME NEW s \in Steps, BackoffExpires(s)
       PROVE  NeverReopened' /\ StagedIsHeld' /\ HaltHolds' /\ ArmedHolds'
  BY <1>0, <1>21 DEF BackoffExpires
<1>22. CASE RebootFires \/ NaturalBoot
  <2>1. /\ UNCHANGED <<phase, profileGen, observedGen, resumeAsked>>
        /\ pc' = "cycle" /\ staged' = {} /\ ~timer'
    BY <1>22 DEF RebootFires, NaturalBoot, NewBoot, NewProcess
  <2> QED
    BY <1>0, <2>1
<1>23. CASE RebootCommandFails
  BY <1>0, <1>23 DEF RebootCommandFails
<1>24. CASE AgentRestart
  BY <1>24, <1>a DEF AgentRestart
<1>25. CASE Admit \/ Revoke
  BY <1>0, <1>25 DEF Admit, Revoke
<1>26. CASE EditProfile \/ AskResume
  BY <1>26, <1>a DEF EditProfile, AskResume
<1>27. CASE UNCHANGED vars
  BY <1>0, <1>27 DEF vars
<1> QED
  BY <1>1, <1>2, <1>3, <1>4, <1>5, <1>6, <1>7, <1>8, <1>9, <1>10, <1>11,
     <1>12, <1>13, <1>14, <1>15, <1>16, <1>17, <1>18, <1>19, <1>20, <1>21,
     <1>22, <1>23, <1>24, <1>25, <1>26, <1>27
     DEF Next, Agent, Environment, StepAction

\* The bound of the environment is met from the start.
LEMMA RememberInit == Init => RememberInv
BY DEF Init, RememberInv, NeverReopened, StagedIsHeld, HaltHolds, ArmedHolds,
       InstallStaged, TornWindow, ImportedPhases, FromLegacy

\* The parts of the invariant together.
WalkInv == TypeInv /\ VerifyInv /\ RebootInv /\ PlaceInv /\ RememberInv

\* They hold in every reachable state, under any faults.
LEMMA WalkInvariant == Spec => []WalkInv
<1>1. Init => RememberInv
  BY RememberInit
<1>2. TypeInv /\ VerifyInv /\ PlaceInv /\ RememberInv /\ [Next]_vars
      => RememberInv'
  BY RememberStep, FaultsConstant DEF RememberInv, Remembers
<1> QED
  BY <1>1, <1>2, BaseInvariant, PTL DEF Spec, WalkInv

\* Only a body, the verification and a boot touch the host.
LEMMA HostWork ==
  ASSUME [Next]_vars
  PROVE  \/ UNCHANGED host
         \/ \E s \in Steps : RunStep(s) \/ FailStep(s)
         \/ VerifyBodies \/ RebootFires \/ NaturalBoot
<1> USE DEF host
<1>1. CASE ReopenForProfile \/ RephaseForProfile \/ SyncBoot
  BY <1>1 DEF ReopenForProfile, RephaseForProfile, SyncBoot
<1>2. CASE Resume \/ ResumeSteps \/ ResumePhase \/ IdleFailed
  BY <1>2 DEF Resume, ResumeSteps, ResumePhase, IdleFailed
<1>3. CASE StartWalk \/ HoldPass \/ BeginPass
  BY <1>3 DEF StartWalk, HoldPass, BeginPass
<1>4. ASSUME NEW s \in Steps, SkipPaced(s) \/ FailTransiently(s)
      PROVE  UNCHANGED host
  BY <1>4 DEF SkipPaced, FailTransiently
<1>5. CASE PatchLedger \/ FailWalk \/ HoldStage \/ AdvanceStage
  BY <1>5 DEF PatchLedger, FailWalk, HoldStage, AdvanceStage, AdvanceTo
<1>6. CASE BeginFinalVerify \/ BeginReadyVerify \/ RecordVerify \/ EnterReady
  BY <1>6 DEF BeginFinalVerify, BeginReadyVerify, RecordVerify, EnterReady,
     AdvanceTo
<1>7. CASE FireReboot \/ PassCheckpoint \/ RebootCommandFails \/ AgentRestart
  BY <1>7 DEF FireReboot, PassCheckpoint, RebootCommandFails, AgentRestart
<1>8. ASSUME NEW s \in Steps, BackoffExpires(s) PROVE UNCHANGED host
  BY <1>8 DEF BackoffExpires
<1>9. CASE Admit \/ Revoke \/ EditProfile \/ AskResume
  BY <1>9 DEF Admit, Revoke, EditProfile, AskResume
<1>10. CASE UNCHANGED vars
  BY <1>10 DEF vars
<1> QED
  BY <1>1, <1>2, <1>3, <1>4, <1>5, <1>6, <1>7, <1>8, <1>9, <1>10
     DEF Next, Agent, Environment, StepAction

\* From the DOCA install's request to the boot no step body touches the host,
\* in any environment that forgets nothing: not in the pass of the request,
\* not in a later one, not in the verification on the way to Ready (agent.go,
\* requestRebootHalt, runStage, checkpointReboot).
THEOREM HaltedHostRests == Spec => NoWorkOnHaltedHost
<1>1. ASSUME WalkInv, [Next]_vars, faults \cap Forgetful = {}, InstallStaged,
             boot' = boot
      PROVE  UNCHANGED <<applied, fresh>>
  <2>1. NeverReopened /\ StagedIsHeld /\ HaltHolds
    BY <1>1 DEF WalkInv, RememberInv, Remembers
  <2>2. ASSUME NEW s \in Steps, RunStep(s) \/ FailStep(s)
        PROVE  FALSE
    <3>1. pc = "pass" /\ s \in todo
      BY <2>2 DEF RunStep, FailStep, IsCurrent
    <3>2. ~rebootRequired /\ phase \in WalkStages
      BY <1>1, <3>1 DEF WalkInv, PlaceInv, HoldsClear, TypeInv, PassInWalkStage
    <3>3. staged \subseteq pending
      BY <2>1, <3>2 DEF StagedIsHeld, WalkStages
    <3>4. hasHaltNowRequest(pending)
      BY <1>1, <3>3 DEF InstallStaged, hasHaltNowRequest
    <3> QED
      BY <2>1, <3>1, <3>4 DEF HaltHolds
  <2>3. ~VerifyBodies
    BY <1>1, <2>1 DEF VerifyBodies, HaltHolds
  <2>4. ~RebootFires /\ ~NaturalBoot
    BY <1>1 DEF RebootFires, NaturalBoot, NewBoot, WalkInv, TypeInv, TypeOK
  <2> QED
    BY <1>1, <2>2, <2>3, <2>4, HostWork DEF host
<1>2. WalkInv /\ [Next]_vars =>
        [ /\ faults \cap Forgetful = {}
          /\ \E s \in staged : Kind[s] = "install"
          /\ boot' = boot
          => UNCHANGED <<applied, fresh>> ]_vars
  BY <1>1 DEF InstallStaged
<1> QED
  BY <1>2, WalkInvariant, PTL DEF Spec, NoWorkOnHaltedHost
-----------------------------------------------------------------------------
(* The agent implements NodePrepContract *)

\* A node starts as the contract says.
LEMMA ContractInit == Init => Contract!Init
<1>1. Contract!Unset = Unset
  BY Zenon DEF Unset, Contract!Unset
<1>2. Contract!FromLegacy = FromLegacy
  BY <1>1 DEF FromLegacy, Contract!FromLegacy
<1>3. Contract!ImportedPhases = ImportedPhases
  BY <1>2, Zenon DEF ImportedPhases, Contract!ImportedPhases
<1> QED
  BY <1>3 DEF Init, Contract!Init

\* What the contract does not see.
LEMMA ContractStutter ==
  ASSUME UNCHANGED <<phase, boot, bootVerified, bootId, fresh, staged, timer>>,
         faults' = faults
  PROVE  UNCHANGED Contract!vars
BY DEF Contract!vars

\* The contract's stages are those of the walk.
LEMMA ContractStages ==
  /\ Contract!WalkStages = WalkStages
  /\ Contract!nextStage = nextStage
BY DEF Contract!WalkStages, WalkStages, Contract!nextStage, nextStage

\* Every step of the node is a step of the contract, or does not show.
LEMMA ContractStep ==
  ASSUME WalkInv, [Next]_vars
  PROVE  [Contract!Next]_(Contract!vars)
<1> USE DEF api, ext, host, pass, mem
<1>a. faults' = faults
  BY FaultsConstant
<1>b. TypeInv /\ VerifyInv /\ RebootInv /\ PlaceInv /\ RememberInv
  BY DEF WalkInv
\* While the agent works on the host, no remembered reboot is armed.
<1>c. ASSUME pc \in {"pass", "verify"}, faults \cap Forgetful = {} PROVE ~timer
  BY <1>b, <1>c DEF PlaceInv, HoldsClear, RememberInv, Remembers, ArmedHolds
<1>1. CASE ReopenForProfile
  BY <1>a, <1>1, ContractStutter DEF ReopenForProfile
<1>2. CASE RephaseForProfile \/ ResumePhase \/ StartWalk
  <2>1. /\ UNCHANGED <<boot, bootVerified, bootId, fresh, staged, timer>>
        /\ phase' \in {phase, "Provisioning"}
    BY <1>2 DEF RephaseForProfile, ResumePhase, StartWalk
  <2>2. CASE phase' = phase
    BY <1>a, <2>1, <2>2, ContractStutter
  <2>3. CASE phase' = "Provisioning"
    BY <1>a, <2>1, <2>3 DEF Contract!Next, Contract!Enter
  <2> QED
    BY <2>1, <2>2, <2>3
<1>3. CASE SyncBoot
  <2>1. /\ UNCHANGED <<phase, boot, fresh, staged, timer>>
    BY <1>3 DEF SyncBoot
  <2>2. \/ UNCHANGED <<bootId, bootVerified>>
        \/ ~bootVerified'
    BY <1>3, <1>b DEF SyncBoot, BootConditions, VerifyInv, UnbootedUnverified
  <2>3. CASE UNCHANGED <<bootId, bootVerified>>
    BY <1>a, <2>1, <2>3, ContractStutter
  <2>4. CASE ~bootVerified'
    BY <1>a, <2>1, <2>4 DEF Contract!Next, Contract!Vouch
  <2> QED
    BY <2>2, <2>3, <2>4
<1>4. CASE Resume \/ ResumeSteps \/ IdleFailed
  BY <1>a, <1>4, ContractStutter DEF Resume, ResumeSteps, IdleFailed
<1>5. CASE HoldPass \/ BeginPass
  BY <1>a, <1>5, ContractStutter DEF HoldPass, BeginPass
<1>6. ASSUME NEW s \in Steps, SkipPaced(s) \/ FailTransiently(s)
      PROVE  UNCHANGED Contract!vars
  BY <1>a, <1>6, ContractStutter DEF SkipPaced, FailTransiently
<1>7. ASSUME NEW s \in Steps, RunStep(s) \/ FailStep(s)
      PROVE  Contract!Work
  <2>1. /\ UNCHANGED <<phase, boot, bootVerified, bootId, timer>>
        /\ fresh \subseteq fresh' /\ staged \subseteq staged' /\ pc = "pass"
    BY <1>7 DEF RunStep, FailStep, Applies, IsCurrent
  <2> QED
    BY <1>a, <1>c, <2>1 DEF Contract!Work
<1>8. CASE PatchLedger \/ HoldStage \/ BeginFinalVerify
  BY <1>a, <1>8, ContractStutter DEF PatchLedger, HoldStage, BeginFinalVerify
<1>9. CASE FailWalk
  <2>1. /\ UNCHANGED <<boot, bootVerified, bootId, fresh, staged, timer>>
        /\ phase \in WalkStages /\ phase' \in {phase, "Failed"}
    BY <1>9, <1>b DEF FailWalk, AdvanceTo, TypeInv, PassInWalkStage
  <2>2. CASE phase' = phase
    BY <1>a, <2>1, <2>2, ContractStutter
  <2>3. CASE phase' = "Failed"
    BY <1>a, <2>1, <2>3, ContractStages DEF Contract!Next, Contract!Fail
  <2> QED
    BY <2>1, <2>2, <2>3
<1>10. CASE AdvanceStage
  <2>1. /\ UNCHANGED <<boot, bootVerified, bootId, fresh, staged, timer>>
        /\ pc = "advance" /\ pending = {}
        /\ phase' \in {phase, nextStage[phase]} /\ nextStage[phase] # "Ready"
    BY <1>10 DEF AdvanceStage, AdvanceTo, NoRequestInTheWay
  <2>2. phase \in WalkStages /\ ~rebootRequired
    BY <1>b, <2>1 DEF PlaceInv, HoldsClear, TypeInv, PassInWalkStage
  <2>3. faults \cap Forgetful = {} => staged = {}
    BY <1>b, <2>1, <2>2
       DEF RememberInv, Remembers, StagedIsHeld, WalkStages
  <2>4. CASE phase' = phase
    BY <1>a, <2>1, <2>4, ContractStutter
  <2>5. CASE phase' = nextStage[phase]
    <3>1. Contract!Advance
      BY <1>a, <2>1, <2>2, <2>3, <2>5, ContractStages DEF Contract!Advance
    <3> QED
      BY <3>1 DEF Contract!Next
  <2> QED
    BY <2>1, <2>4, <2>5
<1>11. CASE BeginReadyVerify
  BY <1>a, <1>11, ContractStutter DEF BeginReadyVerify
<1>12. CASE VerifyBodies
  <2>1. /\ UNCHANGED <<phase, boot, bootVerified, bootId, timer, staged>>
        /\ fresh \subseteq fresh' /\ pc = "verify"
    BY <1>12 DEF VerifyBodies, bootVerify
  <2>2. Contract!Work
    BY <1>a, <1>c, <2>1 DEF Contract!Work
  <2> QED
    BY <2>2 DEF Contract!Next
<1>13. CASE RecordVerify
  <2>1. /\ UNCHANGED <<phase, boot, bootId, timer, staged, fresh>>
        /\ pc = "record"
    BY <1>13 DEF RecordVerify
  <2>2. bootId = boot
    BY <1>b, <2>1 DEF VerifyInv, BootOrder
  <2>3. CASE bootVerified' = bootVerified
    BY <1>a, <2>1, <2>3, ContractStutter
  <2>4. CASE bootVerified' = (verdict = "done")
    <3>1. bootVerified' => CriticalFresh
      BY <1>b, <2>1, <2>4 DEF VerifyInv, VerdictSound
    <3>2. Contract!Vouch
      BY <1>a, <2>1, <2>2, <3>1 DEF Contract!Vouch, CriticalFresh
    <3> QED
      BY <3>2 DEF Contract!Next
  <2> QED
    BY <1>13, <2>3, <2>4 DEF RecordVerify
<1>14. CASE EnterReady
  <2>1. /\ UNCHANGED <<boot, bootVerified, bootId, fresh, staged, timer>>
        /\ pc = "ready" /\ phase' \in {phase, "Ready"}
    BY <1>14 DEF EnterReady, AdvanceTo
  <2>2. phase = "Finalizing" /\ CriticalFresh
    BY <1>b, <2>1 DEF PlaceInv, VerifyPlace
  <2>3. CASE phase' = phase
    BY <1>a, <2>1, <2>3, ContractStutter
  <2>4. CASE phase' = "Ready"
    <3>1. phase \in WalkStages /\ nextStage[phase] = "Ready"
      BY <2>2 DEF WalkStages, nextStage
    <3>2. Contract!Advance
      BY <1>a, <2>1, <2>2, <2>4, <3>1, ContractStages
         DEF Contract!Advance, CriticalFresh
    <3> QED
      BY <3>2 DEF Contract!Next
  <2> QED
    BY <2>1, <2>3, <2>4
<1>15. CASE FireReboot
  <2>1. /\ UNCHANGED <<phase, boot, bootVerified, bootId, fresh, staged>>
        /\ timer' = TRUE /\ pending # {}
    BY <1>15 DEF FireReboot
  <2>2. staged # {}
    BY <1>b, <2>1 DEF RebootInv, RequestsStaged
  <2> QED
    BY <1>a, <2>1, <2>2 DEF Contract!Next, Contract!Arm
<1>16. CASE PassCheckpoint
  BY <1>a, <1>16, ContractStutter DEF PassCheckpoint
<1>17. ASSUME NEW s \in Steps, BackoffExpires(s) PROVE UNCHANGED Contract!vars
  BY <1>a, <1>17, ContractStutter DEF BackoffExpires
<1>18. CASE RebootFires \/ NaturalBoot
  <2>1. /\ UNCHANGED <<phase, bootVerified, bootId>>
        /\ boot' = boot + 1 /\ staged' = {} /\ timer' = FALSE
    BY <1>18 DEF RebootFires, NaturalBoot, NewBoot, NewProcess
  <2> QED
    BY <1>a, <2>1 DEF Contract!Next, Contract!Boot
<1>19. CASE RebootCommandFails \/ AgentRestart
  <2>1. /\ UNCHANGED <<phase, boot, bootVerified, bootId, fresh, staged>>
        /\ timer' = FALSE
    BY <1>19 DEF RebootCommandFails, AgentRestart, NewProcess
  <2> QED
    BY <1>a, <2>1 DEF Contract!Next, Contract!CallOff
<1>20. CASE Admit \/ Revoke \/ EditProfile \/ AskResume
  BY <1>a, <1>20, ContractStutter DEF Admit, Revoke, EditProfile, AskResume
<1>21. CASE UNCHANGED vars
  BY <1>21, ContractStutter DEF vars
<1> QED
  BY <1>1, <1>2, <1>3, <1>4, <1>5, <1>6, <1>7, <1>8, <1>9, <1>10, <1>11,
     <1>12, <1>13, <1>14, <1>15, <1>16, <1>17, <1>18, <1>19, <1>20, <1>21
     DEF Contract!Next, Next, Agent, Environment, StepAction

\* The agent implements the contract of a node, in every environment: it
\* vouches for live boots only, arms a reboot only for a host that owes one,
\* rests while a remembered reboot is armed, moves stage by stage and never
\* leaves a remembered change behind (agent.go, cycle, runStage, bootVerify,
\* checkpointReboot).
THEOREM ContractHonoured == Spec => HonoursContract
<1>1. Init => Contract!Init
  BY ContractInit
<1>2. WalkInv /\ [Next]_vars => [Contract!Next]_(Contract!vars)
  BY ContractStep
<1> QED
  BY <1>1, <1>2, WalkInvariant, PTL DEF Spec, HonoursContract, Contract!Spec
=============================================================================
