--------------------------- MODULE NodePrepContract ---------------------------
(***************************************************************************)
(* What a node's walk promises to those who look at it from outside: the   *)
(* controller, the scheduler behind the taint, the operator.  No steps, no *)
(* ledger, no poll cycle: a node is at a phase, its host may owe a boot    *)
(* and be live, the agent may have a reboot armed, and the status may      *)
(* vouch for a boot.  AgentWalk implements this module.                    *)
(***************************************************************************)
EXTENDS NodePrepPhases

VARIABLES
  phase,      \* status.phase
  boot,       \* the running boot
  vouched,    \* the boot the status says is verified, 0 for none
  live,       \* everything critical that a boot wipes is in place
  owed,       \* the host carries a change that waits for a boot
  armed,      \* the agent is about to reboot the node
  remembers   \* nothing makes the agent forget a request in this behaviour

vars == <<phase, boot, vouched, live, owed, armed, remembers>>

Init ==
  /\ phase \in ImportedPhases
  /\ boot = 1 /\ vouched = 0
  /\ live \in BOOLEAN
  /\ owed = FALSE /\ armed = FALSE
  /\ remembers \in BOOLEAN

\* Only a boot takes away what a boot wipes, or applies what waits for one.
\* The host is at rest while a remembered reboot is armed.
Work ==
  /\ ~(remembers /\ armed)
  /\ live => live'
  /\ owed => owed'
  /\ UNCHANGED <<phase, boot, vouched, armed, remembers>>

\* The walk goes stage by stage, not past a change that waits for a boot, and
\* comes to Ready on a live host only.
Advance ==
  /\ phase \in WalkStages
  /\ phase' = nextStage[phase]
  /\ phase' = "Ready" => live
  /\ phase' # "Ready" /\ remembers => ~owed
  /\ UNCHANGED <<boot, vouched, live, owed, armed, remembers>>

\* The walk starts, or starts again, from the first stage.
Enter ==
  /\ phase' = "Provisioning"
  /\ UNCHANGED <<boot, vouched, live, owed, armed, remembers>>

Fail ==
  /\ phase \in WalkStages
  /\ phase' = "Failed"
  /\ UNCHANGED <<boot, vouched, live, owed, armed, remembers>>

\* The status vouches for the running boot, when it is live, or for none.
Vouch ==
  /\ \/ vouched' = boot /\ live
     \/ vouched' = 0
  /\ UNCHANGED <<phase, boot, live, owed, armed, remembers>>

\* A reboot is armed when the host owes one, and may be called off.
Arm ==
  /\ owed
  /\ armed' = TRUE
  /\ UNCHANGED <<phase, boot, vouched, live, owed, remembers>>

CallOff ==
  /\ armed' = FALSE
  /\ UNCHANGED <<phase, boot, vouched, live, owed, remembers>>

Boot ==
  /\ boot' = boot + 1
  /\ live' \in BOOLEAN
  /\ owed' = FALSE /\ armed' = FALSE
  /\ UNCHANGED <<phase, vouched, remembers>>

Next ==
  Work \/ Advance \/ Enter \/ Fail \/ Vouch \/ Arm \/ CallOff \/ Boot

Spec == Init /\ [][Next]_vars
=============================================================================
