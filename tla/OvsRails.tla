------------------------------- MODULE OvsRails -------------------------------
(***************************************************************************)
(* The OVS of a switchdev node: the steps ovsSetup and ovsBridges          *)
(* (internal/agent/steps.go), pass after pass, against ovsdb-server, the   *)
(* file it serves, ovs-vswitchd, systemd and the SR-IOV operator, which    *)
(* all move on their own.  applyOvsSetup is cut at every command it runs.  *)
(*                                                                         *)
(* With manageOVS the steps own services, database, rail bridges and       *)
(* ports; without it they only write the five other_config values, into    *)
(* whatever database the external manager serves.                          *)
(*                                                                         *)
(* ovsdb-server, vswitchd, systemd, the operator and the external manager  *)
(* are external.  A database is reduced to: are the five values right,     *)
(* which rail bridges and which ports are in it.  The operator's ownership *)
(* record is written with the values and read by nothing here.             *)
(***************************************************************************)
EXTENDS Naturals, FiniteSetsExt

CONSTANTS
  Rails,      \* the rails, numbers: bridged in order
  MaxFaults,  \* bound: faults in one behaviour
  FaultSets   \* the environments: each a set of faults, see FaultKinds

FaultKinds ==
  { "boot",     \* the host boots; ovsdb-server and vswitchd may be up early
    "exec",     \* a command fails or times out, its step with it
    "silent",   \* ovs-vsctl gets no answer in time from a server that is up
    "server",   \* ovsdb-server wedges or dies
    "vswitchd", \* ovs-vswitchd dies, or loses its first start
    "operator", \* the SR-IOV operator wipes its keys, or starts ovsdb-server
    "slow",     \* a poll outlasts its budget
    "edit",     \* manageOVS is edited
    "restart" } \* the agent's process dies

ASSUME OvsAssumption ==
  /\ Rails \in SUBSET Nat /\ Rails # {}
  /\ MaxFaults \in Nat
  /\ FaultSets \in SUBSET SUBSET FaultKinds

VARIABLES
  manageOVS,  \* the profile's
  server,     \* ovsdb-server: "down", "up", "wedged"
  file,       \* conf.db, or NoDB
  orphan,     \* the removed conf.db that a running server still serves, or NoDB
  vswitchd,   \* "inactive", "active", "failed": systemd restarts a failed one
  hooked,     \* the operator has patched its ExecStartPre hooks into the unit
  dropIn,     \* the drop-in that clears them: "absent", "written", "loaded"
  netdev,     \* each rail bridge's netdev: "none", "created", "up" (at its MTU)
  agent,      \* where the pass is, its profile, its verdict, the rails to do
  verified,   \* history: the last pass made or found all right, undisturbed
  raced,      \* history: a server was started inside the reset, on this boot
  faults, faultsLeft

ovs  == <<server, file, orphan, vswitchd, hooked, dropIn, netdev>>
env  == <<manageOVS, raced, faults, faultsLeft>>
vars == <<ovs, env, agent, verified>>

Spend(f) == /\ f \in faults
            /\ faultsLeft > 0
            /\ faultsLeft' = faultsLeft - 1
            /\ UNCHANGED faults

NoFault == UNCHANGED <<faults, faultsLeft>>

NoDB == [settings |-> FALSE, bridges |-> {}, ports |-> {}, exists |-> FALSE]
freshDB == [NoDB EXCEPT !.exists = TRUE]

\* A started server serves the file; it makes one when there is none.
Opened(f) == IF f.exists THEN f ELSE freshDB

\* What ovs-vsctl reads and writes.
db == IF orphan.exists THEN orphan ELSE file

Commit(d) == IF orphan.exists THEN orphan' = d /\ UNCHANGED file
                              ELSE file' = d /\ UNCHANGED orphan

noNetdev == [r \in Rails |-> "none"]
idle == [step |-> "idle", managed |-> FALSE, clean |-> FALSE, moved |-> FALSE,
         todo |-> {}]

Init ==
  /\ manageOVS \in BOOLEAN
  /\ file \in {NoDB, freshDB}
  /\ server \in {"down", "up"} /\ (server = "up" => file.exists)
  /\ orphan = NoDB
  /\ vswitchd \in {"inactive", "failed"}
  /\ hooked \in BOOLEAN /\ (vswitchd = "failed" => hooked)
  /\ dropIn = "absent"
  /\ netdev = noNetdev
  /\ agent = idle
  /\ verified = FALSE /\ raced = FALSE
  /\ faults \in FaultSets /\ faultsLeft = MaxFaults
-----------------------------------------------------------------------------
(* The pass.  ovsSetup runs before ovsBridges, and both run whatever the   *)
(* verdict of the other.                                                   *)

At(s) == agent.step = s
Goto(s) == agent' = [agent EXCEPT !.step = s]

Ends_KeepsRails(done, next) ==
  agent' = [agent EXCEPT !.step = next, !.clean = @ /\ done]

\* The step under way ends, Done or not, and next is where the pass goes on.
Ends(done, next) ==
  agent' = [agent EXCEPT !.step = next, !.clean = @ /\ done, !.todo = {}]

SetupEnds(done) == Ends(done, "ovsBridges")
BridgesEnd(done) == Ends(done, "end")

InPass == UNCHANGED <<manageOVS, verified, raced>>

\* A command of stepOvsSetup fails and nothing is changed.
SetupFails ==
  SetupEnds(FALSE) /\ Spend("exec") /\ UNCHANGED ovs

StartPass ==
  /\ At("idle")
  /\ agent' = [idle EXCEPT !.step = "ovsSetup", !.clean = TRUE,
                           !.managed = manageOVS]
  /\ verified' = FALSE
  /\ NoFault /\ UNCHANGED <<ovs, manageOVS, raced>>

EndPass ==
  /\ At("end")
  /\ verified' = (agent.clean /\ ~agent.moved)
  /\ agent' = idle
  /\ NoFault /\ UNCHANGED <<ovs, manageOVS, raced>>

\* A read of the database: it answers, or it is silent though it is up.
ovsRunning(answers) ==
  IF answers THEN server = "up" /\ NoFault
  ELSE \/ server # "up" /\ NoFault
       \/ server = "up" /\ Spend("silent")

ovsSetupConverged ==
  /\ db.settings
  /\ \A r \in Rails : r \in db.bridges /\ netdev[r] = "up"

\* Detect first, and only then the apply path.
stepOvsSetup ==
  /\ At("ovsSetup") /\ agent.managed
  /\ \/ ovsRunning(TRUE)
        /\ IF ovsSetupConverged THEN SetupEnds(TRUE) ELSE Goto("apply")
     \/ ovsRunning(FALSE) /\ Goto("apply")
  /\ InPass /\ UNCHANGED ovs

\* Without manageOVS nothing may be started: a silent database blocks.
stepOvsOtherConfigOnly ==
  /\ At("ovsSetup") /\ ~agent.managed
  /\ \/ ovsRunning(TRUE)
        /\ IF db.settings THEN SetupEnds(TRUE) ELSE Goto("settings")
     \/ ovsRunning(FALSE) /\ SetupEnds(FALSE)
  /\ InPass /\ UNCHANGED ovs
-----------------------------------------------------------------------------
(* applyOvsSetup *)

\* The reset is for a database that does not answer.
ChooseReset ==
  /\ At("apply")
  /\ \/ ovsRunning(TRUE) /\ Goto("settings")
     \/ ovsRunning(FALSE) /\ Goto("stopSwitch")
  /\ InPass /\ UNCHANGED ovs

StopSwitch ==
  /\ At("stopSwitch")
  /\ \/ vswitchd' = "inactive" /\ netdev' = noNetdev
        /\ Goto("stopServer") /\ NoFault
        /\ UNCHANGED <<server, file, orphan, hooked, dropIn>>
     \/ SetupFails
  /\ InPass

StopServer_Skipped ==
  At("stopServer") /\ Goto("reset") /\ NoFault /\ InPass /\ UNCHANGED ovs

\* The server too: a running one would keep serving the removed file.
StopServer ==
  /\ At("stopServer")
  /\ \/ server' = "down" /\ orphan' = NoDB
        /\ Goto("reset") /\ NoFault
        /\ UNCHANGED <<file, vswitchd, hooked, dropIn, netdev>>
     \/ SetupFails
  /\ InPass

ResetDatabase ==
  /\ At("reset")
  /\ file' = NoDB
  /\ orphan' = IF server = "down" THEN NoDB ELSE db
  /\ Goto("startServer") /\ NoFault
  /\ InPass /\ UNCHANGED <<server, vswitchd, hooked, dropIn, netdev>>

\* Starting a server that runs changes nothing.
StartServer ==
  /\ At("startServer")
  /\ \/ /\ IF server = "down" THEN server' = "up" /\ file' = Opened(file)
                              ELSE UNCHANGED <<server, file>>
        /\ Goto("waitOvsdb") /\ NoFault
        /\ UNCHANGED <<orphan, vswitchd, hooked, dropIn, netdev>>
     \/ SetupFails
  /\ InPass

waitOvsdb ==
  /\ At("waitOvsdb")
  /\ \/ server = "up" /\ Goto("settings") /\ NoFault
     \/ server # "up" /\ SetupEnds(FALSE) /\ NoFault
     \/ SetupEnds(FALSE) /\ Spend("slow")
  /\ InPass /\ UNCHANGED ovs

\* The five values, --no-wait: vswitchd need not be there to take them.
applyOvsOtherConfig ==
  /\ At("settings")
  /\ \/ /\ server = "up"
        /\ Commit([db EXCEPT !.settings = TRUE])
        /\ IF agent.managed THEN Goto("start") ELSE SetupEnds(TRUE)
        /\ NoFault
        /\ UNCHANGED <<server, vswitchd, hooked, dropIn, netdev>>
     \/ server # "up" /\ SetupEnds(FALSE) /\ NoFault /\ UNCHANGED ovs
     \/ SetupFails
  /\ InPass

defuseVswitchdStartHooks_Never == dropIn

\* The drop-in clears the operator's hooks, which kill every start of vswitchd.
defuseVswitchdStartHooks == "loaded"
Killed(dropped) == hooked /\ dropped # "loaded"

\* The hooks are defused before the start, which starts whatever is missing; a
\* start that fails leaves vswitchd to systemd.
StartSwitch ==
  /\ At("start")
  /\ \/ /\ vswitchd = "active"
        /\ agent' = [agent EXCEPT !.step = "bridges", !.todo = Rails]
        /\ NoFault /\ UNCHANGED ovs
     \/ /\ vswitchd # "active"
        /\ dropIn' = defuseVswitchdStartHooks
        /\ server' = IF server = "down" THEN "up" ELSE server
        /\ file' = IF server = "down" THEN Opened(file) ELSE file
        /\ \/ vswitchd' = "active" /\ ~Killed(dropIn') /\ NoFault
              /\ agent' = [agent EXCEPT !.step = "bridges", !.todo = Rails]
           \/ /\ vswitchd' = "failed" /\ Goto("waitVswitchd")
              /\ IF Killed(dropIn') THEN NoFault ELSE Spend("vswitchd")
        /\ UNCHANGED <<orphan, hooked, netdev>>
     \/ /\ vswitchd # "active"                      \* daemon-reload fails
        /\ dropIn' = IF dropIn = "loaded" THEN "loaded" ELSE "written"
        /\ SetupEnds(FALSE) /\ Spend("exec")
        /\ UNCHANGED <<server, file, orphan, vswitchd, hooked, netdev>>
  /\ InPass

waitVswitchdActive ==
  /\ At("waitVswitchd")
  /\ \/ vswitchd = "active" /\ NoFault
        /\ agent' = [agent EXCEPT !.step = "bridges", !.todo = Rails]
     \/ vswitchd # "active" /\ Killed(dropIn) /\ SetupEnds(FALSE) /\ NoFault
     \/ SetupEnds(FALSE) /\ Spend("slow")
  /\ InPass /\ UNCHANGED ovs

\* add-br, --no-wait, of the next rail; when all are done, the readback.
AddBridge ==
  /\ At("bridges")
  /\ \/ /\ agent.todo # {} /\ server = "up"
        /\ Commit([db EXCEPT !.bridges = @ \cup {Min(agent.todo)}])
        /\ Goto("waitBridge") /\ NoFault
        /\ UNCHANGED <<server, vswitchd, hooked, dropIn, netdev>>
     \/ /\ agent.todo # {} /\ server # "up"
        /\ SetupEnds(FALSE) /\ NoFault /\ UNCHANGED ovs
     \/ /\ agent.todo = {}
        /\ SetupEnds(server = "up" /\ ovsSetupConverged)
        /\ NoFault /\ UNCHANGED ovs
     \/ SetupFails
  /\ InPass

\* The bridge's netdev is brought up at the MTU once vswitchd has made it.
waitBridge ==
  /\ At("waitBridge")
  /\ LET r == Min(agent.todo) IN
     \/ /\ netdev[r] # "none"
        /\ netdev' = [netdev EXCEPT ![r] = "up"]
        /\ agent' = [agent EXCEPT !.step = "bridges", !.todo = @ \ {r}]
        /\ NoFault
        /\ UNCHANGED <<server, file, orphan, vswitchd, hooked, dropIn>>
     \/ /\ netdev[r] = "none"
        /\ vswitchd # "active" \/ server # "up" \/ r \notin db.bridges
        /\ SetupEnds(FALSE) /\ NoFault /\ UNCHANGED ovs
     \/ SetupEnds(FALSE) /\ Spend("slow") /\ UNCHANGED ovs
  /\ InPass
-----------------------------------------------------------------------------
(* ovsBridges *)

ovsPortConverged(r) == r \in db.ports

stepOvsBridges ==
  /\ At("ovsBridges")
  /\ \/ ~agent.managed /\ BridgesEnd(TRUE) /\ NoFault
     \/ /\ agent.managed
        /\ \/ /\ ovsRunning(TRUE)
              /\ IF \A r \in Rails : ovsPortConverged(r)
                 THEN BridgesEnd(TRUE)
                 ELSE agent' = [agent EXCEPT !.step = "attach", !.todo = Rails]
           \/ ovsRunning(FALSE) /\ BridgesEnd(FALSE)
  /\ InPass /\ UNCHANGED ovs

\* add-port and set wait for vswitchd: without one they commit, time out and
\* fail.  When all are attached, the readback.
AttachPort ==
  /\ At("attach")
  /\ LET r == Min(agent.todo)
         Attach == Commit([db EXCEPT !.ports = @ \cup {r}])
         Refused == server # "up" \/ r \notin db.bridges
     IN
     \/ /\ agent.todo = {}
        /\ BridgesEnd(server = "up" /\ \A s \in Rails : ovsPortConverged(s))
        /\ NoFault /\ UNCHANGED ovs
     \/ /\ agent.todo # {} /\ Refused
        /\ BridgesEnd(FALSE) /\ NoFault /\ UNCHANGED ovs
     \/ /\ agent.todo # {} /\ ~Refused
        /\ Attach
        /\ IF vswitchd = "active"
           THEN agent' = [agent EXCEPT !.todo = @ \ {r}]
           ELSE BridgesEnd(FALSE)
        /\ NoFault /\ UNCHANGED <<server, vswitchd, hooked, dropIn, netdev>>
     \/ /\ agent.todo # {}
        /\ BridgesEnd(FALSE) /\ Spend("exec") /\ UNCHANGED ovs
  /\ InPass
-----------------------------------------------------------------------------
(* The daemons, systemd, the operator, the external manager: external *)

InEnv == UNCHANGED <<manageOVS, agent, verified>>

\* A disturbed pass proves nothing of what comes after it.
Disturbs == verified' = FALSE /\ agent' = [agent EXCEPT !.moved = TRUE]

\* The server is started by another, which the reset cannot know of.
ServerStarted ==
  /\ server' = "up" /\ orphan' = NoDB /\ file' = Opened(file)
  /\ raced' = (raced \/ At("reset"))

\* vswitchd makes the netdevs of the bridges it reads, and takes away others.
Materialize ==
  /\ vswitchd = "active" /\ server = "up"
  /\ \E r \in Rails :
       \/ r \in db.bridges /\ netdev[r] = "none"
          /\ netdev' = [netdev EXCEPT ![r] = "created"]
       \/ r \notin db.bridges /\ netdev[r] # "none"
          /\ netdev' = [netdev EXCEPT ![r] = "none"]
  /\ NoFault
  /\ InEnv /\ UNCHANGED <<server, file, orphan, vswitchd, hooked, dropIn, raced>>

\* Restart=on-failure, unless a hook kills every start; it needs a server.
SystemdRestarts ==
  /\ vswitchd = "failed" /\ ~Killed(dropIn)
  /\ vswitchd' = "active"
  /\ IF server = "down" THEN ServerStarted
     ELSE UNCHANGED <<server, file, orphan, raced>>
  /\ NoFault
  /\ InEnv /\ UNCHANGED <<hooked, dropIn, netdev>>

ExternalManager ==
  /\ ~manageOVS
  /\ server # "up" \/ vswitchd # "active"
  /\ vswitchd' = "active"
  /\ IF server # "up" THEN ServerStarted
     ELSE UNCHANGED <<server, file, orphan, raced>>
  /\ NoFault
  /\ InEnv /\ UNCHANGED <<hooked, dropIn, netdev>>

ServerFails ==
  /\ Spend("server") /\ server = "up"
  /\ \/ server' = "wedged" /\ UNCHANGED orphan
     \/ server' = "down" /\ orphan' = NoDB
  /\ Disturbs
  /\ UNCHANGED <<manageOVS, file, vswitchd, hooked, dropIn, netdev, raced>>

VswitchdFails ==
  /\ Spend("vswitchd") /\ vswitchd = "active"
  /\ vswitchd' = "failed" /\ netdev' = noNetdev
  /\ Disturbs
  /\ UNCHANGED <<manageOVS, server, file, orphan, hooked, dropIn, raced>>

\* The operator's config daemon: it patches the unit and wipes the keys it owns
\* from a database that answers, or it starts the server.
OperatorActs ==
  /\ Spend("operator")
  /\ \/ /\ server = "up" /\ hooked' = TRUE
        /\ Commit([db EXCEPT !.settings = FALSE])
        /\ UNCHANGED <<server, raced>>
     \/ server = "down" /\ ServerStarted /\ UNCHANGED hooked
  /\ Disturbs
  /\ UNCHANGED <<manageOVS, vswitchd, dropIn, netdev>>

\* After a boot the services may be up before the agent looks, and the operator
\* may have wiped its keys by then.
Boot ==
  /\ Spend("boot")
  /\ server' \in {"down", "up"}
  /\ LET opened == IF server' = "up" THEN Opened(file) ELSE file
     IN file' \in {opened, [opened EXCEPT !.settings = FALSE]}
  /\ orphan' = NoDB /\ netdev' = noNetdev
  /\ dropIn' = IF dropIn = "written" THEN "loaded" ELSE dropIn
  /\ vswitchd' \in IF Killed(dropIn') THEN {"failed"}
                   ELSE {"inactive"} \cup {v \in {"active"} : server' = "up"}
  /\ agent' = idle /\ verified' = FALSE /\ raced' = FALSE
  /\ UNCHANGED <<manageOVS, hooked>>

Restart ==
  /\ Spend("restart")
  /\ agent' = idle /\ verified' = FALSE
  /\ UNCHANGED <<ovs, manageOVS, raced>>

EditProfile ==
  /\ Spend("edit")
  /\ manageOVS' = ~manageOVS
  /\ Disturbs
  /\ UNCHANGED <<ovs, raced>>
-----------------------------------------------------------------------------
Agent ==
  \/ StartPass \/ EndPass \/ stepOvsSetup \/ stepOvsOtherConfigOnly
  \/ ChooseReset \/ StopSwitch \/ StopServer \/ ResetDatabase \/ StartServer
  \/ waitOvsdb \/ applyOvsOtherConfig \/ StartSwitch \/ waitVswitchdActive
  \/ AddBridge \/ waitBridge \/ stepOvsBridges \/ AttachPort

Next ==
  \/ Agent \/ Materialize \/ SystemdRestarts \/ ExternalManager
  \/ ServerFails \/ VswitchdFails \/ OperatorActs
  \/ Boot \/ Restart \/ EditProfile

Spec == Init /\ [][Next]_vars

\* Passes never end, and the daemons and their managers do what they are for.
FairSpec ==
  /\ Spec
  /\ WF_vars(Agent) /\ WF_vars(Materialize)
  /\ WF_vars(SystemdRestarts) /\ WF_vars(ExternalManager)
-----------------------------------------------------------------------------
(* Properties *)

\* The commands of a pass; those of one rail after the other.
RailPlaces == {"bridges", "waitBridge", "attach"}
Places == RailPlaces \cup
  {"idle", "ovsSetup", "apply", "stopSwitch", "stopServer", "reset",
   "startServer", "waitOvsdb", "settings", "start", "waitVswitchd",
   "ovsBridges", "end"}

\* Every variable has its type; no removed file is served by a server that is
\* down.
TypeOK ==
  /\ manageOVS \in BOOLEAN /\ hooked \in BOOLEAN
  /\ verified \in BOOLEAN /\ raced \in BOOLEAN
  /\ server \in {"down", "up", "wedged"}
  /\ LET DBs == [settings : BOOLEAN, bridges : SUBSET Rails,
                 ports : SUBSET Rails, exists : BOOLEAN]
     IN file \in DBs /\ orphan \in DBs
  /\ file.ports \subseteq file.bridges
  /\ server = "down" => ~orphan.exists
  /\ vswitchd \in {"inactive", "active", "failed"}
  /\ dropIn \in {"absent", "written", "loaded"}
  /\ netdev \in [Rails -> {"none", "created", "up"}]
  /\ agent \in [step : Places, managed : BOOLEAN, clean : BOOLEAN,
                moved : BOOLEAN, todo : SUBSET Rails]
  /\ agent.step = "waitBridge" => agent.todo # {}
  /\ agent.step \notin RailPlaces => agent.todo = {}
  /\ faults \in FaultSets /\ faultsLeft \in 0..MaxFaults

\* What the profile wants is in the file that the next server will open.
Configured ==
  /\ file.settings
  /\ manageOVS => file.bridges = Rails /\ file.ports = Rails

\* A pass that ends clean and undisturbed has put the profile's OVS into
\* conf.db, never into a deleted file ("the sets below would land in a deleted
\* database and vanish with it", steps.go, applyOvsSetup), unless a server was
\* started by another while the agent reset it.
DoneIsDurable == verified /\ ~raced => Configured

\* The rails forward: what is configured is also served.
Served ==
  /\ Configured
  /\ server = "up" /\ ~orphan.exists
  /\ manageOVS => /\ vswitchd = "active"
                  /\ \A r \in Rails : netdev[r] = "up"

\* Whatever wedged, died, raced a start or was wiped: after the last fault the
\* node's OVS is brought up and stays up, hooks or not, and is left alone by
\* the passes that follow; unless a reset was raced on this very boot.
OvsConverges == <>[]~raced => <>[]Served
=============================================================================
