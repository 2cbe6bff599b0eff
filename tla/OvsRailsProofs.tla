---------------------------- MODULE OvsRailsProofs ----------------------------
(***************************************************************************)
(* Machine-checked proofs about OvsRails, for any rails, any bound and any *)
(* faults:                                                                 *)
(*                                                                         *)
(*   TypeCorrect         every variable keeps its type, and no deleted     *)
(*                       file outlives its server;                         *)
(*   CleanPassIsDurable  what a clean pass wrote is in the file that the   *)
(*                       next server opens.                                *)
(*                                                                         *)
(* DoneIsDurable is not inductive: the pass has to know what its earlier   *)
(* step read back (PassKeeps), that it still works for the profile in      *)
(* force (PassProfile), and that the database it reads is the file         *)
(* (NoOrphan, ServerHasFile).                                              *)
(***************************************************************************)
EXTENDS OvsRails, TLAPS, WellFoundedInduction

\* The next rail to do is one of those to do.
LEMMA NextRail ==
  ASSUME NEW todo \in SUBSET Rails, todo # {} PROVE Min(todo) \in todo
<1>1. todo \in SUBSET Nat
  BY OvsAssumption
<1>2. \E x \in todo : \A y \in todo : x <= y
  <2> DEFINE Less == {ss \in Nat \X Nat : ss[1] < ss[2]}
  <2>1. IsWellFoundedOn(Less, Nat)
    BY NatLessThanWellFounded, Zenon DEF OpToRel
  <2>2. \A a, b \in Nat : a < b => <<a, b>> \in Less
    OBVIOUS
  <2> HIDE DEF Less
  <2>3. PICK x \in todo : \A y \in todo : ~(<<y, x>> \in Less)
    BY <1>1, <2>1, WFMin, Zenon
  <2>4. \A y \in todo : ~(y < x)
    BY <1>1, <2>2, <2>3
  <2> QED
    BY <1>1, <2>4
<1> QED
  BY <1>2 DEF Min

Databases == [settings : BOOLEAN, bridges : SUBSET Rails,
              ports : SUBSET Rails, exists : BOOLEAN]

Passes == [step : Places, managed : BOOLEAN, clean : BOOLEAN,
           moved : BOOLEAN, todo : SUBSET Rails]

\* The end of a step is a place of the pass.
LEMMA EndsType ==
  ASSUME agent \in Passes, NEW done \in BOOLEAN, NEW next \in Places, Ends(done, next)
  PROVE  agent' \in Passes /\ agent'.todo = {} /\ agent'.step = next
BY DEF Ends, Passes

\* A command that goes on is at the next place, with the same rails to do.
LEMMA GotoType ==
  ASSUME agent \in Passes, NEW next \in Places, Goto(next)
  PROVE  agent' \in Passes /\ agent'.todo = agent.todo /\ agent'.step = next
BY DEF Goto, Passes

\* No database, a fresh one, and whatever a started server opens.
LEMMA DatabaseTypes ==
  /\ NoDB \in Databases /\ freshDB \in Databases
  /\ \A f \in Databases : Opened(f) \in Databases
BY DEF NoDB, freshDB, Opened, Databases

\* The pass is at one of its commands, with rails to do only where it does them.
AgentType ==
  /\ agent \in Passes
  /\ agent.step = "waitBridge" => agent.todo # {}
  /\ agent.step \notin RailPlaces => agent.todo = {}

DatabaseType ==
  /\ file \in Databases /\ orphan \in Databases
  /\ file.ports \subseteq file.bridges
  /\ server \in {"down", "up", "wedged"}
  /\ server = "down" => ~orphan.exists

HostType ==
  /\ vswitchd \in {"inactive", "active", "failed"}
  /\ dropIn \in {"absent", "written", "loaded"}
  /\ netdev \in [Rails -> {"none", "created", "up"}]
  /\ hooked \in BOOLEAN

RestType ==
  /\ manageOVS \in BOOLEAN /\ verified \in BOOLEAN /\ raced \in BOOLEAN
  /\ faults \in FaultSets /\ faultsLeft \in 0..MaxFaults

\* TypeOK in parts.
LEMMA TypeParts == TypeOK <=> AgentType /\ DatabaseType /\ HostType /\ RestType
BY DEF TypeOK, AgentType, DatabaseType, HostType, RestType, Databases, Passes

\* Every action leaves the pass at one of its commands.
LEMMA AgentTypeStep ==
  ASSUME AgentType, RestType, [Next]_vars PROVE AgentType'
<1> USE DEF AgentType, At, ovs, env
<1>a. ASSUME NEW s \in Places \ RailPlaces, Goto(s),
             agent.step \notin RailPlaces
      PROVE  AgentType'
  BY <1>a, GotoType DEF RailPlaces
<1>b. ASSUME NEW done \in BOOLEAN, SetupEnds(done) \/ BridgesEnd(done)
      PROVE  AgentType'
  BY <1>b, EndsType DEF SetupEnds, BridgesEnd, Places, RailPlaces
<1>c. ASSUME agent' = [agent EXCEPT !.step = "bridges", !.todo = Rails]
      PROVE  AgentType'
  BY <1>c DEF Passes, Places, RailPlaces
<1>d. idle \in Passes /\ idle.step = "idle" /\ idle.todo = {}
  BY DEF idle, Passes, Places
<1>e. ASSUME agent' = idle PROVE AgentType'
  BY <1>d, <1>e DEF RailPlaces
<1>f. ASSUME Disturbs PROVE AgentType'
  BY <1>f DEF Disturbs, Passes
<1>1. CASE StartPass
  BY <1>1, <1>d DEF StartPass, idle, Passes, Places, RailPlaces, RestType
<1>2. CASE EndPass
  BY <1>2, <1>e DEF EndPass
<1>3. CASE stepOvsSetup
  BY <1>3, <1>a, <1>b DEF stepOvsSetup, Places, RailPlaces
<1>4. CASE stepOvsOtherConfigOnly
  BY <1>4, <1>a, <1>b DEF stepOvsOtherConfigOnly, Places, RailPlaces
<1>5. CASE ChooseReset
  BY <1>5, <1>a DEF ChooseReset, Places, RailPlaces
<1>6. CASE StopSwitch
  BY <1>6, <1>a, <1>b DEF StopSwitch, SetupFails, Places, RailPlaces
<1>7. CASE StopServer
  BY <1>7, <1>a, <1>b DEF StopServer, SetupFails, Places, RailPlaces
<1>8. CASE ResetDatabase
  BY <1>8, <1>a DEF ResetDatabase, Places, RailPlaces
<1>9. CASE StartServer
  BY <1>9, <1>a, <1>b DEF StartServer, SetupFails, Places, RailPlaces
<1>10. CASE waitOvsdb
  BY <1>10, <1>a, <1>b DEF waitOvsdb, Places, RailPlaces
<1>11. CASE applyOvsOtherConfig
  BY <1>11, <1>a, <1>b DEF applyOvsOtherConfig, SetupFails, Places, RailPlaces
<1>12. CASE StartSwitch
  BY <1>12, <1>a, <1>b, <1>c DEF StartSwitch, Places, RailPlaces
<1>13. CASE waitVswitchdActive
  BY <1>13, <1>b, <1>c DEF waitVswitchdActive
<1>14. CASE AddBridge
  <2>1. CASE Goto("waitBridge") /\ agent.todo # {}
    BY <2>1, GotoType DEF Places, RailPlaces
  <2>2. CASE \E done \in BOOLEAN : SetupEnds(done)
    BY <2>2, <1>b
  <2>3. (server = "up" /\ ovsSetupConverged) \in BOOLEAN
    OBVIOUS
  <2> QED
    BY <1>14, <2>1, <2>2, <2>3 DEF AddBridge, SetupFails
<1>15. CASE waitBridge
  <2>1. CASE agent' = [agent EXCEPT !.step = "bridges", !.todo = @ \ {Min(agent.todo)}]
    BY <2>1 DEF Passes, Places, RailPlaces
  <2> QED
    BY <1>15, <1>b, <2>1 DEF waitBridge
<1>16. CASE stepOvsBridges
  <2>1. CASE agent' = [agent EXCEPT !.step = "attach", !.todo = Rails]
    BY <2>1 DEF Passes, Places, RailPlaces
  <2> QED
    BY <1>16, <1>b, <2>1 DEF stepOvsBridges
<1>17. CASE AttachPort
  <2>1. CASE agent' = [agent EXCEPT !.todo = @ \ {Min(agent.todo)}] /\ agent.step = "attach"
    BY <2>1 DEF Passes, RailPlaces
  <2>2. (server = "up" /\ \A s \in Rails : ovsPortConverged(s)) \in BOOLEAN
    OBVIOUS
  <2>3. CASE \E done \in BOOLEAN : BridgesEnd(done)
    BY <2>3, <1>b
  <2> QED
    BY <1>17, <2>1, <2>2, <2>3 DEF AttachPort
<1>18. CASE Materialize \/ SystemdRestarts \/ ExternalManager
  BY <1>18 DEF Materialize, SystemdRestarts, ExternalManager, InEnv
<1>19. CASE ServerFails \/ VswitchdFails \/ OperatorActs \/ EditProfile
  BY <1>19, <1>f DEF ServerFails, VswitchdFails, OperatorActs, EditProfile
<1>20. CASE Boot \/ Restart
  BY <1>20, <1>e DEF Boot, Restart
<1>21. CASE UNCHANGED vars
  BY <1>21 DEF vars
<1> QED
  BY <1>1, <1>2, <1>3, <1>4, <1>5, <1>6, <1>7, <1>8, <1>9, <1>10, <1>11,
     <1>12, <1>13, <1>14, <1>15, <1>16, <1>17, <1>18, <1>19, <1>20, <1>21
     DEF Next, Agent

\* No action tears a database: one that is written stays whole, and a removed
\* one is gone with its server.
LEMMA DatabaseTypeStep ==
  ASSUME AgentType, DatabaseType, [Next]_vars PROVE DatabaseType'
<1> USE DEF DatabaseType, ovs, env, InEnv, SetupFails
<1>a. db \in Databases
  BY DEF db
<1>b. ASSUME UNCHANGED <<file, orphan, server>> PROVE DatabaseType'
  BY <1>b
<1>c. ASSUME NEW d \in Databases, Commit(d), UNCHANGED server, server # "down",
             ~orphan.exists => d.ports \subseteq d.bridges
      PROVE  DatabaseType'
  BY <1>c DEF Commit
<1>d. ASSUME NEW f \in Databases, f.ports \subseteq f.bridges
      PROVE  Opened(f) \in Databases /\ Opened(f).ports \subseteq Opened(f).bridges
  BY <1>d, DatabaseTypes DEF Opened, freshDB, NoDB
<1>e. /\ NoDB \in Databases /\ NoDB.ports \subseteq NoDB.bridges /\ ~NoDB.exists
  BY DatabaseTypes DEF NoDB
<1>f. ASSUME ServerStarted PROVE DatabaseType'
  BY <1>d, <1>e, <1>f DEF ServerStarted
<1>g. [db EXCEPT !.settings = TRUE] \in Databases
      /\ [db EXCEPT !.settings = FALSE] \in Databases
      /\ \A r \in Rails : /\ [db EXCEPT !.bridges = @ \cup {r}] \in Databases
                          /\ [db EXCEPT !.ports = @ \cup {r}] \in Databases
  BY <1>a DEF Databases
<1>h. ~orphan.exists => db.ports \subseteq db.bridges
  BY DEF db
<1>1. CASE StartPass \/ EndPass \/ stepOvsSetup \/ stepOvsOtherConfigOnly
  BY <1>1, <1>b DEF StartPass, EndPass, stepOvsSetup, stepOvsOtherConfigOnly
<1>2. CASE ChooseReset \/ waitOvsdb \/ waitVswitchdActive \/ stepOvsBridges
  BY <1>2, <1>b DEF ChooseReset, waitOvsdb, waitVswitchdActive, stepOvsBridges
<1>3. CASE StopSwitch
  BY <1>3, <1>b DEF StopSwitch
<1>4. CASE StopServer
  BY <1>4, <1>e DEF StopServer
<1>5. CASE ResetDatabase
  BY <1>5, <1>a, <1>e DEF ResetDatabase
<1>6. CASE StartServer
  BY <1>6, <1>b, <1>d DEF StartServer
<1>7. CASE applyOvsOtherConfig
  <2>1. CASE /\ server = "up" /\ Commit([db EXCEPT !.settings = TRUE])
             /\ UNCHANGED server
    BY <1>a, <1>c, <1>g, <1>h, <2>1 DEF Databases
  <2> QED
    BY <1>7, <1>b, <2>1 DEF applyOvsOtherConfig
<1>8. CASE StartSwitch
  BY <1>8, <1>b, <1>d DEF StartSwitch
<1>9. CASE AddBridge
  <2>1. CASE /\ agent.todo # {} /\ server = "up" /\ UNCHANGED server
             /\ Commit([db EXCEPT !.bridges = @ \cup {Min(agent.todo)}])
    <3>1. Min(agent.todo) \in Rails
      BY <2>1, NextRail DEF AgentType, Passes
    <3> QED
      BY <1>a, <1>c, <1>g, <1>h, <2>1, <3>1 DEF Databases
  <2> QED
    BY <1>9, <1>b, <2>1 DEF AddBridge
<1>10. CASE waitBridge
  BY <1>10, <1>b DEF waitBridge
<1>11. CASE AttachPort
  <2> DEFINE r == Min(agent.todo)
  <2>1. CASE /\ agent.todo # {} /\ server = "up" /\ UNCHANGED server
             /\ r \in db.bridges
             /\ Commit([db EXCEPT !.ports = @ \cup {r}])
    <3>1. r \in Rails
      BY <2>1, NextRail DEF AgentType, Passes
    <3> QED
      BY <1>a, <1>c, <1>g, <1>h, <2>1, <3>1 DEF Databases
  <2> QED
    BY <1>11, <1>b, <2>1 DEF AttachPort
<1>12. CASE Materialize \/ VswitchdFails \/ Restart \/ EditProfile
  BY <1>12, <1>b DEF Materialize, VswitchdFails, Restart, EditProfile
<1>13. CASE SystemdRestarts \/ ExternalManager
  BY <1>13, <1>b, <1>f DEF SystemdRestarts, ExternalManager
<1>14. CASE ServerFails
  BY <1>14, <1>e DEF ServerFails
<1>15. CASE OperatorActs
  <2>1. CASE /\ server = "up" /\ Commit([db EXCEPT !.settings = FALSE])
             /\ UNCHANGED server
    BY <1>a, <1>c, <1>g, <1>h, <2>1 DEF Databases
  <2> QED
    BY <1>15, <1>f, <2>1 DEF OperatorActs
<1>16. CASE Boot
  <2> DEFINE opened == IF server' = "up" THEN Opened(file) ELSE file
  <2>1. opened \in Databases /\ opened.ports \subseteq opened.bridges
    BY <1>d
  <2>2. file' \in {opened, [opened EXCEPT !.settings = FALSE]} /\ orphan' = NoDB
        /\ server' \in {"down", "up"}
    BY <1>16 DEF Boot
  <2> HIDE DEF opened
  <2>3. file' \in Databases /\ file'.ports \subseteq file'.bridges
    BY <2>1, <2>2 DEF Databases
  <2> QED
    BY <1>e, <2>2, <2>3
<1>17. CASE UNCHANGED vars
  BY <1>17, <1>b DEF vars
<1> QED
  BY <1>1, <1>2, <1>3, <1>4, <1>5, <1>6, <1>7, <1>8, <1>9, <1>10, <1>11,
     <1>12, <1>13, <1>14, <1>15, <1>16, <1>17 DEF Next, Agent

\* The daemons, the unit's hooks and the netdevs keep their types.
LEMMA HostTypeStep ==
  ASSUME AgentType, HostType, [Next]_vars PROVE HostType'
<1> USE DEF HostType, ovs, env, InEnv, SetupFails
<1>a. noNetdev \in [Rails -> {"none", "created", "up"}]
  BY DEF noNetdev
<1>1. CASE StartPass \/ EndPass \/ stepOvsSetup \/ stepOvsOtherConfigOnly
  BY <1>1 DEF StartPass, EndPass, stepOvsSetup, stepOvsOtherConfigOnly
<1>2. CASE ChooseReset \/ waitOvsdb \/ waitVswitchdActive \/ stepOvsBridges
  BY <1>2 DEF ChooseReset, waitOvsdb, waitVswitchdActive, stepOvsBridges
<1>3. CASE StopSwitch \/ StopServer \/ ResetDatabase \/ StartServer
  BY <1>3, <1>a DEF StopSwitch, StopServer, ResetDatabase, StartServer
<1>4. CASE applyOvsOtherConfig \/ AddBridge \/ AttachPort
  BY <1>4 DEF applyOvsOtherConfig, AddBridge, AttachPort
<1>5. CASE StartSwitch
  BY <1>5 DEF StartSwitch, defuseVswitchdStartHooks
<1>6. CASE waitBridge
  BY <1>6 DEF waitBridge
<1>7. CASE Materialize \/ SystemdRestarts \/ ExternalManager
  BY <1>7 DEF Materialize, SystemdRestarts, ExternalManager
<1>8. CASE ServerFails \/ VswitchdFails \/ OperatorActs
  BY <1>8, <1>a DEF ServerFails, VswitchdFails, OperatorActs
<1>9. CASE Boot
  BY <1>9, <1>a DEF Boot
<1>10. CASE Restart \/ EditProfile
  BY <1>10 DEF Restart, EditProfile
<1>11. CASE UNCHANGED vars
  BY <1>11 DEF vars
<1> QED
  BY <1>1, <1>2, <1>3, <1>4, <1>5, <1>6, <1>7, <1>8, <1>9, <1>10, <1>11
     DEF Next, Agent

\* The histories stay flags and the faults within their bound.
LEMMA RestTypeStep ==
  ASSUME RestType, [Next]_vars PROVE RestType'
<1> USE DEF RestType, ovs, env, InEnv, InPass, Disturbs, NoFault, ServerStarted
<1>a. ASSUME NEW f, Spend(f) PROVE faults' = faults /\ faultsLeft' \in 0..MaxFaults
  BY <1>a, OvsAssumption DEF Spend
<1>1. CASE StartPass \/ EndPass
  BY <1>1 DEF StartPass, EndPass
<1>2. CASE stepOvsSetup \/ stepOvsOtherConfigOnly \/ ChooseReset \/ stepOvsBridges
  BY <1>2, <1>a
     DEF stepOvsSetup, stepOvsOtherConfigOnly, ChooseReset, stepOvsBridges, ovsRunning
<1>3. CASE StopSwitch \/ StopServer \/ ResetDatabase \/ StartServer
  BY <1>3, <1>a
     DEF StopSwitch, StopServer, ResetDatabase, StartServer, SetupFails
<1>4. CASE waitOvsdb \/ waitVswitchdActive \/ waitBridge
  BY <1>4, <1>a DEF waitOvsdb, waitVswitchdActive, waitBridge
<1>5. CASE applyOvsOtherConfig \/ AddBridge \/ AttachPort
  BY <1>5, <1>a DEF applyOvsOtherConfig, AddBridge, AttachPort, SetupFails
<1>6. CASE StartSwitch
  BY <1>6, <1>a DEF StartSwitch
<1>7. CASE Materialize \/ SystemdRestarts \/ ExternalManager
  BY <1>7 DEF Materialize, SystemdRestarts, ExternalManager
<1>8. CASE ServerFails \/ VswitchdFails \/ OperatorActs
  BY <1>8, <1>a DEF ServerFails, VswitchdFails, OperatorActs
<1>9. CASE Boot \/ Restart \/ EditProfile
  BY <1>9, <1>a DEF Boot, Restart, EditProfile
<1>10. CASE UNCHANGED vars
  BY <1>10 DEF vars
<1> QED
  BY <1>1, <1>2, <1>3, <1>4, <1>5, <1>6, <1>7, <1>8, <1>9, <1>10
     DEF Next, Agent

\* A node starts in its types.
LEMMA TypeInit == Init => TypeOK
<1> SUFFICES ASSUME Init PROVE TypeOK
  OBVIOUS
<1>1. AgentType
  BY DEF Init, AgentType, Passes, Places, RailPlaces, idle
<1>2. DatabaseType
  <2>1. /\ file \in {NoDB, freshDB} /\ orphan = NoDB /\ server \in {"down", "up"}
    BY Zenon DEF Init
  <2>2. /\ NoDB.ports = {} /\ freshDB.ports = {} /\ ~NoDB.exists
    BY DEF NoDB, freshDB
  <2> QED
    BY <2>1, <2>2, DatabaseTypes DEF DatabaseType
<1>3. HostType
  BY DEF Init, HostType, noNetdev
<1>4. RestType
  <2>1. manageOVS \in BOOLEAN /\ verified \in BOOLEAN /\ raced \in BOOLEAN
    BY Zenon DEF Init
  <2>2. faults \in FaultSets /\ faultsLeft = MaxFaults
    BY Zenon DEF Init
  <2> QED
    BY <2>1, <2>2, OvsAssumption DEF RestType
<1> QED
  BY <1>1, <1>2, <1>3, <1>4, TypeParts

\* Every variable has its type, no port hangs in the file without its bridge,
\* and no deleted file outlives its server, whoever starts, stops and wedges
\* the daemons.
THEOREM TypeCorrect == Spec => []TypeOK
<1>1. TypeOK /\ [Next]_vars => TypeOK'
  <2> SUFFICES ASSUME TypeOK, [Next]_vars PROVE TypeOK'
    OBVIOUS
  <2>1. AgentType /\ DatabaseType /\ HostType /\ RestType
    BY TypeParts
  <2>2. AgentType' /\ DatabaseType' /\ HostType' /\ RestType'
    BY <2>1, AgentTypeStep, DatabaseTypeStep, HostTypeStep, RestTypeStep
  <2> QED
    BY <2>2, TypeParts, PTL
<1> QED
  BY <1>1, TypeInit, PTL DEF Spec

-----------------------------------------------------------------------------
(* What a clean pass wrote is in the file the next server opens *)

\* A server that runs has a database, and an absent file holds nothing.
ServerHasFile ==
  /\ server # "down" => db.exists
  /\ file.settings => file.exists

\* The reset removes the file of a stopped server: only a server that another
\* starts in between can end up with a deleted one.
NoOrphan ==
  ~raced => ~orphan.exists /\ (agent.step = "reset" => server = "down")

\* The pass works for the profile it read, unless that was edited meanwhile.
PassProfile ==
  agent.step # "idle" /\ ~agent.moved => agent.managed = manageOVS

Undisturbed == agent.clean /\ ~agent.moved /\ ~raced

\* What ovsSetup found or made before it said Done.
SetupDone ==
  /\ file.settings
  /\ agent.managed => file.bridges = Rails

PassKeeps ==
  /\ agent.step \in {"ovsBridges", "attach", "end"} /\ Undisturbed => SetupDone
  /\ agent.step = "end" /\ Undisturbed /\ agent.managed => file.ports = Rails

\* A verdict stands until the next pass begins.
VerdictRests == verified => agent.step = "idle"

DurableInv ==
  ServerHasFile /\ NoOrphan /\ PassProfile /\ PassKeeps /\ VerdictRests
    /\ DoneIsDurable

\* A command of a pass: the pass stays the same pass.
MidPass ==
  /\ InPass
  /\ agent.step # "idle"
  /\ agent'.managed = agent.managed /\ agent'.moved = agent.moved
  /\ agent'.clean => agent.clean

\* The agent starts a pass, ends it, or runs one of its commands.
LEMMA AgentPass ==
  ASSUME AgentType, Agent PROVE StartPass \/ EndPass \/ MidPass
<1> USE DEF MidPass, At
<1>a. ASSUME NEW s, Goto(s)
      PROVE  /\ agent'.managed = agent.managed /\ agent'.moved = agent.moved
             /\ agent'.clean = agent.clean
  BY <1>a DEF Goto, AgentType, Passes
<1>b. ASSUME NEW done \in BOOLEAN, SetupEnds(done) \/ BridgesEnd(done)
      PROVE  /\ agent'.managed = agent.managed /\ agent'.moved = agent.moved
             /\ agent'.clean => agent.clean
  BY <1>b DEF SetupEnds, BridgesEnd, Ends, AgentType, Passes
<1>c. ASSUME NEW s, NEW t, \/ agent' = [agent EXCEPT !.step = s, !.todo = t]
                           \/ agent' = [agent EXCEPT !.todo = t]
      PROVE  /\ agent'.managed = agent.managed /\ agent'.moved = agent.moved
             /\ agent'.clean = agent.clean
  BY <1>c DEF AgentType, Passes
<1>1. CASE stepOvsSetup \/ stepOvsOtherConfigOnly \/ ChooseReset
  BY <1>1, <1>a, <1>b DEF stepOvsSetup, stepOvsOtherConfigOnly, ChooseReset
<1>2. CASE StopSwitch \/ StopServer \/ ResetDatabase \/ StartServer
  BY <1>2, <1>a, <1>b
     DEF StopSwitch, StopServer, ResetDatabase, StartServer, SetupFails
<1>3. CASE waitOvsdb \/ applyOvsOtherConfig
  BY <1>3, <1>a, <1>b DEF waitOvsdb, applyOvsOtherConfig, SetupFails
<1>4. CASE StartSwitch \/ waitVswitchdActive
  BY <1>4, <1>a, <1>b, <1>c DEF StartSwitch, waitVswitchdActive
<1>5. CASE AddBridge
  <2>1. (server = "up" /\ ovsSetupConverged) \in BOOLEAN
    OBVIOUS
  <2> QED
    BY <1>5, <1>a, <1>b, <2>1 DEF AddBridge, SetupFails
<1>6. CASE waitBridge
  BY <1>6, <1>b, <1>c DEF waitBridge
<1>7. CASE stepOvsBridges
  BY <1>7, <1>b, <1>c DEF stepOvsBridges
<1>8. CASE AttachPort
  <2>1. (server = "up" /\ \A s \in Rails : ovsPortConverged(s)) \in BOOLEAN
    OBVIOUS
  <2> QED
    BY <1>8, <1>b, <1>c, <2>1 DEF AttachPort
<1> QED
  BY <1>1, <1>2, <1>3, <1>4, <1>5, <1>6, <1>7, <1>8 DEF Agent

\* The host's own steps: they keep the pass and what is in the file, disturb
\* the pass, or end it.
LEMMA HostPass ==
  ASSUME [Next]_vars, ~Agent
  PROVE  \/ /\ UNCHANGED <<manageOVS, agent, verified>>
            /\ file' = file \/ file' = Opened(file)
            /\ raced => raced'
         \/ Disturbs
         \/ agent' = idle /\ verified' = FALSE
<1> USE DEF InEnv, ovs, env, ServerStarted
<1>1. CASE Materialize \/ SystemdRestarts \/ ExternalManager
  BY <1>1 DEF Materialize, SystemdRestarts, ExternalManager
<1>2. CASE ServerFails \/ VswitchdFails \/ OperatorActs \/ EditProfile
  BY <1>2 DEF ServerFails, VswitchdFails, OperatorActs, EditProfile
<1>3. CASE Boot \/ Restart
  BY <1>3 DEF Boot, Restart
<1>4. CASE UNCHANGED vars
  BY <1>4 DEF vars
<1> QED
  BY <1>1, <1>2, <1>3, <1>4 DEF Next

\* A verdict is given up before anything else happens, and an edit of the
\* profile spoils the pass it falls into.
LEMMA VerdictStep ==
  ASSUME TypeOK, PassProfile, VerdictRests, [Next]_vars
  PROVE  PassProfile' /\ VerdictRests'
<1> USE DEF PassProfile, VerdictRests
<1>0. AgentType
  BY TypeParts
<1>1. CASE StartPass
  BY <1>1 DEF StartPass, idle
<1>2. CASE EndPass
  BY <1>2 DEF EndPass, idle
<1>3. CASE MidPass
  BY <1>3 DEF MidPass, InPass
<1>4. CASE ~Agent
  <2>1. CASE UNCHANGED <<manageOVS, agent, verified>>
    BY <2>1
  <2>2. CASE Disturbs
    BY <1>0, <2>2 DEF Disturbs, AgentType, Passes
  <2>3. CASE agent' = idle /\ verified' = FALSE
    BY <2>3 DEF idle
  <2> QED
    BY <1>4, <2>1, <2>2, <2>3, HostPass
<1> QED
  BY <1>0, <1>1, <1>2, <1>3, <1>4, AgentPass

\* The reset is entered by stopping the server, and left by ResetDatabase.
LEMMA ResetEntry ==
  ASSUME AgentType, [Next]_vars, agent'.step = "reset"
  PROVE  StopServer \/ UNCHANGED agent \/ (Disturbs /\ agent.step = "reset")
<1> USE DEF ovs, env, At
<1>a. ASSUME NEW s, Goto(s) PROVE agent'.step = s
  BY <1>a DEF Goto, AgentType, Passes
<1>b. ASSUME NEW done \in BOOLEAN, SetupEnds(done) \/ BridgesEnd(done)
      PROVE  agent'.step \in {"ovsBridges", "end"}
  BY <1>b DEF SetupEnds, BridgesEnd, Ends, AgentType, Passes
<1>c. ASSUME NEW s, NEW t, agent' = [agent EXCEPT !.step = s, !.todo = t]
      PROVE  agent'.step = s
  BY <1>c DEF AgentType, Passes
<1>1. ~StartPass /\ ~EndPass
  <2>1. StartPass => agent'.step = "ovsSetup"
    <3>1. \A m : [idle EXCEPT !.step = "ovsSetup", !.clean = TRUE,
                            !.managed = m].step = "ovsSetup"
      BY DEF idle
    <3> QED
      BY <3>1, Zenon DEF StartPass
  <2>2. EndPass => agent'.step = "idle"
    BY DEF EndPass, idle
  <2> QED
    BY <2>1, <2>2
<1>2. ~stepOvsSetup /\ ~stepOvsOtherConfigOnly /\ ~ChooseReset
  BY <1>a, <1>b DEF stepOvsSetup, stepOvsOtherConfigOnly, ChooseReset
<1>3. ~StopSwitch /\ ~ResetDatabase /\ ~StartServer
  BY <1>a, <1>b DEF StopSwitch, ResetDatabase, StartServer, SetupFails
<1>4. ~waitOvsdb /\ ~applyOvsOtherConfig
  BY <1>a, <1>b DEF waitOvsdb, applyOvsOtherConfig, SetupFails
<1>5. ~StartSwitch /\ ~waitVswitchdActive
  BY <1>a, <1>b, <1>c DEF StartSwitch, waitVswitchdActive
<1>6. ~AddBridge
  <2>1. (server = "up" /\ ovsSetupConverged) \in BOOLEAN
    OBVIOUS
  <2> QED
    BY <1>a, <1>b, <2>1 DEF AddBridge, SetupFails
<1>7. ~waitBridge
  BY <1>b, <1>c DEF waitBridge
<1>8. ~stepOvsBridges
  BY <1>b, <1>c DEF stepOvsBridges
<1>9. ~AttachPort
  <2>1. (server = "up" /\ \A s \in Rails : ovsPortConverged(s)) \in BOOLEAN
    OBVIOUS
  <2>2. ASSUME NEW t, agent' = [agent EXCEPT !.todo = t]
        PROVE  agent'.step = agent.step
    BY <2>2 DEF AgentType, Passes
  <2> QED
    BY <1>b, <2>1, <2>2 DEF AttachPort
<1>10. Agent => StopServer
  BY <1>1, <1>2, <1>3, <1>4, <1>5, <1>6, <1>7, <1>8, <1>9 DEF Agent
<1>11. ASSUME ~Agent PROVE UNCHANGED agent \/ (Disturbs /\ agent.step = "reset")
  <2>1. agent' # idle
    BY DEF idle
  <2>2. Disturbs => agent'.step = agent.step
    BY DEF Disturbs, AgentType, Passes
  <2> QED
    BY <1>11, <2>1, <2>2, HostPass
<1> QED
  BY <1>10, <1>11

\* No server runs without its file, and only a raced reset leaves one serving
\* a file that is deleted.
LEMMA FileStep ==
  ASSUME TypeOK, ServerHasFile, NoOrphan, [Next]_vars
  PROVE  ServerHasFile' /\ NoOrphan'
<1> USE DEF ovs, env, InPass, InEnv, SetupFails
<1>0. AgentType /\ DatabaseType
  BY TypeParts
<1>a. ~NoDB.exists /\ ~NoDB.settings /\ freshDB.exists /\ ~freshDB.settings
  BY DEF NoDB, freshDB
<1>b. Opened(file).exists /\ (Opened(file).settings => file.settings)
  BY <1>a DEF Opened
<1>r. ASSUME agent'.step = "reset", ~StopServer PROVE agent.step = "reset"
  BY <1>0, <1>r, ResetEntry
<1>c. ASSUME UNCHANGED <<server, file, orphan, raced>>, ~StopServer
      PROVE  ServerHasFile' /\ NoOrphan'
  BY <1>c, <1>r DEF ServerHasFile, NoOrphan, db
<1>d. ASSUME server = "up", NEW d \in Databases, d.exists, Commit(d),
             UNCHANGED <<server, raced>>, ~StopServer
      PROVE  ServerHasFile' /\ NoOrphan'
  BY <1>0, <1>d, <1>r DEF ServerHasFile, NoOrphan, db, Commit, Databases
<1>e. ASSUME ServerStarted, ~StopServer PROVE ServerHasFile' /\ NoOrphan'
  BY <1>a, <1>b, <1>e, <1>r
     DEF ServerHasFile, NoOrphan, ServerStarted, db, At
<1>f. server = "up" => db \in Databases /\ db.exists
  BY <1>0 DEF ServerHasFile, DatabaseType, db
<1>g. ASSUME server = "up"
      PROVE  /\ \A b \in BOOLEAN : /\ [db EXCEPT !.settings = b] \in Databases
                                   /\ [db EXCEPT !.settings = b].exists
             /\ \A r \in Rails :
                  /\ [db EXCEPT !.bridges = @ \cup {r}] \in Databases
                  /\ [db EXCEPT !.bridges = @ \cup {r}].exists
                  /\ [db EXCEPT !.ports = @ \cup {r}] \in Databases
                  /\ [db EXCEPT !.ports = @ \cup {r}].exists
  BY <1>f, <1>g DEF Databases
<1>h. agent.todo # {} => Min(agent.todo) \in Rails
  BY <1>0, NextRail DEF AgentType, Passes
<1>1. CASE StopServer
  <2>1. CASE server' = "down" /\ orphan' = NoDB /\ UNCHANGED <<file, raced>>
    BY <1>a, <2>1 DEF ServerHasFile, NoOrphan, db
  <2>2. CASE UNCHANGED <<server, file, orphan, raced>> /\ SetupEnds(FALSE)
    <3>1. agent'.step # "reset"
      BY <1>0, <2>2 DEF SetupEnds, Ends, AgentType, Passes
    <3> QED
      BY <2>2, <3>1 DEF ServerHasFile, NoOrphan, db
  <2> QED
    BY <1>1, <2>1, <2>2 DEF StopServer
<1>2. CASE ~StopServer
  <2>1. CASE StartPass \/ EndPass \/ stepOvsSetup \/ stepOvsOtherConfigOnly
    BY <1>2, <1>c, <2>1 DEF StartPass, EndPass, stepOvsSetup, stepOvsOtherConfigOnly
  <2>2. CASE ChooseReset \/ waitOvsdb \/ waitVswitchdActive \/ stepOvsBridges
    BY <1>2, <1>c, <2>2 DEF ChooseReset, waitOvsdb, waitVswitchdActive, stepOvsBridges
  <2>3. CASE StopSwitch \/ waitBridge
    BY <1>2, <1>c, <2>3 DEF StopSwitch, waitBridge
  <2>4. CASE ResetDatabase
    <3>1. /\ file' = NoDB /\ UNCHANGED <<server, raced>> /\ agent.step = "reset"
          /\ orphan' = IF server = "down" THEN NoDB ELSE db
          /\ agent'.step = "startServer"
      BY <1>0, <2>4 DEF ResetDatabase, At, Goto, AgentType, Passes
    <3> QED
      BY <1>a, <3>1 DEF ServerHasFile, NoOrphan, db
  <2>5. CASE StartServer
    <3>1. CASE /\ server = "down" /\ server' = "up" /\ file' = Opened(file)
               /\ UNCHANGED <<orphan, raced>>
      <4>1. ~orphan.exists /\ agent.step # "reset"
        BY <1>0, <2>5, <3>1 DEF DatabaseType, StartServer, At
      <4> QED
        BY <1>2, <1>b, <1>r, <3>1, <4>1 DEF ServerHasFile, NoOrphan, db
    <3> QED
      BY <1>2, <1>c, <2>5, <3>1 DEF StartServer
  <2>6. CASE applyOvsOtherConfig
    BY <1>2, <1>c, <1>d, <1>g, <2>6 DEF applyOvsOtherConfig
  <2>7. CASE StartSwitch
    <3>1. CASE /\ server = "down" /\ server' = "up" /\ file' = Opened(file)
               /\ UNCHANGED <<orphan, raced>>
      <4>1. ~orphan.exists /\ agent.step # "reset"
        BY <1>0, <2>7, <3>1 DEF DatabaseType, StartSwitch, At
      <4> QED
        BY <1>2, <1>b, <1>r, <3>1, <4>1 DEF ServerHasFile, NoOrphan, db
    <3> QED
      BY <1>2, <1>c, <2>7, <3>1 DEF StartSwitch
  <2>8. CASE AddBridge
    BY <1>2, <1>c, <1>d, <1>g, <1>h, <2>8 DEF AddBridge
  <2>9. CASE AttachPort
    BY <1>2, <1>c, <1>d, <1>g, <1>h, <2>9 DEF AttachPort
  <2>10. CASE Materialize \/ VswitchdFails \/ EditProfile
    BY <1>2, <1>c, <2>10 DEF Materialize, VswitchdFails, EditProfile
  <2>11. CASE SystemdRestarts \/ ExternalManager
    BY <1>2, <1>c, <1>e, <2>11 DEF SystemdRestarts, ExternalManager
  <2>12. CASE ServerFails
    <3>1. /\ UNCHANGED <<file, raced>> /\ server = "up"
          /\ \/ server' = "wedged" /\ UNCHANGED orphan
             \/ server' = "down" /\ orphan' = NoDB
      BY <2>12 DEF ServerFails
    <3> QED
      BY <1>2, <1>a, <1>r, <3>1 DEF ServerHasFile, NoOrphan, db
  <2>13. CASE OperatorActs
    BY <1>2, <1>d, <1>e, <1>g, <2>13 DEF OperatorActs
  <2>14. CASE Boot
    <3> DEFINE opened == IF server' = "up" THEN Opened(file) ELSE file
    <3>1. /\ file' \in {opened, [opened EXCEPT !.settings = FALSE]}
          /\ orphan' = NoDB /\ server' \in {"down", "up"} /\ agent' = idle
      BY <2>14 DEF Boot
    <3>2. opened \in Databases /\ (server' = "up" => opened.exists)
          /\ (opened.settings => opened.exists)
      BY <1>0, <1>b, DatabaseTypes DEF ServerHasFile, DatabaseType
    <3> HIDE DEF opened
    <3>3. /\ server' = "up" => file'.exists
          /\ file'.settings => file'.exists
      BY <3>1, <3>2 DEF Databases
    <3> QED
      BY <1>a, <3>1, <3>3 DEF ServerHasFile, NoOrphan, db, idle
  <2>15. CASE Restart \/ UNCHANGED vars
    BY <1>2, <1>c, <2>15 DEF Restart, vars
  <2> QED
    BY <1>2, <2>1, <2>2, <2>3, <2>4, <2>5, <2>6, <2>7, <2>8, <2>9, <2>10,
       <2>11, <2>12, <2>13, <2>14, <2>15 DEF Next, Agent
<1> QED
  BY <1>1, <1>2

\* Every step of the agent keeps what the pass has put into the file: only what
\* is read back from it is Done.
LEMMA PassKeepsStep ==
  ASSUME TypeOK, DurableInv, MidPass, Agent PROVE PassKeeps'
<1> USE DEF ovs, SetupFails
<1>0. /\ AgentType /\ DatabaseType
      /\ ~raced => db = file /\ ~orphan.exists
      /\ raced' = raced
  BY TypeParts DEF DurableInv, NoOrphan, db, MidPass, InPass
<1>a. ASSUME SetupEnds(FALSE) \/ BridgesEnd(FALSE) PROVE PassKeeps'
  <2>1. ~agent'.clean
    BY <1>0, <1>a DEF SetupEnds, BridgesEnd, Ends, AgentType, Passes
  <2> QED
    BY <2>1 DEF PassKeeps, Undisturbed
<1>b. ASSUME NEW s, s \notin {"ovsBridges", "attach", "end"},
             Goto(s)
      PROVE  PassKeeps'
  <2>1. agent'.step = s
    BY <1>0, <1>b DEF Goto, AgentType, Passes
  <2> QED
    BY <1>b, <2>1 DEF PassKeeps
<1>e. ASSUME NEW t, agent' = [agent EXCEPT !.step = "bridges", !.todo = t]
      PROVE  PassKeeps'
  <2>1. agent'.step = "bridges"
    BY <1>0, <1>e DEF AgentType, Passes
  <2> QED
    BY <2>1 DEF PassKeeps
<1>c. ASSUME SetupEnds(TRUE), ~raced => SetupDone' PROVE PassKeeps'
  <2>1. agent'.step = "ovsBridges"
    BY <1>0, <1>c DEF SetupEnds, Ends, AgentType, Passes
  <2> QED
    BY <1>0, <1>c, <2>1 DEF PassKeeps, Undisturbed
<1>d. ASSUME UNCHANGED <<file, orphan>>, ovsSetupConverged, ~raced
      PROVE  SetupDone'
  <2>1. file.settings /\ file.bridges = Rails
    BY <1>0, <1>d DEF ovsSetupConverged, DatabaseType, Databases
  <2> QED
    BY <1>d, <2>1 DEF SetupDone
<1>1. CASE stepOvsSetup
  BY <1>1, <1>a, <1>b, <1>c, <1>d DEF stepOvsSetup
<1>2. CASE stepOvsOtherConfigOnly
  <2>1. ASSUME db.settings, UNCHANGED file, ~raced PROVE SetupDone'
    BY <1>0, <1>2, <2>1 DEF SetupDone, MidPass, stepOvsOtherConfigOnly
  <2> QED
    BY <1>2, <1>a, <1>b, <1>c, <2>1 DEF stepOvsOtherConfigOnly
<1>3. CASE ChooseReset \/ StopSwitch \/ StopServer \/ ResetDatabase
           \/ StartServer \/ waitOvsdb
  BY <1>3, <1>a, <1>b
     DEF ChooseReset, StopSwitch, StopServer, ResetDatabase, StartServer, waitOvsdb
<1>4. CASE applyOvsOtherConfig
  <2>1. ASSUME Commit([db EXCEPT !.settings = TRUE]), ~agent.managed, ~raced
        PROVE  SetupDone'
    <3>1. file' = [file EXCEPT !.settings = TRUE]
      BY <1>0, <2>1 DEF Commit
    <3>2. file'.settings
      BY <1>0, <3>1 DEF DatabaseType, Databases
    <3> QED
      BY <2>1, <3>2 DEF SetupDone, MidPass
  <2> QED
    BY <1>4, <1>a, <1>b, <1>c, <2>1 DEF applyOvsOtherConfig
<1>5. CASE StartSwitch \/ waitVswitchdActive
  BY <1>5, <1>a, <1>b, <1>e DEF StartSwitch, waitVswitchdActive
<1>6. CASE AddBridge
  <2>1. (server = "up" /\ ovsSetupConverged) \in BOOLEAN
    OBVIOUS
  <2>2. CASE /\ SetupEnds(server = "up" /\ ovsSetupConverged)
             /\ UNCHANGED <<file, orphan>>
    <3>1. CASE server = "up" /\ ovsSetupConverged
      <4>1. SetupEnds(TRUE)
        BY <2>1, <2>2, <3>1 DEF SetupEnds, Ends
      <4> QED
        BY <1>c, <1>d, <2>2, <3>1, <4>1
    <3>2. CASE ~(server = "up" /\ ovsSetupConverged)
      <4>1. SetupEnds(FALSE)
        BY <2>1, <2>2, <3>2 DEF SetupEnds, Ends
      <4> QED
        BY <1>a, <4>1
    <3> QED
      BY <3>1, <3>2
  <2> QED
    BY <1>6, <1>a, <1>b, <2>2 DEF AddBridge
<1>7. CASE waitBridge
  BY <1>7, <1>a, <1>e DEF waitBridge
<1>8. CASE stepOvsBridges
  <2>1. /\ UNCHANGED <<file, orphan>> /\ agent.step = "ovsBridges"
        /\ Undisturbed' => Undisturbed /\ SetupDone
    BY <1>8 DEF stepOvsBridges, At, Undisturbed, DurableInv, PassKeeps, MidPass, InPass
  <2>2. SetupDone => SetupDone'
    BY <2>1 DEF SetupDone, MidPass
  <2>3. CASE BridgesEnd(TRUE) /\ ~agent.managed
    <3>1. agent'.step = "end" /\ ~agent'.managed
      BY <1>0, <2>3 DEF BridgesEnd, Ends, AgentType, Passes
    <3> QED
      BY <2>1, <2>2, <3>1 DEF PassKeeps
  <2>4. CASE BridgesEnd(TRUE) /\ \A r \in Rails : ovsPortConverged(r)
    <3>1. ~raced => file'.ports = Rails
      BY <1>0, <2>1, <2>4 DEF ovsPortConverged, DatabaseType, Databases
    <3> QED
      BY <1>0, <2>1, <2>2, <3>1 DEF PassKeeps, Undisturbed
  <2>5. CASE agent' = [agent EXCEPT !.step = "attach", !.todo = Rails]
    <3>1. agent'.step = "attach"
      BY <1>0, <2>5 DEF AgentType, Passes
    <3> QED
      BY <2>1, <2>2, <3>1 DEF PassKeeps
  <2> QED
    BY <1>8, <1>a, <2>3, <2>4, <2>5 DEF stepOvsBridges
<1>9. CASE AttachPort
  <2>1. /\ agent.step = "attach"
        /\ Undisturbed' => Undisturbed /\ SetupDone
    BY <1>9 DEF AttachPort, At, Undisturbed, DurableInv, PassKeeps, MidPass, InPass
  <2>2. CASE /\ UNCHANGED <<file, orphan>>
             /\ BridgesEnd(server = "up" /\ \A s \in Rails : ovsPortConverged(s))
    <3> DEFINE done == server = "up" /\ \A s \in Rails : ovsPortConverged(s)
    <3>1. done \in BOOLEAN
      OBVIOUS
    <3>2. CASE ~done
      <4>1. BridgesEnd(FALSE)
        BY <2>2, <3>1, <3>2 DEF BridgesEnd, Ends
      <4> QED
        BY <1>a, <4>1
    <3>3. CASE done
      <4>1. ~raced => file'.ports = Rails
        BY <1>0, <2>2, <3>3 DEF ovsPortConverged, DatabaseType, Databases
      <4>2. SetupDone => SetupDone'
        BY <2>2 DEF SetupDone, MidPass
      <4> QED
        BY <1>0, <2>1, <4>1, <4>2 DEF PassKeeps, Undisturbed
    <3> QED
      BY <3>2, <3>3
  <2>3. CASE /\ Commit([db EXCEPT !.ports = @ \cup {Min(agent.todo)}])
             /\ agent' = [agent EXCEPT !.todo = @ \ {Min(agent.todo)}]
    <3>1. agent'.step = "attach"
      BY <1>0, <2>1, <2>3 DEF AgentType, Passes
    <3>2. ~raced => /\ file'.settings = file.settings
                    /\ file'.bridges = file.bridges
      <4> SUFFICES ASSUME ~raced
                   PROVE  file'.settings = file.settings /\ file'.bridges = file.bridges
        OBVIOUS
      <4>1. file' = [file EXCEPT !.ports = @ \cup {Min(agent.todo)}]
        BY <1>0, <2>3 DEF Commit
      <4> QED
        BY <1>0, <4>1 DEF DatabaseType, Databases
    <3>3. SetupDone /\ ~raced => SetupDone'
      BY <3>2 DEF SetupDone, MidPass
    <3> QED
      BY <1>0, <2>1, <3>1, <3>3 DEF PassKeeps, Undisturbed
  <2> QED
    BY <1>9, <1>a, <2>2, <2>3 DEF AttachPort
<1>10. ~StartPass
  BY DEF StartPass, MidPass, At
<1>11. CASE EndPass
  BY <1>11 DEF EndPass, PassKeeps, idle
<1> QED
  BY <1>1, <1>2, <1>3, <1>4, <1>5, <1>6, <1>7, <1>8, <1>9, <1>10, <1>11
     DEF Agent

\* The verdict of a pass holds for the file, and nothing but a disturbance or
\* the next pass takes from the file what the verdict spoke of.
LEMMA DurableStep ==
  ASSUME TypeOK, DurableInv, [Next]_vars PROVE PassKeeps' /\ DoneIsDurable'
<1> USE DEF DurableInv
<1>0. AgentType
  BY TypeParts
<1>1. CASE StartPass
  <2>1. agent'.step = "ovsSetup" /\ ~verified'
    <3>1. \A m : [idle EXCEPT !.step = "ovsSetup", !.clean = TRUE,
                            !.managed = m].step = "ovsSetup"
      BY DEF idle
    <3> QED
      BY <1>1, <3>1, Zenon DEF StartPass
  <2> QED
    BY <2>1 DEF PassKeeps, DoneIsDurable
<1>2. CASE EndPass
  <2>1. agent'.step = "idle" /\ agent.step = "end"
        /\ UNCHANGED <<file, raced, manageOVS>>
    BY <1>2 DEF EndPass, idle, At, ovs
  <2>2. verified' => agent.clean /\ ~agent.moved
    BY <1>2, Zenon DEF EndPass
  <2>3. agent.clean /\ ~agent.moved /\ ~raced => Configured
    BY <2>1 DEF PassKeeps, Undisturbed, SetupDone, Configured, PassProfile
  <2>4. Configured => Configured'
    BY <2>1 DEF Configured
  <2> QED
    BY <2>1, <2>2, <2>3, <2>4 DEF PassKeeps, DoneIsDurable
<1>3. CASE MidPass /\ Agent
  <2>1. ~verified'
    BY <1>3 DEF MidPass, InPass, VerdictRests
  <2> QED
    BY <1>3, <2>1, PassKeepsStep DEF DoneIsDurable
<1>4. CASE ~Agent
  <2>1. CASE /\ UNCHANGED <<manageOVS, agent, verified>>
             /\ file' = file \/ file' = Opened(file)
             /\ raced => raced'
    <3>1. file.settings => file' = file
      BY <2>1 DEF ServerHasFile, Opened
    <3>2. SetupDone => SetupDone'
      BY <2>1, <3>1 DEF SetupDone
    <3>3. Configured => Configured'
      BY <2>1, <3>1 DEF Configured
    <3>4. PassKeeps'
      BY <2>1, <3>1, <3>2 DEF PassKeeps, Undisturbed, SetupDone
    <3> QED
      BY <2>1, <3>3, <3>4 DEF DoneIsDurable
  <2>2. CASE Disturbs
    <3>1. agent'.moved /\ ~verified'
      BY <1>0, <2>2 DEF Disturbs, AgentType, Passes
    <3> QED
      BY <3>1 DEF PassKeeps, Undisturbed, DoneIsDurable
  <2>3. CASE agent' = idle /\ verified' = FALSE
    BY <2>3 DEF PassKeeps, DoneIsDurable, idle
  <2> QED
    BY <1>4, <2>1, <2>2, <2>3, HostPass
<1> QED
  BY <1>0, <1>1, <1>2, <1>3, <1>4, AgentPass

\* A pass that ends clean and undisturbed has put what the profile wants into
\* the file the next server opens, for any rails and under every fault, unless
\* a server was started by another while the agent reset the file (steps.go,
\* applyOvsSetup, stepOvsBridges).
THEOREM CleanPassIsDurable == Spec => []DoneIsDurable
<1>1. Init => DurableInv
  <2> SUFFICES ASSUME Init PROVE DurableInv
    OBVIOUS
  <2>1. /\ file \in {NoDB, freshDB} /\ orphan = NoDB /\ ~verified
        /\ server = "up" => file.exists
        /\ server \in {"down", "up"} /\ agent = idle
    BY Zenon DEF Init
  <2>2. /\ ~NoDB.settings /\ ~NoDB.exists /\ ~freshDB.settings
        /\ idle.step = "idle"
    BY DEF NoDB, freshDB, idle
  <2> QED
    BY <2>1, <2>2
       DEF DurableInv, ServerHasFile, NoOrphan, PassProfile, PassKeeps,
           VerdictRests, DoneIsDurable, db
<1>2. TypeOK /\ DurableInv /\ [Next]_vars => DurableInv'
  BY FileStep, VerdictStep, DurableStep DEF DurableInv
<1>3. DurableInv => DoneIsDurable
  BY DEF DurableInv
<1> QED
  BY <1>1, <1>2, <1>3, TypeCorrect, PTL DEF Spec
=============================================================================
