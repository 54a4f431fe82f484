--------------------------- MODULE CliBenchProofs ---------------------------
(* Proofs about CliBench: the launching of app servers when the controller   *)
(* polls for "Application started", for any number of hosts and scenarios.   *)
EXTENDS CliBench, TLAPS

(* The loop variable stays within the loop it is of. *)
AtOK ==
    /\ pc \in {"server", "poll", "stopServer", "exit1"} => at \in Servers
    /\ pc \in {"agent", "log", "stopAgent"} => at \in Agents
    /\ pc = "master" => at \in 1 .. NScenarios

LEMMA AdvanceAt ==
  ASSUME NEW last \in Nat \ {0}, NEW here, NEW next, at \in 1 .. last,
         Advance(last, here, next)
  PROVE  \/ pc' = here /\ at < last /\ at' = at + 1 /\ at' \in 1 .. last
         \/ pc' = next /\ at = last /\ at' = 1
  BY DEF Advance

ControlOK ==
    /\ pc \in PCs
    /\ at \in 1 .. NServers + NAgents + NScenarios
    /\ AtOK

(* Every step leaves the controller at a place of its program. *)
LEMMA ControlStep ==
  ASSUME ControlOK, [Next]_vars
  PROVE  ControlOK'
  <1>0. /\ NServers \in Nat \ {0} /\ NAgents \in Nat \ {0} /\ NScenarios \in Nat \ {0}
        /\ 1 \in Servers /\ 1 \in Agents /\ 1 \in 1 .. NScenarios
    BY SizeAssumption DEF Servers, Agents
  <1> USE DEF ControlOK, AtOK, PCs, Servers, Agents
  <1>1. CASE LaunchServer
    BY <1>0, <1>1 DEF LaunchServer
  <1>2. CASE PollServer
    <2>1. \/ pc' = "server" /\ at' \in 1 .. NServers
          \/ pc' = "agent" /\ at' = 1
      BY <1>0, <1>2, AdvanceAt DEF PollServer
    <2> QED
      BY <1>0, <2>1
  <1>3. CASE PollTimeout
    BY <1>0, <1>3 DEF PollTimeout
  <1>4. CASE StartAgent
    BY <1>0, <1>4 DEF StartAgent
  <1>5. CASE FetchLog \/ LogTimeout
    <2>1. \/ pc' = "agent" /\ at' \in 1 .. NAgents
          \/ pc' = "master" /\ at' = 1
          \/ pc' = pc /\ at' = at
      BY <1>0, <1>5, AdvanceAt DEF FetchLog, LogTimeout
    <2> QED
      BY <1>0, <2>1
  <1>6. CASE RunMaster
    <2>1. \/ pc' = "master" /\ at' \in 1 .. NScenarios
          \/ pc' = "stopAgent" /\ at' = 1
      BY <1>0, <1>6, AdvanceAt DEF RunMaster
    <2> QED
      BY <1>0, <2>1
  <1>7. CASE StopAgent
    <2>1. \/ pc' = "stopAgent" /\ at' \in 1 .. NAgents
          \/ pc' = "stopServer" /\ at' = 1
      BY <1>0, <1>7, AdvanceAt DEF StopAgent
    <2> QED
      BY <1>0, <2>1
  <1>8. CASE StopServer
    <2>1. \/ pc' = "stopServer" /\ at' \in 1 .. NServers
          \/ pc' = "end" /\ at' = 1
      BY <1>0, <1>8, AdvanceAt DEF StopServer
    <2> QED
      BY <1>0, <2>1
  <1>9. CASE Hosts \/ Ended \/ UNCHANGED vars
    BY <1>9 DEF Hosts, ReadScript, ServerUp, TruncateLog, AgentUp, Ended, vars, controller
  <1> QED
    BY <1>1, <1>2, <1>3, <1>4, <1>5, <1>6, <1>7, <1>8, <1>9 DEF Next
-----------------------------------------------------------------------------
(* The rest of TypeOK: the two sides the controller talks to. *)
ServersOK ==
    /\ believed \subseteq Servers
    /\ script \in Servers \cup {None}
    /\ launcher \in [Servers -> {"none", "forked", "ssh", "over"}]
    /\ target \in [Servers -> Servers \cup {None}]
    /\ app \in [Servers -> {"down", "restore", "up"}]
    /\ appLog \in [Servers -> BOOLEAN]

AgentsOK ==
    /\ agent \in [Agents -> {"down", "starting", "up"}]
    /\ pidFile \in [Agents -> BOOLEAN]
    /\ agentLog \in [Agents -> Logs]
    /\ cliLog \in [Agents -> Logs]
    /\ relied \subseteq Agents
    /\ ran \in [1 .. NScenarios -> {"not", "whole", "part"}]

LEMMA ServersStep ==
  ASSUME ControlOK, ServersOK, [Next]_vars
  PROVE  ServersOK'
  <1> USE DEF ControlOK, AtOK, ServersOK
  <1>1. CASE LaunchServer
    BY <1>1 DEF LaunchServer
  <1>2. CASE PollServer
    BY <1>2 DEF PollServer, serverSide
  <1>3. ASSUME NEW s \in Servers, ReadScript(s)
        PROVE  ServersOK'
    <2>1. launcher' \in [Servers -> {"none", "forked", "ssh", "over"}]
      BY <1>3 DEF ReadScript
    <2>2. app' \in [Servers -> {"down", "restore", "up"}]
      BY <1>3 DEF ReadScript
    <2> QED
      BY <1>3, <2>1, <2>2 DEF ReadScript, controller
  <1>4. ASSUME NEW s \in Servers, ServerUp(s)
        PROVE  ServersOK'
    BY <1>4 DEF ServerUp, controller
  <1>5. CASE StopServer
    <2>1. launcher' \in [Servers -> {"none", "forked", "ssh", "over"}]
      BY <1>5 DEF StopServer
    <2>2. app' \in [Servers -> {"down", "restore", "up"}]
      BY <1>5 DEF StopServer
    <2> QED
      BY <1>5, <2>1, <2>2 DEF StopServer
  <1>6. ASSUME NEW a \in Agents, TruncateLog(a) \/ AgentUp(a)
        PROVE  ServersOK'
    BY <1>6 DEF TruncateLog, AgentUp, controller, serverSide
  <1>7. CASE \/ PollTimeout \/ StartAgent \/ FetchLog \/ LogTimeout \/ RunMaster
             \/ StopAgent \/ Ended \/ UNCHANGED vars
    BY <1>7 DEF PollTimeout, StartAgent, FetchLog, LogTimeout, RunMaster, StopAgent,
       Ended, vars, controller, serverSide
  <1> QED
    BY <1>1, <1>2, <1>3, <1>4, <1>5, <1>6, <1>7 DEF Next, Hosts

LEMMA AgentsStep ==
  ASSUME ControlOK, AgentsOK, [Next]_vars
  PROVE  AgentsOK'
  <1> USE DEF ControlOK, AtOK, AgentsOK
  <1>1. CASE StartAgent
    BY <1>1 DEF StartAgent
  <1>2. ASSUME NEW a \in Agents, TruncateLog(a) \/ AgentUp(a)
        PROVE  AgentsOK'
    BY <1>2 DEF TruncateLog, AgentUp, controller, Logs
  <1>3. CASE FetchLog
    <2>1. PICK copy \in Copies(at) : cliLog' = [cliLog EXCEPT ![at] = copy]
      BY <1>3 DEF FetchLog
    <2>2. copy \in Logs
      BY <1>3, <2>1 DEF FetchLog, Copies
    <2>3. relied' \subseteq Agents
      BY <1>3 DEF FetchLog
    <2> QED
      BY <1>3, <2>1, <2>2, <2>3 DEF FetchLog
  <1>4. CASE LogTimeout
    BY <1>4 DEF LogTimeout, agentSide
  <1>5. CASE RunMaster
    <2>1. ran' \in [1 .. NScenarios -> {"not", "whole", "part"}]
      BY <1>5 DEF RunMaster
    <2> QED
      BY <1>5, <2>1 DEF RunMaster, agentSide
  <1>6. CASE StopAgent
    <2>1. agent' \in [Agents -> {"down", "starting", "up"}]
      BY <1>6 DEF StopAgent
    <2> QED
      BY <1>6, <2>1 DEF StopAgent
  <1>7. ASSUME NEW s \in Servers, ReadScript(s) \/ ServerUp(s)
        PROVE  AgentsOK'
    BY <1>7 DEF ReadScript, ServerUp, controller, agentSide
  <1>8. CASE \/ LaunchServer \/ PollServer \/ PollTimeout \/ StopServer
             \/ Ended \/ UNCHANGED vars
    BY <1>8 DEF LaunchServer, PollServer, PollTimeout, StopServer, Ended, vars,
       controller, agentSide
  <1> QED
    BY <1>1, <1>2, <1>3, <1>4, <1>5, <1>6, <1>7, <1>8 DEF Next, Hosts

(* TypeOK: the controller, its shells, the hosts and the logs keep their types. *)
THEOREM TypeCorrect == Spec => []TypeOK
  <1>1. Init => ControlOK /\ ServersOK /\ AgentsOK
    <2> SUFFICES ASSUME Init PROVE ControlOK /\ ServersOK /\ AgentsOK
      OBVIOUS
    <2>1. ControlOK
      BY SizeAssumption DEF Init, ControlOK, AtOK, PCs, Servers, Agents
    <2>2. ServersOK
      BY DEF Init, ServersOK, None
    <2>3. AgentsOK
      BY DEF Init, AgentsOK, Logs
    <2> QED
      BY <2>1, <2>2, <2>3
  <1>2. ControlOK /\ ServersOK /\ AgentsOK /\ [Next]_vars
          => (ControlOK /\ ServersOK /\ AgentsOK)'
    BY ControlStep, ServersStep, AgentsStep
  <1>3. ControlOK /\ ServersOK /\ AgentsOK => TypeOK
    BY DEF ControlOK, ServersOK, AgentsOK, TypeOK
  <1> QED
    BY <1>1, <1>2, <1>3, PTL DEF Spec
-----------------------------------------------------------------------------
(* What the controller knows of the launches when it polls for the right text. *)
Forked(s) ==
    launcher[s] = "forked" =>
        pc \in {"poll", "exit1"} /\ at = s /\ script = s /\ ~appLog[s]

Launched(s) ==
    /\ target[s] \in {None, s}
    /\ launcher[s] = "ssh" => target[s] = s
    /\ launcher[s] = "none" => ~appLog[s]
    /\ (appLog[s] /\ pc \notin {"stopServer", "end"}) => app[s] = "up"

Awaited(s) ==
    /\ pc \in {"server", "poll"} /\ s < at => appLog[s]
    /\ pc = "server" /\ s >= at => launcher[s] = "none"
    /\ pc = "poll" /\ s > at => launcher[s] = "none"
    /\ pc \in {"agent", "log", "master"} => appLog[s]

LaunchInv == \A s \in Servers : Forked(s) /\ Launched(s) /\ Awaited(s)

LEMMA LaunchStep ==
  ASSUME LocalSignalr, ControlOK, ServersOK, LaunchInv, [Next]_vars
  PROVE  LaunchInv'
  <1> SUFFICES ASSUME NEW s \in Servers
               PROVE  (Forked(s) /\ Launched(s) /\ Awaited(s))'
    BY DEF LaunchInv
  <1>0. /\ Forked(s) /\ Launched(s) /\ Awaited(s)
        /\ s \in Nat /\ at \in Nat /\ NServers \in Nat \ {0} /\ s \in 1 .. NServers
        /\ pc \in {"server", "poll", "stopServer", "exit1"} => at \in 1 .. NServers
    BY SizeAssumption DEF LaunchInv, ControlOK, AtOK, Servers
  <1>1. CASE LaunchServer
    <2>1. /\ at \in Servers /\ pc' = "poll" /\ at' = at /\ script' = at
          /\ launcher' = [launcher EXCEPT ![at] = "forked"]
          /\ target' = target /\ app' = app /\ appLog' = appLog /\ pc = "server"
      BY <1>0, <1>1 DEF LaunchServer, Servers
    <2>2. launcher'[s] = IF s = at THEN "forked" ELSE launcher[s]
      BY <2>1 DEF ServersOK
    <2>3. CASE s = at
      BY <1>0, <2>1, <2>2, <2>3 DEF Forked, Launched, Awaited
    <2>4. CASE s # at
      BY <1>0, <2>1, <2>2, <2>4 DEF Forked, Launched, Awaited
    <2> QED
      BY <2>3, <2>4
  <1>2. CASE PollServer
    <2>1. /\ pc = "poll" /\ appLog[at]
          /\ launcher' = launcher /\ target' = target /\ app' = app
          /\ appLog' = appLog /\ script' = script
      BY <1>2 DEF PollServer, serverSide
    <2>2. \/ pc' = "server" /\ at' = at + 1
          \/ pc' = "agent" /\ at' = 1 /\ at = NServers
      BY <1>0, <1>2, AdvanceAt DEF PollServer
    <2>3. launcher[s] # "forked"
      BY <1>0, <2>1 DEF Forked
    <2>4. s < at \/ s = at \/ s > at
      BY <1>0
    <2>5. Forked(s)' /\ Launched(s)'
      BY <1>0, <2>1, <2>2, <2>3 DEF Forked, Launched
    <2>6. Awaited(s)'
      BY <1>0, <2>1, <2>2, <2>4 DEF Awaited
    <2> QED
      BY <2>5, <2>6
  <1>3. CASE PollTimeout
    BY <1>0, <1>3 DEF PollTimeout, serverSide, Forked, Launched, Awaited
  <1>4. ASSUME NEW r \in Servers, ReadScript(r)
        PROVE  (Forked(s) /\ Launched(s) /\ Awaited(s))'
    <2>1. /\ Forked(r) /\ Launched(r) /\ launcher[r] = "forked" /\ r \in 1 .. NServers
          /\ pc' = pc /\ at' = at /\ script' = script /\ appLog' = appLog
      BY <1>4 DEF LaunchInv, ReadScript, controller, Servers
    <2>2. /\ script = r /\ at = r /\ pc \in {"poll", "exit1"} /\ ~appLog[r]
          /\ target[r] \in {None, r}
      BY <2>1 DEF Forked, Launched
    <2>3. /\ target'[s] = IF s = r THEN r ELSE target[s]
          /\ app'[s] = IF s = r THEN "restore" ELSE app[s]
      BY <1>4, <2>2 DEF ReadScript, ServersOK
    <2>4. /\ s = r => launcher'[s] = "ssh"
          /\ s # r => launcher'[s] \in {launcher[s], "over"}
      BY <1>4 DEF ReadScript
    <2>5. s # r => launcher[s] # "forked"
      BY <1>0, <2>2 DEF Forked
    <2>6. s # r => (launcher[s] = "ssh" => target[s] = s)
      BY <1>0 DEF Launched
    <2>7. CASE s = r
      BY <1>0, <2>1, <2>2, <2>3, <2>4, <2>7 DEF Forked, Launched, Awaited
    <2>8. CASE s # r
      <3>1. launcher[s] = "none" => launcher'[s] = "none"
        BY <1>0, <1>4, <2>2, <2>8 DEF ReadScript, Killed
      <3> QED
        BY <1>0, <2>1, <2>3, <2>4, <2>5, <2>6, <2>8, <3>1 DEF Forked, Launched, Awaited
    <2> QED
      BY <2>7, <2>8
  <1>5. ASSUME NEW r \in Servers, ServerUp(r)
        PROVE  (Forked(s) /\ Launched(s) /\ Awaited(s))'
    <2>1. PICK q \in Servers : /\ launcher[q] = "ssh" /\ target[q] = r
                               /\ appLog' = [appLog EXCEPT ![q] = TRUE]
      BY <1>5 DEF ServerUp
    <2>2. q = r
      <3>1. Launched(q)
        BY DEF LaunchInv
      <3> QED
        BY <2>1, <3>1 DEF Launched
    <2>3. /\ appLog'[s] = IF s = r THEN TRUE ELSE appLog[s]
          /\ app'[s] = IF s = r THEN "up" ELSE app[s]
      BY <1>5, <2>1, <2>2 DEF ServerUp, ServersOK
    <2>4. /\ pc' = pc /\ at' = at /\ script' = script
          /\ launcher' = launcher /\ target' = target
      BY <1>5 DEF ServerUp, controller
    <2> QED
      BY <1>0, <2>1, <2>2, <2>3, <2>4 DEF Forked, Launched, Awaited
  <1>6. CASE StartAgent
    BY <1>0, <1>6 DEF StartAgent, serverSide, Forked, Launched, Awaited
  <1>7. CASE FetchLog \/ LogTimeout \/ RunMaster \/ StopAgent
    <2>1. /\ pc \in {"log", "master", "stopAgent"}
          /\ pc' \in {pc, "agent", "log", "master", "stopAgent", "stopServer"}
          /\ pc = "stopAgent" => pc' \in {"stopAgent", "stopServer"}
          /\ UNCHANGED serverSide
      BY <1>7 DEF FetchLog, LogTimeout, RunMaster, StopAgent, Advance
    <2> QED
      BY <1>0, <2>1 DEF serverSide, Forked, Launched, Awaited
  <1>8. CASE StopServer
    <2>1. /\ pc = "stopServer" /\ pc' \in {"stopServer", "end"}
          /\ target' = target /\ appLog' = appLog
          /\ launcher'[s] \in {launcher[s], "over"}
      BY <1>8 DEF StopServer, Advance
    <2> QED
      BY <1>0, <2>1 DEF Forked, Launched, Awaited
  <1>9. ASSUME NEW a \in Agents, TruncateLog(a) \/ AgentUp(a)
        PROVE  (Forked(s) /\ Launched(s) /\ Awaited(s))'
    BY <1>0, <1>9 DEF TruncateLog, AgentUp, controller, serverSide,
       Forked, Launched, Awaited
  <1>10. CASE Ended \/ UNCHANGED vars
    BY <1>0, <1>10 DEF Ended, vars, controller, serverSide, Forked, Launched, Awaited
  <1> QED
    BY <1>1, <1>2, <1>3, <1>4, <1>5, <1>6, <1>7, <1>8, <1>9, <1>10 DEF Next, Hosts

LEMMA LaunchHolds == LocalSignalr => (Spec => []LaunchInv)
  <1> SUFFICES ASSUME LocalSignalr PROVE Spec => []LaunchInv
    OBVIOUS
  <1>1. Init => ControlOK /\ ServersOK /\ LaunchInv
    <2> SUFFICES ASSUME Init PROVE ControlOK /\ ServersOK /\ LaunchInv
      OBVIOUS
    <2>1. ControlOK
      BY SizeAssumption DEF Init, ControlOK, AtOK, PCs, Servers, Agents
    <2>2. ServersOK
      BY DEF Init, ServersOK, None
    <2>3. LaunchInv
      BY SizeAssumption DEF Init, LaunchInv, Forked, Launched, Awaited, Servers
    <2> QED
      BY <2>1, <2>2, <2>3
  <1>2. ControlOK /\ ServersOK /\ LaunchInv /\ [Next]_vars
          => (ControlOK /\ ServersOK /\ LaunchInv)'
    BY ControlStep, ServersStep, LaunchStep
  <1> QED
    BY <1>1, <1>2, PTL DEF Spec

(* ShellRunsOwnScript: when the poll waits for the text of a local server, no  *)
(* background shell ever executes the script written for another server.       *)
THEOREM OwnScriptHolds == LocalSignalr => (Spec => []ShellRunsOwnScript)
  <1>1. LaunchInv => ShellRunsOwnScript
    BY DEF LaunchInv, Launched, ShellRunsOwnScript
  <1> QED
    BY <1>1, LaunchHolds, PTL

(* MasterHasServers: then no master runs before every app server listens.      *)
THEOREM ServersHold == LocalSignalr => (Spec => []MasterHasServers)
  <1>1. LaunchInv => MasterHasServers
    BY DEF LaunchInv, Launched, Awaited, MasterHasServers
  <1> QED
    BY <1>1, LaunchHolds, PTL
-----------------------------------------------------------------------------
(* The way down of the app servers: none is on its way up any more.            *)
Ending(s) ==
    /\ pc = "stopAgent" => appLog[s]
    /\ pc = "stopServer" => app[s] = IF s < at THEN "down" ELSE "up"
    /\ pc = "end" => app[s] = "down"

EndInv == \A s \in Servers : Ending(s)

LEMMA EndStep ==
  ASSUME ControlOK, ServersOK, LaunchInv, EndInv, [Next]_vars
  PROVE  EndInv'
  <1> SUFFICES ASSUME NEW s \in Servers PROVE Ending(s)'
    BY DEF EndInv
  <1>0. /\ Forked(s) /\ Launched(s) /\ Awaited(s) /\ Ending(s)
        /\ s \in Nat /\ at \in Nat /\ NServers \in Nat \ {0} /\ NAgents \in Nat \ {0}
        /\ NScenarios \in Nat \ {0} /\ s \in 1 .. NServers
        /\ pc \in {"server", "poll", "stopServer", "exit1"} => at \in 1 .. NServers
        /\ pc \in {"agent", "log", "stopAgent"} => at \in 1 .. NAgents
        /\ pc = "master" => at \in 1 .. NScenarios
    BY SizeAssumption DEF LaunchInv, EndInv, ControlOK, AtOK, Servers, Agents
  <1>1. CASE LaunchServer \/ PollTimeout \/ StartAgent
    BY <1>1 DEF LaunchServer, PollTimeout, StartAgent, Ending
  <1>2. CASE PollServer \/ FetchLog \/ LogTimeout
    <2>1. pc' \in {"server", "poll", "agent", "log", "master"}
      BY <1>2 DEF PollServer, FetchLog, LogTimeout, Advance
    <2> QED
      BY <2>1 DEF Ending
  <1>3. CASE RunMaster
    <2>1. pc = "master" /\ pc' \in {"master", "stopAgent"} /\ appLog' = appLog
      BY <1>3 DEF RunMaster, Advance, serverSide
    <2> QED
      BY <1>0, <2>1 DEF Ending, Awaited
  <1>4. CASE StopAgent
    <2>1. /\ pc = "stopAgent" /\ appLog' = appLog /\ app' = app
          /\ \/ pc' = "stopAgent"
             \/ pc' = "stopServer" /\ at' = 1
      BY <1>0, <1>4 DEF StopAgent, Advance, serverSide
    <2>2. app[s] = "up"
      BY <1>0, <2>1 DEF Ending, Launched
    <2> QED
      BY <1>0, <2>1, <2>2 DEF Ending
  <1>5. CASE StopServer
    <2>1. /\ pc = "stopServer" /\ at \in Servers
          /\ app' = [app EXCEPT ![at] = IF @ = "up" THEN "down" ELSE @]
          /\ \/ pc' = "stopServer" /\ at' = at + 1
             \/ pc' = "end" /\ at = NServers
      BY <1>0, <1>5 DEF StopServer, Advance, Servers
    <2>2. app'[s] = IF s = at THEN (IF app[s] = "up" THEN "down" ELSE app[s]) ELSE app[s]
      BY <2>1 DEF ServersOK
    <2>3. s <= at => app'[s] = "down"
      BY <1>0, <2>1, <2>2 DEF Ending
    <2>4. s > at => app'[s] = "up"
      BY <1>0, <2>1, <2>2 DEF Ending
    <2> QED
      BY <1>0, <2>1, <2>3, <2>4 DEF Ending
  <1>6. ASSUME NEW r \in Servers, ReadScript(r)
        PROVE  Ending(s)'
    <2>1. pc' = pc /\ pc \in {"poll", "exit1"}
      BY <1>6 DEF LaunchInv, Forked, ReadScript, controller
    <2> QED
      BY <2>1 DEF Ending
  <1>7. ASSUME NEW r \in Servers, ServerUp(r)
        PROVE  Ending(s)'
    <2>1. /\ app[r] = "restore" /\ app' = [app EXCEPT ![r] = "up"]
          /\ pc' = pc /\ at' = at /\ Ending(r)
      BY <1>7 DEF ServerUp, controller, EndInv
    <2>2. PICK q \in Servers : appLog' = [appLog EXCEPT ![q] = TRUE]
      BY <1>7 DEF ServerUp
    <2>3. pc \notin {"stopServer", "end"}
      BY <2>1 DEF Ending
    <2> QED
      BY <1>0, <2>1, <2>2, <2>3 DEF Ending, ServersOK
  <1>8. ASSUME NEW a \in Agents, TruncateLog(a) \/ AgentUp(a)
        PROVE  Ending(s)'
    BY <1>0, <1>8 DEF TruncateLog, AgentUp, controller, serverSide, Ending
  <1>9. CASE Ended \/ UNCHANGED vars
    BY <1>0, <1>9 DEF Ended, vars, controller, serverSide, Ending
  <1> QED
    BY <1>1, <1>2, <1>3, <1>4, <1>5, <1>6, <1>7, <1>8, <1>9 DEF Next, Hosts
-----------------------------------------------------------------------------
(* The agents: which have not been started yet, what the log "started" means   *)
(* on the bench host and what it means in the controller's copy.               *)
Idle(a) == agent[a] = "down" /\ agentLog[a] \in {"none", "stale"}

Named(a) == agent[a] = "up" /\ pidFile[a]

Started(a) ==
    /\ cliLog[a] = "started" => agentLog[a] = "started"
    /\ pc \in {"server", "poll", "exit1"} => Idle(a)
    /\ pc = "agent" /\ a >= at => Idle(a)
    /\ pc = "log" /\ a > at => Idle(a)
    /\ pc \in {"agent", "log", "master"} /\ agentLog[a] = "started" => Named(a)
    /\ pc = "stopAgent" /\ a >= at /\ agentLog[a] = "started" => Named(a)
    /\ pc = "stopAgent" /\ a < at /\ cliLog[a] = "started" => agent[a] = "down"
    /\ pc \in {"stopServer", "end"} /\ cliLog[a] = "started" => agent[a] = "down"

StartInv == \A a \in Agents : Started(a)

LEMMA StartStep ==
  ASSUME ControlOK, AgentsOK, StartInv, [Next]_vars
  PROVE  StartInv'
  <1> SUFFICES ASSUME NEW a \in Agents PROVE Started(a)'
    BY DEF StartInv
  <1>0. /\ Started(a) /\ a \in Nat /\ at \in Nat /\ a \in 1 .. NAgents
        /\ NServers \in Nat \ {0} /\ NAgents \in Nat \ {0} /\ NScenarios \in Nat \ {0}
        /\ pc \in {"server", "poll", "stopServer", "exit1"} => at \in 1 .. NServers
        /\ pc \in {"agent", "log", "stopAgent"} => at \in 1 .. NAgents
        /\ pc = "master" => at \in 1 .. NScenarios
    BY SizeAssumption DEF StartInv, ControlOK, AtOK, Servers, Agents
  <1>1. CASE LaunchServer \/ PollServer \/ PollTimeout
    <2>1. /\ pc \in {"server", "poll"} /\ UNCHANGED agentSide
          /\ pc' \in {"server", "poll", "agent", "exit1"}
      BY <1>1 DEF LaunchServer, PollServer, PollTimeout, Advance
    <2> QED
      BY <1>0, <2>1 DEF Started, Idle, agentSide
  <1>2. CASE StartAgent
    <2>1. /\ pc = "agent" /\ pc' = "log" /\ at' = at /\ at \in Agents
          /\ agentLog' = agentLog /\ cliLog' = cliLog
          /\ agent'[a] = IF a = at THEN "starting" ELSE agent[a]
          /\ pidFile'[a] = IF a = at THEN FALSE ELSE pidFile[a]
      BY <1>0, <1>2 DEF StartAgent, AgentsOK, Agents
    <2> QED
      BY <1>0, <2>1 DEF Started, Idle, Named
  <1>3. CASE FetchLog
    <2>1. /\ pc = "log" /\ at \in Agents
          /\ agent' = agent /\ pidFile' = pidFile /\ agentLog' = agentLog
          /\ cliLog'[a] \in {cliLog[a], agentLog[a]}
      BY <1>0, <1>3 DEF FetchLog, Copies, AgentsOK, Agents
    <2>2. \/ pc' = "agent" /\ at' = at + 1
          \/ pc' = "master"
          \/ pc' = pc /\ at' = at
      BY <1>3 DEF FetchLog, Advance
    <2> QED
      BY <1>0, <2>1, <2>2 DEF Started, Idle, Named
  <1>4. CASE LogTimeout
    <2>1. /\ pc = "log" /\ UNCHANGED agentSide
          /\ \/ pc' = "agent" /\ at' = at + 1
             \/ pc' = "master"
      BY <1>4 DEF LogTimeout, Advance
    <2> QED
      BY <1>0, <2>1 DEF Started, Idle, Named, agentSide
  <1>5. CASE RunMaster
    <2>1. /\ pc = "master" /\ UNCHANGED agentSide
          /\ \/ pc' = "master"
             \/ pc' = "stopAgent" /\ at' = 1
      BY <1>5 DEF RunMaster, Advance
    <2> QED
      BY <1>0, <2>1 DEF Started, Idle, Named, agentSide
  <1>6. CASE StopAgent
    <2>1. /\ pc = "stopAgent" /\ at \in Agents
          /\ agentLog' = agentLog /\ cliLog' = cliLog
          /\ agent'[a] = IF a = at THEN (IF pidFile[a] THEN "down" ELSE agent[a]) ELSE agent[a]
          /\ pidFile'[a] = IF a = at THEN FALSE ELSE pidFile[a]
      BY <1>0, <1>6 DEF StopAgent, AgentsOK, Agents
    <2>2. \/ pc' = "stopAgent" /\ at' = at + 1
          \/ pc' = "stopServer" /\ at = NAgents
      BY <1>0, <1>6 DEF StopAgent, Advance
    <2>3. a <= at /\ cliLog[a] = "started" => agent'[a] = "down"
      BY <1>0, <2>1 DEF Started, Named
    <2>4. a > at /\ agentLog[a] = "started" => Named(a)'
      BY <1>0, <2>1 DEF Started, Named
    <2> QED
      BY <1>0, <2>1, <2>2, <2>3, <2>4 DEF Started
  <1>7. CASE StopServer
    <2>1. pc = "stopServer" /\ pc' \in {"stopServer", "end"} /\ UNCHANGED agentSide
      BY <1>7 DEF StopServer, Advance
    <2> QED
      BY <1>0, <2>1 DEF Started, agentSide
  <1>8. ASSUME NEW b \in Agents, TruncateLog(b)
        PROVE  Started(a)'
    <2>1. /\ pc' = pc /\ at' = at /\ agent' = agent /\ pidFile' = pidFile /\ cliLog' = cliLog
          /\ agent[b] = "starting" /\ agentLog[b] # "started"
          /\ agentLog'[a] = IF a = b THEN "silent" ELSE agentLog[a]
      BY <1>8 DEF TruncateLog, controller, AgentsOK
    <2> QED
      BY <1>0, <2>1 DEF Started, Idle, Named
  <1>9. ASSUME NEW b \in Agents, AgentUp(b)
        PROVE  Started(a)'
    <2>1. /\ pc' = pc /\ at' = at /\ cliLog' = cliLog
          /\ agent[b] = "starting" /\ agentLog[b] = "silent"
          /\ agent'[a] = IF a = b THEN "up" ELSE agent[a]
          /\ pidFile'[a] = IF a = b THEN TRUE ELSE pidFile[a]
          /\ agentLog'[a] = IF a = b THEN "started" ELSE agentLog[a]
      BY <1>9 DEF AgentUp, controller, AgentsOK
    <2> QED
      BY <1>0, <2>1 DEF Started, Idle, Named
  <1>10. ASSUME NEW s \in Servers, ReadScript(s) \/ ServerUp(s)
         PROVE  Started(a)'
    BY <1>0, <1>10 DEF ReadScript, ServerUp, controller, agentSide, Started, Idle, Named
  <1>11. CASE Ended \/ UNCHANGED vars
    BY <1>0, <1>11 DEF Ended, vars, controller, agentSide, Started, Idle, Named
  <1> QED
    BY <1>1, <1>2, <1>3, <1>4, <1>5, <1>6, <1>7, <1>8, <1>9, <1>10, <1>11 DEF Next, Hosts

LEMMA BelievedStep ==
  ASSUME ServersOK, ControlOK, BelievedHasStarted, [Next]_vars
  PROVE  BelievedHasStarted'
  <1> SUFFICES ASSUME LocalSignalr, NEW s \in believed' PROVE appLog'[s]
    BY DEF BelievedHasStarted
  <1>1. s \in believed \/ (PollServer /\ s = at)
    BY DEF Next, Hosts, LaunchServer, PollServer, PollTimeout, StartAgent, FetchLog, LogTimeout,
       RunMaster, StopAgent, StopServer, Ended, ReadScript, ServerUp, TruncateLog, AgentUp,
       vars, controller
  <1>2. appLog[s] /\ s \in Servers
    BY <1>1 DEF BelievedHasStarted, PollServer, ServersOK, ControlOK, AtOK
  <1>3. appLog' = appLog \/ \E r \in Servers : appLog' = [appLog EXCEPT ![r] = TRUE]
    BY DEF Next, Hosts, LaunchServer, PollServer, PollTimeout, StartAgent, FetchLog, LogTimeout,
       RunMaster, StopAgent, StopServer, Ended, ReadScript, ServerUp, TruncateLog, AgentUp,
       vars, serverSide
  <1> QED
    BY <1>2, <1>3 DEF ServersOK

LEMMA ReliedStep ==
  ASSUME StartInv, ControlOK, AgentsOK, [Next]_vars
  PROVE  \A a \in relied' \ relied : agent[a] = "up" \/ cliLog'[a] = "stale"
  <1> SUFFICES ASSUME NEW a \in relied' \ relied
               PROVE  agent[a] = "up" \/ cliLog'[a] = "stale"
    OBVIOUS
  <1>1. FetchLog /\ a = at
    BY DEF Next, Hosts, LaunchServer, PollServer, PollTimeout, StartAgent, FetchLog, LogTimeout,
       RunMaster, StopAgent, StopServer, Ended, ReadScript, ServerUp, TruncateLog, AgentUp,
       vars, controller
  <1>2. pc = "log" /\ a \in Agents
    BY <1>1 DEF FetchLog, ControlOK, AtOK
  <1>3. PICK copy \in Copies(at) : /\ cliLog' = [cliLog EXCEPT ![at] = copy]
                                  /\ copy \in {"started", "stale"}
    BY <1>1 DEF FetchLog
  <1>4. copy = "started" => agentLog[a] = "started"
    BY <1>1, <1>2, <1>3 DEF Copies, StartInv, Started
  <1>5. cliLog'[a] = copy
    BY <1>1, <1>2, <1>3 DEF AgentsOK
  <1> QED
    BY <1>2, <1>3, <1>4, <1>5 DEF StartInv, Started, Named

(* No master has been run as long as servers and agents are being started.     *)
NoneRun == pc \in {"server", "poll", "agent", "log", "exit1"} =>
               \A n \in 1 .. NScenarios : ran[n] = "not"

LEMMA NoneRunStep ==
  ASSUME NoneRun, [Next]_vars
  PROVE  NoneRun'
  <1>1. CASE RunMaster
    BY <1>1 DEF RunMaster, Advance, NoneRun
  <1>2. CASE FetchLog \/ LogTimeout \/ StopAgent \/ StopServer
    BY <1>2 DEF FetchLog, LogTimeout, StopAgent, StopServer, Advance, NoneRun
  <1>3. CASE LaunchServer \/ PollServer \/ PollTimeout \/ StartAgent
    BY <1>3 DEF LaunchServer, PollServer, PollTimeout, StartAgent, Advance, NoneRun
  <1>4. CASE Hosts \/ Ended \/ UNCHANGED vars
    BY <1>4 DEF Hosts, ReadScript, ServerUp, TruncateLog, AgentUp, Ended, vars, controller,
       NoneRun
  <1> QED
    BY <1>1, <1>2, <1>3, <1>4 DEF Next

StopInv ==
    /\ ControlOK /\ ServersOK /\ AgentsOK
    /\ LaunchInv /\ EndInv /\ StartInv /\ BelievedHasStarted /\ NoneRun

(* StartedAndStopped: with the local SignalR, for any number of hosts and         *)
(* scenarios, what the controller takes for started has started, but for agents   *)
(* with an old log; a job that reaches its end has stopped every server and every *)
(* agent whose own start it saw; one that gives up on a server leaves behind the  *)
(* servers that are up, and has started no agent and run no master.               *)
THEOREM StartedAndStoppedHolds == LocalSignalr => (Spec => StartedAndStopped)
  <1> SUFFICES ASSUME LocalSignalr PROVE Spec => StartedAndStopped
    OBVIOUS
  <1>1. Init => StopInv
    <2> SUFFICES ASSUME Init PROVE StopInv
      OBVIOUS
    <2>1. ControlOK
      BY SizeAssumption DEF Init, ControlOK, AtOK, PCs, Servers, Agents
    <2>2. ServersOK
      BY DEF Init, ServersOK, None
    <2>3. AgentsOK
      BY DEF Init, AgentsOK, Logs
    <2>4. LaunchInv
      BY SizeAssumption DEF Init, LaunchInv, Forked, Launched, Awaited, Servers
    <2>5. EndInv /\ StartInv /\ BelievedHasStarted /\ NoneRun
      BY DEF Init, EndInv, Ending, StartInv, Started, Idle, BelievedHasStarted, NoneRun
    <2> QED
      BY <2>1, <2>2, <2>3, <2>4, <2>5 DEF StopInv
  <1>2. StopInv /\ [Next]_vars => StopInv'
    BY ControlStep, ServersStep, AgentsStep, LaunchStep, EndStep, StartStep, BelievedStep,
       NoneRunStep DEF StopInv
  <1>3. StopInv => TypeOK /\ ShellRunsOwnScript /\ BelievedHasStarted /\ ServersStopped
                     /\ LeftAtExit /\ SeenAgentsStopped
    <2> SUFFICES ASSUME StopInv
                 PROVE  TypeOK /\ ShellRunsOwnScript /\ BelievedHasStarted /\ ServersStopped
                          /\ LeftAtExit /\ SeenAgentsStopped
      OBVIOUS
    <2>1. TypeOK
      BY DEF StopInv, ControlOK, ServersOK, AgentsOK, TypeOK
    <2>2. ShellRunsOwnScript
      BY DEF StopInv, LaunchInv, Launched, ShellRunsOwnScript
    <2>3. ServersStopped
      BY DEF StopInv, EndInv, Ending, ServersStopped
    <2>4. SeenAgentsStopped
      BY DEF StopInv, StartInv, Started, SeenAgentsStopped
    <2>5. LeftAtExit
      BY DEF StopInv, LaunchInv, Launched, BelievedHasStarted, StartInv, Started, Idle,
         NoneRun, ServersOK, LeftAtExit
    <2> QED
      BY <2>1, <2>2, <2>3, <2>4, <2>5 DEF StopInv
  <1>4. StopInv /\ [Next]_vars
          => [\A a \in relied' \ relied : agent[a] = "up" \/ cliLog'[a] = "stale"]_vars
    BY ReliedStep DEF StopInv
  <1> QED
    BY <1>1, <1>2, <1>3, <1>4, PTL DEF Spec, StartedAndStopped, ReliedHasStarted
=============================================================================
