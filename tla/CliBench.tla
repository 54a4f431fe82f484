------------------------------ MODULE CliBench ------------------------------
(***************************************************************************)
(* The C# command line bench: jenkins-run-csharpcli-on-multiple-serv.sh      *)
(* starts an app server on every app host, run_csharp_cli.sh an agent on     *)
(* every bench host and then the master of each scenario, and both are       *)
(* stopped at the end.  The controller polls logs to learn what has started. *)
(*                                                                           *)
(* Every app server is launched by a background shell that executes          *)
(* auto_local_launch.sh, one file that is written anew for each server, and  *)
(* that ssh's into the host to run killall dotnet, dotnet restore and        *)
(* dotnet run.  The poll for "HttpConnection Started" counts lines and tests *)
(* that the count is not the empty string, which it never is; the poll for   *)
(* "Application started" (useLocalSignalr) tests what it says.               *)
(***************************************************************************)
EXTENDS Integers, FiniteSets

CONSTANTS
    NServers,    \* hosts in bench_app_pub_server
    NAgents,     \* hosts in bench_server_list
    NScenarios,  \* scenarios of iterate_all_scenarios
    LocalSignalr \* g_use_local_signalr is "true"

ASSUME SizeAssumption ==
    /\ NServers \in Nat \ {0}
    /\ NAgents \in Nat \ {0}
    /\ NScenarios \in Nat \ {0}
    /\ LocalSignalr \in BOOLEAN

Servers == 1 .. NServers
Agents == 1 .. NAgents
None == 0

VARIABLES
    pc,        \* what the controller does next
    at,        \* the $i of its loop
    believed,  \* servers of which it printed "server is started!"
    script,    \* the server auto_local_launch.sh is written for
    launcher,  \* launcher[s]: the background shell started for server s
    target,    \* target[s]: the server that shell was told to log in to
    app,       \* app[s]: what runs on app host s
    appLog,    \* appLog[s]: the log of launcher[s] has "Application started"
    agent,     \* agent[a]: the agent process of bench host a
    pidFile,   \* pidFile[a]: /tmp/agent.pid names the running agent
    agentLog,  \* agentLog[a]: cli_agent_out.txt on bench host a
    cliLog,    \* cliLog[a]: the controller's copy of it
    relied,    \* agents of which it printed "agent started!"
    ran        \* ran[n]: what scenario n had when its master was run

controller == <<pc, at, believed, relied, ran>>
serverSide == <<script, launcher, target, app, appLog>>
agentSide == <<agent, pidFile, agentLog, cliLog>>
vars == <<controller, serverSide, agentSide>>

PCs == {"server", "poll", "agent", "log", "master", "stopAgent", "stopServer",
        "end", "exit1"}
Logs == {"none", "silent", "started", "stale"}

TypeOK ==
    /\ pc \in PCs
    /\ at \in 1 .. NServers + NAgents + NScenarios
    /\ believed \subseteq Servers
    /\ script \in Servers \cup {None}
    /\ launcher \in [Servers -> {"none", "forked", "ssh", "over"}]
    /\ target \in [Servers -> Servers \cup {None}]
    /\ app \in [Servers -> {"down", "restore", "up"}]
    /\ appLog \in [Servers -> BOOLEAN]
    /\ agent \in [Agents -> {"down", "starting", "up"}]
    /\ pidFile \in [Agents -> BOOLEAN]
    /\ agentLog \in [Agents -> Logs]
    /\ cliLog \in [Agents -> Logs]
    /\ relied \subseteq Agents
    /\ ran \in [1 .. NScenarios -> {"not", "whole", "part"}]

(* A bench host, and the controller's folder, may hold the log of an earlier run, *)
(* which ends in "started"; an app host may run a server that an earlier job left. *)
Init ==
    /\ pc = "server"
    /\ at = 1
    /\ believed = {}
    /\ script = None
    /\ launcher = [s \in Servers |-> "none"]
    /\ target = [s \in Servers |-> None]
    /\ app \in [Servers -> {"down", "up"}]
    /\ appLog = [s \in Servers |-> FALSE]
    /\ agent = [a \in Agents |-> "down"]
    /\ pidFile = [a \in Agents |-> FALSE]
    /\ agentLog \in [Agents -> {"none", "stale"}]
    /\ cliLog \in [Agents -> {"none", "stale"}]
    /\ relied = {}
    /\ ran = [n \in 1 .. NScenarios |-> "not"]

(* The next member of the loop, or the first of the loop that follows. *)
Advance(last, here, next) ==
    IF at < last THEN pc' = here /\ at' = at + 1
                 ELSE pc' = next /\ at' = 1
-----------------------------------------------------------------------------
(* App servers *)

(* start_single_app_server up to nohup sh auto_local_launch.sh &. *)
LaunchServer ==
    /\ pc = "server"
    /\ script' = at
    /\ launcher' = [launcher EXCEPT ![at] = "forked"]
    /\ pc' = "poll"
    /\ UNCHANGED <<at, believed, relied, ran, target, app, appLog, agentSide>>

(* killall dotnet on host h: a server that runs ends, and so does the shell    *)
(* that waits for it; a script that is in dotnet restore goes on to dotnet run. *)
Killed(h) == {r \in Servers : launcher[r] = "ssh" /\ target[r] = h /\ app[h] = "up"}

(* The background shell reads the script, whatever server it is for by now,   *)
(* and ssh runs killall dotnet and dotnet restore there.                      *)
ReadScript(s) ==
    /\ launcher[s] = "forked"
    /\ launcher' = [r \in Servers |-> IF r = s THEN "ssh"
                                      ELSE IF r \in Killed(script) THEN "over"
                                      ELSE launcher[r]]
    /\ target' = [target EXCEPT ![s] = script]
    /\ app' = [app EXCEPT ![script] = "restore"]
    /\ UNCHANGED <<controller, script, appLog, agentSide>>

(* dotnet run, of one of the shells that are on host s: the server listens.   *)
ServerUp(s) ==
    /\ app[s] = "restore"
    /\ app' = [app EXCEPT ![s] = "up"]
    /\ \E r \in Servers :
         /\ launcher[r] = "ssh" /\ target[r] = s
         /\ appLog' = [appLog EXCEPT ![r] = TRUE]
    /\ UNCHANGED <<controller, script, launcher, target, agentSide>>

\* Mutant: the poll for the local server makes the mistake of the other one.
PollAnything ==
    /\ pc = "poll"
    /\ believed' = believed \cup {at}
    /\ Advance(NServers, "server", "agent")
    /\ UNCHANGED <<relied, ran, serverSide, agentSide>>

(* The loop over grep: the line count of the other branch is never empty. *)
PollServer ==
    /\ pc = "poll"
    /\ LocalSignalr => appLog[at]
    /\ believed' = believed \cup {at}
    /\ Advance(NServers, "server", "agent")
    /\ UNCHANGED <<relied, ran, serverSide, agentSide>>

(* "!!Fail server does not start!!", exit 1, after 120 s of polling. *)
PollTimeout ==
    /\ pc = "poll"
    /\ LocalSignalr /\ ~appLog[at]
    /\ pc' = "exit1"
    /\ UNCHANGED <<at, believed, relied, ran, serverSide, agentSide>>
-----------------------------------------------------------------------------
(* Agents *)

(* do_start_single_cli_bench: the start script kills the agent the pid file  *)
(* names and runs a new one in the background; its tee truncates the log.    *)
StartAgent ==
    /\ pc = "agent"
    /\ agent' = [agent EXCEPT ![at] = "starting"]
    /\ pidFile' = [pidFile EXCEPT ![at] = FALSE]
    /\ pc' = "log"
    /\ UNCHANGED <<at, believed, relied, ran, serverSide, agentLog, cliLog>>

TruncateLog(a) ==
    /\ agent[a] = "starting" /\ agentLog[a] \in {"none", "stale"}
    /\ agentLog' = [agentLog EXCEPT ![a] = "silent"]
    /\ UNCHANGED <<controller, serverSide, agent, pidFile, cliLog>>

AgentUp(a) ==
    /\ agent[a] = "starting" /\ agentLog[a] = "silent"
    /\ agent' = [agent EXCEPT ![a] = "up"]
    /\ pidFile' = [pidFile EXCEPT ![a] = TRUE]
    /\ agentLog' = [agentLog EXCEPT ![a] = "started"]
    /\ UNCHANGED <<controller, serverSide, cliLog>>

(* What the controller's file may hold after scp: the agent's log, or, when there *)
(* is none yet or the copy fails, what it held before.                            *)
Copies(a) == {cliLog[a]} \cup ({agentLog[a]} \ {"none"})

\* Mutant: any log that was copied will do.
FetchAnyLog ==
    /\ pc = "log"
    /\ \E copy \in Copies(at) :
         /\ cliLog' = [cliLog EXCEPT ![at] = copy]
         /\ \/ /\ copy # "none"
               /\ relied' = relied \cup {at}
               /\ Advance(NAgents, "agent", "master")
            \/ copy = "none" /\ UNCHANGED <<pc, at, relied>>
    /\ UNCHANGED <<believed, ran, serverSide, agent, pidFile, agentLog>>

(* One turn of the loop: scp the log, grep "started" in the controller's file. *)
FetchLog ==
    /\ pc = "log"
    /\ \E copy \in Copies(at) :
         /\ cliLog' = [cliLog EXCEPT ![at] = copy]
         /\ \/ /\ copy \in {"started", "stale"}
               /\ relied' = relied \cup {at}
               /\ Advance(NAgents, "agent", "master")
            \/ copy \notin {"started", "stale"} /\ UNCHANGED <<pc, at, relied>>
    /\ UNCHANGED <<believed, ran, serverSide, agent, pidFile, agentLog>>

(* After 120 s the loop ends and the script goes on without a word. *)
LogTimeout ==
    /\ pc = "log"
    /\ cliLog[at] \notin {"started", "stale"}
    /\ Advance(NAgents, "agent", "master")
    /\ UNCHANGED <<believed, relied, ran, serverSide, agentSide>>
-----------------------------------------------------------------------------
(* The master and the end *)

(* launch_single_master_cli_script waits for ssh ... sh $script_name. *)
RunMaster ==
    /\ pc = "master"
    /\ ran' = [ran EXCEPT ![at] =
                IF (\A s \in Servers : app[s] = "up") /\ (\A a \in Agents : agent[a] = "up")
                THEN "whole" ELSE "part"]
    /\ Advance(NScenarios, "master", "stopAgent")
    /\ UNCHANGED <<believed, relied, serverSide, agentSide>>

\* Mutant: the agent is stopped on the master's host only.
StopAgentOnce ==
    /\ pc = "stopAgent"
    /\ agent' = [agent EXCEPT ![at] = IF pidFile[at] THEN "down" ELSE @]
    /\ pidFile' = [pidFile EXCEPT ![at] = FALSE]
    /\ Advance(1, "stopAgent", "stopServer")
    /\ UNCHANGED <<believed, relied, ran, serverSide, agentLog, cliLog>>

(* kill -9 of what the pid file names. *)
StopAgent ==
    /\ pc = "stopAgent"
    /\ agent' = [agent EXCEPT ![at] = IF pidFile[at] THEN "down" ELSE @]
    /\ pidFile' = [pidFile EXCEPT ![at] = FALSE]
    /\ Advance(NAgents, "stopAgent", "stopServer")
    /\ UNCHANGED <<believed, relied, ran, serverSide, agentLog, cliLog>>

\* Mutant: the loop over the servers ends one too early.
StopServerFewer ==
    /\ pc = "stopServer"
    /\ app' = [app EXCEPT ![at] = IF @ = "up" THEN "down" ELSE @]
    /\ launcher' = [s \in Servers |-> IF s \in Killed(at) THEN "over" ELSE launcher[s]]
    /\ Advance(NServers - 1, "stopServer", "end")
    /\ UNCHANGED <<believed, relied, ran, script, target, appLog, agentSide>>

\* Mutant: the loop over the servers does not look at their number.
StopServerOnAndOn ==
    /\ pc = "stopServer"
    /\ app' = [app EXCEPT ![at] = IF @ = "up" THEN "down" ELSE @]
    /\ launcher' = [s \in Servers |-> IF s \in Killed(at) THEN "over" ELSE launcher[s]]
    /\ at' = at + 1
    /\ UNCHANGED <<pc, believed, relied, ran, script, target, appLog, agentSide>>

(* stop_multiple_app_server: killall dotnet on each host. *)
StopServer ==
    /\ pc = "stopServer"
    /\ app' = [app EXCEPT ![at] = IF @ = "up" THEN "down" ELSE @]
    /\ launcher' = [s \in Servers |-> IF s \in Killed(at) THEN "over" ELSE launcher[s]]
    /\ Advance(NServers, "stopServer", "end")
    /\ UNCHANGED <<believed, relied, ran, script, target, appLog, agentSide>>

Ended == pc \in {"end", "exit1"} /\ UNCHANGED vars
-----------------------------------------------------------------------------
Hosts ==
    \/ \E s \in Servers : ReadScript(s) \/ ServerUp(s)
    \/ \E a \in Agents : TruncateLog(a) \/ AgentUp(a)

Next ==
    \/ LaunchServer \/ PollServer \/ PollTimeout \/ StartAgent \/ FetchLog
    \/ LogTimeout \/ RunMaster \/ StopAgent \/ StopServer \/ Ended \/ Hosts

Spec == Init /\ [][Next]_vars
-----------------------------------------------------------------------------
(* Properties *)

(* A background shell logs in to the host it was started for, although all of  *)
(* them execute the same file: it is written again only once the server before *)
(* has said that it started (csharpcli.sh:426-501).                            *)
ShellRunsOwnScript == \A s \in Servers : target[s] \in {None, s}

(* No master runs before every app server listens: start_single_app_server     *)
(* returns for a server that has started and ends the job for one that has not. *)
MasterHasServers == pc = "master" => \A s \in Servers : app[s] = "up"

(* A job that reaches its end leaves no server on the app hosts, whichever way  *)
(* the launches went; for a job that exits before see LeftAtExit.               *)
ServersStopped == pc = "end" => \A s \in Servers : app[s] = "down"

(* The exit 1 of a poll that timed out (csharpcli.sh:499-500) ends the job before *)
(* any agent or master is run, and before the loop that stops the servers: those *)
(* that were seen to start are left running.                                    *)
LeftAtExit ==
    pc = "exit1" => /\ \A s \in believed : app[s] = "up"
                    /\ \A a \in Agents : agent[a] = "down"
                    /\ \A n \in 1 .. NScenarios : ran[n] = "not"

(* An agent whose own start the controller has seen is dead once all are         *)
(* stopped; one it relied on by an old log may not have written its pid file by  *)
(* then: nothing is killed, "agent stoped!" is printed (:236-237) and it lives on. *)
SeenAgentsStopped ==
    pc \in {"stopServer", "end"} =>
        \A a \in Agents : cliLog[a] = "started" => agent[a] = "down"

(* csharpcli.sh:491, "server is started!": printed of servers that have, as   *)
(* far as the local SignalR is concerned; the other branch waits for nothing.  *)
BelievedHasStarted == LocalSignalr => \A s \in believed : appLog[s]

(* csharpcli.sh:217, "agent started!": printed of an agent that is up, or whose  *)
(* log on the controller is by then that of an earlier run, and never otherwise.  *)
ReliedHasStarted ==
    [][\A a \in relied' \ relied : agent[a] = "up" \/ cliLog'[a] = "stale"]_vars

(* What is taken for started has started, but for agents with an old log; a job  *)
(* that reaches its end has stopped every server and every agent it saw start;   *)
(* a job that gives up on a server leaves behind the servers, and only them.     *)
StartedAndStopped ==
    [](TypeOK /\ ShellRunsOwnScript /\ BelievedHasStarted /\ ServersStopped
         /\ LeftAtExit /\ SeenAgentsStopped)
        /\ ReliedHasStarted
=============================================================================
