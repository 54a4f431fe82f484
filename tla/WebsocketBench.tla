--------------------------- MODULE WebsocketBench ---------------------------
(***************************************************************************)
(* One session of run_websocket.sh: the driver shell (func_env.sh), the    *)
(* background shell it forks for every scenario (autogen_runbench.sh), the *)
(* script that shell runs on the master host through ssh, the master       *)
(* process that script starts, the agents, and the files they communicate  *)
(* by: master_status.tmp, the agents' logs, the error mark, the master's   *)
(* pid file and the result directories on the master host.                 *)
(*                                                                         *)
(* A background shell is killed by the driver, but the ssh client it       *)
(* started is not: what runs on the master host goes on on its own.        *)
(***************************************************************************)
EXTENDS Naturals, FiniteSets, Sequences

CONSTANTS
  NScenarios,       \* iterations of iterate_all_scenarios
  NAgents,          \* entries of bench_server_list
  MonitorsService,  \* bench_service_pub_server/port/user are configured
  PromptLaunch,     \* TRUE: the first echo of the background shell happens
                    \* before the driver's second look at the flag, and
                    \* sigbench_run_duration covers that look (240 s by
                    \* default, a look takes a second); FALSE: no timing
                    \* is assumed
  DropBudget        \* number of ssh/scp calls that may fail

ASSUME BenchAssumption ==
  /\ NScenarios \in Nat \ {0}
  /\ NAgents \in Nat \ {0}
  /\ MonitorsService \in BOOLEAN
  /\ PromptLaunch \in BOOLEAN
  /\ DropBudget \in Nat

Scenarios == 1..NScenarios
Agents    == 1..NAgents

\* Masters: one per scenario, and 0 for one an earlier session left running.
Masters == 0..NScenarios

VARIABLES
  (* the driver shell *)
  pc,          \* where the driver is
  s,           \* the scenario at hand
  idx,         \* the agent at hand (iterate_all_bench_server)
  finish,      \* the driver's copy of the flag
  elapsed,     \* SECONDS has reached $end
  round,       \* looks at the flag for this scenario, up to 2
  failFlag,    \* fail_flag_g is not empty
  topPid,      \* pid_to_collect_top: 0 or the scenario it was started for
  (* files of the driver's host *)
  flag,        \* master_status.tmp
  errMark,     \* $result_dir/error.mark: who was blamed, during which scenario
  fetched,     \* what the scp of each scenario's result brought
  (* processes *)
  runner,      \* the background shell of each scenario
  topUp,       \* the collect_top.sh shells that run
  remote,      \* the script and the master of each scenario on the master host
  agentUp,     \* the agents that run
  (* files of the remote hosts *)
  masterPid,   \* /tmp/websocket-bench-master.pid
  result,      \* the result directories on the master host
  agentLog,    \* agent.out on each agent
  (* the network *)
  drops        \* ssh/scp calls that failed

driverVars == <<pc, s, idx, finish, elapsed, round, failFlag, topPid>>
fileVars   == <<flag, errMark, fetched>>
procVars   == <<runner, topUp, remote, agentUp>>
hostVars   == <<masterPid, result, agentLog>>
vars       == <<driverVars, fileVars, procVars, hostVars, drops>>

RunnerAlive == {"forked", "flagged", "inssh", "returned"}
Running     == {k \in Masters : remote[k] = "master"}

Drop == drops < DropBudget /\ drops' = drops + 1
Keep == UNCHANGED drops

-----------------------------------------------------------------------------
(* Init: anything an earlier session may have left behind is there.        *)

Init ==
  /\ pc = "startAgents" /\ s = 1 /\ idx = 1
  /\ finish = "0" /\ elapsed = FALSE /\ round = 0
  /\ failFlag = FALSE /\ topPid = 0
  /\ flag \in {"none", "0", "1"}
  /\ errMark \in {<<>>, <<[agent |-> 0, scenario |-> 0]>>}
  /\ fetched = [k \in Scenarios |-> "no"]
  /\ runner = [k \in Scenarios |-> "none"]
  /\ topUp = {}
  /\ remote \in [Masters -> {"none", "master"}]
  /\ \A k \in Scenarios : remote[k] = "none"
  /\ agentUp = [a \in Agents |-> FALSE]
  /\ masterPid = 0
  /\ \E r \in {"none", "stale"} : result = [k \in Masters |-> r]
  /\ \E l \in {"clean", "bad"} : agentLog = [a \in Agents |-> l]
  /\ drops = 0

-----------------------------------------------------------------------------
(* The driver                                                              *)

\* Mutant: the loop runs once too often ($i -le $len + 1).
NextAgentTooFar(q) ==
  IF idx <= NAgents
  THEN idx' = idx + 1 /\ UNCHANGED pc
  ELSE idx' = 1 /\ pc' = q

\* iterate_all_bench_server: next agent, or leave the loop for pc q.
NextAgent(q) ==
  IF idx < NAgents
  THEN idx' = idx + 1 /\ UNCHANGED pc
  ELSE idx' = 1 /\ pc' = q

\* start_single_sigbench: the remote script kills the old agent and starts
\* one that truncates the log; a failed ssh is not noticed.
StartAgent ==
  /\ pc = "startAgents"
  /\ \/ /\ agentUp'  = [agentUp EXCEPT ![idx] = TRUE]
        /\ agentLog' = [agentLog EXCEPT ![idx] = "clean"]
        /\ Keep
     \/ Drop /\ UNCHANGED <<agentUp, agentLog>>
  /\ NextAgent("clearMark")
  /\ UNCHANGED <<s, finish, elapsed, round, failFlag, topPid, fileVars,
                 runner, topUp, remote, masterPid, result>>

\* clear_error_mark, at the head of launch_all_websocket_scripts.
ClearErrorMark ==
  /\ pc = "clearMark"
  /\ errMark' = <<>>
  /\ pc' = "launch"
  /\ UNCHANGED <<s, idx, finish, elapsed, round, failFlag, topPid, flag,
                 fetched, procVars, hostVars, drops>>

\* run_single_master_script_and_check up to check_and_wait's first test:
\* fork the collector when there is a service host, fork the background
\* shell, and start counting seconds.  fail_flag_g is left as it is.
Launch ==
  /\ pc = "launch"
  /\ topUp'  = IF MonitorsService THEN topUp \cup {s} ELSE topUp
  /\ topPid' = IF MonitorsService THEN s ELSE topPid
  /\ runner' = [runner EXCEPT ![s] = "forked"]
  /\ finish' = "0" /\ elapsed' = FALSE /\ round' = 0
  /\ pc' = "wait"
  /\ UNCHANGED <<s, idx, failFlag, fileVars, remote, agentUp, hostVars, drops>>

\* The while test of check_and_wait holds: read the flag.
ReadFlag ==
  /\ pc = "wait"
  /\ ~elapsed \/ finish = "0"
  /\ PromptLaunch /\ round = 1 => runner[s] # "forked"
  /\ finish' = flag
  /\ round' = IF round < 2 THEN round + 1 ELSE 2
  /\ pc' = "check"
  /\ UNCHANGED <<s, idx, elapsed, failFlag, topPid, fileVars, procVars,
                 hostVars, drops>>

\* Mutant: the loop ends with the run duration, finished or not.
WaitOverOnDuration ==
  /\ pc = "wait"
  /\ elapsed
  /\ pc' = "reap"
  /\ UNCHANGED <<s, idx, finish, elapsed, round, failFlag, topPid, fileVars,
                 procVars, hostVars, drops>>

\* The while test of check_and_wait fails.
WaitOver ==
  /\ pc = "wait"
  /\ elapsed /\ finish # "0"
  /\ pc' = "reap"
  /\ UNCHANGED <<s, idx, finish, elapsed, round, failFlag, topPid, fileVars,
                 procVars, hostVars, drops>>

\* Mutant: an error does not break the wait.
CheckAgentNoBreak ==
  /\ pc = "check"
  /\ failFlag' = (failFlag \/ agentLog[idx] = "bad")
  /\ errMark' = IF failFlag' /\ ~failFlag
                THEN Append(errMark, [agent |-> idx, scenario |-> s])
                ELSE errMark
  /\ NextAgent("wait")
  /\ UNCHANGED <<s, finish, elapsed, round, topPid, flag, fetched, procVars,
                 hostVars, drops>>

\* Mutant: no early return once an error was found.
CheckAgentAlways ==
  /\ pc = "check"
  /\ failFlag' = (agentLog[idx] = "bad")
  /\ errMark' = IF failFlag'
                THEN Append(errMark, [agent |-> idx, scenario |-> s])
                ELSE errMark
  /\ NextAgent(IF failFlag' THEN "reap" ELSE "wait")
  /\ UNCHANGED <<s, finish, elapsed, round, topPid, flag, fetched, procVars,
                 hostVars, drops>>

\* check_single_agent: copy the agent's log and look for an error in it,
\* unless an error was found before.  A failed scp leaves nothing to search.
CheckAgent ==
  /\ pc = "check"
  /\ \/ /\ ~failFlag
        /\ failFlag' = (agentLog[idx] = "bad")
        /\ errMark' = IF failFlag'
                      THEN Append(errMark, [agent |-> idx, scenario |-> s])
                      ELSE errMark
        /\ Keep
     \/ /\ ~failFlag /\ Drop
        /\ UNCHANGED <<failFlag, errMark>>
     \/ /\ failFlag /\ Keep
        /\ UNCHANGED <<failFlag, errMark>>
  /\ NextAgent(IF failFlag' THEN "reap" ELSE "wait")
  /\ UNCHANGED <<s, finish, elapsed, round, topPid, flag, fetched, procVars,
                 hostVars>>

\* Mutant: the background shell is left alone.
ReapCollectorOnly ==
  /\ pc = "reap"
  /\ topUp' = topUp \ {topPid}
  /\ pc' = "fetch"
  /\ UNCHANGED <<s, idx, finish, elapsed, round, failFlag, topPid, fileVars,
                 runner, remote, agentUp, hostVars, drops>>

\* Mutant: the collector is left alone.
ReapRunnerOnly ==
  /\ pc = "reap"
  /\ runner' = [runner EXCEPT ![s] = IF @ \in RunnerAlive THEN "killed" ELSE @]
  /\ pc' = "fetch"
  /\ UNCHANGED <<s, idx, finish, elapsed, round, failFlag, topPid, fileVars,
                 topUp, remote, agentUp, hostVars, drops>>

\* Kill the collector and the background shell of this scenario.  Only the
\* shell dies; a kill of a shell that has ended does nothing.
Reap ==
  /\ pc = "reap"
  /\ topUp' = topUp \ {topPid}
  /\ runner' = [runner EXCEPT ![s] = IF @ \in RunnerAlive THEN "killed" ELSE @]
  /\ pc' = "fetch"
  /\ UNCHANGED <<s, idx, finish, elapsed, round, failFlag, topPid, fileVars,
                 remote, agentUp, hostVars, drops>>

\* scp the scenario's result directory, whatever it holds, and go on with
\* the next scenario of the nested loops.
Fetch ==
  /\ pc = "fetch"
  /\ \/ fetched' = [fetched EXCEPT ![s] = result[s]] /\ Keep
     \/ fetched' = [fetched EXCEPT ![s] = "none"] /\ Drop
  /\ IF s < NScenarios
     THEN s' = s + 1 /\ pc' = "launch"
     ELSE pc' = "stopAgents" /\ UNCHANGED s
  /\ UNCHANGED <<idx, finish, elapsed, round, failFlag, topPid, flag, errMark,
                 procVars, hostVars>>

\* stop_single_sigbench.
StopAgent ==
  /\ pc = "stopAgents"
  /\ \/ agentUp' = [agentUp EXCEPT ![idx] = FALSE] /\ Keep
     \/ Drop /\ UNCHANGED agentUp
  /\ NextAgent("done")
  /\ UNCHANGED <<s, finish, elapsed, round, failFlag, topPid, fileVars,
                 runner, topUp, remote, hostVars>>

\* The driver's SECONDS reaches the end of the run duration.
Elapse ==
  /\ pc \in {"wait", "check"}
  /\ ~elapsed
  /\ PromptLaunch => round = 2
  /\ elapsed' = TRUE
  /\ UNCHANGED <<pc, s, idx, finish, round, failFlag, topPid, fileVars,
                 procVars, hostVars, drops>>

Driver ==
  \/ StartAgent \/ ClearErrorMark \/ Launch \/ ReadFlag \/ WaitOver
  \/ CheckAgent \/ Reap \/ Fetch \/ StopAgent

-----------------------------------------------------------------------------
(* The background shell of scenario k (autogen_runbench.sh)                *)

RunnerVars == <<driverVars, errMark, fetched, topUp, agentUp, hostVars>>

\* Mutant: the flag is not lowered.
WriteZeroForgotten(k) ==
  /\ runner[k] = "forked"
  /\ runner' = [runner EXCEPT ![k] = "flagged"]
  /\ UNCHANGED <<RunnerVars, flag, remote, drops>>

\* echo "0" > $status_file
WriteZero(k) ==
  /\ runner[k] = "forked"
  /\ runner' = [runner EXCEPT ![k] = "flagged"]
  /\ flag' = "0"
  /\ UNCHANGED <<RunnerVars, remote, drops>>

\* ssh ... "sh $script_name" reaches the master host, or fails at once.
OpenSsh(k) ==
  /\ runner[k] = "flagged"
  /\ \/ /\ runner' = [runner EXCEPT ![k] = "inssh"]
        /\ remote' = [remote EXCEPT ![k] = "arriving"]
        /\ Keep
     \/ /\ runner' = [runner EXCEPT ![k] = "returned"]
        /\ Drop
        /\ UNCHANGED remote
  /\ UNCHANGED <<RunnerVars, flag>>

\* Mutant: ssh is sent to the background (ssh -f) and returns at once.
SshInBackground(k) ==
  /\ runner[k] = "inssh" /\ Keep
  /\ runner' = [runner EXCEPT ![k] = "returned"]
  /\ UNCHANGED <<RunnerVars, flag, remote>>

\* ssh returns: the remote script has ended, or the connection broke.
SshReturns(k) ==
  /\ runner[k] = "inssh"
  /\ \/ remote[k] \in {"exited", "killed"} /\ Keep
     \/ remote[k] \notin {"exited", "killed"} /\ Drop
  /\ runner' = [runner EXCEPT ![k] = "returned"]
  /\ UNCHANGED <<RunnerVars, flag, remote>>

\* Mutant: the shell ends without raising the flag.
WriteOneForgotten(k) ==
  /\ runner[k] = "returned"
  /\ runner' = [runner EXCEPT ![k] = "ended"]
  /\ UNCHANGED <<RunnerVars, flag, remote, drops>>

\* echo "1" > $status_file, whatever ssh returned.
WriteOne(k) ==
  /\ runner[k] = "returned"
  /\ runner' = [runner EXCEPT ![k] = "ended"]
  /\ flag' = "1"
  /\ UNCHANGED <<RunnerVars, remote, drops>>

Runner(k) == WriteZero(k) \/ OpenSsh(k) \/ SshReturns(k) \/ WriteOne(k)

-----------------------------------------------------------------------------
(* The master host: the generated script of scenario k, and its master     *)

RemoteVars == <<driverVars, fileVars, runner, topUp, agentUp, agentLog, drops>>

\* rm -rf ${result_name}
RemoveOldResult(k) ==
  /\ remote[k] = "arriving"
  /\ remote' = [remote EXCEPT ![k] = "removed"]
  /\ result' = [result EXCEPT ![k] = "none"]
  /\ UNCHANGED <<RemoteVars, masterPid>>

\* Mutant: the old master is not killed.
KillOldMasterNot(k) ==
  /\ remote[k] = "removed"
  /\ remote' = [remote EXCEPT ![k] = "ready"]
  /\ UNCHANGED <<RemoteVars, masterPid, result>>

\* kill -9 `cat /tmp/websocket-bench-master.pid`
KillOldMaster(k) ==
  /\ remote[k] = "removed"
  /\ remote' = [remote EXCEPT ![k] = "ready",
                             ![masterPid] = IF @ = "master" THEN "killed" ELSE @]
  /\ UNCHANGED <<RemoteVars, masterPid, result>>

\* ./websocket-bench -m master ... -o ${result_name}: the master writes its
\* pid file and begins to fill the result directory.
StartMaster(k) ==
  /\ remote[k] = "ready"
  /\ remote' = [remote EXCEPT ![k] = "master"]
  /\ masterPid' = k
  /\ result' = [result EXCEPT ![k] = "partial"]
  /\ UNCHANGED RemoteVars

\* The master has sent for its -w seconds and leaves a complete result.
MasterExits(k) ==
  /\ remote[k] = "master"
  /\ remote' = [remote EXCEPT ![k] = "exited"]
  /\ result' = [result EXCEPT ![k] = "complete"]
  /\ UNCHANGED <<RemoteVars, masterPid>>

RemoteScript(k) == RemoveOldResult(k) \/ KillOldMaster(k) \/ StartMaster(k)

\* An agent that works for some master logs an error.
AgentError(a) ==
  /\ agentUp[a] /\ agentLog[a] = "clean"
  /\ Running # {}
  /\ agentLog' = [agentLog EXCEPT ![a] = "bad"]
  /\ UNCHANGED <<driverVars, fileVars, procVars, masterPid, result, drops>>

-----------------------------------------------------------------------------
Done == pc = "done" /\ UNCHANGED vars

Next ==
  \/ Driver \/ Elapse
  \/ \E k \in Scenarios : Runner(k) \/ RemoteScript(k)
  \/ \E k \in Masters : MasterExits(k)
  \/ \E a \in Agents : AgentError(a)
  \/ Done

Safe == Init /\ [][Next]_vars

\* The driver and the shells are scheduled, seconds pass and ssh answers.
ShellFairness ==
  /\ WF_vars(Driver) /\ WF_vars(Elapse)
  /\ \A k \in Scenarios : WF_vars(Runner(k)) /\ WF_vars(RemoteScript(k))

\* A master stops by itself once it has sent for its duration; after an agent
\* error it may wait for that agent for ever.
MasterFairness == \A k \in Masters : WF_vars(~failFlag /\ MasterExits(k))

Spec == Safe /\ ShellFairness /\ MasterFairness

-----------------------------------------------------------------------------
(* Properties                                                              *)

\* The driver has called clear_error_mark and has not finished.
MarkCleared == pc \notin {"startAgents", "clearMark"}

\* No agent error was found and no ssh/scp call failed.
Healthy == ~failFlag /\ drops = 0

DriverPc    == {"startAgents", "clearMark", "launch", "wait", "check", "reap",
                "fetch", "stopAgents", "done"}
Blame       == [agent : 0..NAgents, scenario : 0..NScenarios]
RunnerState == RunnerAlive \cup {"none", "ended", "killed"}
RemoteState == {"none", "arriving", "removed", "ready", "master", "exited",
                "killed"}
ResultState == {"none", "stale", "partial", "complete"}

\* Every variable has its type.
TypeOK ==
  /\ pc \in DriverPc /\ s \in Scenarios /\ idx \in Agents
  /\ finish \in {"none", "0", "1"} /\ flag \in {"none", "0", "1"}
  /\ elapsed \in BOOLEAN /\ failFlag \in BOOLEAN
  /\ round \in 0..2
  /\ topPid \in 0..NScenarios /\ topUp \in SUBSET Scenarios
  /\ errMark \in Seq(Blame)
  /\ fetched \in [Scenarios -> ResultState \cup {"no"}]
  /\ runner \in [Scenarios -> RunnerState]
  /\ remote \in [Masters -> RemoteState]
  /\ agentUp \in [Agents -> BOOLEAN]
  /\ agentLog \in [Agents -> {"clean", "bad"}]
  /\ masterPid \in Masters
  /\ result \in [Masters -> ResultState]
  /\ drops \in 0..DropBudget

\* The background shell of an earlier scenario never survives into a later
\* one, so that master_status.tmp, which all scenarios share, is only ever
\* written on behalf of the scenario the driver is waiting for.
LoneRunner ==
  \A k \in Scenarios :
    runner[k] \in RunnerAlive => k = s /\ pc \in {"wait", "check", "reap"}

\* The error mark exists exactly when an agent error was found, and blames
\* one agent only, however many agents fail and scenarios follow.
ErrorMarkedOnce ==
  MarkCleared => Len(errMark) = (IF failFlag THEN 1 ELSE 0)

\* As long as the session is healthy the agents never work for two masters
\* at a time, whatever an earlier session left running once the first
\* script of this one has done its kill.
ExclusiveMaster ==
  /\ Healthy => Cardinality(Running \ {0}) <= 1
  /\ 0 \in Running => \A k \in Scenarios :
       remote[k] \in {"none", "arriving", "removed"}

\* A result that was fetched before the first agent error is the complete
\* result of that scenario, never a leftover or a half-written one.
FetchedIsComplete ==
  drops = 0 => \A k \in Scenarios :
    fetched[k] # "no" /\ (failFlag => k < errMark[1].scenario)
       => fetched[k] = "complete"

\* The driver leaves the wait loop by itself, that is without an agent error
\* and with the whole run duration spent, only after this scenario's master
\* has stopped.
WaitCoversMaster ==
  pc \in {"reap", "fetch"} /\ Healthy => elapsed /\ remote[s] = "exited"

\* A session that ends leaves no collector and no background shell; with no
\* ssh failure it leaves no agent either, and if moreover no agent failed it
\* leaves no master.
CleanEnd ==
  pc = "done" =>
    /\ topUp = {}
    /\ \A k \in Scenarios : runner[k] \in {"ended", "killed"}
    /\ drops = 0 => \A a \in Agents : ~agentUp[a]
    /\ Healthy => Running = {}

\* What the end of a session rests on and leaves: one shell at a time on the
\* flag file, one entry in the error mark, no process left.
CleanSession == TypeOK /\ LoneRunner /\ ErrorMarkedOnce /\ CleanEnd

\* While the session is healthy no script kills the master of another
\* scenario of the session.
MastersRunUndisturbed ==
  [][Healthy => \A k \in Scenarios :
       remote[k] = "master" => remote'[k] # "killed"]_vars

\* A session ends, whatever agents fail and wherever ssh breaks, provided
\* masters stop by themselves as long as no agent error was found: after one,
\* no later scenario waits for its master.
SessionEnds == <>(pc = "done")

\* The session seen as a plan: a scenario is pending until it was fetched.
Outcome(k) ==
  IF fetched[k] = "no" THEN "pending"
  ELSE IF fetched[k] = "complete" THEN "measured" ELSE "doubtful"

Plan == INSTANCE BenchPlan WITH
  outcome <- [k \in Scenarios |-> Outcome(k)],
  broken  <- ~Healthy

\* The session implements the plan.
ImplementsPlan == Plan!PlanSpec
=============================================================================
