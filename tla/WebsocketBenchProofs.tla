------------------------ MODULE WebsocketBenchProofs ------------------------
(* Theorems about WebsocketBench, for every number of scenarios and agents. *)
EXTENDS WebsocketBench, FiniteSetTheorems, TLAPS

USE DEF Scenarios, Agents, Masters

-----------------------------------------------------------------------------
(* Lemmas about the operators shared by the actions                        *)

\* The loop over the agents keeps its index within the agents.
LEMMA NextAgentType ==
  ASSUME TypeOK, NEW q \in DriverPc, NextAgent(q)
  PROVE  idx' \in Agents /\ pc' \in DriverPc
BY BenchAssumption DEF TypeOK, NextAgent

\* A failed call is counted within the budget, a successful one not at all.
LEMMA DropType == TypeOK /\ (Drop \/ Keep) => drops' \in 0..DropBudget
BY BenchAssumption DEF TypeOK, Drop, Keep

-----------------------------------------------------------------------------
(* Type correctness                                                        *)

LEMMA InitType == Init => TypeOK
<1> SUFFICES ASSUME Init PROVE TypeOK
  OBVIOUS
<1>1. errMark \in Seq(Blame)
  <2>1. [agent |-> 0, scenario |-> 0] \in Blame
    BY BenchAssumption DEF Blame
  <2>2. <<>> \in Seq(Blame) /\ <<[agent |-> 0, scenario |-> 0]>> \in Seq(Blame)
    BY <2>1
  <2> QED
    BY <2>2 DEF Init
<1>2. /\ remote \in [Masters -> RemoteState]
      /\ runner \in [Scenarios -> RunnerState]
  BY DEF Init, RemoteState, RunnerState
<1>3. /\ result \in [Masters -> ResultState]
      /\ fetched \in [Scenarios -> ResultState \cup {"no"}]
      /\ agentLog \in [Agents -> {"clean", "bad"}]
      /\ agentUp \in [Agents -> BOOLEAN]
  BY DEF Init, ResultState
<1>4. /\ pc \in DriverPc
      /\ finish \in {"none", "0", "1"} /\ flag \in {"none", "0", "1"}
      /\ elapsed \in BOOLEAN /\ failFlag \in BOOLEAN
  BY DEF Init, DriverPc
<1>5. /\ s \in Scenarios /\ idx \in Agents /\ round \in 0..2
      /\ topPid \in 0..NScenarios /\ topUp \in SUBSET Scenarios
      /\ masterPid \in Masters /\ drops \in 0..DropBudget
  BY BenchAssumption DEF Init
<1> QED
  BY <1>1, <1>2, <1>3, <1>4, <1>5 DEF TypeOK

LEMMA NextType == TypeOK /\ [Next]_vars => TypeOK'
<1> SUFFICES ASSUME TypeOK, [Next]_vars PROVE TypeOK'
  OBVIOUS
<1> USE BenchAssumption
    DEF driverVars, fileVars, procVars, hostVars, RunnerVars, RemoteVars, TypeOK
<1>1. CASE StartAgent
  <2>1. idx' \in Agents /\ pc' \in DriverPc
    BY <1>1, NextAgentType DEF StartAgent, DriverPc
  <2>2. drops' \in 0..DropBudget
    BY <1>1, DropType DEF StartAgent
  <2>3. agentUp' \in [Agents -> BOOLEAN] /\ agentLog' \in [Agents -> {"clean", "bad"}]
    BY <1>1 DEF StartAgent
  <2> QED
    BY <1>1, <2>1, <2>2, <2>3 DEF StartAgent
<1>2. CASE ClearErrorMark
  BY <1>2 DEF ClearErrorMark, DriverPc
<1>3. CASE Launch
  <2>1. topUp' \in SUBSET Scenarios /\ topPid' \in 0..NScenarios
    <3>1. \/ topUp' = topUp /\ topPid' = topPid
          \/ topUp' = topUp \cup {s} /\ topPid' = s
      BY <1>3 DEF Launch
    <3>2. topUp \cup {s} \subseteq Scenarios /\ s \in 0..NScenarios
      OBVIOUS
    <3> QED
      BY <3>1, <3>2
  <2>2. runner' \in [Scenarios -> RunnerState]
    BY <1>3 DEF Launch, RunnerState, RunnerAlive
  <2>3. pc' \in DriverPc
    BY <1>3 DEF Launch, DriverPc
  <2>4. finish' \in {"none", "0", "1"}
    BY <1>3 DEF Launch
  <2>5. elapsed' \in BOOLEAN
    BY <1>3 DEF Launch
  <2>6. round' \in 0..2
    BY <1>3 DEF Launch
  <2>7. UNCHANGED <<s, idx, failFlag, fileVars, remote, agentUp, hostVars, drops>>
    BY <1>3 DEF Launch
  <2> QED
    BY <2>1, <2>2, <2>3, <2>4, <2>5, <2>6, <2>7
<1>4. CASE ReadFlag
  BY <1>4 DEF ReadFlag, DriverPc
<1>5. CASE WaitOver
  BY <1>5 DEF WaitOver, DriverPc
<1>6. CASE CheckAgent
  <2>1. failFlag' \in BOOLEAN
    BY <1>6 DEF CheckAgent
  <2>2. errMark' \in Seq(Blame)
    <3>1. [agent |-> idx, scenario |-> s] \in Blame
      BY DEF Blame
    <3>2. Append(errMark, [agent |-> idx, scenario |-> s]) \in Seq(Blame)
      BY <3>1
    <3> QED
      BY <1>6, <3>2 DEF CheckAgent
  <2>3. idx' \in Agents /\ pc' \in DriverPc
    BY <1>6, NextAgentType DEF CheckAgent, DriverPc
  <2>4. drops' \in 0..DropBudget
    BY <1>6, DropType DEF CheckAgent
  <2> QED
    BY <1>6, <2>1, <2>2, <2>3, <2>4 DEF CheckAgent
<1>7. CASE Reap
  <2>1. runner' \in [Scenarios -> RunnerState]
    BY <1>7 DEF Reap, RunnerState, RunnerAlive
  <2> QED
    BY <1>7, <2>1 DEF Reap, DriverPc
<1>8. CASE Fetch
  <2>1. fetched' \in [Scenarios -> ResultState \cup {"no"}]
    <3>1. PICK r \in ResultState : fetched' = [fetched EXCEPT ![s] = r]
      <4>1. s \in Masters
        BY DEF Masters
      <4>2. result[s] \in ResultState /\ "none" \in ResultState
        BY <4>1 DEF ResultState
      <4> QED
        BY <1>8, <4>2 DEF Fetch
    <3> QED
      BY <3>1
  <2>2. drops' \in 0..DropBudget
    BY <1>8, DropType DEF Fetch
  <2>3. s' \in Scenarios /\ pc' \in DriverPc
    BY <1>8 DEF Fetch, DriverPc
  <2> QED
    BY <1>8, <2>1, <2>2, <2>3 DEF Fetch
<1>9. CASE StopAgent
  <2>1. idx' \in Agents /\ pc' \in DriverPc
    BY <1>9, NextAgentType DEF StopAgent, DriverPc
  <2>2. drops' \in 0..DropBudget
    BY <1>9, DropType DEF StopAgent
  <2>3. agentUp' \in [Agents -> BOOLEAN]
    BY <1>9 DEF StopAgent
  <2> QED
    BY <1>9, <2>1, <2>2, <2>3 DEF StopAgent
<1>10. CASE Elapse
  BY <1>10 DEF Elapse
<1>11. ASSUME NEW k \in Scenarios, Runner(k) PROVE TypeOK'
  <2>1. runner' \in [Scenarios -> RunnerState] /\ remote' \in [Masters -> RemoteState]
    BY <1>11 DEF Runner, WriteZero, OpenSsh, SshReturns, WriteOne,
                 RunnerState, RunnerAlive, RemoteState
  <2>2. drops' \in 0..DropBudget
    BY <1>11, DropType DEF Runner, WriteZero, OpenSsh, SshReturns, WriteOne, Keep
  <2>3. flag' \in {"none", "0", "1"}
    BY <1>11 DEF Runner, WriteZero, OpenSsh, SshReturns, WriteOne
  <2>4. UNCHANGED RunnerVars
    BY <1>11 DEF Runner, WriteZero, OpenSsh, SshReturns, WriteOne
  <2> QED
    BY <2>1, <2>2, <2>3, <2>4
<1>12. ASSUME NEW k \in Scenarios, RemoteScript(k) PROVE TypeOK'
  <2>1. remote' \in [Masters -> RemoteState]
    BY <1>12, SMTT(60)
       DEF RemoteScript, RemoveOldResult, KillOldMaster, StartMaster, RemoteState
  <2>2. result' \in [Masters -> ResultState] /\ masterPid' \in Masters
    BY <1>12, SMTT(60)
       DEF RemoteScript, RemoveOldResult, KillOldMaster, StartMaster, ResultState
  <2>3. UNCHANGED RemoteVars
    BY <1>12 DEF RemoteScript, RemoveOldResult, KillOldMaster, StartMaster
  <2> QED
    BY <2>1, <2>2, <2>3
<1>13. ASSUME NEW k \in Masters, MasterExits(k) PROVE TypeOK'
  BY <1>13 DEF MasterExits, RemoteState, ResultState
<1>14. ASSUME NEW a \in Agents, AgentError(a) PROVE TypeOK'
  BY <1>14 DEF AgentError
<1>15. CASE Done \/ UNCHANGED vars
  BY <1>15 DEF Done, vars
<1> QED
  BY <1>1, <1>2, <1>3, <1>4, <1>5, <1>6, <1>7, <1>8, <1>9, <1>10, <1>11,
     <1>12, <1>13, <1>14, <1>15 DEF Next, Driver

\* The variables of a session always have their types.
THEOREM TypeCorrect == Safe => []TypeOK
BY InitType, NextType, PTL DEF Safe

-----------------------------------------------------------------------------
(* The inductive invariant behind the safety theorems, part by part        *)

\* Scenario k has been handled.
Over(k) == k < s \/ pc \in {"stopAgents", "done"}

\* Scenarios are handled in order and fetched when they are over.
OrderInv ==
  /\ \A k \in Scenarios : fetched[k] = "no" <=> ~Over(k)
  /\ pc \in {"stopAgents", "done"} => s = NScenarios

\* The error mark names the scenario during which the error was found.
BlameInv ==
  /\ ~MarkCleared => ~failFlag
  /\ ErrorMarkedOnce
  /\ failFlag => errMark[1].scenario \in 1..s

\* A master that stopped by itself left a complete result.
ExitInv == \A k \in Masters : remote[k] = "exited" => result[k] = "complete"

\* What the flag and the driver's copy of it tell about the background shell
\* of the scenario that is waited for.
FlagInv ==
  pc \in {"wait", "check"} =>
    /\ runner[s] \in RunnerAlive \cup {"ended"}
    /\ runner[s] \in {"flagged", "inssh", "returned"} => flag = "0"
    /\ runner[s] = "ended" => flag = "1"
    /\ round = 2 => runner[s] # "forked"
    /\ round = 2 /\ finish # "0" => runner[s] = "ended"
    /\ elapsed => round = 2

\* As long as ssh does not fail: a scenario that is still to come has no
\* process anywhere, and the background shell of the current one is past its
\* ssh only when the remote script has ended.
PhaseInv ==
  drops = 0 =>
    /\ \A k \in Scenarios :
         k > s \/ (k = s /\ pc \in {"startAgents", "clearMark", "launch"})
           => runner[k] = "none" /\ remote[k] = "none"
    /\ runner[s] \in {"forked", "flagged"} => remote[s] = "none"
    /\ runner[s] \in {"returned", "ended"} => remote[s] \in {"exited", "killed"}

\* As long as the session is healthy no master was killed, and the driver is
\* past the wait only when the master has stopped.
HealthInv ==
  Healthy =>
    /\ \A k \in Scenarios : Over(k) => remote[k] = "exited"
    /\ remote[s] # "killed"
    /\ WaitCoversMaster

\* Once any script of the session has done its kill, the master an earlier
\* session left is gone.
LeftoverInv ==
  0 \in Running =>
    /\ masterPid = 0
    /\ \A k \in Scenarios : remote[k] \in {"none", "arriving", "removed"}

-----------------------------------------------------------------------------
(* Lemmas: what a step leaves alone                                        *)

\* A step of a background shell touches the shell, the flag, and at the
\* start of ssh the remote script; nothing of the driver.
LEMMA RunnerFrame ==
  ASSUME TypeOK, NEW k \in Scenarios, Runner(k)
  PROVE  /\ UNCHANGED RunnerVars
         /\ runner[k] \in RunnerAlive
         /\ runner'[k] \in RunnerAlive \cup {"ended"}
         /\ \A j \in Scenarios : j # k => runner'[j] = runner[j]
         /\ \A j \in Masters : j # k => remote'[j] = remote[j]
<1> USE DEF TypeOK, RunnerVars, RunnerAlive
<1>1. CASE WriteZero(k)
  BY <1>1 DEF WriteZero
<1>2. CASE OpenSsh(k)
  BY <1>2 DEF OpenSsh
<1>3. CASE SshReturns(k)
  BY <1>3 DEF SshReturns
<1>4. CASE WriteOne(k)
  BY <1>4 DEF WriteOne
<1> QED
  BY <1>1, <1>2, <1>3, <1>4 DEF Runner

\* A step on the master host touches nothing of the driver's host.
LEMMA RemoteFrame ==
  ASSUME NEW k \in Masters, RemoteScript(k) \/ MasterExits(k)
  PROVE  UNCHANGED RemoteVars
BY DEF RemoteScript, RemoveOldResult, KillOldMaster, StartMaster, MasterExits

-----------------------------------------------------------------------------
(* One background shell at a time                                          *)

\* master_status.tmp is only ever written for the scenario that is waited
\* for: no background shell survives its scenario.
THEOREM LoneRunnerHolds == Safe => []LoneRunner
<1>1. Init => LoneRunner
  BY DEF Init, LoneRunner, RunnerAlive
<1>2. TypeOK /\ LoneRunner /\ [Next]_vars => LoneRunner'
  <2> SUFFICES ASSUME TypeOK, LoneRunner, [Next]_vars PROVE LoneRunner'
    OBVIOUS
  <2> USE DEF LoneRunner, RunnerAlive, driverVars, fileVars, procVars, hostVars
  <2>1. CASE StartAgent \/ ClearErrorMark
    BY <2>1 DEF StartAgent, ClearErrorMark, NextAgent
  <2>2. CASE Launch
    BY <2>2 DEF Launch, TypeOK
  <2>3. CASE ReadFlag \/ WaitOver \/ Elapse
    BY <2>3 DEF ReadFlag, WaitOver, Elapse
  <2>4. CASE CheckAgent
    <3>1. pc' \in {"wait", "check", "reap"} /\ UNCHANGED <<runner, s>>
      BY <2>4 DEF CheckAgent, NextAgent
    <3> QED
      BY <3>1
  <2>5. CASE Reap
    BY <2>5 DEF Reap, TypeOK
  <2>6. CASE Fetch \/ StopAgent
    BY <2>6 DEF Fetch, StopAgent, NextAgent
  <2>7. ASSUME NEW k \in Scenarios, Runner(k) PROVE LoneRunner'
    BY <2>7, RunnerFrame DEF RunnerVars
  <2>8. ASSUME NEW k \in Masters, RemoteScript(k) \/ MasterExits(k) PROVE LoneRunner'
    BY <2>8, RemoteFrame DEF RemoteVars
  <2>9. ASSUME NEW a \in Agents, AgentError(a) PROVE LoneRunner'
    BY <2>9 DEF AgentError
  <2>10. CASE Done \/ UNCHANGED vars
    BY <2>10 DEF Done, vars
  <2>11. Scenarios \subseteq Masters
    OBVIOUS
  <2> QED
    BY <2>1, <2>2, <2>3, <2>4, <2>5, <2>6, <2>7, <2>8, <2>9, <2>10, <2>11
       DEF Next, Driver
<1>3. QED
  BY <1>1, <1>2, TypeCorrect, PTL DEF Safe

-----------------------------------------------------------------------------
(* The parts of the invariant, one after the other                         *)

\* Scenarios are over in their order.
LEMMA OrderHolds == Safe => []OrderInv
<1>1. Init => OrderInv
  BY BenchAssumption DEF Init, OrderInv, Over
<1>2. TypeOK /\ OrderInv /\ [Next]_vars => OrderInv'
  <2> SUFFICES ASSUME TypeOK, OrderInv, [Next]_vars PROVE OrderInv'
    OBVIOUS
  <2> USE DEF OrderInv, Over, driverVars, fileVars, procVars, hostVars
  <2>1. CASE StartAgent \/ ClearErrorMark
    BY <2>1 DEF StartAgent, ClearErrorMark, NextAgent
  <2>2. CASE Launch \/ ReadFlag \/ WaitOver \/ Elapse \/ Reap
    BY <2>2 DEF Launch, ReadFlag, WaitOver, Elapse, Reap
  <2>3. CASE CheckAgent
    <3>1. pc' \in {"wait", "check", "reap"} /\ UNCHANGED <<fetched, s>> /\ pc = "check"
      BY <2>3 DEF CheckAgent, NextAgent
    <3> QED
      BY <3>1
  <2>4. CASE Fetch
    <3>1. PICK r \in ResultState : fetched' = [fetched EXCEPT ![s] = r]
      <4>1. result[s] \in ResultState /\ "none" \in ResultState
        BY DEF TypeOK, ResultState
      <4> QED
        BY <2>4, <4>1 DEF Fetch
    <3>2. \A k \in Scenarios : fetched'[k] = "no" <=> fetched[k] = "no" /\ k # s
      BY <3>1 DEF TypeOK, ResultState
    <3>3. CASE s < NScenarios
      BY <2>4, <3>2, <3>3, BenchAssumption DEF Fetch, TypeOK
    <3>4. CASE ~(s < NScenarios)
      BY <2>4, <3>2, <3>4, BenchAssumption DEF Fetch, TypeOK
    <3> QED
      BY <3>3, <3>4
  <2>5. CASE StopAgent
    <3>1. pc' \in {"stopAgents", "done"} /\ pc = "stopAgents" /\ UNCHANGED <<fetched, s>>
      BY <2>5 DEF StopAgent, NextAgent
    <3> QED
      BY <3>1
  <2>6. ASSUME NEW k \in Scenarios, Runner(k) PROVE OrderInv'
    BY <2>6, RunnerFrame DEF RunnerVars
  <2>7. ASSUME NEW k \in Masters, RemoteScript(k) \/ MasterExits(k) PROVE OrderInv'
    BY <2>7, RemoteFrame DEF RemoteVars
  <2>8. ASSUME NEW a \in Agents, AgentError(a) PROVE OrderInv'
    BY <2>8 DEF AgentError
  <2>9. CASE Done \/ UNCHANGED vars
    BY <2>9 DEF Done, vars
  <2>10. Scenarios \subseteq Masters
    OBVIOUS
  <2> QED
    BY <2>1, <2>2, <2>3, <2>4, <2>5, <2>6, <2>7, <2>8, <2>9, <2>10 DEF Next, Driver
<1>3. QED
  BY <1>1, <1>2, TypeCorrect, PTL DEF Safe

\* The error mark holds one record exactly when an error was found, and it
\* names a scenario that was started.
LEMMA BlameHolds == Safe => []BlameInv
<1>1. Init => BlameInv
  BY DEF Init, BlameInv, MarkCleared, ErrorMarkedOnce
<1>2. TypeOK /\ BlameInv /\ [Next]_vars => BlameInv'
  <2> SUFFICES ASSUME TypeOK, BlameInv, [Next]_vars PROVE BlameInv'
    OBVIOUS
  <2> USE DEF BlameInv, MarkCleared, ErrorMarkedOnce, driverVars, fileVars, procVars, hostVars
  <2>1. CASE StartAgent
    <3>1. UNCHANGED <<errMark, failFlag, s>> /\ pc = "startAgents"
      BY <2>1 DEF StartAgent
    <3>2. pc' \in {"startAgents", "clearMark"}
      BY <2>1 DEF StartAgent, NextAgent
    <3> QED
      BY <3>1, <3>2
  <2>2. CASE ClearErrorMark
    BY <2>2 DEF ClearErrorMark
  <2>3. CASE Launch \/ ReadFlag \/ WaitOver \/ Elapse \/ Reap
    <3>1. UNCHANGED <<errMark, failFlag, s>>
      BY <2>3 DEF Launch, ReadFlag, WaitOver, Elapse, Reap
    <3>2. MarkCleared /\ MarkCleared'
      BY <2>3 DEF Launch, ReadFlag, WaitOver, Elapse, Reap
    <3> QED
      BY <3>1, <3>2
  <2>4. CASE CheckAgent
    <3>1. MarkCleared /\ MarkCleared' /\ s' = s
      BY <2>4 DEF CheckAgent, NextAgent
    <3>2. CASE failFlag' = failFlag /\ errMark' = errMark
      BY <3>1, <3>2
    <3>3. CASE /\ ~failFlag /\ failFlag'
               /\ errMark' = Append(errMark, [agent |-> idx, scenario |-> s])
      <4>1. errMark \in Seq(Blame) /\ Len(errMark) = 0
        BY <3>1, <3>3 DEF TypeOK
      <4>2. [agent |-> idx, scenario |-> s] \in Blame
        BY DEF TypeOK, Blame
      <4>3. Len(errMark') = 1 /\ errMark'[1] = [agent |-> idx, scenario |-> s]
        BY <3>3, <4>1, <4>2
      <4>4. errMark'[1].scenario = s /\ s \in 1..s
        BY <4>3 DEF TypeOK
      <4> QED
        BY <3>1, <3>3, <4>3, <4>4
    <3> QED
      BY <2>4, <3>2, <3>3 DEF CheckAgent, TypeOK
  <2>5. CASE Fetch
    <3>1. UNCHANGED <<errMark, failFlag>> /\ MarkCleared /\ MarkCleared'
      BY <2>5 DEF Fetch
    <3>2. s' \in {s, s + 1}
      BY <2>5 DEF Fetch
    <3>3. 1..s \subseteq 1..s'
      BY <3>2 DEF TypeOK
    <3> QED
      BY <3>1, <3>3
  <2>6. CASE StopAgent
    <3>1. UNCHANGED <<errMark, failFlag, s>> /\ MarkCleared /\ MarkCleared'
      BY <2>6 DEF StopAgent, NextAgent
    <3> QED
      BY <3>1
  <2>7. ASSUME NEW k \in Scenarios, Runner(k) PROVE BlameInv'
    BY <2>7, RunnerFrame DEF RunnerVars
  <2>8. ASSUME NEW k \in Masters, RemoteScript(k) \/ MasterExits(k) PROVE BlameInv'
    BY <2>8, RemoteFrame DEF RemoteVars
  <2>9. ASSUME NEW a \in Agents, AgentError(a) PROVE BlameInv'
    BY <2>9 DEF AgentError
  <2>10. CASE Done \/ UNCHANGED vars
    BY <2>10 DEF Done, vars
  <2>11. Scenarios \subseteq Masters
    OBVIOUS
  <2> QED
    BY <2>1, <2>2, <2>3, <2>4, <2>5, <2>6, <2>7, <2>8, <2>9, <2>10, <2>11
       DEF Next, Driver
<1>3. QED
  BY <1>1, <1>2, TypeCorrect, PTL DEF Safe

\* The error mark exists exactly when an agent error was found.
THEOREM ErrorMarkHolds == Safe => []ErrorMarkedOnce
<1>1. BlameInv => ErrorMarkedOnce
  BY DEF BlameInv
<1> QED
  BY <1>1, BlameHolds, PTL

\* A master that stopped by itself left a complete result.
LEMMA ExitHolds == Safe => []ExitInv
<1>1. Init => ExitInv
  BY DEF Init, ExitInv
<1>2. TypeOK /\ ExitInv /\ [Next]_vars => ExitInv'
  <2> SUFFICES ASSUME TypeOK, ExitInv, [Next]_vars PROVE ExitInv'
    OBVIOUS
  <2> USE DEF ExitInv, TypeOK, driverVars, fileVars, procVars, hostVars
  <2>1. CASE Driver \/ Elapse
    <3>1. UNCHANGED <<remote, result>>
      BY <2>1 DEF Driver, StartAgent, ClearErrorMark, Launch, ReadFlag, WaitOver,
                  CheckAgent, Reap, Fetch, StopAgent, Elapse
    <3> QED
      BY <3>1
  <2>2. ASSUME NEW k \in Scenarios, Runner(k) PROVE ExitInv'
    <3>1. result' = result
      BY <2>2, RunnerFrame DEF RunnerVars
    <3>2. remote' = remote \/ remote' = [remote EXCEPT ![k] = "arriving"]
      BY <2>2 DEF Runner, WriteZero, OpenSsh, SshReturns, WriteOne
    <3> QED
      BY <3>1, <3>2
  <2>3. ASSUME NEW k \in Scenarios, RemoteScript(k) PROVE ExitInv'
    BY <2>3, ZenonT(60) DEF RemoteScript, RemoveOldResult, KillOldMaster, StartMaster
  <2>4. ASSUME NEW k \in Masters, MasterExits(k) PROVE ExitInv'
    BY <2>4 DEF MasterExits
  <2>5. ASSUME NEW a \in Agents, AgentError(a) PROVE ExitInv'
    BY <2>5 DEF AgentError
  <2>6. CASE Done \/ UNCHANGED vars
    BY <2>6 DEF Done, vars
  <2> QED
    BY <2>1, <2>2, <2>3, <2>4, <2>5, <2>6 DEF Next
<1>3. QED
  BY <1>1, <1>2, TypeCorrect, PTL DEF Safe

-----------------------------------------------------------------------------
(* What the driver knows when it leaves the wait, and what it fetches.     *)
(* From here on the launch is prompt: the background shell has lowered the *)
(* flag before the driver's second look.                                   *)

\* The flag and the driver's copy of it.
LEMMA FlagHolds == ASSUME PromptLaunch PROVE Safe => []FlagInv
<1>1. Init => FlagInv
  BY DEF Init, FlagInv
<1>2. TypeOK /\ LoneRunner /\ FlagInv /\ [Next]_vars => FlagInv'
  <2> SUFFICES ASSUME TypeOK, LoneRunner, FlagInv, [Next]_vars PROVE FlagInv'
    OBVIOUS
  <2> USE DEF FlagInv, RunnerAlive, driverVars, fileVars, procVars, hostVars
  <2>1. CASE StartAgent \/ ClearErrorMark \/ Reap \/ WaitOver \/ Fetch \/ StopAgent
    <3>1. pc' \notin {"wait", "check"}
      BY <2>1 DEF StartAgent, ClearErrorMark, Reap, WaitOver, Fetch, StopAgent, NextAgent
    <3> QED
      BY <3>1
  <2>2. CASE Launch
    <3>1. s' = s /\ runner'[s] = "forked" /\ round' = 0
      BY <2>2 DEF Launch, TypeOK
    <3>2. elapsed' = FALSE
      BY <2>2 DEF Launch
    <3> QED
      BY <3>1, <3>2
  <2>3. CASE ReadFlag
    <3>1. /\ pc = "wait" /\ UNCHANGED <<s, runner, flag, elapsed>> /\ finish' = flag
          /\ round' = IF round < 2 THEN round + 1 ELSE 2
      BY <2>3 DEF ReadFlag
    <3>2. round' = 2 => runner[s] # "forked"
      <4>1. CASE round = 1
        BY <2>3, <4>1 DEF ReadFlag
      <4>2. CASE round = 2
        BY <3>1, <4>2
      <4>3. CASE round = 0
        BY <3>1, <4>3
      <4> QED
        BY <4>1, <4>2, <4>3 DEF TypeOK
    <3>3. round = 2 => round' = 2
      BY <3>1
    <3> QED
      BY <3>1, <3>2, <3>3
  <2>4. CASE CheckAgent
    BY <2>4 DEF CheckAgent, NextAgent
  <2>5. CASE Elapse
    <3>1. pc \in {"wait", "check"} /\ UNCHANGED <<pc, s, runner, flag, finish, round>>
      BY <2>5 DEF Elapse
    <3>2. round = 2
      BY <2>5 DEF Elapse
    <3> QED
      BY <3>1, <3>2
  <2>6. ASSUME NEW k \in Scenarios, Runner(k) PROVE FlagInv'
    <3>1. UNCHANGED <<pc, s, finish, round, elapsed>> /\ k = s
      BY <2>6, RunnerFrame DEF RunnerVars, LoneRunner
    <3>2. CASE WriteZero(k)
      BY <3>1, <3>2 DEF WriteZero, TypeOK
    <3>3. CASE OpenSsh(k)
      BY <3>1, <3>3 DEF OpenSsh, TypeOK
    <3>4. CASE SshReturns(k)
      BY <3>1, <3>4 DEF SshReturns, TypeOK
    <3>5. CASE WriteOne(k)
      BY <3>1, <3>5 DEF WriteOne, TypeOK
    <3> QED
      BY <2>6, <3>2, <3>3, <3>4, <3>5 DEF Runner
  <2>7. ASSUME NEW k \in Masters, RemoteScript(k) \/ MasterExits(k) PROVE FlagInv'
    BY <2>7, RemoteFrame DEF RemoteVars
  <2>8. ASSUME NEW a \in Agents, AgentError(a) PROVE FlagInv'
    BY <2>8 DEF AgentError
  <2>9. CASE Done \/ UNCHANGED vars
    BY <2>9 DEF Done, vars
  <2>10. Scenarios \subseteq Masters
    OBVIOUS
  <2> QED
    BY <2>1, <2>2, <2>3, <2>4, <2>5, <2>6, <2>7, <2>8, <2>9, <2>10
       DEF Next, Driver
<1>3. QED
  BY <1>1, <1>2, TypeCorrect, LoneRunnerHolds, PTL DEF Safe

\* Without ssh failures the processes of a scenario follow one another.
LEMMA PhaseHolds == Safe => []PhaseInv
<1>1. Init => PhaseInv
  <2>1. Init => \A k \in Scenarios : runner[k] = "none" /\ remote[k] = "none"
    BY DEF Init
  <2>2. Init => s \in Scenarios
    BY BenchAssumption DEF Init
  <2> QED
    BY <2>1, <2>2 DEF PhaseInv
<1>2. TypeOK /\ LoneRunner /\ PhaseInv /\ [Next]_vars => PhaseInv'
  <2> SUFFICES ASSUME TypeOK, LoneRunner, PhaseInv, [Next]_vars, drops' = 0
               PROVE  PhaseInv'
    BY DEF PhaseInv
  <2>0. drops = 0
    <3>1. drops' = drops \/ drops' = drops + 1
      BY DEF Next, Driver, StartAgent, ClearErrorMark, Launch, ReadFlag, WaitOver,
             CheckAgent, Reap, Fetch, StopAgent, Elapse, Runner, WriteZero, OpenSsh,
             SshReturns, WriteOne, RemoteScript, RemoveOldResult, KillOldMaster,
             StartMaster, MasterExits, AgentError, Done, vars, RunnerVars, RemoteVars,
             driverVars, fileVars, procVars, hostVars, Drop, Keep
    <3> QED
      BY <3>1 DEF TypeOK
  <2> USE <2>0 DEF PhaseInv, driverVars, fileVars, procVars, hostVars
  <2>1. CASE StartAgent \/ ClearErrorMark
    BY <2>1 DEF StartAgent, ClearErrorMark, NextAgent
  <2>2. CASE Launch
    <3>1. UNCHANGED <<s, remote>> /\ pc = "launch" /\ pc' = "wait" /\ runner'[s] = "forked"
      BY <2>2 DEF Launch, TypeOK
    <3>2. \A k \in Scenarios : k # s => runner'[k] = runner[k]
      BY <2>2 DEF Launch, TypeOK
    <3> QED
      BY <3>1, <3>2 DEF TypeOK
  <2>3. CASE ReadFlag \/ WaitOver \/ Elapse
    BY <2>3 DEF ReadFlag, WaitOver, Elapse
  <2>4. CASE CheckAgent
    BY <2>4 DEF CheckAgent, NextAgent
  <2>5. CASE Reap
    <3>1. UNCHANGED <<s, remote>> /\ pc = "reap" /\ pc' = "fetch"
      BY <2>5 DEF Reap
    <3>2. /\ \A k \in Scenarios : k # s => runner'[k] = runner[k]
          /\ runner'[s] \in {runner[s], "killed"}
          /\ runner'[s] \notin RunnerAlive
      BY <2>5 DEF Reap, TypeOK, RunnerAlive
    <3> QED
      BY <3>1, <3>2 DEF TypeOK, RunnerAlive
  <2>6. CASE Fetch
    <3>1. UNCHANGED <<runner, remote>>
      BY <2>6 DEF Fetch
    <3>2. CASE s < NScenarios
      <4>1. s' = s + 1 /\ pc' = "launch"
        BY <2>6, <3>2 DEF Fetch
      <4>2. s + 1 \in Scenarios /\ s + 1 > s
        BY <3>2, BenchAssumption DEF TypeOK
      <4>3. runner[s + 1] = "none" /\ remote[s + 1] = "none"
        BY <4>2
      <4> QED
        BY <3>1, <4>1, <4>2, <4>3 DEF TypeOK
    <3>3. CASE ~(s < NScenarios)
      BY <2>6, <3>1, <3>3 DEF Fetch
    <3> QED
      BY <3>2, <3>3
  <2>7. CASE StopAgent
    BY <2>7 DEF StopAgent, NextAgent
  <2>8. ASSUME NEW k \in Scenarios, Runner(k) PROVE PhaseInv'
    <3>1. UNCHANGED <<pc, s>> /\ k = s /\ pc \in {"wait", "check", "reap"}
      BY <2>8, RunnerFrame DEF RunnerVars, LoneRunner
    <3>2. \A j \in Scenarios : j # s => runner'[j] = runner[j] /\ remote'[j] = remote[j]
      BY <2>8, <3>1, RunnerFrame
    <3>3. /\ runner'[s] \in {"forked", "flagged"} => remote'[s] = "none"
          /\ runner'[s] \in {"returned", "ended"} => remote'[s] \in {"exited", "killed"}
      <4>1. CASE WriteZero(s)
        BY <4>1 DEF WriteZero, TypeOK
      <4>2. CASE OpenSsh(s)
        <5>1. runner' = [runner EXCEPT ![s] = "inssh"]
          BY <4>2 DEF OpenSsh, Drop
        <5> QED
          BY <5>1 DEF TypeOK
      <4>3. CASE SshReturns(s)
        BY <4>3 DEF SshReturns, Drop, Keep, TypeOK
      <4>4. CASE WriteOne(s)
        BY <4>4 DEF WriteOne, TypeOK
      <4> QED
        BY <2>8, <3>1, <4>1, <4>2, <4>3, <4>4 DEF Runner
    <3> QED
      BY <3>1, <3>2, <3>3 DEF TypeOK
  <2>9. ASSUME NEW k \in Masters, RemoteScript(k) \/ MasterExits(k) PROVE PhaseInv'
    <3>1. UNCHANGED <<pc, s, runner>> /\ remote[k] \notin {"none", "exited", "killed"}
      BY <2>9, RemoteFrame DEF RemoteVars, RemoteScript, RemoveOldResult, KillOldMaster,
                               StartMaster, MasterExits
    <3>2. \A j \in Masters : \/ remote'[j] = remote[j]
                             \/ j = k
                             \/ remote[j] = "master" /\ remote'[j] = "killed"
      <4>1. CASE RemoveOldResult(k)
        BY <4>1 DEF RemoveOldResult, TypeOK
      <4>2. CASE KillOldMaster(k)
        BY <4>2 DEF KillOldMaster, TypeOK
      <4>3. CASE StartMaster(k)
        BY <4>3 DEF StartMaster, TypeOK
      <4>4. CASE MasterExits(k)
        BY <4>4 DEF MasterExits, TypeOK
      <4> QED
        BY <2>9, <4>1, <4>2, <4>3, <4>4 DEF RemoteScript
    <3> QED
      BY <3>1, <3>2 DEF TypeOK
  <2>10. ASSUME NEW a \in Agents, AgentError(a) PROVE PhaseInv'
    BY <2>10 DEF AgentError
  <2>11. CASE Done \/ UNCHANGED vars
    BY <2>11 DEF Done, vars
  <2>12. Scenarios \subseteq Masters
    OBVIOUS
  <2> QED
    BY <2>1, <2>2, <2>3, <2>4, <2>5, <2>6, <2>7, <2>8, <2>9, <2>10, <2>11, <2>12
       DEF Next, Driver
<1>3. QED
  BY <1>1, <1>2, TypeCorrect, LoneRunnerHolds, PTL DEF Safe

\* As long as the session is healthy no master was killed, and the driver
\* leaves the wait only when the master has stopped by itself.
LEMMA HealthHolds == ASSUME PromptLaunch PROVE Safe => []HealthInv
<1>1. Init => HealthInv
  <2> SUFFICES ASSUME Init PROVE HealthInv
    OBVIOUS
  <2>1. s \in Scenarios /\ pc = "startAgents" /\ s = 1
    BY BenchAssumption DEF Init
  <2>2. remote[s] = "none"
    BY <2>1 DEF Init
  <2> QED
    BY <2>1, <2>2 DEF HealthInv, Over, WaitCoversMaster
<1>2. /\ TypeOK /\ LoneRunner /\ FlagInv /\ PhaseInv /\ HealthInv /\ [Next]_vars
      => HealthInv'
  <2> SUFFICES ASSUME TypeOK, LoneRunner, FlagInv, PhaseInv, HealthInv, [Next]_vars, Healthy'
               PROVE  HealthInv'
    BY DEF HealthInv
  <2>0. Healthy
    <3>1. drops' = drops \/ drops' = drops + 1
      BY DEF Next, Driver, StartAgent, ClearErrorMark, Launch, ReadFlag, WaitOver,
             CheckAgent, Reap, Fetch, StopAgent, Elapse, Runner, WriteZero, OpenSsh,
             SshReturns, WriteOne, RemoteScript, RemoveOldResult, KillOldMaster,
             StartMaster, MasterExits, AgentError, Done, vars, RunnerVars, RemoteVars,
             driverVars, fileVars, procVars, hostVars, Drop, Keep
    <3>2. failFlag => failFlag'
      BY DEF Next, Driver, StartAgent, ClearErrorMark, Launch, ReadFlag, WaitOver,
             CheckAgent, Reap, Fetch, StopAgent, Elapse, Runner, WriteZero, OpenSsh,
             SshReturns, WriteOne, RemoteScript, RemoveOldResult, KillOldMaster,
             StartMaster, MasterExits, AgentError, Done, vars, RunnerVars, RemoteVars,
             driverVars, fileVars, procVars, hostVars
    <3> QED
      BY <3>1, <3>2 DEF Healthy, TypeOK
  <2>00. drops = 0 /\ ~failFlag
    BY <2>0 DEF Healthy
  <2> USE <2>0 DEF HealthInv, WaitCoversMaster, Over, driverVars, fileVars, procVars, hostVars
  <2>1. CASE StartAgent \/ ClearErrorMark
    <3>1. pc' \in {"startAgents", "clearMark", "launch"} /\ UNCHANGED <<s, remote>>
          /\ pc \in {"startAgents", "clearMark"}
      BY <2>1 DEF StartAgent, ClearErrorMark, NextAgent
    <3> QED
      BY <3>1
  <2>2. CASE Launch \/ ReadFlag
    <3>1. pc' \in {"wait", "check"} /\ UNCHANGED <<s, remote>> /\ pc \in {"launch", "wait"}
      BY <2>2 DEF Launch, ReadFlag
    <3> QED
      BY <3>1
  <2>3. CASE Elapse
    BY <2>3 DEF Elapse
  <2>4. CASE WaitOver
    <3>1. elapsed /\ finish # "0" /\ pc = "wait" /\ pc' = "reap"
          /\ UNCHANGED <<s, remote, elapsed>>
      BY <2>4 DEF WaitOver
    <3>2. runner[s] = "ended"
      BY <3>1 DEF FlagInv
    <3>3. remote[s] \in {"exited", "killed"}
      BY <2>00, <3>2 DEF PhaseInv
    <3>4. remote[s] = "exited"
      BY <3>3
    <3> QED
      BY <3>1, <3>4
  <2>5. CASE CheckAgent
    <3>1. pc = "check" /\ UNCHANGED <<s, remote, elapsed>>
      BY <2>5 DEF CheckAgent
    <3>2. ~failFlag'
      BY DEF Healthy
    <3>3. pc' \in {"check", "wait"}
      BY <2>5, <3>2 DEF CheckAgent, NextAgent
    <3> QED
      BY <3>1, <3>3
  <2>6. CASE Reap
    BY <2>6 DEF Reap
  <2>7. CASE Fetch
    <3>1. pc = "fetch" /\ UNCHANGED remote /\ remote[s] = "exited"
      BY <2>7 DEF Fetch
    <3>2. CASE s < NScenarios
      <4>1. s' = s + 1 /\ pc' = "launch" /\ s + 1 \in Scenarios /\ s + 1 > s
        BY <2>7, <3>2, BenchAssumption DEF Fetch, TypeOK
      <4>2. remote[s + 1] = "none"
        BY <2>00, <4>1 DEF PhaseInv
      <4>3. \A k \in Scenarios : k < s + 1 => k < s \/ k = s
        BY DEF TypeOK
      <4> QED
        BY <3>1, <4>1, <4>2, <4>3
    <3>3. CASE ~(s < NScenarios)
      <4>1. s' = s /\ pc' = "stopAgents" /\ s = NScenarios
        BY <2>7, <3>3, BenchAssumption DEF Fetch, TypeOK
      <4>2. \A k \in Scenarios : k < s \/ k = s
        BY <4>1, BenchAssumption
      <4> QED
        BY <3>1, <4>1, <4>2
    <3> QED
      BY <3>2, <3>3
  <2>8. CASE StopAgent
    <3>1. pc = "stopAgents" /\ pc' \in {"stopAgents", "done"} /\ UNCHANGED <<s, remote>>
      BY <2>8 DEF StopAgent, NextAgent
    <3> QED
      BY <3>1
  <2>9. ASSUME NEW k \in Scenarios, Runner(k) PROVE HealthInv'
    <3>1. UNCHANGED <<pc, s, elapsed>> /\ k = s /\ pc \in {"wait", "check", "reap"}
      BY <2>9, RunnerFrame DEF RunnerVars, LoneRunner
    <3>2. \A j \in Scenarios : j # s => remote'[j] = remote[j]
      BY <3>1, <2>9, RunnerFrame
    <3>3. remote'[s] = remote[s] \/ (remote'[s] = "arriving" /\ remote[s] = "none")
      <4>1. runner[s] = "flagged" => remote[s] = "none"
        BY <2>00 DEF PhaseInv
      <4>2. CASE WriteZero(k) \/ SshReturns(k) \/ WriteOne(k)
        BY <4>2 DEF WriteZero, SshReturns, WriteOne
      <4>3. CASE OpenSsh(k)
        <5>1. remote' = remote \/ remote' = [remote EXCEPT ![k] = "arriving"]
          BY <4>3 DEF OpenSsh
        <5>2. runner[s] = "flagged"
          BY <3>1, <4>3 DEF OpenSsh
        <5>3. remote[s] = "none"
          BY <4>1, <5>2
        <5>4. CASE remote' = remote
          BY <5>4
        <5>5. CASE remote' = [remote EXCEPT ![k] = "arriving"]
          <6>1. s \in Scenarios /\ k = s /\ remote \in [Masters -> RemoteState]
            BY <3>1 DEF TypeOK
          <6>2. Scenarios \subseteq Masters
            BY DEF Masters
          <6>3. remote'[s] = "arriving"
            BY <5>5, <6>1, <6>2
          <6> QED
            BY <5>3, <6>3
        <5> QED
          BY <5>1, <5>4, <5>5
      <4> QED
        BY <2>9, <4>2, <4>3 DEF Runner
    <3> QED
      BY <3>1, <3>2, <3>3 DEF TypeOK
  <2>10. ASSUME NEW k \in Scenarios, RemoteScript(k) PROVE HealthInv'
    <3>1. UNCHANGED <<pc, s, elapsed>> /\ remote[k] \notin {"none", "exited", "killed"}
      BY <2>10, RemoteFrame DEF RemoteVars, RemoteScript, RemoveOldResult, KillOldMaster,
                                StartMaster
    <3>2. k = s
      <4>1. k < s \/ k = s \/ k > s
        BY DEF TypeOK
      <4>2. k < s => remote[k] = "exited"
        OBVIOUS
      <4>3. k > s => remote[k] = "none"
        BY <2>00 DEF PhaseInv
      <4> QED
        BY <3>1, <4>1, <4>2, <4>3
    <3>3. \A j \in Masters : \/ remote'[j] = remote[j]
                             \/ j = k /\ remote'[j] # "killed"
                             \/ remote[j] = "master" /\ remote'[j] = "killed" /\ j # k
      <4>1. CASE RemoveOldResult(k)
        BY <4>1 DEF RemoveOldResult, TypeOK
      <4>2. CASE KillOldMaster(k)
        BY <4>2 DEF KillOldMaster, TypeOK
      <4>3. CASE StartMaster(k)
        BY <4>3 DEF StartMaster, TypeOK
      <4> QED
        BY <2>10, <4>1, <4>2, <4>3 DEF RemoteScript
    <3>4. \A j \in Scenarios : Over(j) /\ j # s => remote'[j] = "exited"
      BY <3>2, <3>3
    <3>5. remote'[s] # "killed" /\ remote[s] # "exited"
      BY <3>1, <3>2, <3>3
    <3> QED
      BY <3>1, <3>4, <3>5 DEF TypeOK
  <2>14. ASSUME NEW k \in Masters, MasterExits(k) PROVE HealthInv'
    <3>1. UNCHANGED <<pc, s, elapsed>>
      BY <2>14 DEF MasterExits, RemoteVars
    <3>2. \A j \in Masters : remote'[j] = remote[j] \/ remote'[j] = "exited"
      BY <2>14 DEF MasterExits, TypeOK
    <3>3. s \in Masters /\ Scenarios \subseteq Masters
      BY DEF TypeOK
    <3> QED
      BY <3>1, <3>2, <3>3
  <2>11. ASSUME NEW a \in Agents, AgentError(a) PROVE HealthInv'
    BY <2>11 DEF AgentError
  <2>12. CASE Done \/ UNCHANGED vars
    BY <2>12 DEF Done, vars
  <2>13. Scenarios \subseteq Masters
    OBVIOUS
  <2> QED
    BY <2>1, <2>2, <2>3, <2>4, <2>5, <2>6, <2>7, <2>8, <2>9, <2>10, <2>11, <2>12, <2>13,
       <2>14 DEF Next, Driver
<1>3. QED
  BY <1>1, <1>2, TypeCorrect, LoneRunnerHolds, FlagHolds, PhaseHolds, PTL DEF Safe

\* An error found by a step of CheckAgent is blamed on the scenario at hand.
LEMMA CheckBlames ==
  ASSUME TypeOK, BlameInv, CheckAgent
  PROVE  \/ failFlag' = failFlag /\ errMark' = errMark
         \/ ~failFlag /\ failFlag' /\ errMark'[1].scenario = s
<1>1. CASE failFlag' = failFlag /\ errMark' = errMark
  BY <1>1
<1>2. CASE /\ ~failFlag /\ failFlag'
           /\ errMark' = Append(errMark, [agent |-> idx, scenario |-> s])
  <2>1. errMark \in Seq(Blame) /\ Len(errMark) = 0
    <3>1. MarkCleared
      BY DEF CheckAgent, MarkCleared
    <3> QED
      BY <1>2, <3>1 DEF BlameInv, ErrorMarkedOnce, TypeOK
  <2>2. [agent |-> idx, scenario |-> s] \in Blame
    BY DEF TypeOK, Blame
  <2>3. errMark'[1] = [agent |-> idx, scenario |-> s]
    BY <1>2, <2>1, <2>2
  <2>4. errMark'[1].scenario = s
    BY <2>3
  <2> QED
    BY <1>2, <2>4
<1> QED
  BY <1>1, <1>2 DEF CheckAgent, TypeOK

\* A step that is not a fetch, a check or the clearing of the mark leaves the
\* fetched results and the blame alone, and no failed call is forgotten.
LEMMA DropsGrow == TypeOK /\ [Next]_vars /\ drops' = 0 => drops = 0
<1>1. TypeOK /\ [Next]_vars => drops' = drops \/ drops' = drops + 1
  BY DEF Next, Driver, StartAgent, ClearErrorMark, Launch, ReadFlag, WaitOver,
         CheckAgent, Reap, Fetch, StopAgent, Elapse, Runner, WriteZero, OpenSsh,
         SshReturns, WriteOne, RemoteScript, RemoveOldResult, KillOldMaster,
         StartMaster, MasterExits, AgentError, Done, vars, RunnerVars, RemoteVars,
         driverVars, fileVars, procVars, hostVars, Drop, Keep
<1> QED
  BY <1>1 DEF TypeOK

\* A result that was fetched before the first agent error is complete: it
\* was fetched after the master had stopped, and a master that stopped by
\* itself left a complete result.
THEOREM FetchHolds == ASSUME PromptLaunch PROVE Safe => []FetchedIsComplete
<1>1. Init => FetchedIsComplete
  BY DEF Init, FetchedIsComplete
<1>2. /\ TypeOK /\ OrderInv /\ BlameInv /\ ExitInv /\ HealthInv /\ FetchedIsComplete
      /\ [Next]_vars
      => FetchedIsComplete'
  <2> SUFFICES ASSUME TypeOK, OrderInv, BlameInv, ExitInv, HealthInv, FetchedIsComplete,
                      [Next]_vars, drops' = 0
               PROVE  \A k \in Scenarios :
                        fetched'[k] # "no" /\ (failFlag' => k < errMark'[1].scenario)
                          => fetched'[k] = "complete"
    BY DEF FetchedIsComplete
  <2>0. drops = 0
    BY DropsGrow
  <2> USE <2>0 DEF FetchedIsComplete, driverVars, fileVars, procVars, hostVars
  <2>1. CASE ClearErrorMark
    <3>1. ~failFlag /\ ~failFlag' /\ fetched' = fetched
      BY <2>1 DEF ClearErrorMark, BlameInv, MarkCleared
    <3> QED
      BY <3>1
  <2>2. CASE CheckAgent
    <3>1. fetched' = fetched
      BY <2>2 DEF CheckAgent
    <3>2. CASE failFlag' = failFlag /\ errMark' = errMark
      BY <3>1, <3>2
    <3>3. CASE ~failFlag /\ failFlag' /\ errMark'[1].scenario = s
      BY <3>1, <3>3
    <3> QED
      BY <2>2, <3>2, <3>3, CheckBlames
  <2>3. CASE Fetch
    <3>1. fetched' = [fetched EXCEPT ![s] = result[s]]
      BY <2>3 DEF Fetch, Drop, TypeOK
    <3>2. UNCHANGED <<failFlag, errMark>> /\ pc = "fetch"
      BY <2>3 DEF Fetch
    <3>3. failFlag => ~(s < errMark[1].scenario)
      BY DEF BlameInv, TypeOK
    <3>4. ~failFlag => result[s] = "complete"
      <4>1. ~failFlag => remote[s] = "exited"
        BY <3>2 DEF HealthInv, Healthy, WaitCoversMaster
      <4>2. s \in Masters
        BY DEF TypeOK
      <4> QED
        BY <4>1, <4>2 DEF ExitInv
    <3>5. \A k \in Scenarios : k # s => fetched'[k] = fetched[k]
      BY <3>1 DEF TypeOK
    <3>6. fetched'[s] = result[s]
      BY <3>1 DEF TypeOK
    <3> QED
      BY <3>2, <3>3, <3>4, <3>5, <3>6 DEF TypeOK
  <2>4. CASE UNCHANGED <<fetched, failFlag, errMark>>
    BY <2>4
  <2>5. \/ ClearErrorMark \/ CheckAgent \/ Fetch
        \/ UNCHANGED <<fetched, failFlag, errMark>>
    BY DEF Next, Driver, StartAgent, Launch, ReadFlag, WaitOver, Reap, StopAgent, Elapse,
           Runner, WriteZero, OpenSsh, SshReturns, WriteOne, RemoteScript,
           RemoveOldResult, KillOldMaster, StartMaster, MasterExits, AgentError, Done,
           vars, RunnerVars, RemoteVars
  <2> QED
    BY <2>1, <2>2, <2>3, <2>4, <2>5
<1>3. QED
  BY <1>1, <1>2, TypeCorrect, OrderHolds, BlameHolds, ExitHolds, HealthHolds, PTL DEF Safe

\* The driver leaves the wait by itself only after the master has stopped.
THEOREM WaitHolds == ASSUME PromptLaunch PROVE Safe => []WaitCoversMaster
<1>1. HealthInv => WaitCoversMaster
  BY DEF HealthInv, WaitCoversMaster
<1> QED
  BY <1>1, HealthHolds, PTL

-----------------------------------------------------------------------------
(* One master at a time                                                    *)

\* The pid file names the master of an earlier session until a script of
\* this session has killed it.
LEMMA LeftoverHolds == Safe => []LeftoverInv
<1>1. Init => LeftoverInv
  BY DEF Init, LeftoverInv
<1>2. TypeOK /\ LeftoverInv /\ [Next]_vars => LeftoverInv'
  <2> SUFFICES ASSUME TypeOK, LeftoverInv, [Next]_vars, remote'[0] = "master"
               PROVE  /\ masterPid' = 0
                      /\ \A k \in Scenarios : remote'[k] \in {"none", "arriving", "removed"}
    BY DEF LeftoverInv, Running
  <2> USE DEF LeftoverInv, Running, TypeOK, driverVars, fileVars, procVars, hostVars
  <2>0. 0 \in Masters /\ Scenarios \subseteq Masters /\ 0 \notin Scenarios
    BY BenchAssumption
  <2>1. CASE Driver \/ Elapse
    <3>1. UNCHANGED <<remote, masterPid>>
      BY <2>1 DEF Driver, StartAgent, ClearErrorMark, Launch, ReadFlag, WaitOver,
                  CheckAgent, Reap, Fetch, StopAgent, Elapse
    <3> QED
      BY <2>0, <3>1
  <2>2. ASSUME NEW k \in Scenarios, Runner(k)
        PROVE  /\ masterPid' = 0
               /\ \A j \in Scenarios : remote'[j] \in {"none", "arriving", "removed"}
    <3>1. masterPid' = masterPid
      BY <2>2, RunnerFrame DEF RunnerVars
    <3>2. remote' = remote \/ remote' = [remote EXCEPT ![k] = "arriving"]
      BY <2>2 DEF Runner, WriteZero, OpenSsh, SshReturns, WriteOne
    <3> QED
      BY <2>0, <3>1, <3>2
  <2>3. ASSUME NEW k \in Scenarios, RemoteScript(k)
        PROVE  /\ masterPid' = 0
               /\ \A j \in Scenarios : remote'[j] \in {"none", "arriving", "removed"}
    <3>1. CASE RemoveOldResult(k)
      BY <2>0, <3>1 DEF RemoveOldResult
    <3>2. CASE KillOldMaster(k)
      <4>1. remote[0] = "master" => masterPid = 0
        BY <2>0
      <4>2. remote[0] = "master" => remote'[0] = "killed"
        BY <2>0, <3>2, <4>1 DEF KillOldMaster
      <4>3. remote[0] # "master" => remote'[0] # "master"
        BY <2>0, <3>2 DEF KillOldMaster
      <4> QED
        BY <4>2, <4>3
    <3>3. CASE StartMaster(k)
      BY <2>0, <3>3 DEF StartMaster
    <3> QED
      BY <2>3, <3>1, <3>2, <3>3 DEF RemoteScript
  <2>4. ASSUME NEW k \in Masters, MasterExits(k)
        PROVE  /\ masterPid' = 0
               /\ \A j \in Scenarios : remote'[j] \in {"none", "arriving", "removed"}
    <3>1. masterPid' = masterPid /\ remote' = [remote EXCEPT ![k] = "exited"]
          /\ remote[k] = "master"
      BY <2>4 DEF MasterExits
    <3>2. k # 0 /\ remote[0] = "master"
      BY <2>0, <3>1
    <3> QED
      BY <2>0, <3>1, <3>2
  <2>5. ASSUME NEW a \in Agents, AgentError(a)
        PROVE  UNCHANGED <<remote, masterPid>>
    BY <2>5 DEF AgentError
  <2>6. CASE Done \/ UNCHANGED vars
    BY <2>0, <2>6 DEF Done, vars
  <2> QED
    BY <2>0, <2>1, <2>2, <2>3, <2>4, <2>5, <2>6 DEF Next
<1>3. QED
  BY <1>1, <1>2, TypeCorrect, PTL DEF Safe

\* While the session is healthy only the master of the scenario at hand can
\* run, and a master left by an earlier session ends with the first kill.
THEOREM ExclusiveHolds == ASSUME PromptLaunch PROVE Safe => []ExclusiveMaster
<1>1. TypeOK /\ PhaseInv /\ HealthInv /\ LeftoverInv => ExclusiveMaster
  <2> SUFFICES ASSUME TypeOK, PhaseInv, HealthInv, LeftoverInv PROVE ExclusiveMaster
    OBVIOUS
  <2>1. ASSUME Healthy PROVE Cardinality(Running \ {0}) <= 1
    <3>1. Running \ {0} \subseteq {s}
      <4> SUFFICES ASSUME NEW k \in Scenarios, remote[k] = "master" PROVE k = s
        BY BenchAssumption DEF Running
      <4>1. k < s \/ k = s \/ k > s
        BY DEF TypeOK
      <4>2. k < s => remote[k] = "exited"
        BY <2>1 DEF HealthInv, Over
      <4>3. k > s => remote[k] = "none"
        BY <2>1 DEF PhaseInv, Healthy
      <4> QED
        BY <4>1, <4>2, <4>3
    <3>2. IsFiniteSet({s}) /\ Cardinality({s}) = 1
      BY FS_Singleton
    <3>3. /\ IsFiniteSet(Running \ {0})
          /\ Cardinality(Running \ {0}) <= Cardinality({s})
      BY <3>1, <3>2, FS_Subset
    <3> QED
      BY <3>2, <3>3
  <2> QED
    BY <2>1 DEF ExclusiveMaster, LeftoverInv
<1> QED
  BY <1>1, TypeCorrect, PhaseHolds, HealthHolds, LeftoverHolds, PTL

\* While the session is healthy no script kills the master of another
\* scenario: the only script at work belongs to the scenario at hand.
THEOREM UndisturbedHolds == ASSUME PromptLaunch PROVE Safe => MastersRunUndisturbed
<1>1. TypeOK /\ PhaseInv /\ HealthInv /\ [Next]_vars
      => [Healthy => \A k \in Scenarios : remote[k] = "master" => remote'[k] # "killed"]_vars
  <2> SUFFICES ASSUME TypeOK, PhaseInv, HealthInv, [Next]_vars, Healthy,
                      NEW k \in Scenarios, remote[k] = "master"
               PROVE  remote'[k] # "killed"
    OBVIOUS
  <2> USE DEF driverVars, fileVars, procVars, hostVars
  <2>0. remote \in [Masters -> RemoteState] /\ s \in Scenarios /\ Scenarios \subseteq Masters
    BY DEF TypeOK
  <2>1. CASE Driver \/ Elapse
    BY <2>1 DEF Driver, StartAgent, ClearErrorMark, Launch, ReadFlag, WaitOver,
                CheckAgent, Reap, Fetch, StopAgent, Elapse
  <2>2. ASSUME NEW j \in Scenarios, Runner(j) PROVE remote'[k] # "killed"
    <3>1. remote' = remote \/ remote' = [remote EXCEPT ![j] = "arriving"]
      BY <2>2 DEF Runner, WriteZero, OpenSsh, SshReturns, WriteOne
    <3>2. remote'[k] \in {remote[k], "arriving"}
      BY <2>0, <3>1
    <3> QED
      BY <3>2
  <2>3. ASSUME NEW j \in Scenarios, RemoteScript(j) PROVE remote'[k] # "killed"
    <3>1. CASE RemoveOldResult(j)
      BY <2>0, <3>1 DEF RemoveOldResult
    <3>2. CASE KillOldMaster(j)
      <4>1. \A i \in Scenarios : i # s => remote[i] \in {"none", "exited"}
        <5> SUFFICES ASSUME NEW i \in Scenarios, i # s PROVE remote[i] \in {"none", "exited"}
          OBVIOUS
        <5>1. CASE i < s
          BY <5>1 DEF HealthInv, Over
        <5>2. CASE i > s
          BY <5>2 DEF PhaseInv, Healthy
        <5> QED
          BY <2>0, <5>1, <5>2
      <4>2. k = s /\ remote[j] = "removed"
        BY <3>2, <4>1 DEF KillOldMaster
      <4>3. j = s
        BY <4>1, <4>2
      <4> QED
        BY <4>2, <4>3
    <3>3. CASE StartMaster(j)
      BY <2>0, <3>3 DEF StartMaster
    <3> QED
      BY <2>3, <3>1, <3>2, <3>3 DEF RemoteScript
  <2>4. ASSUME NEW j \in Masters, MasterExits(j) PROVE remote'[k] # "killed"
    BY <2>0, <2>4 DEF MasterExits
  <2>5. ASSUME NEW a \in Agents, AgentError(a) PROVE remote'[k] # "killed"
    BY <2>5 DEF AgentError
  <2>6. CASE Done \/ UNCHANGED vars
    BY <2>6 DEF Done, vars
  <2> QED
    BY <2>0, <2>1, <2>2, <2>3, <2>4, <2>5, <2>6 DEF Next
<1> QED
  BY <1>1, TypeCorrect, PhaseHolds, HealthHolds, PTL DEF Safe, MastersRunUndisturbed

-----------------------------------------------------------------------------
(* The end of a session                                                    *)

\* A collector runs only while its scenario is waited for, a scenario that was
\* launched has had its shell, and the loops over the agents start at the first.
ReapedInv ==
  /\ topUp \subseteq {topPid}
  /\ pc \notin {"wait", "check", "reap"} => topUp = {}
  /\ \A k \in Scenarios :
       Over(k) \/ (k = s /\ pc \notin {"startAgents", "clearMark", "launch"})
         => runner[k] # "none"
  /\ pc \notin {"startAgents", "check", "stopAgents"} => idx = 1

\* Without a failed call, agents the loop over them has passed are stopped.
StoppedInv ==
  drops = 0 =>
    /\ pc = "stopAgents" => \A a \in Agents : a < idx => ~agentUp[a]
    /\ pc = "done" => \A a \in Agents : ~agentUp[a]

LEMMA ReapedHolds == Safe => []ReapedInv
<1>1. Init => ReapedInv
  BY BenchAssumption DEF Init, ReapedInv, Over
<1>2. TypeOK /\ OrderInv /\ ReapedInv /\ [Next]_vars => ReapedInv'
  <2> SUFFICES ASSUME TypeOK, OrderInv, ReapedInv, [Next]_vars PROVE ReapedInv'
    OBVIOUS
  <2> USE DEF ReapedInv, Over, driverVars, fileVars, procVars, hostVars
  <2>1. CASE StartAgent \/ ClearErrorMark
    BY <2>1 DEF StartAgent, ClearErrorMark, NextAgent
  <2>2. CASE Launch
    <3>1. /\ pc = "launch" /\ pc' = "wait" /\ s' = s /\ idx' = idx
          /\ topUp' \subseteq {topPid'}
      BY <2>2 DEF Launch
    <3>2. \A k \in Scenarios : runner'[k] = IF k = s THEN "forked" ELSE runner[k]
      BY <2>2 DEF Launch, TypeOK
    <3> QED
      BY <3>1, <3>2
  <2>3. CASE ReadFlag \/ WaitOver \/ Elapse
    BY <2>3 DEF ReadFlag, WaitOver, Elapse
  <2>4. CASE CheckAgent
    <3>1. /\ pc = "check" /\ UNCHANGED <<topUp, topPid, runner, s>>
          /\ pc' = "check" \/ (pc' \in {"wait", "reap"} /\ idx' = 1)
      BY <2>4 DEF CheckAgent, NextAgent
    <3> QED
      BY <3>1
  <2>5. CASE Reap
    <3>1. /\ pc = "reap" /\ pc' = "fetch" /\ s' = s /\ idx' = idx
          /\ topPid' = topPid /\ topUp' = topUp \ {topPid}
      BY <2>5 DEF Reap
    <3>2. \A k \in Scenarios : runner'[k] \in {runner[k], "killed"}
      BY <2>5 DEF Reap, TypeOK
    <3> QED
      BY <3>1, <3>2
  <2>6. CASE Fetch
    <3>1. /\ pc = "fetch" /\ UNCHANGED <<topUp, topPid, runner, idx>>
          /\ \/ s' = s + 1 /\ pc' = "launch"
             \/ s' = s /\ s = NScenarios /\ pc' = "stopAgents"
      BY <2>6, BenchAssumption DEF Fetch, TypeOK
    <3>2. \A k \in Scenarios : k <= s => runner[k] # "none"
      BY <3>1 DEF TypeOK
    <3> QED
      BY <3>1, <3>2 DEF TypeOK
  <2>7. CASE StopAgent
    <3>1. /\ pc = "stopAgents" /\ UNCHANGED <<topUp, topPid, runner, s>>
          /\ pc' = "stopAgents" \/ (pc' = "done" /\ idx' = 1)
      BY <2>7 DEF StopAgent, NextAgent
    <3> QED
      BY <3>1
  <2>8. ASSUME NEW k \in Scenarios, Runner(k) PROVE ReapedInv'
    <3>1. \A j \in Scenarios : runner[j] # "none" => runner'[j] # "none"
      BY <2>8, RunnerFrame DEF RunnerAlive
    <3> QED
      BY <2>8, <3>1, RunnerFrame DEF RunnerVars
  <2>9. ASSUME NEW k \in Masters, RemoteScript(k) \/ MasterExits(k) PROVE ReapedInv'
    BY <2>9, RemoteFrame DEF RemoteVars
  <2>10. ASSUME NEW a \in Agents, AgentError(a) PROVE ReapedInv'
    BY <2>10 DEF AgentError
  <2>11. CASE Done \/ UNCHANGED vars
    BY <2>11 DEF Done, vars
  <2>12. Scenarios \subseteq Masters
    OBVIOUS
  <2> QED
    BY <2>1, <2>2, <2>3, <2>4, <2>5, <2>6, <2>7, <2>8, <2>9, <2>10, <2>11, <2>12
       DEF Next, Driver
<1>3. QED
  BY <1>1, <1>2, TypeCorrect, OrderHolds, PTL DEF Safe

LEMMA StoppedHolds == Safe => []StoppedInv
<1>1. Init => StoppedInv
  BY DEF Init, StoppedInv
<1>2. TypeOK /\ ReapedInv /\ StoppedInv /\ [Next]_vars => StoppedInv'
  <2> SUFFICES ASSUME TypeOK, ReapedInv, StoppedInv, [Next]_vars, drops' = 0
               PROVE  StoppedInv'
    BY DEF StoppedInv
  <2>0. drops = 0
    BY DropsGrow
  <2> USE DEF StoppedInv, driverVars, fileVars, procVars, hostVars
  <2>1. CASE \/ StartAgent \/ ClearErrorMark \/ Launch \/ ReadFlag \/ WaitOver
             \/ CheckAgent \/ Reap \/ Elapse
    <3>1. pc' \in {"startAgents", "clearMark", "wait", "check", "reap", "launch", "fetch"}
      BY <2>1 DEF StartAgent, ClearErrorMark, Launch, ReadFlag, WaitOver, CheckAgent,
                  Reap, Elapse, NextAgent
    <3> QED
      BY <3>1
  <2>2. CASE Fetch
    <3>1. idx' = 1 /\ pc' \in {"launch", "stopAgents"}
      BY <2>2 DEF Fetch, ReapedInv
    <3> QED
      BY <3>1
  <2>3. CASE StopAgent
    <3>1. pc = "stopAgents" /\ agentUp' = [agentUp EXCEPT ![idx] = FALSE]
      BY <2>0, <2>3 DEF StopAgent, Drop
    <3>2. \A a \in Agents : a <= idx => ~agentUp'[a]
      BY <2>0, <3>1 DEF TypeOK
    <3>3. \/ pc' = "stopAgents" /\ idx' = idx + 1
          \/ pc' = "done" /\ NAgents <= idx
      BY <2>3, <3>1, BenchAssumption DEF StopAgent, NextAgent, TypeOK
    <3> QED
      BY <3>2, <3>3, BenchAssumption DEF TypeOK
  <2>4. ASSUME NEW k \in Scenarios, Runner(k) PROVE StoppedInv'
    BY <2>0, <2>4, RunnerFrame DEF RunnerVars
  <2>5. ASSUME NEW k \in Masters, RemoteScript(k) \/ MasterExits(k) PROVE StoppedInv'
    BY <2>0, <2>5, RemoteFrame DEF RemoteVars
  <2>6. ASSUME NEW a \in Agents, AgentError(a) PROVE StoppedInv'
    BY <2>0, <2>6 DEF AgentError
  <2>7. CASE Done \/ UNCHANGED vars
    BY <2>0, <2>7 DEF Done, vars
  <2>8. Scenarios \subseteq Masters
    OBVIOUS
  <2> QED
    BY <2>1, <2>2, <2>3, <2>4, <2>5, <2>6, <2>7, <2>8 DEF Next, Driver
<1>3. QED
  BY <1>1, <1>2, TypeCorrect, ReapedHolds, PTL DEF Safe

\* A session that ends leaves no collector and no shell; without a failed call
\* no agent; and if no agent failed no master, not even that of an earlier one.
THEOREM CleanEndHolds == ASSUME PromptLaunch PROVE Safe => []CleanEnd
<1>1. /\ TypeOK /\ LoneRunner /\ ReapedInv /\ StoppedInv /\ HealthInv /\ LeftoverInv
      => CleanEnd
  <2> SUFFICES ASSUME TypeOK, LoneRunner, ReapedInv, StoppedInv, HealthInv, LeftoverInv,
                      pc = "done"
               PROVE  CleanEnd
    BY DEF CleanEnd
  <2>1. topUp = {}
    BY DEF ReapedInv
  <2>2. ASSUME NEW k \in Scenarios PROVE runner[k] \in {"ended", "killed"}
    <3>1. runner[k] # "none"
      BY DEF ReapedInv, Over
    <3>2. runner[k] \notin RunnerAlive
      BY DEF LoneRunner
    <3> QED
      BY <3>1, <3>2 DEF TypeOK, RunnerState
  <2>3. drops = 0 => \A a \in Agents : ~agentUp[a]
    BY DEF StoppedInv
  <2>4. ASSUME Healthy PROVE Running = {}
    <3>1. \A k \in Scenarios : remote[k] = "exited"
      BY <2>4 DEF HealthInv, Over
    <3>2. 1 \in Scenarios /\ 1 \in Masters
      BY BenchAssumption
    <3>3. 0 \notin Running
      BY <3>1, <3>2 DEF LeftoverInv
    <3> QED
      BY <3>1, <3>3, BenchAssumption DEF Running
  <2> QED
    BY <2>1, <2>2, <2>3, <2>4 DEF CleanEnd
<1> QED
  BY <1>1, TypeCorrect, LoneRunnerHolds, ReapedHolds, StoppedHolds, HealthHolds,
     LeftoverHolds, PTL

\* CleanSession: what the end of a session rests on, at every moment.
THEOREM SessionClean == ASSUME PromptLaunch PROVE Safe => []CleanSession
<1>1. TypeOK /\ LoneRunner /\ ErrorMarkedOnce /\ CleanEnd => CleanSession
  BY DEF CleanSession
<1> QED
  BY <1>1, TypeCorrect, LoneRunnerHolds, ErrorMarkHolds, CleanEndHolds, PTL

-----------------------------------------------------------------------------
(* The session implements the plan                                         *)

\* With a prompt launch, every step of a session handles the next scenario
\* of the plan, breaks it, or is invisible, whatever agents and calls fail.
THEOREM SessionImplementsPlan ==
  ASSUME PromptLaunch
  PROVE  Safe => Plan!PlanSafe
<1> USE DEF Plan!Scenarios, Plan!planVars, Outcome
<1>1. Init => Plan!PlanInit
  BY DEF Init, Plan!PlanInit, Healthy
<1>2. /\ TypeOK /\ TypeOK' /\ OrderInv /\ ExitInv /\ HealthInv /\ [Next]_vars
      => [Plan!PlanNext]_(Plan!planVars)
  <2> SUFFICES ASSUME TypeOK, TypeOK', OrderInv, ExitInv, HealthInv, [Next]_vars
               PROVE  Plan!PlanNext \/ UNCHANGED Plan!planVars
    OBVIOUS
  <2> USE DEF driverVars, fileVars, procVars, hostVars
  <2>0. ~Healthy => ~Healthy'
    <3>1. drops' = drops \/ drops' = drops + 1
      BY DEF Next, Driver, StartAgent, ClearErrorMark, Launch, ReadFlag, WaitOver,
             CheckAgent, Reap, Fetch, StopAgent, Elapse, Runner, WriteZero, OpenSsh,
             SshReturns, WriteOne, RemoteScript, RemoveOldResult, KillOldMaster,
             StartMaster, MasterExits, AgentError, Done, vars, Drop, Keep,
             RunnerVars, RemoteVars
    <3>2. failFlag => failFlag'
      BY DEF Next, Driver, StartAgent, ClearErrorMark, Launch, ReadFlag, WaitOver,
             CheckAgent, Reap, Fetch, StopAgent, Elapse, Runner, WriteZero, OpenSsh,
             SshReturns, WriteOne, RemoteScript, RemoveOldResult, KillOldMaster,
             StartMaster, MasterExits, AgentError, Done, vars, Drop, Keep,
             RunnerVars, RemoteVars
    <3> QED
      BY <3>1, <3>2 DEF Healthy, TypeOK
  <2>1. CASE Fetch
    <3> DEFINE kept == fetched'[s]
    <3>1. /\ failFlag' = failFlag
          /\ \/ kept = result[s] /\ Healthy' = Healthy
             \/ kept = "none" /\ ~Healthy'
          /\ fetched' = [fetched EXCEPT ![s] = kept]
      BY <2>1 DEF Fetch, Drop, Keep, Healthy, TypeOK
    <3>2. kept # "no"
      <4>1. s \in Masters /\ result \in [Masters -> ResultState]
        BY DEF TypeOK
      <4>2. result[s] \in ResultState
        BY <4>1
      <4> QED
        BY <3>1, <4>2 DEF ResultState
    <3>3. Healthy' => kept = "complete"
      <4>1. pc = "fetch" /\ s \in Masters
        BY <2>1 DEF Fetch, TypeOK
      <4>2. Healthy => remote[s] = "exited"
        BY <4>1 DEF HealthInv, WaitCoversMaster
      <4> QED
        BY <3>1, <4>1, <4>2 DEF ExitInv
    <3>4. fetched[s] = "no" /\ \A j \in 1..(s-1) : j \in Scenarios /\ fetched[j] # "no"
      <4>1. pc = "fetch" /\ s \in Scenarios
        BY <2>1 DEF Fetch, TypeOK
      <4>2. \A j \in 1..(s-1) : j \in Scenarios /\ j < s
        BY <4>1, BenchAssumption
      <4>3. ~Over(s) /\ \A j \in Scenarios : j < s => Over(j)
        BY <4>1 DEF Over
      <4> QED
        BY <4>1, <4>2, <4>3 DEF OrderInv
    <3> DEFINE o == IF kept = "complete" THEN "measured" ELSE "doubtful"
    <3>5. [j \in Scenarios |-> Outcome(j)]'
            = [[j \in Scenarios |-> Outcome(j)] EXCEPT ![s] = o]
      BY <3>1, <3>2 DEF TypeOK
    <3>6. o \in (IF ~Healthy' THEN {"measured", "doubtful"} ELSE {"measured"})
      BY <3>3
    <3>7. [j \in Scenarios |-> Outcome(j)][s] = "pending"
      BY <3>4 DEF TypeOK
    <3>8. \A j \in 1..(s-1) : [i \in Scenarios |-> Outcome(i)][j] # "pending"
      BY <3>4
    <3>9. PICK k \in Scenarios : k = s
      BY DEF TypeOK
    <3>10. (~Healthy') \in {~Healthy, TRUE}
      BY <2>0
    <3>11. Plan!Handle(k)
      BY <3>5, <3>6, <3>7, <3>8, <3>9, <3>10 DEF Plan!Handle
    <3> QED
      BY <3>11 DEF Plan!PlanNext
  <2>2. CASE UNCHANGED fetched
    <3>1. UNCHANGED [j \in Scenarios |-> Outcome(j)]
      BY <2>2
    <3>2. CASE Healthy' = Healthy
      BY <3>1, <3>2
    <3>3. CASE Healthy /\ ~Healthy'
      BY <3>1, <3>3 DEF Plan!Break, Plan!PlanNext
    <3> QED
      BY <2>0, <3>2, <3>3 DEF Healthy
  <2>3. Fetch \/ UNCHANGED fetched
    BY DEF Next, Driver, StartAgent, ClearErrorMark, Launch, ReadFlag, WaitOver,
           CheckAgent, Reap, StopAgent, Elapse, Runner, WriteZero, OpenSsh, SshReturns,
           WriteOne, RemoteScript, RemoveOldResult, KillOldMaster, StartMaster,
           MasterExits, AgentError, Done, vars, RunnerVars, RemoteVars
  <2> QED
    BY <2>1, <2>2, <2>3
<1> QED
  BY <1>1, <1>2, TypeCorrect, OrderHolds, ExitHolds, HealthHolds, PTL
     DEF Safe, Plan!PlanSafe

=============================================================================
