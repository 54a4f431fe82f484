------------------------------- MODULE StepUp -------------------------------
(***************************************************************************)
(* jenkins-dogfood-run-sz.sh looks for the load a service unit bears: for  *)
(* every unit and message size it creates a service, lifts the limits of   *)
(* its pods if asked to, and then runs jenkins-run-websocket.sh again and  *)
(* again, with more connections each time, until a session has reported an *)
(* error or MaxRetry tries are made.  jenkins-run-websocket.sh starts the  *)
(* app server, runs one session (module WebsocketBench) and stops it.      *)
(*                                                                         *)
(* The tries communicate through jenkins_env.sh and the result directory:  *)
(* a session clears error.mark when it starts and writes it on an error,   *)
(* and the loop of tries looks whether the file is there.                  *)
(***************************************************************************)
EXTENDS Naturals, Sequences

CONSTANTS
  UnitList,         \* the units, in the order in which they are run
  SizeList,         \* SendSizeList
  MaxRetry,
  MaxConnections,   \* MaxConnectionNumber
  FaultBudget       \* bound: calls that fail and waits that run out

Kinds == {"echo", "broadcast"}

CONSTANTS Start, Step    \* [Kinds -> numbers] of connections

ASSUME StepUpAssumption ==
  /\ UnitList \in Seq(Nat \ {0}) /\ UnitList # <<>>
  /\ SizeList \in Seq(Nat) /\ SizeList # <<>>
  /\ MaxRetry \in Nat
  /\ MaxConnections \in Nat /\ FaultBudget \in Nat
  /\ Start \in [Kinds -> Nat \ {0}] /\ Step \in [Kinds -> Nat \ {0}]

VARIABLES
  (* the job's shell *)
  pc,
  names,        \* bench_name_list
  steps,        \* EchoStepList and BroadcastStepList are given
  disable,      \* DisableThrottling
  ui, si,       \* positions in UnitList and SizeList
  i,            \* tries made
  number,       \* echo_ and broadcast_connection_number; the senders are as many
  concurrent,   \* echo_ and broadcast_concurrent_number
  conn,         \* ConnectionString: <<>>, or the service it names
  waited,       \* the wait for the pods ended because they were ready
  exited,       \* a try for this service ended before its session
  (* files *)
  env,          \* jenkins_env.sh
  folders,      \* directories in result_root
  results,      \* what these hold
  mark,         \* error.mark exists
  log,          \* the app server's log of this try
  (* Azure and the app host *)
  services,     \* the services that exist
  pods,         \* the limits of the current service's pods
  server,       \* the app server
  faults

asked     == <<names, steps>>
position  == <<asked, disable, ui, si>>
loadVars  == <<i, number, concurrent>>
jobVars   == <<position, loadVars, conn, waited, exited>>
files     == <<env, folders, results, mark>>
hostVars  == <<log, server>>
cloudVars == <<services, pods>>
vars == <<pc, jobVars, files, hostVars, cloudVars, faults>>

Fault   == faults < FaultBudget /\ faults' = faults + 1
NoFault == UNCHANGED faults

\* A service is named after the time at which it is created.
Services == (DOMAIN UnitList) \X (DOMAIN SizeList)
Service == <<ui, si>>
None    == <<>>
Unit    == UnitList[ui]
Size    == SizeList[si]

NoEnv == [tag |-> None, number |-> Start, concurrent |-> Start, conn |-> None]

Init ==
  /\ pc = "create" /\ names \in (SUBSET Kinds) \ {{}} /\ steps \in BOOLEAN
  /\ ui = 1 /\ si = 1 /\ disable \in {Unit = 11, TRUE}
  /\ i = 0 /\ number = Start /\ concurrent = Start
  /\ conn = None /\ waited = TRUE /\ exited = FALSE
  /\ env = NoEnv /\ folders = {} /\ results = {} /\ mark = FALSE
  /\ log = "empty" /\ server = "down"
  /\ services = {} /\ pods = "default" /\ faults = 0

-----------------------------------------------------------------------------
(* The loops of run_units                                                  *)

\* Mutant: the loop over the sizes goes one too far.
NextServiceTooFar ==
  IF si <= Len(SizeList)
  THEN /\ si' = si + 1 /\ pc' = "create" /\ UNCHANGED <<ui, disable>>
  ELSE /\ pc' = "report" /\ UNCHANGED <<ui, si, disable>>

\* From unit 11 on throttling stays disabled.
NextService ==
  IF si < Len(SizeList)
  THEN si' = si + 1 /\ pc' = "create" /\ UNCHANGED <<ui, disable>>
  ELSE IF ui < Len(UnitList)
  THEN /\ ui' = ui + 1 /\ si' = 1 /\ pc' = "create"
       /\ disable' = (disable \/ UnitList[ui + 1] = 11)
  ELSE pc' = "report" /\ UNCHANGED <<ui, si, disable>>

\* gen_final_report and delete_group.
Report ==
  /\ pc = "report" /\ pc' = "done"
  /\ \/ NoFault /\ services' = {}
     \/ Fault /\ UNCHANGED services
  /\ UNCHANGED <<jobVars, files, hostVars, pods>>

-----------------------------------------------------------------------------
(* run_unit_benchmark: the service                                         *)

CreateService ==
  /\ pc = "create"
  /\ \/ /\ NoFault /\ pc' = "dns"
        /\ services' = services \cup {Service} /\ pods' = "default"
        /\ UNCHANGED position
     \/ Fault /\ NextService /\ UNCHANGED <<asked, cloudVars>>
  /\ waited' = TRUE /\ exited' = FALSE
  /\ UNCHANGED <<loadVars, conn, files, hostVars>>

CheckDns ==
  /\ pc = "dns"
  /\ \/ NoFault /\ pc' = (IF disable THEN "patch" ELSE "query")
     \/ Fault /\ pc' = "delete"
  /\ UNCHANGED <<jobVars, files, hostVars, cloudVars>>

\* Mutant: the shell does not wait for the pods.
PatchAndGoOn ==
  /\ pc = "patch" /\ pc' = "query"
  /\ pods' = "rolling" /\ NoFault
  /\ UNCHANGED <<jobVars, files, hostVars, services>>

\* patch_connection_throttling_env up to the kubectl calls; a deployment that
\* no cluster of g_k8s_config_list has is not patched.
Patch ==
  /\ pc = "patch" /\ pc' = "rollout"
  /\ \/ NoFault /\ pods' = "rolling"
     \/ Fault /\ UNCHANGED pods
  /\ UNCHANGED <<jobVars, files, hostVars, services>>

\* Kubernetes has replaced the pods.
RolledOut ==
  /\ pods = "rolling" /\ pods' = "raised"
  /\ UNCHANGED <<pc, jobVars, files, hostVars, services, faults>>

\* wait_deploy_ready and wait_replica_ready fall through after 120 s each.
WaitReady ==
  /\ pc = "rollout" /\ pc' = "query"
  /\ \/ pods = "raised" /\ NoFault /\ UNCHANGED waited
     \/ pods = "rolling" /\ Fault /\ waited' = FALSE
     \/ pods = "default" /\ NoFault /\ waited' = FALSE
  /\ UNCHANGED <<position, loadVars, conn, exited, files, hostVars, cloudVars>>

\* Mutant: when the service cannot be queried, the string of the service
\* before is still there.
QueryOrKeep ==
  /\ pc = "query" /\ pc' = (IF steps /\ MaxRetry > 0 THEN "try" ELSE "single")
  /\ \/ NoFault /\ conn' = Service
     \/ Fault /\ UNCHANGED conn
  /\ i' = 0 /\ number' = Start /\ concurrent' = Start
  /\ env' = [NoEnv EXCEPT !.conn = conn']
  /\ UNCHANGED <<position, waited, exited, folders, results, mark, hostVars, cloudVars>>

\* query_connection_string, the numbers of the unit, and the first
\* jenkins_env.sh, which is written before bench_type_tag has a value.
Query ==
  /\ pc = "query" /\ pc' = (IF steps /\ MaxRetry > 0 THEN "try" ELSE "single")
  /\ \/ NoFault /\ conn' = Service
     \/ Fault /\ conn' = None
  /\ i' = 0 /\ number' = Start /\ concurrent' = Start
  /\ env' = [NoEnv EXCEPT !.conn = conn']
  /\ UNCHANGED <<position, waited, exited, folders, results, mark, hostVars, cloudVars>>

DeleteService ==
  /\ pc = "delete"
  /\ \/ NoFault /\ services' = services \ {Service}
     \/ Fault /\ UNCHANGED services
  /\ NextService
  /\ UNCHANGED <<asked, loadVars, conn, waited, exited, files, hostVars, pods>>

-----------------------------------------------------------------------------
(* run_unit_benchmark: the tries                                           *)

\* Mutant: the message size is not part of the tag.
TagWithoutSize ==
  [unit |-> Unit, size |-> 0, number |-> [k \in names |-> number[k]]]

\* bench_type_tag.
Tag == [unit |-> Unit, size |-> Size, number |-> [k \in names |-> number[k]]]

\* One turn of the loop up to jenkins-run-websocket.sh.
Try ==
  /\ pc = "try"
  /\ IF i < MaxRetry
     THEN /\ pc' = "inputs"
          /\ env' = [tag |-> Tag, number |-> number, concurrent |-> concurrent,
                     conn |-> conn]
          /\ folders' = folders \cup {Tag}
     ELSE pc' = "delete" /\ UNCHANGED <<env, folders>>
  /\ UNCHANGED <<jobVars, results, mark, hostVars, cloudVars, faults>>

\* Without steps there is one run with the first jenkins_env.sh; mkdir is
\* given result_root itself and fails.
Single ==
  /\ pc = "single" /\ pc' = "inputs"
  /\ UNCHANGED <<jobVars, files, hostVars, cloudVars, faults>>

\* Mutant: error.mark is looked for in the folder of the try, which has none.
JudgeByFolder ==
  /\ pc = "judge"
  /\ IF ~steps
     THEN pc' = "delete" /\ UNCHANGED loadVars
     ELSE /\ pc' = "try" /\ i' = i + 1
          /\ number' = [k \in Kinds |-> number[k] + Step[k]]
          /\ concurrent' = [concurrent EXCEPT !["broadcast"] = number'["broadcast"]]
  /\ UNCHANGED <<position, conn, waited, exited, files, hostVars, cloudVars, faults>>

\* After jenkins-run-websocket.sh: with error.mark in result_root the tries
\* end, otherwise the load is raised.
Judge ==
  /\ pc = "judge"
  /\ IF ~steps \/ MaxRetry = 0 \/ mark
     THEN pc' = "delete" /\ UNCHANGED loadVars
     ELSE /\ pc' = "try" /\ i' = i + 1
          /\ number' = [k \in Kinds |-> number[k] + Step[k]]
          /\ concurrent' = [concurrent EXCEPT !["broadcast"] = number'["broadcast"]]
  /\ UNCHANGED <<position, conn, waited, exited, files, hostVars, cloudVars, faults>>

-----------------------------------------------------------------------------
(* jenkins-run-websocket.sh                                                *)

\* exit 1 before the session.
Exit == pc' = "judge" /\ exited' = TRUE

\* The checks of connection_string and connection_number, which is the number
\* of echo's connections whatever is benchmarked.
CheckInputs ==
  /\ pc = "inputs"
  /\ IF env.conn = None \/ env.number["echo"] > MaxConnections
     THEN Exit
     ELSE pc' = "startServer" /\ UNCHANGED exited
  /\ UNCHANGED <<position, loadVars, conn, waited, files, hostVars, cloudVars, faults>>

\* start_sdk_server up to the poll; its script begins with killall dotnet.
StartServer ==
  /\ pc = "startServer" /\ pc' = "poll"
  /\ server' = "starting" /\ log' = "empty"
  /\ UNCHANGED <<jobVars, files, cloudVars, faults>>

ServerUp ==
  /\ server = "starting" /\ server' = "up" /\ log' = "started"
  /\ UNCHANGED <<pc, jobVars, files, cloudVars, faults>>

ServerFails ==
  /\ server = "starting" /\ server' = "down" /\ log' = "error" /\ Fault
  /\ UNCHANGED <<pc, jobVars, files, cloudVars>>

\* Mutant: the poll has no limit.
PollForEver ==
  /\ pc = "poll" /\ pc' = (IF log = "started" THEN "session" ELSE pc)
  /\ UNCHANGED <<jobVars, files, hostVars, cloudVars, faults>>

\* The poll of start_sdk_server ends when the server has started, or after
\* 120 s; then the log is searched for errors.
Poll ==
  /\ pc = "poll"
  /\ \/ log = "started" /\ NoFault /\ pc' = "session" /\ UNCHANGED exited
     \/ log = "empty" /\ Fault /\ pc' = "session" /\ UNCHANGED exited
     \/ log = "error" /\ NoFault /\ Exit
  /\ UNCHANGED <<position, loadVars, conn, waited, files, hostVars, cloudVars>>

\* What a session leaves in a folder replaces what was there.
Keep(bad) ==
  results' = {r \in results : r.tag # env.tag} \cup {[tag |-> env.tag, bad |-> bad]}

\* Mutant: the session does not clear error.mark.
SessionKeepsMark ==
  /\ pc = "session" /\ pc' = "stopServer"
  /\ \/ env.tag = None /\ UNCHANGED <<mark, results>>
     \/ env.tag # None /\ \E bad \in BOOLEAN : mark' = (mark \/ bad) /\ Keep(bad)
  /\ UNCHANGED <<jobVars, env, folders, hostVars, cloudVars, faults>>

\* gen_jenkins_command_config and run_websocket.sh: a session clears the mark
\* and writes it when an agent reports an error.  An empty bench_type_list
\* has no scenarios.
Session ==
  /\ pc = "session" /\ pc' = "stopServer"
  /\ \/ env.tag = None /\ mark' = FALSE /\ UNCHANGED results
     \/ env.tag # None /\ \E bad \in BOOLEAN : mark' = bad /\ Keep(bad)
  /\ UNCHANGED <<jobVars, env, folders, hostVars, cloudVars, faults>>

\* stop_sdk_server: killall dotnet ends a server that runs; the script of one
\* in dotnet restore goes on to dotnet run.
StopServer ==
  /\ pc = "stopServer" /\ pc' = "judge"
  /\ server' = (IF server = "up" THEN "down" ELSE server)
  /\ UNCHANGED <<jobVars, files, log, cloudVars, faults>>

-----------------------------------------------------------------------------
Job ==
  \/ CreateService \/ CheckDns \/ Patch \/ WaitReady \/ Query \/ DeleteService
  \/ Try \/ Single \/ Judge \/ CheckInputs \/ StartServer \/ Poll \/ Session
  \/ StopServer \/ Report

Ended == pc = "done" /\ UNCHANGED vars

Next == Job \/ RolledOut \/ ServerUp \/ ServerFails \/ Ended

\* The shell goes on, a rollout ends and a server starts or fails.
Spec ==
  /\ Init /\ [][Next]_vars
  /\ WF_vars(Job) /\ WF_vars(RolledOut) /\ WF_vars(ServerUp)

-----------------------------------------------------------------------------
(* Properties                                                              *)

\* Every variable has its type.
TypeOK ==
  /\ pc \in {"create", "dns", "patch", "rollout", "query", "try", "single", "inputs",
             "startServer", "poll", "session", "stopServer", "judge", "delete",
             "report", "done"}
  /\ names \subseteq Kinds /\ steps \in BOOLEAN /\ disable \in BOOLEAN
  /\ ui \in DOMAIN UnitList /\ si \in DOMAIN SizeList /\ i \in 0..MaxRetry
  /\ number \in [Kinds -> Nat] /\ concurrent \in [Kinds -> Nat]
  /\ conn \in {None} \cup Services
  /\ waited \in BOOLEAN /\ exited \in BOOLEAN /\ mark \in BOOLEAN
  /\ log \in {"empty", "started", "error"} /\ server \in {"down", "starting", "up"}
  /\ services \subseteq Services
  /\ pods \in {"default", "rolling", "raised"} /\ faults \in 0..FaultBudget

\* No try overwrites the results of an earlier one: bench_type_tag names the
\* unit, the connections and the message size of each.
ResultsKept == [][\A r \in results : r \in results']_vars

\* The load of a unit is raised only as long as no session has reported an
\* error: of the results of one unit and size, only the one with the highest
\* load may be a bad one (jenkins-dogfood-run-sz.sh:137).
RaisedWhileClean ==
  \A r, q \in results :
    /\ r.tag.unit = q.tag.unit /\ r.tag.size = q.tag.size
    /\ \E k \in names : r.tag.number[k] < q.tag.number[k]
    => ~r.bad

\* The tries of a unit end early only because of an error of their own, and
\* not because of one that an earlier unit left in result_root; unless a try
\* has ended before its session, which is what clears the mark.
StopIsOwn ==
  [][pc = "judge" /\ pc' = "delete" /\ steps /\ MaxRetry > 0 =>
       \/ exited
       \/ \E r \in results : r.tag = env.tag /\ r.bad]_vars

\* A session runs on pods with the limits the job was asked for, unless the
\* wait for them ran out; a service on which throttling is not disabled has
\* the default limits although another unit of the job had them lifted.
LimitsAsAsked ==
  pc = "session" /\ waited => pods = (IF disable THEN "raised" ELSE "default")

\* A session runs against the service that was created for it, which exists.
OwnService == pc = "session" => env.conn = Service /\ Service \in services

\* No try disturbs another: it stops for its own errors, keeps the results of
\* the tries before it, and runs on its unit's service with its unit's limits.
TriesApart == [](TypeOK /\ LimitsAsAsked /\ OwnService) /\ StopIsOwn /\ ResultsKept

\* The job ends, whatever fails or does not start.
JobEnds == <>(pc = "done")
=============================================================================
