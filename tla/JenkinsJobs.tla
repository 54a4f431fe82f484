----------------------------- MODULE JenkinsJobs -----------------------------
(***************************************************************************)
(* Jenkins jobs that benchmark freshly created SignalR services            *)
(* (jenkins_script_config.sh, az_signalr_service.sh, collect_*.sh): a job  *)
(* registers an exit handler, makes sure its resource group exists and,    *)
(* for every service unit, creates a service, runs the scenarios against   *)
(* it while three background collectors watch its pods, stops the          *)
(* collectors and deletes the service.  However the job ends, the exit     *)
(* handler writes two clean-up scripts and starts a daemon for each.       *)
(*                                                                         *)
(* The jobs of one node share the clean-up scripts' paths in /tmp and the  *)
(* az command's current cloud; Azure deletes a group in the background.    *)
(* `set -e' is in force from the first unit's log copy on, and before it   *)
(* when Jenkins started the job's shell with -e.                           *)
(***************************************************************************)
EXTENDS Naturals, FiniteSets

CONSTANTS
  NJobs,        \* jobs that run on the node
  NUnits,       \* entries of bench_serviceunit_list
  NCollectors,  \* 3, or 2 when g_nginx_ns is not set
  NBench,       \* scenario runs of run_benchmark for a unit
  FaultBudget   \* az, dotnet and VM tool calls that may fail

ASSUME JobsAssumption ==
  /\ NJobs \in Nat \ {0}
  /\ NUnits \in Nat \ {0}
  /\ NBench \in Nat \ {0}
  /\ NCollectors \in {2, 3}
  /\ FaultBudget \in Nat

Jobs  == 1..NJobs
Units == 1..NUnits
Kinds == {"asrs", "vms"}          \* the two clean-up scripts

\* The collectors in the order in which run_unit starts and stops them:
\* pod top, nginx top if the ingress is known, connections.
Collectors  == 1..NCollectors

VARIABLES
  (* each job's shell *)
  pc, unit,
  bench,       \* scenario runs done for this unit
  conn,        \* ConnectionString: 0, or the unit whose service it names
  errexit,     \* set -e is in force
  meetError,   \* gMeetError is not empty
  exit,        \* "running", then "ok" or "failed"
  aim,         \* the collector run_unit is about to stop
  counters,    \* its counters.txt files, by unit and scenario run
  begun,       \* the units it has made a result directory for
  (* other processes *)
  coll,        \* each job's collectors: "none", "alive", "ended"
  daemon,      \* each job's clean-up daemons: where they are and whose
               \* resources the script they read removes
  (* files and settings of the node *)
  script,      \* for each kind, the job that wrote /tmp/clean_<kind>.sh last
  cloud,       \* az's current cloud
  (* Azure *)
  group,       \* each job's resource group
  service,     \* each job's services, by unit
  vms,         \* each job's test VMs exist
  faults       \* calls that failed

shellVars == <<pc, unit, bench, conn, errexit, meetError, exit, aim, counters,
               begun>>
procVars  == <<coll, daemon>>
nodeVars  == <<script, cloud>>
azureVars == <<group, service, vms>>
vars      == <<shellVars, procVars, nodeVars, azureVars, faults>>

Fault == faults < FaultBudget /\ faults' = faults + 1
NoFault == UNCHANGED faults

-----------------------------------------------------------------------------
(* Steps of a job's shell                                                  *)

Goto(j, q) == pc' = [pc EXCEPT ![j] = q]

\* The shell exits because a command failed, and enters the exit handler.
Abort(j) == Goto(j, "trap") /\ exit' = [exit EXCEPT ![j] = "failed"]

\* A command failed: fatal with set -e, else the shell goes on at q.
Failed(j, q) ==
  \/ errexit[j] /\ Abort(j)
  \/ ~errexit[j] /\ Goto(j, q) /\ UNCHANGED exit

\* Initially a group of an earlier job may be found under a name that
\* contains this job's (grep), the VMs exist, and az is in its usual cloud.
Init ==
  /\ pc = [j \in Jobs |-> "login"]
  /\ unit = [j \in Jobs |-> 1] /\ bench = [j \in Jobs |-> 0]
  /\ conn = [j \in Jobs |-> 0]
  /\ counters = [j \in Jobs |-> {}] /\ begun = [j \in Jobs |-> {}]
  /\ errexit \in [Jobs -> BOOLEAN]
  /\ meetError = [j \in Jobs |-> FALSE]
  /\ exit = [j \in Jobs |-> "running"]
  /\ aim = [j \in Jobs |-> 1]
  /\ coll = [j \in Jobs |-> [c \in Collectors |-> "none"]]
  /\ daemon = [j \in Jobs |-> [k \in Kinds |-> [at |-> "none", of |-> 0]]]
  /\ script = [k \in Kinds |-> 0]
  /\ cloud = "public"
  /\ group \in [Jobs -> {"absent", "present"}]
  /\ service = [j \in Jobs |-> {}]
  /\ vms = [j \in Jobs |-> TRUE]
  /\ faults = 0

\* azure_login: register the dogfood cloud and make it the current one.
Login(j) ==
  /\ pc[j] \in {"login", "relogin"}
  /\ cloud' = "dogfood"
  /\ Goto(j, IF pc[j] = "login" THEN "group" ELSE "delete")
  /\ UNCHANGED <<unit, counters, begun, bench, conn, errexit, meetError, exit, aim, procVars,
                 script, azureVars, faults>>

\* create_group_if_not_exist finds a group: it asks for its deletion and does
\* not wait for it.
DropOldGroup(j) ==
  /\ pc[j] = "group"
  /\ group' = [group EXCEPT ![j] = IF @ = "present" THEN "deleting" ELSE @]
  /\ Goto(j, "newGroup")
  /\ UNCHANGED <<unit, counters, begun, bench, conn, errexit, meetError, exit, aim, procVars,
                 nodeVars, service, vms, faults>>

\* az group create: refused while the group is being deleted.
CreateGroup(j) ==
  /\ pc[j] = "newGroup"
  /\ \/ /\ group[j] # "deleting"
        /\ group' = [group EXCEPT ![j] = "present"]
        /\ Goto(j, "unit") /\ UNCHANGED exit /\ NoFault
     \/ group[j] = "deleting" /\ Failed(j, "unit") /\ NoFault /\ UNCHANGED group
     \/ Fault /\ Failed(j, "unit") /\ UNCHANGED group
  /\ UNCHANGED <<unit, counters, begun, bench, conn, errexit, meetError, aim, procVars,
                 nodeVars, service, vms>>

\* Mutant: the connection string of the unit before is kept.
StartUnitKeepingString(j) ==
  /\ pc[j] = "unit"
  /\ Goto(j, "create")
  /\ UNCHANGED <<unit, counters, begun, bench, conn, errexit, meetError, exit, aim, procVars,
                 nodeVars, azureVars, faults>>

\* The head of run_all_units' loop: the connection string is made invalid.
StartUnit(j) ==
  /\ pc[j] = "unit"
  /\ conn' = [conn EXCEPT ![j] = 0]
  /\ Goto(j, "create")
  /\ UNCHANGED <<unit, counters, begun, bench, errexit, meetError, exit, aim, procVars,
                 nodeVars, azureVars, faults>>

\* Mutant: the list of units is left one entry too late.
NextUnitTooFar(j) ==
  IF unit[j] <= NUnits
  THEN unit' = [unit EXCEPT ![j] = @ + 1] /\ Goto(j, "unit") /\ UNCHANGED exit
  ELSE /\ Goto(j, "trap") /\ exit' = [exit EXCEPT ![j] = "ok"]
       /\ UNCHANGED unit

\* The next entry of bench_serviceunit_list, or the end of the job.
NextUnit(j) ==
  IF unit[j] < NUnits
  THEN unit' = [unit EXCEPT ![j] = @ + 1] /\ Goto(j, "unit") /\ UNCHANGED exit
  ELSE /\ Goto(j, "trap") /\ exit' = [exit EXCEPT ![j] = "ok"]
       /\ UNCHANGED unit

\* az signalr create needs the job's group and the cloud it is in.  A failure
\* is an empty answer, on which create_asrs returns.
CreateService(j) ==
  /\ pc[j] = "create"
  /\ \/ /\ group[j] = "present" /\ cloud = "dogfood" /\ NoFault
        /\ service' = [service EXCEPT ![j] = @ \cup {unit[j]}]
        /\ Goto(j, "dns")
     \/ /\ \/ (group[j] # "present" \/ cloud # "dogfood") /\ NoFault
           \/ Fault
        /\ Goto(j, "test")
        /\ UNCHANGED service
  /\ UNCHANGED <<unit, counters, begun, bench, conn, errexit, meetError, exit, aim, procVars,
                 nodeVars, group, vms>>

\* Mutant: a service whose name does not resolve is left where it is.
CheckDnsLeave(j) ==
  /\ pc[j] = "dns" /\ NoFault
  /\ \E ready \in BOOLEAN : Goto(j, IF ready THEN "query" ELSE "test")
  /\ UNCHANGED <<unit, counters, begun, bench, conn, errexit, meetError, exit, aim, procVars,
                 nodeVars, azureVars>>

\* check_signalr_service_dns: resolved within its 120 seconds, or supposed to
\* have failed and deleted.
CheckDns(j) ==
  /\ pc[j] = "dns"
  /\ \/ Goto(j, "query") /\ NoFault /\ UNCHANGED <<service, exit>>
     \/ /\ Goto(j, "test") /\ NoFault /\ UNCHANGED exit
        /\ service' = [service EXCEPT ![j] = @ \ {unit[j]}]
     \/ Fault /\ Failed(j, "test") /\ UNCHANGED service
  /\ UNCHANGED <<unit, counters, begun, bench, conn, errexit, meetError, aim, procVars,
                 nodeVars, group, vms>>

\* query_connection_string: an answer, or nothing.
QueryConnection(j) ==
  /\ pc[j] = "query"
  /\ \/ /\ unit[j] \in service[j] /\ cloud = "dogfood" /\ NoFault
        /\ conn' = [conn EXCEPT ![j] = unit[j]]
     \/ /\ \/ (unit[j] \notin service[j] \/ cloud # "dogfood") /\ NoFault
           \/ Fault
        /\ conn' = [conn EXCEPT ![j] = 0]
  /\ Goto(j, "test")
  /\ UNCHANGED <<unit, counters, begun, bench, errexit, meetError, exit, aim, procVars,
                 nodeVars, azureVars>>

\* run_all_units skips a unit without a connection string; for one that has
\* it, run_unit starts the collectors if it can tell the service's name from
\* the connection string (extract_servicename_from_connectionstring).
StartCollectors(j) ==
  /\ pc[j] = "test"
  /\ \/ /\ conn[j] = 0 /\ NextUnit(j)
        /\ UNCHANGED <<coll, bench, begun>>
     \/ /\ conn[j] # 0 /\ Goto(j, "bench")
        /\ \E named \in BOOLEAN :
             coll' = [coll EXCEPT ![j] =
                        [c \in Collectors |-> IF named THEN "alive" ELSE "none"]]
        /\ bench' = [bench EXCEPT ![j] = 0]
        /\ begun' = [begun EXCEPT ![j] = @ \cup {unit[j]}]
        /\ UNCHANGED <<unit, exit>>
  /\ UNCHANGED <<counters, conn, errexit, meetError, aim, daemon, nodeVars, azureVars,
                 faults>>

\* run_and_gen_report for one scenario: a run that left no counters.txt is
\* noted in gMeetError, one that failed ends a shell with set -e.
RunScenario(j) ==
  /\ pc[j] = "bench" /\ bench[j] < NBench
  /\ bench' = [bench EXCEPT ![j] = @ + 1]
  /\ \/ /\ NoFault \/ (Fault /\ ~errexit[j])
        /\ counters' = [counters EXCEPT ![j] = @ \cup {<<unit[j], bench[j] + 1>>}]
        /\ UNCHANGED <<pc, exit, meetError>>
     \/ /\ Fault
        /\ meetError' = [meetError EXCEPT ![j] = TRUE]
        /\ UNCHANGED <<pc, exit, counters>>
     \/ /\ Fault /\ errexit[j] /\ Abort(j)
        /\ \/ counters' = [counters EXCEPT ![j] = @ \cup {<<unit[j], bench[j] + 1>>}]
           \/ UNCHANGED counters
        /\ UNCHANGED meetError
  /\ UNCHANGED <<unit, begun, conn, errexit, aim, procVars, nodeVars, azureVars>>

\* The logs of a service with a known name are copied with set +e; then
\* set -e, whatever it was before.  Without a name run_unit returns.
CopyLogs(j) ==
  /\ pc[j] = "bench" /\ bench[j] = NBench
  /\ \/ /\ coll[j][1] # "none"
        /\ errexit' = [errexit EXCEPT ![j] = TRUE]
        /\ aim' = [aim EXCEPT ![j] = 1]
        /\ Goto(j, "ps")
     \/ /\ coll[j][1] = "none"
        /\ Goto(j, "relogin")
        /\ UNCHANGED <<errexit, aim>>
  /\ UNCHANGED <<unit, counters, begun, bench, conn, meetError, exit, procVars,
                 nodeVars, azureVars, faults>>

\* Past the last collector, run_unit returns.
NextCollector(j) ==
  IF aim[j] < NCollectors
  THEN aim' = [aim EXCEPT ![j] = @ + 1] /\ Goto(j, "ps")
  ELSE aim' = aim /\ Goto(j, "relogin")

\* ps -o pid= -p $pid
LookForCollector(j) ==
  /\ pc[j] = "ps"
  /\ \/ coll[j][aim[j]] = "alive" /\ Goto(j, "kill") /\ UNCHANGED aim
     \/ coll[j][aim[j]] # "alive" /\ NextCollector(j)
  /\ UNCHANGED <<unit, counters, begun, bench, conn, errexit, meetError, exit, procVars,
                 nodeVars, azureVars, faults>>

\* Mutant: the collector is looked for and left alone.
SpareCollector(j) ==
  /\ pc[j] = "kill"
  /\ NextCollector(j)
  /\ UNCHANGED <<unit, counters, begun, bench, conn, errexit, meetError, exit, procVars,
                 nodeVars, azureVars, faults>>

\* kill $pid, which fails when the collector has ended since; CopyLogs has
\* put set -e in force.
KillCollector(j) ==
  /\ pc[j] = "kill"
  /\ \/ /\ coll[j][aim[j]] = "alive"
        /\ coll' = [coll EXCEPT ![j][aim[j]] = "ended"]
        /\ NextCollector(j) /\ UNCHANGED exit
     \/ /\ coll[j][aim[j]] # "alive"
        /\ Abort(j)
        /\ UNCHANGED <<coll, aim>>
  /\ UNCHANGED <<unit, counters, begun, bench, conn, errexit, meetError, daemon, nodeVars,
                 azureVars, faults>>

\* delete_signalr_service, and on with the next unit.
DeleteService(j) ==
  /\ pc[j] = "delete"
  /\ \/ /\ cloud = "dogfood" /\ NoFault
        /\ service' = [service EXCEPT ![j] = @ \ {unit[j]}]
        /\ NextUnit(j)
     \/ /\ (cloud # "dogfood" /\ NoFault) \/ Fault
        /\ \/ errexit[j] /\ Abort(j) /\ UNCHANGED unit
           \/ ~errexit[j] /\ NextUnit(j)
        /\ UNCHANGED service
  /\ UNCHANGED <<counters, begun, bench, conn, errexit, meetError, aim, procVars,
                 nodeVars, group, vms>>

-----------------------------------------------------------------------------
(* The exit handler and its daemons                                        *)

\* remove_resource_group writes /tmp/clean_asrs.sh or /tmp/clean_vms.sh.
WriteScript(j) ==
  /\ pc[j] \in {"trap", "trapVms"}
  /\ script' = [script EXCEPT ![IF pc[j] = "trap" THEN "asrs" ELSE "vms"] = j]
  /\ Goto(j, IF pc[j] = "trap" THEN "launch" ELSE "launchVms")
  /\ UNCHANGED <<unit, counters, begun, bench, conn, errexit, meetError, exit, aim, procVars,
                 cloud, azureVars, faults>>

\* daemonize ... &: the daemon will read the script when it gets to run.
LaunchDaemon(j) ==
  /\ pc[j] \in {"launch", "launchVms"}
  /\ daemon' = [daemon EXCEPT
       ![j][IF pc[j] = "launch" THEN "asrs" ELSE "vms"].at = "started"]
  /\ Goto(j, IF pc[j] = "launch" THEN "trapVms" ELSE "mark")
  /\ UNCHANGED <<unit, counters, begun, bench, conn, errexit, meetError, exit, aim, coll,
                 nodeVars, azureVars, faults>>

\* Mutant: the exit code of the trap is that of the job.
MarkFailureNot(j) ==
  /\ pc[j] = "mark"
  /\ Goto(j, "done")
  /\ UNCHANGED <<unit, counters, begun, bench, conn, errexit, meetError, exit, aim, procVars,
                 nodeVars, azureVars, faults>>

\* mark_job_as_failure_if_meet_error
MarkFailure(j) ==
  /\ pc[j] = "mark"
  /\ exit' = [exit EXCEPT ![j] = IF meetError[j] THEN "failed" ELSE @]
  /\ Goto(j, "done")
  /\ UNCHANGED <<unit, counters, begun, bench, conn, errexit, meetError, aim, procVars,
                 nodeVars, azureVars, faults>>

At(j, k, p)   == daemon[j][k].at = p
Move(j, k, p) == daemon' = [daemon EXCEPT ![j][k].at = p]

\* /bin/sh opens the script the daemon was started for.
ReadScript(j, k) ==
  /\ At(j, k, "started")
  /\ daemon' = [daemon EXCEPT ![j][k] = [at |-> "first", of |-> script[k]]]
  /\ UNCHANGED <<shellVars, coll, nodeVars, azureVars, faults>>

\* clean_asrs.sh: delete_group does not wait, and works in the current cloud.
DeleteGroup(j) ==
  LET o == daemon[j]["asrs"].of IN
  /\ At(j, "asrs", "first")
  /\ \/ /\ cloud = "dogfood" /\ NoFault
        /\ group' = [group EXCEPT ![o] = IF @ = "present" THEN "deleting" ELSE @]
        /\ Move(j, "asrs", "second")
     \/ /\ \/ cloud # "dogfood" /\ NoFault
           \/ Fault
        /\ Move(j, "asrs", "gaveUp")
        /\ UNCHANGED group
  /\ UNCHANGED <<shellVars, coll, nodeVars, service, vms>>

\* unregister_signalr_service_dogfood, whether the deletion was accepted or
\* not; "second" and "gaveUp" end as "removed" and "failed".
Unregister(j) ==
  /\ At(j, "asrs", "second") \/ At(j, "asrs", "gaveUp")
  /\ cloud' = "public"
  /\ Move(j, "asrs", IF At(j, "asrs", "second") THEN "removed" ELSE "failed")
  /\ UNCHANGED <<shellVars, coll, script, azureVars, faults>>

\* Mutant: the VMs are deleted in one attempt.
DeleteVmsOnce(j) ==
  LET o == daemon[j]["vms"].of IN
  /\ At(j, "vms", "first")
  /\ \/ NoFault /\ vms' = [vms EXCEPT ![o] = FALSE]
     \/ Fault /\ UNCHANGED vms
  /\ Move(j, "vms", "removed")
  /\ UNCHANGED <<shellVars, coll, nodeVars, group, service>>

\* clean_vms.sh deletes the VMs' resource group, and deletes it once more.
DeleteVms(j) ==
  LET o == daemon[j]["vms"].of IN
  /\ At(j, "vms", "first") \/ At(j, "vms", "second")
  /\ \/ NoFault /\ vms' = [vms EXCEPT ![o] = FALSE]
     \/ Fault /\ UNCHANGED vms
  /\ Move(j, "vms", IF At(j, "vms", "first") THEN "second"
                    ELSE IF vms'[o] THEN "failed" ELSE "removed")
  /\ UNCHANGED <<shellVars, coll, nodeVars, group, service>>

-----------------------------------------------------------------------------
(* Outside                                                                 *)

\* A collector ends by itself: its duration is over or it found no pod.
CollectorEnds(j, c) ==
  /\ coll[j][c] = "alive"
  /\ coll' = [coll EXCEPT ![j][c] = "ended"]
  /\ UNCHANGED <<shellVars, daemon, nodeVars, azureVars, faults>>

\* Azure finishes the deletion of a group, with the services in it.
GroupGone(j) ==
  /\ group[j] = "deleting"
  /\ group' = [group EXCEPT ![j] = "absent"]
  /\ service' = [service EXCEPT ![j] = {}]
  /\ UNCHANGED <<shellVars, procVars, nodeVars, vms, faults>>

-----------------------------------------------------------------------------
Job(j) ==
  \/ Login(j) \/ DropOldGroup(j) \/ CreateGroup(j) \/ StartUnit(j)
  \/ CreateService(j) \/ CheckDns(j) \/ QueryConnection(j) \/ StartCollectors(j)
  \/ RunScenario(j) \/ CopyLogs(j) \/ LookForCollector(j) \/ KillCollector(j)
  \/ DeleteService(j) \/ WriteScript(j) \/ LaunchDaemon(j) \/ MarkFailure(j)

Cleaner(j) ==
  \/ \E k \in Kinds : ReadScript(j, k)
  \/ DeleteGroup(j) \/ Unregister(j) \/ DeleteVms(j)

Quiet == /\ \A j \in Jobs : pc[j] = "done"
         /\ UNCHANGED vars

Next ==
  \/ \E j \in Jobs : Job(j) \/ Cleaner(j) \/ GroupGone(j)
  \/ \E j \in Jobs, c \in Collectors : CollectorEnds(j, c)
  \/ Quiet

Safe == Init /\ [][Next]_vars

\* Shells and daemons are scheduled, collectors have a duration, and Azure
\* finishes what it accepted.
Spec ==
  /\ Safe
  /\ \A j \in Jobs :
       /\ WF_vars(Job(j)) /\ WF_vars(GroupGone(j))
       /\ \A k \in Kinds : WF_vars(ReadScript(j, k))
       /\ WF_vars(DeleteGroup(j)) /\ WF_vars(Unregister(j)) /\ WF_vars(DeleteVms(j))
       /\ \A c \in Collectors : WF_vars(CollectorEnds(j, c))

-----------------------------------------------------------------------------
(* Properties                                                              *)

JobPc == {"login", "group", "newGroup", "unit", "create", "dns", "query",
          "test", "bench", "ps", "kill", "relogin", "delete", "trap",
          "launch", "trapVms", "launchVms", "mark", "done"}
DaemonPc == {"none", "started", "first", "second", "gaveUp", "removed", "failed"}

\* Every variable has its type.
TypeOK ==
  /\ pc \in [Jobs -> JobPc]
  /\ unit \in [Jobs -> Units] /\ bench \in [Jobs -> 0..NBench]
  /\ conn \in [Jobs -> 0..NUnits]
  /\ counters \in [Jobs -> SUBSET (Units \X (1..NBench))]
  /\ begun \in [Jobs -> SUBSET Units]
  /\ errexit \in [Jobs -> BOOLEAN] /\ meetError \in [Jobs -> BOOLEAN]
  /\ exit \in [Jobs -> {"running", "ok", "failed"}]
  /\ aim \in [Jobs -> Collectors]
  /\ coll \in [Jobs -> [Collectors -> {"none", "alive", "ended"}]]
  /\ daemon \in [Jobs -> [Kinds -> [at : DaemonPc, of : 0..NJobs]]]
  /\ script \in [Kinds -> 0..NJobs]
  /\ cloud \in {"public", "dogfood"}
  /\ group \in [Jobs -> {"absent", "present", "deleting"}]
  /\ service \in [Jobs -> SUBSET Units]
  /\ vms \in [Jobs -> BOOLEAN]
  /\ faults \in 0..FaultBudget

Benching == {"bench", "ps", "kill", "relogin", "delete"}

\* A benchmark runs against the service created for its own unit: after a
\* unit whose service could not be created, resolved or queried, the scenarios
\* are not run with the connection string of the unit before.
RunsOnOwnService ==
  \A j \in Jobs : pc[j] \in Benching => conn[j] = unit[j]

\* While no call of az fails a job never has a service besides that of the
\* unit at hand, so that two units are not measured side by side.
OneServiceAtATime ==
  faults = 0 => \A j \in Jobs : exit[j] = "running" => service[j] \subseteq {unit[j]}

\* A unit is measured on the service made for it, and on no other beside it.
OwnServiceAlone == TypeOK /\ RunsOnOwnService /\ OneServiceAtATime

\* A job that goes on to delete its service has stopped all three collectors,
\* whichever of them ended on their own: nothing polls a deleted service.
CollectorsStopped ==
  \A j \in Jobs : pc[j] \in {"relogin", "delete", "unit", "create"} =>
    \A c \in Collectors : coll[j][c] # "alive"

\* A job that ends in success has left counters of every scenario run of
\* every unit it began, whatever failed on the way: no lost measurement is
\* hidden by a later unit that went well.
SuccessMeansCounters ==
  \A j \in Jobs : pc[j] = "done" /\ exit[j] = "ok" =>
    begun[j] \X (1..NBench) = counters[j]

Removed(j) ==
  /\ pc[j] = "done"
  /\ (group[j] = "absent" /\ service[j] = {}) \/ At(j, "asrs", "failed")
  /\ ~vms[j] \/ At(j, "vms", "failed")
  /\ \A c \in Collectors : coll[j][c] # "alive"

\* However a job ends, its resource group with the services in it, its VMs
\* and its collectors are eventually gone, unless the deletion of the group
\* itself or both deletions of the VMs were refused.
ResourcesRemoved == \A j \in Jobs : <>[]Removed(j)
=============================================================================
