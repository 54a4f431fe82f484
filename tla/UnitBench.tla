----------------------------- MODULE UnitBench -----------------------------
(***************************************************************************)
(* run_benchmark of jenkins_script_config.sh: the runs of one service      *)
(* unit, one per scenario, transport and group type or message size.  For  *)
(* each run the shell asks gen_complex_pipeline.py for the connections,    *)
(* the rate and the senders, writes them and the pipeline to job.yaml,     *)
(* has the bench tool play that file, and hands the numbers it asked for   *)
(* to the report.                                                          *)
(***************************************************************************)
EXTENDS Pipelines

CONSTANTS
  ScenarioLists,   \* choices of bench_scenario_list
  TransportLists,  \* choices of bench_transport_list
  GroupTypeList,   \* for SendGroup
  SizeList,        \* sendToClientMsgSize
  UnitChoices,     \* units of the service
  NServers         \* app servers in serverUrl

\* The loops have something to do, over groups and sizes the tables know.
ASSUME UnitBenchAssumption ==
  /\ UnitChoices \subseteq Units
  /\ NServers \in Nat \ {0}
  /\ \A l \in ScenarioLists \cup TransportLists : l \in Seq(STRING) /\ l # <<>>
  /\ GroupTypeList \in Seq(GroupTypes) /\ GroupTypeList # <<>>
  /\ SizeList \in Seq(Sizes) /\ SizeList # <<>>

Variants(s) ==
  CASE s = "SendGroup" -> GroupTypeList
    [] s = "sendToClient" -> SizeList
    [] OTHER -> <<"none">>

VARIABLES
  unit, useMax, sendInterval,        \* parameters of the job
  scenarios, transports,             \* the loops' lists
  si, ti, vi,                        \* the loops' positions
  connection, concurrent, send,      \* variables of run_benchmark
  job,                               \* job.yaml
  pos,                               \* the next step of the pipeline, 0: not started
  conns, joined, sending,            \* the bench tool's clients
  played,                            \* senders of every up played
  cut,                               \* the tool stopped sending before the last round
  report,                            \* the last report
  pc

params   == <<unit, useMax, sendInterval, scenarios, transports>>
loop     == <<si, ti, vi>>
asked    == <<connection, concurrent, send>>
toolVars == <<pos, conns, joined, sending, played, cut>>
vars     == <<params, loop, asked, job, toolVars, report, pc>>

S == scenarios[si]
T == transports[ti]
V == Variants(S)[vi]

NoJob    == [steps |-> 0]
NoReport == [run |-> <<>>]

\* get_appserver_count.py and get_part_of_serverUrl.py: the first servers of
\* the list, as many as the unit needs.
AppServers(u) == At(u, <<2, 2, 2, 2, 3, 10, 20>>)
ServerUrls(u) == IF AppServers(u) < NServers THEN AppServers(u) ELSE NServers

Init ==
  /\ unit \in UnitChoices /\ useMax \in BOOLEAN /\ sendInterval \in {0, 2}
  /\ scenarios \in ScenarioLists /\ transports \in TransportLists
  /\ si = 1 /\ ti = 1 /\ vi = 1
  /\ connection = 0 /\ concurrent = 0 /\ send = <<>>
  /\ job = NoJob /\ report = NoReport
  /\ pos = 0 /\ conns = "none" /\ joined = FALSE /\ sending = 0
  /\ played = <<>> /\ cut = FALSE
  /\ pc = "configure"

\* Mutant: the loop over the variants goes one too far.
NextRunOneMore ==
  \/ /\ vi <= Len(Variants(S)) /\ vi' = vi + 1 /\ UNCHANGED <<si, ti>>
     /\ pc' = "configure"
  \/ /\ vi > Len(Variants(S)) /\ pc' = "done" /\ UNCHANGED loop

\* The loops over bench_scenario_list, bench_transport_list and the variants.
NextRun ==
  \/ /\ vi < Len(Variants(S)) /\ vi' = vi + 1 /\ UNCHANGED <<si, ti>>
     /\ pc' = "configure"
  \/ /\ vi = Len(Variants(S)) /\ ti < Len(transports)
     /\ ti' = ti + 1 /\ vi' = 1 /\ UNCHANGED si
     /\ pc' = "configure"
  \/ /\ vi = Len(Variants(S)) /\ ti = Len(transports) /\ si < Len(scenarios)
     /\ si' = si + 1 /\ ti' = 1 /\ vi' = 1
     /\ pc' = "configure"
  \/ /\ vi = Len(Variants(S)) /\ ti = Len(transports) /\ si = Len(scenarios)
     /\ pc' = "done" /\ UNCHANGED loop

\* gen_complex_pipeline.py has no file for the combination: python fails, and
\* the job with it where set -e is on.  Where it is off, job.yaml has no
\* pipeline and the tool plays nothing.
Unsupported ==
  /\ pc = "configure" /\ <<T, S>> \notin Supported
  /\ \/ pc' = "aborted" /\ UNCHANGED <<asked, job>>
     \/ /\ connection' = 0 /\ concurrent' = 0 /\ send' = <<>>
        /\ job' = NoJob /\ pc' = "lost"
  /\ UNCHANGED <<params, loop, toolVars, report>>

\* The contents of job.yaml: the -M and -i options of the job, the group type
\* or message size, and the app servers.
JobConfig ==
  LET load == LoadOf(T, S, V, useMax, unit)
  IN  [run        |-> <<T, S, V>>,
       connection |-> load.connection,
       concurrent |-> load.concurrent,
       interval   |-> IntervalOf(T, S, sendInterval),
       groupNum   |-> IF S = "SendGroup" THEN GroupNumber(useMax, unit, V) ELSE 0,
       servers    |-> ServerUrls(unit),
       steps      |-> Len(Pipeline(T, S, V, useMax, unit))]

\* Mutant: gen_sendgroup_job_config declares send local, so that run_benchmark
\* keeps the senders of the run before.
ConfigureSendLocal ==
  /\ pc = "configure" /\ <<T, S>> \in Supported
  /\ connection' = LoadOf(T, S, V, useMax, unit).connection
  /\ concurrent' = LoadOf(T, S, V, useMax, unit).concurrent
  /\ send' = IF S = "SendGroup" THEN send ELSE Ups(T, S, V, useMax, unit)
  /\ job' = JobConfig
  /\ pc' = "bench"
  /\ UNCHANGED <<params, loop, toolVars, report>>

\* The queries with -c, -C and -S, and gen_*_job_config: the job's send is the
\* one run_benchmark declared, whichever function assigns it.
Configure ==
  /\ pc = "configure" /\ <<T, S>> \in Supported
  /\ connection' = LoadOf(T, S, V, useMax, unit).connection
  /\ concurrent' = LoadOf(T, S, V, useMax, unit).concurrent
  /\ send' = Ups(T, S, V, useMax, unit)
  /\ job' = JobConfig
  /\ pc' = "bench"
  /\ UNCHANGED <<params, loop, toolVars, report>>

-----------------------------------------------------------------------------
(* The bench tool plays job.yaml.  run_and_gen_report has it stop sending    *)
(* once latency or connection errors grow big.                             *)

Start ==
  /\ pc = "bench" /\ pos = 0
  /\ pos' = 1 /\ conns' = "none" /\ joined' = FALSE /\ sending' = 0 /\ played' = <<>>
  /\ cut' = FALSE
  /\ UNCHANGED <<params, loop, asked, job, report, pc>>

Step == Pipeline(job.run[1], job.run[2], job.run[3], useMax, unit)[pos]

Playing(op) == pc = "bench" /\ pos \in 1..job.steps /\ Step.op = op /\ pos' = pos + 1

Frame == UNCHANGED <<params, loop, asked, job, report, pc>>

CreateConn ==
  /\ Playing("createConn") \/ Playing("createRestClientConn")
  /\ conns' = "created"
  /\ UNCHANGED <<joined, sending, played, cut>> /\ Frame

StartConn ==
  /\ Playing("startConn") \/ Playing("startRestClientConn")
  /\ conns' = "started"
  /\ UNCHANGED <<joined, sending, played, cut>> /\ Frame

JoinGroup ==
  /\ Playing("joinGroup") /\ joined' = TRUE
  /\ UNCHANGED <<conns, sending, played, cut>> /\ Frame

Up ==
  /\ Playing("up")
  /\ sending' = sending + Step.n /\ played' = Append(played, Step.n)
  /\ UNCHANGED <<conns, joined, cut>> /\ Frame

\* All senders send for the job's duration.
Scenario ==
  /\ Playing("scenario")
  /\ UNCHANGED <<conns, joined, sending, played, cut>> /\ Frame

\* --stopSendIfLatencyBig and --stopSendIfConnectionErrorBig: instead of raising
\* the senders once more the tool may go on to the steps that close the pipeline.
StopSending ==
  /\ pc = "bench" /\ pos \in 1..job.steps /\ Step.op = "up"
  /\ pos' = job.steps + 1 - Len(Closing(job.run[2]))
  /\ cut' = TRUE
  /\ UNCHANGED <<conns, joined, sending, played>> /\ Frame

LeaveGroup ==
  /\ Playing("leaveGroup") /\ joined' = FALSE
  /\ UNCHANGED <<conns, sending, played, cut>> /\ Frame

StopConn ==
  /\ Playing("stopConn") /\ conns' = "stopped"
  /\ UNCHANGED <<joined, sending, played, cut>> /\ Frame

DisposeConn ==
  /\ Playing("disposeConn") /\ conns' = "disposed"
  /\ UNCHANGED <<joined, sending, played, cut>> /\ Frame

Play ==
  \/ Start \/ CreateConn \/ StartConn \/ JoinGroup \/ Up \/ Scenario
  \/ StopSending \/ LeaveGroup \/ StopConn \/ DisposeConn

-----------------------------------------------------------------------------
\* run_and_gen_report once the tool has ended: with counters, the numbers
\* run_benchmark asked for go to configs/cmd_4_*, and the page is generated.
GenReport ==
  /\ pc = "bench" /\ pos = job.steps + 1
  /\ report' = [run |-> <<T, S, V>>, connection |-> connection,
                concurrent |-> concurrent, send |-> send, servers |-> ServerUrls(unit)]
  /\ pos' = 0
  /\ NextRun
  /\ UNCHANGED <<params, asked, job, conns, joined, sending, played, cut>>

\* Without counters the run is only noted in gMeetError.
NoCounters ==
  /\ \/ pc = "lost"
     \/ pc = "bench" /\ pos = job.steps + 1
  /\ report' = NoReport /\ pos' = 0
  /\ NextRun
  /\ UNCHANGED <<params, asked, job, conns, joined, sending, played, cut>>

Ended == pc \in {"done", "aborted"} /\ UNCHANGED vars

Next == Unsupported \/ Configure \/ Play \/ GenReport \/ NoCounters \/ Ended

Spec == Init /\ [][Next]_vars

-----------------------------------------------------------------------------
(* Properties                                                              *)

\* Every variable has its type.
TypeOK ==
  /\ unit \in UnitChoices /\ useMax \in BOOLEAN /\ sendInterval \in {0, 2}
  /\ si \in 1..Len(scenarios) /\ ti \in 1..Len(transports) /\ vi \in 1..Len(Variants(S))
  /\ connection \in Nat /\ concurrent \in Nat /\ send \in Seq(Nat)
  /\ pos \in 0..(job.steps + 1)
  /\ conns \in {"none", "created", "started", "stopped", "disposed"}
  /\ joined \in BOOLEAN /\ sending \in Nat /\ played \in Seq(Nat) /\ cut \in BOOLEAN
  /\ pc \in {"configure", "bench", "lost", "done", "aborted"}

\* Every step of a pipeline applies where it is played: clients are created,
\* started, joined to their groups and given senders before anything is sent,
\* leave their groups before they are stopped, and none is left at the end,
\* also when the sending was stopped early.
StepsApply ==
  pc = "bench" /\ pos > 0 =>
    IF pos > job.steps
    THEN conns = "disposed" /\ ~joined
    ELSE CASE Step.op \in {"createConn", "createRestClientConn"} -> conns = "none"
           [] Step.op \in {"startConn", "startRestClientConn"} -> conns = "created"
           [] Step.op \in {"joinGroup", "up"} -> conns = "started"
           [] Step.op = "scenario" ->
                conns = "started" /\ sending > 0 /\ joined = (job.groupNum > 0)
           [] Step.op = "leaveGroup" -> conns = "started" /\ joined
           [] Step.op = "stopConn" -> conns = "started" /\ ~joined
           [] Step.op = "disposeConn" -> conns = "stopped"

\* The page of a run shows the connections and the rate of the job that was
\* played and the servers the clients were given, although the shell asks for
\* each of these numbers by a call of its own; and the senders it shows are those
\* that were raised, in their order: all of them when the sending went on to its
\* end, and when the tool stopped it, more of them than were raised.
ReportMatchesRun ==
  [][report' # report /\ report' # NoReport =>
       /\ report'.run = job.run
       /\ report'.connection = job.connection /\ report'.concurrent = job.concurrent
       /\ played = SubSeq(report'.send, 1, Len(played))
       /\ IF cut THEN Len(played) < Len(report'.send)
                 ELSE Len(played) = Len(report'.send)
       /\ report'.servers = job.servers]_vars

\* gen_complex_pipeline.py:88-91: small groups have 10 clients, big groups a
\* tenth of all clients, tiny groups one, and with overlap a client belongs
\* to many groups; whatever the unit, with and without -M.
GroupsAsNamed ==
  job # NoJob /\ job.groupNum > 0 =>
    CASE job.run[3] = "small"   -> job.connection = 10 * job.groupNum
      [] job.run[3] = "big"     -> job.groupNum = 10
      [] job.run[3] = "tiny"    -> job.groupNum = job.connection
      [] job.run[3] = "overlap" -> job.groupNum > job.connection

\* A run is the one that was asked for, and its report is about it.
RunAsAsked == [](TypeOK /\ GroupsAsNamed) /\ ReportMatchesRun
=============================================================================
