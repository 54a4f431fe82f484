-------------------------- MODULE JenkinsJobsProofs --------------------------
(* Theorems about JenkinsJobs, for any number of jobs on a node, of units   *)
(* and of scenario runs, and however many calls fail.                       *)
EXTENDS JenkinsJobs, TLAPS

USE DEF Jobs, Units, Kinds, Collectors

-----------------------------------------------------------------------------
(* Type correctness                                                        *)

\* The parts of the type invariant that most steps have in common: the job's
\* place, its unit and its exit status.
PlaceOK ==
  /\ pc \in [Jobs -> JobPc]
  /\ unit \in [Jobs -> Units]
  /\ exit \in [Jobs -> {"running", "ok", "failed"}]

\* Going somewhere, aborting and failing keep the place well typed.
LEMMA PlaceType ==
  ASSUME PlaceOK, NEW j \in Jobs, NEW q \in JobPc
  PROVE  /\ Goto(j, q) => pc' \in [Jobs -> JobPc]
         /\ Abort(j) => pc' \in [Jobs -> JobPc] /\ exit' \in [Jobs -> {"running", "ok", "failed"}]
         /\ Failed(j, q) => pc' \in [Jobs -> JobPc]
                            /\ exit' \in [Jobs -> {"running", "ok", "failed"}]
         /\ NextUnit(j) => PlaceOK'
<1> USE DEF PlaceOK, Goto
<1>0. "trap" \in JobPc /\ "unit" \in JobPc
  BY DEF JobPc
<1>1. Goto(j, q) => pc' \in [Jobs -> JobPc]
  OBVIOUS
<1>2. Abort(j) => pc' \in [Jobs -> JobPc] /\ exit' \in [Jobs -> {"running", "ok", "failed"}]
  BY <1>0 DEF Abort
<1>3. Failed(j, q) => pc' \in [Jobs -> JobPc]
                      /\ exit' \in [Jobs -> {"running", "ok", "failed"}]
  BY <1>1, <1>2 DEF Failed
<1>4. NextUnit(j) => PlaceOK'
  <2>1. unit[j] < NUnits => unit[j] + 1 \in Units
    BY JobsAssumption
  <2> QED
    BY <1>0, <2>1 DEF NextUnit
<1> QED
  BY <1>1, <1>2, <1>3, <1>4

\* Failed calls are counted within the budget.
LEMMA FaultType ==
  faults \in 0..FaultBudget /\ (Fault \/ NoFault) => faults' \in 0..FaultBudget
BY JobsAssumption DEF Fault, NoFault

LEMMA InitType == Init => TypeOK
<1> SUFFICES ASSUME Init PROVE TypeOK
  OBVIOUS
<1>1. pc \in [Jobs -> JobPc] /\ daemon \in [Jobs -> [Kinds -> [at : DaemonPc, of : 0..NJobs]]]
  BY JobsAssumption DEF Init, JobPc, DaemonPc
<1>2. /\ unit \in [Jobs -> Units] /\ bench \in [Jobs -> 0..NBench]
      /\ conn \in [Jobs -> 0..NUnits] /\ aim \in [Jobs -> Collectors]
      /\ script \in [Kinds -> 0..NJobs] /\ faults \in 0..FaultBudget
  BY JobsAssumption DEF Init
<1>3. /\ counters \in [Jobs -> SUBSET (Units \X (1..NBench))]
      /\ begun \in [Jobs -> SUBSET Units] /\ service \in [Jobs -> SUBSET Units]
  BY DEF Init
<1>4. /\ errexit \in [Jobs -> BOOLEAN] /\ meetError \in [Jobs -> BOOLEAN]
      /\ exit \in [Jobs -> {"running", "ok", "failed"}]
      /\ coll \in [Jobs -> [Collectors -> {"none", "alive", "ended"}]]
      /\ cloud \in {"public", "dogfood"} /\ vms \in [Jobs -> BOOLEAN]
      /\ group \in [Jobs -> {"absent", "present", "deleting"}]
  BY DEF Init
<1> QED
  BY <1>1, <1>2, <1>3, <1>4 DEF TypeOK

\* The types, without the place: what most steps leave alone.
ShellOK ==
  /\ bench \in [Jobs -> 0..NBench]
  /\ conn \in [Jobs -> 0..NUnits]
  /\ counters \in [Jobs -> SUBSET (Units \X (1..NBench))]
  /\ begun \in [Jobs -> SUBSET Units]
  /\ errexit \in [Jobs -> BOOLEAN] /\ meetError \in [Jobs -> BOOLEAN]
  /\ aim \in [Jobs -> Collectors]
ProcOK ==
  /\ coll \in [Jobs -> [Collectors -> {"none", "alive", "ended"}]]
  /\ daemon \in [Jobs -> [Kinds -> [at : DaemonPc, of : 0..NJobs]]]
NodeOK ==
  /\ script \in [Kinds -> 0..NJobs]
  /\ cloud \in {"public", "dogfood"}
AzureOK ==
  /\ group \in [Jobs -> {"absent", "present", "deleting"}]
  /\ service \in [Jobs -> SUBSET Units]
  /\ vms \in [Jobs -> BOOLEAN]
FaultOK == faults \in 0..FaultBudget

LEMMA TypeParts == TypeOK <=> PlaceOK /\ ShellOK /\ ProcOK /\ NodeOK /\ AzureOK /\ FaultOK
BY DEF TypeOK, PlaceOK, ShellOK, ProcOK, NodeOK, AzureOK, FaultOK

\* A step of a job's shell keeps the types.
LEMMA JobType ==
  ASSUME TypeOK, NEW j \in Jobs, Job(j)
  PROVE  TypeOK'
<1>0. PlaceOK /\ ShellOK /\ ProcOK /\ NodeOK /\ AzureOK /\ FaultOK
  BY TypeParts
<1>1. FaultOK'
  <2>1. (Fault \/ NoFault) \/ UNCHANGED faults
    BY DEF Job, Login, DropOldGroup, CreateGroup, StartUnit, CreateService, CheckDns,
           QueryConnection, StartCollectors, RunScenario, CopyLogs, LookForCollector,
           KillCollector, DeleteService, WriteScript, LaunchDaemon, MarkFailure
  <2> QED
    BY <1>0, <2>1, FaultType DEF FaultOK
<1>2. AzureOK'
  <2>1. CASE DropOldGroup(j)
    BY <1>0, <2>1 DEF DropOldGroup, AzureOK
  <2>2. CASE CreateGroup(j)
    BY <1>0, <2>2 DEF CreateGroup, AzureOK
  <2>3. CASE CreateService(j)
    BY <1>0, <2>3 DEF CreateService, AzureOK, PlaceOK
  <2>4. CASE CheckDns(j)
    BY <1>0, <2>4 DEF CheckDns, AzureOK, PlaceOK
  <2>5. CASE DeleteService(j)
    BY <1>0, <2>5 DEF DeleteService, AzureOK, PlaceOK
  <2>6. CASE UNCHANGED azureVars
    BY <1>0, <2>6 DEF AzureOK, azureVars
  <2> QED
    BY <2>1, <2>2, <2>3, <2>4, <2>5, <2>6
       DEF Job, Login, StartUnit, QueryConnection, StartCollectors, RunScenario,
           CopyLogs, LookForCollector, KillCollector, WriteScript, LaunchDaemon,
           MarkFailure
<1>3. NodeOK'
  <2>1. CASE Login(j)
    BY <1>0, <2>1 DEF Login, NodeOK
  <2>2. CASE WriteScript(j)
    BY <1>0, <2>2 DEF WriteScript, NodeOK
  <2>3. CASE UNCHANGED nodeVars
    BY <1>0, <2>3 DEF NodeOK, nodeVars
  <2> QED
    BY <2>1, <2>2, <2>3
       DEF Job, DropOldGroup, CreateGroup, StartUnit, CreateService, CheckDns,
           QueryConnection, StartCollectors, RunScenario, CopyLogs, LookForCollector,
           KillCollector, DeleteService, LaunchDaemon, MarkFailure
<1>4. ProcOK'
  <2>1. CASE StartCollectors(j)
    <3>1. daemon' = daemon
      BY <2>1 DEF StartCollectors
    <3>2. CASE coll' = coll
      BY <1>0, <3>1, <3>2 DEF ProcOK
    <3>3. ASSUME NEW named \in BOOLEAN,
                 coll' = [coll EXCEPT ![j] =
                            [c \in Collectors |-> IF named THEN "alive" ELSE "none"]]
          PROVE  ProcOK'
      BY <1>0, <3>1, <3>3 DEF ProcOK
    <3> QED
      BY <2>1, <3>2, <3>3 DEF StartCollectors
  <2>2. CASE KillCollector(j)
    <3>1. daemon' = daemon
      BY <2>2 DEF KillCollector
    <3>2. coll' = coll \/ coll' = [coll EXCEPT ![j][aim[j]] = "ended"]
      BY <2>2 DEF KillCollector
    <3>3. [coll[j] EXCEPT ![aim[j]] = "ended"]
            \in [Collectors -> {"none", "alive", "ended"}]
      BY <1>0 DEF ProcOK
    <3>4. coll' = coll
          \/ coll' = [coll EXCEPT ![j] = [coll[j] EXCEPT ![aim[j]] = "ended"]]
      BY <3>2
    <3>5. coll' \in [Jobs -> [Collectors -> {"none", "alive", "ended"}]]
      BY <1>0, <3>3, <3>4 DEF ProcOK
    <3> QED
      BY <1>0, <3>1, <3>5 DEF ProcOK
  <2>3. CASE LaunchDaemon(j)
    <3>1. daemon' = [daemon EXCEPT ![j]["asrs"].at = "started"]
          \/ daemon' = [daemon EXCEPT ![j]["vms"].at = "started"]
      BY <2>3 DEF LaunchDaemon
    <3>2. "started" \in DaemonPc /\ coll' = coll
      BY <2>3 DEF LaunchDaemon, DaemonPc
    <3> QED
      BY <1>0, <3>1, <3>2 DEF ProcOK
  <2>4. CASE UNCHANGED procVars
    BY <1>0, <2>4 DEF ProcOK, procVars
  <2> QED
    BY <2>1, <2>2, <2>3, <2>4
       DEF Job, Login, DropOldGroup, CreateGroup, StartUnit, CreateService, CheckDns,
           QueryConnection, RunScenario, CopyLogs, LookForCollector, DeleteService,
           WriteScript, MarkFailure
<1>5. PlaceOK'
  <2> DEFINE Stay == UNCHANGED <<unit, exit>>
  <2>0. {"login", "group", "newGroup", "unit", "create", "dns", "query", "test", "bench",
         "ps", "kill", "relogin", "delete", "trap", "launch", "trapVms", "launchVms",
         "mark", "done"} \subseteq JobPc
    BY DEF JobPc
  <2>1. ASSUME NEW q \in JobPc, Goto(j, q), UNCHANGED <<unit, exit>> PROVE PlaceOK'
    BY <1>0, <2>1, PlaceType DEF PlaceOK
  <2>2. ASSUME Abort(j), UNCHANGED unit PROVE PlaceOK'
    BY <1>0, <2>0, <2>2, PlaceType DEF PlaceOK
  <2>3. ASSUME NEW q \in JobPc, Failed(j, q), UNCHANGED unit PROVE PlaceOK'
    BY <1>0, <2>3, PlaceType DEF PlaceOK
  <2>4. ASSUME NextUnit(j) PROVE PlaceOK'
    BY <1>0, <2>0, <2>4, PlaceType
  <2>5. CASE Login(j) \/ DropOldGroup(j) \/ StartUnit(j) \/ QueryConnection(j) \/ CopyLogs(j)
    BY <2>0, <2>1, <2>5 DEF Login, DropOldGroup, StartUnit, QueryConnection, CopyLogs
  <2>6. CASE CreateGroup(j) \/ CreateService(j) \/ CheckDns(j)
    BY <2>0, <2>1, <2>3, <2>6 DEF CreateGroup, CreateService, CheckDns
  <2>7. CASE StartCollectors(j) \/ DeleteService(j)
    BY <2>0, <2>1, <2>2, <2>4, <2>7 DEF StartCollectors, DeleteService
  <2>8. CASE RunScenario(j)
    <3>1. CASE Abort(j)
      BY <2>2, <2>8, <3>1 DEF RunScenario
    <3>2. CASE UNCHANGED <<pc, exit>>
      BY <1>0, <2>8, <3>2 DEF RunScenario, PlaceOK
    <3> QED
      BY <2>8, <3>1, <3>2 DEF RunScenario
  <2>9. CASE LookForCollector(j) \/ KillCollector(j)
    BY <2>0, <2>1, <2>2, <2>9 DEF LookForCollector, KillCollector, NextCollector
  <2>10. CASE WriteScript(j) \/ LaunchDaemon(j)
    BY <2>0, <2>1, <2>10 DEF WriteScript, LaunchDaemon
  <2>11. CASE MarkFailure(j)
    <3>1. exit' \in [Jobs -> {"running", "ok", "failed"}]
      BY <1>0, <2>11 DEF MarkFailure, PlaceOK
    <3>2. pc' \in [Jobs -> JobPc]
      BY <1>0, <2>0, <2>11, PlaceType DEF MarkFailure
    <3> QED
      BY <1>0, <2>11, <3>1, <3>2 DEF MarkFailure, PlaceOK
  <2> QED
    BY <2>5, <2>6, <2>7, <2>8, <2>9, <2>10, <2>11 DEF Job
<1>6. ShellOK'
  <2> USE <1>0 DEF ShellOK
  <2>1. CASE Login(j) \/ DropOldGroup(j) \/ CreateGroup(j) \/ CreateService(j) \/ CheckDns(j)
             \/ DeleteService(j) \/ WriteScript(j) \/ LaunchDaemon(j) \/ MarkFailure(j)
    BY <2>1 DEF Login, DropOldGroup, CreateGroup, CreateService, CheckDns, DeleteService,
                WriteScript, LaunchDaemon, MarkFailure
  <2>2. CASE StartUnit(j)
    <3>1. conn' = [conn EXCEPT ![j] = 0] /\ 0 \in 0..NUnits
      BY <2>2, JobsAssumption DEF StartUnit
    <3>2. conn' \in [Jobs -> 0..NUnits]
      BY <3>1
    <3> QED
      BY <2>2, <3>2 DEF StartUnit
  <2>3. CASE QueryConnection(j)
    <3>1. unit[j] \in 0..NUnits /\ 0 \in 0..NUnits
      BY JobsAssumption, SMTT(60) DEF PlaceOK
    <3> QED
      BY <2>3, <3>1 DEF QueryConnection
  <2>4. CASE StartCollectors(j)
    <3>1. unit[j] \in Units /\ 0 \in 0..NBench
      BY JobsAssumption DEF PlaceOK
    <3>2. begun[j] \cup {unit[j]} \in SUBSET Units
      BY <3>1
    <3>3. begun' \in [Jobs -> SUBSET Units] /\ bench' \in [Jobs -> 0..NBench]
      BY <2>4, <3>1, <3>2 DEF StartCollectors
    <3> QED
      BY <2>4, <3>3 DEF StartCollectors
  <2>5. CASE RunScenario(j)
    <3>a. bench[j] \in 0..NBench /\ unit[j] \in Units /\ NBench \in Nat
      BY JobsAssumption DEF PlaceOK, ShellOK
    <3>b. bench[j] < NBench
      BY <2>5 DEF RunScenario
    <3>1. bench[j] + 1 \in 1..NBench /\ unit[j] \in Units
      BY <3>a, <3>b
    <3>2. <<unit[j], bench[j] + 1>> \in Units \X (1..NBench)
      BY <3>1
    <3>3. bench' \in [Jobs -> 0..NBench]
      BY <2>5, <3>1 DEF RunScenario
    <3>4. counters' = counters
          \/ counters' = [counters EXCEPT ![j] = @ \cup {<<unit[j], bench[j] + 1>>}]
      BY <2>5 DEF RunScenario
    <3>5. counters' \in [Jobs -> SUBSET (Units \X (1..NBench))]
      BY <3>2, <3>4
    <3>6. meetError' \in [Jobs -> BOOLEAN]
      BY <2>5 DEF RunScenario
    <3> QED
      BY <2>5, <3>3, <3>5, <3>6 DEF RunScenario
  <2>6. CASE CopyLogs(j) \/ LookForCollector(j) \/ KillCollector(j)
    <3>1. aim' \in [Jobs -> Collectors]
      <4>1. 1 \in Collectors /\ (aim[j] < NCollectors => aim[j] + 1 \in Collectors)
        BY JobsAssumption, SMTT(60)
      <4>2. \/ aim' = aim
            \/ aim' = [aim EXCEPT ![j] = 1]
            \/ aim[j] < NCollectors /\ aim' = [aim EXCEPT ![j] = @ + 1]
        BY <2>6 DEF CopyLogs, LookForCollector, KillCollector, NextCollector
      <4> QED
        BY <4>1, <4>2
    <3>2. errexit' \in [Jobs -> BOOLEAN]
      BY <2>6 DEF CopyLogs, LookForCollector, KillCollector
    <3> QED
      BY <2>6, <3>1, <3>2 DEF CopyLogs, LookForCollector, KillCollector
  <2> QED
    BY <2>1, <2>2, <2>3, <2>4, <2>5, <2>6 DEF Job
<1> QED
  BY <1>1, <1>2, <1>3, <1>4, <1>5, <1>6 DEF TypeOK, PlaceOK, ShellOK, ProcOK, NodeOK, AzureOK, FaultOK

\* A step of a clean-up daemon keeps the types.
LEMMA CleanerType ==
  ASSUME TypeOK, NEW j \in Jobs, Cleaner(j)
  PROVE  TypeOK'
<1>0. PlaceOK /\ ShellOK /\ ProcOK /\ NodeOK /\ AzureOK /\ FaultOK
  BY TypeParts
<1>1. UNCHANGED <<shellVars, coll, script>>
  BY DEF Cleaner, ReadScript, DeleteGroup, Unregister, DeleteVms, nodeVars
<1>2. FaultOK'
  <2>1. (Fault \/ NoFault) \/ UNCHANGED faults
    BY DEF Cleaner, ReadScript, DeleteGroup, Unregister, DeleteVms
  <2> QED
    BY <1>0, <2>1, FaultType DEF FaultOK
<1>3. AzureOK'
  <2>1. CASE DeleteGroup(j)
    BY <1>0, <2>1 DEF DeleteGroup, AzureOK
  <2>2. CASE DeleteVms(j)
    BY <1>0, <2>2 DEF DeleteVms, AzureOK
  <2>3. CASE UNCHANGED azureVars
    BY <1>0, <2>3 DEF AzureOK, azureVars
  <2> QED
    BY <2>1, <2>2, <2>3 DEF Cleaner, ReadScript, Unregister
<1>4. cloud' \in {"public", "dogfood"}
  BY <1>0 DEF NodeOK, Cleaner, ReadScript, DeleteGroup, Unregister, DeleteVms, nodeVars
<1>5. daemon' \in [Jobs -> [Kinds -> [at : DaemonPc, of : 0..NJobs]]]
  <2>0. {"first", "second", "gaveUp", "removed", "failed"} \subseteq DaemonPc
    BY DEF DaemonPc
  <2>1. ASSUME NEW k \in Kinds, NEW p \in DaemonPc, Move(j, k, p)
        PROVE  daemon' \in [Jobs -> [Kinds -> [at : DaemonPc, of : 0..NJobs]]]
    BY <1>0, <2>1 DEF Move, ProcOK
  <2>2. ASSUME NEW k \in Kinds, ReadScript(j, k)
        PROVE  daemon' \in [Jobs -> [Kinds -> [at : DaemonPc, of : 0..NJobs]]]
    <3>1. [at |-> "first", of |-> script[k]] \in [at : DaemonPc, of : 0..NJobs]
      BY <1>0, <2>0 DEF NodeOK
    <3> QED
      BY <1>0, <2>2, <3>1 DEF ReadScript, ProcOK
  <2>3. CASE DeleteGroup(j) \/ Unregister(j) \/ DeleteVms(j)
    BY <2>0, <2>1, <2>3 DEF DeleteGroup, Unregister, DeleteVms
  <2> QED
    BY <2>2, <2>3 DEF Cleaner
<1> QED
  BY <1>0, <1>1, <1>2, <1>3, <1>4, <1>5
     DEF TypeOK, PlaceOK, ShellOK, ProcOK, NodeOK, AzureOK, FaultOK, shellVars

LEMMA NextType == TypeOK /\ [Next]_vars => TypeOK'
<1> SUFFICES ASSUME TypeOK, [Next]_vars PROVE TypeOK'
  OBVIOUS
<1>1. ASSUME NEW j \in Jobs, Job(j) PROVE TypeOK'
  BY <1>1, JobType
<1>2. ASSUME NEW j \in Jobs, Cleaner(j) PROVE TypeOK'
  BY <1>2, CleanerType
<1>3. ASSUME NEW j \in Jobs, GroupGone(j) PROVE TypeOK'
  <2>0. PlaceOK /\ ShellOK /\ ProcOK /\ NodeOK /\ AzureOK /\ FaultOK
    BY TypeParts
  <2>1. AzureOK'
    BY <1>3, <2>0 DEF GroupGone, AzureOK
  <2> QED
    BY <1>3, <2>0, <2>1
       DEF GroupGone, shellVars, procVars, nodeVars, TypeOK, PlaceOK, ShellOK, ProcOK,
           NodeOK, AzureOK, FaultOK
<1>4. ASSUME NEW j \in Jobs, NEW c \in Collectors, CollectorEnds(j, c) PROVE TypeOK'
  <2>0. PlaceOK /\ ShellOK /\ ProcOK /\ NodeOK /\ AzureOK /\ FaultOK
    BY TypeParts
  <2>1. ProcOK'
    <3>1. [coll[j] EXCEPT ![c] = "ended"] \in [Collectors -> {"none", "alive", "ended"}]
      BY <2>0 DEF ProcOK
    <3>2. coll' = [coll EXCEPT ![j] = [coll[j] EXCEPT ![c] = "ended"]]
      BY <1>4 DEF CollectorEnds
    <3> QED
      BY <1>4, <2>0, <3>1, <3>2 DEF CollectorEnds, ProcOK
  <2> QED
    BY <1>4, <2>0, <2>1
       DEF CollectorEnds, shellVars, nodeVars, azureVars, TypeOK, PlaceOK, ShellOK,
           ProcOK, NodeOK, AzureOK, FaultOK
<1>5. CASE Quiet \/ UNCHANGED vars
  BY <1>5 DEF Quiet, vars, shellVars, procVars, nodeVars, azureVars, TypeOK
<1> QED
  BY <1>1, <1>2, <1>3, <1>4, <1>5 DEF Next

\* Every variable of the jobs and of the node keeps its type.
THEOREM TypeCorrect == Safe => []TypeOK
BY InitType, NextType, PTL DEF Safe

-----------------------------------------------------------------------------
(* What a step leaves alone                                                *)

\* A job's shell changes its own entries only.
LEMMA JobFrame ==
  ASSUME TypeOK, NEW j \in Jobs, Job(j), NEW k \in Jobs, k # j
  PROVE  /\ pc'[k] = pc[k] /\ unit'[k] = unit[k] /\ exit'[k] = exit[k]
         /\ conn'[k] = conn[k] /\ bench'[k] = bench[k] /\ meetError'[k] = meetError[k]
         /\ counters'[k] = counters[k] /\ begun'[k] = begun[k]
<1> USE DEF TypeOK, Goto, Abort, Failed, NextUnit, NextCollector
<1>1. CASE Login(j) \/ DropOldGroup(j) \/ CreateGroup(j) \/ StartUnit(j)
  BY <1>1 DEF Login, DropOldGroup, CreateGroup, StartUnit
<1>2. CASE CreateService(j) \/ CheckDns(j) \/ QueryConnection(j)
  BY <1>2 DEF CreateService, CheckDns, QueryConnection
<1>3. CASE StartCollectors(j)
  BY <1>3, ZenonT(60) DEF StartCollectors
<1>4. CASE RunScenario(j)
  BY <1>4 DEF RunScenario
<1>5. CASE CopyLogs(j) \/ LookForCollector(j) \/ KillCollector(j)
  BY <1>5 DEF CopyLogs, LookForCollector, KillCollector
<1>6. CASE DeleteService(j)
  BY <1>6 DEF DeleteService
<1>7. CASE WriteScript(j) \/ LaunchDaemon(j) \/ MarkFailure(j)
  BY <1>7 DEF WriteScript, LaunchDaemon, MarkFailure
<1> QED
  BY <1>1, <1>2, <1>3, <1>4, <1>5, <1>6, <1>7 DEF Job

\* Everything that is not a step of a job's shell leaves the shells alone.
LEMMA OtherFrame ==
  ASSUME [Next]_vars
  PROVE  (\E j \in Jobs : Job(j)) \/ UNCHANGED shellVars
BY DEF Next, Cleaner, ReadScript, DeleteGroup, Unregister, DeleteVms, GroupGone,
       CollectorEnds, Quiet, vars

-----------------------------------------------------------------------------
(* The right service                                                       *)

\* The connection string is empty until it is queried, and then names the
\* unit at hand or nothing; only a unit with a string is measured.
ConnInv ==
  \A j \in Jobs :
    /\ pc[j] \in {"create", "dns", "query"} => conn[j] = 0
    /\ pc[j] = "test" => conn[j] \in {0, unit[j]}
    /\ pc[j] \in Benching => conn[j] = unit[j]

LEMMA ConnHolds == Safe => []ConnInv
<1>1. Init => ConnInv
  BY DEF Init, ConnInv, Benching
<1>2. TypeOK /\ ConnInv /\ [Next]_vars => ConnInv'
  <2> SUFFICES ASSUME TypeOK, ConnInv, [Next]_vars PROVE ConnInv'
    OBVIOUS
  <2>1. CASE UNCHANGED shellVars
    BY <2>1 DEF ConnInv, shellVars
  <2>2. ASSUME NEW j \in Jobs, Job(j) PROVE ConnInv'
    <3>1. \A k \in Jobs : k # j => pc'[k] = pc[k] /\ unit'[k] = unit[k] /\ conn'[k] = conn[k]
      BY <2>2, JobFrame
    <3>2. /\ pc'[j] \in {"create", "dns", "query"} => conn'[j] = 0
          /\ pc'[j] = "test" => conn'[j] \in {0, unit'[j]}
          /\ pc'[j] \in Benching => conn'[j] = unit'[j]
      <4> USE DEF TypeOK, ConnInv, Benching, Goto, Abort, Failed, NextUnit, NextCollector
      <4>1. CASE Login(j) \/ DropOldGroup(j) \/ CreateGroup(j) \/ StartUnit(j)
        BY <4>1 DEF Login, DropOldGroup, CreateGroup, StartUnit
      <4>2. CASE CreateService(j) \/ CheckDns(j)
        BY <4>2 DEF CreateService, CheckDns
      <4>3. CASE QueryConnection(j)
        BY <4>3 DEF QueryConnection
      <4>4. CASE StartCollectors(j)
        BY <4>4 DEF StartCollectors
      <4>5. CASE RunScenario(j)
        BY <4>5 DEF RunScenario
      <4>6. CASE CopyLogs(j) \/ LookForCollector(j) \/ KillCollector(j)
        BY <4>6, ZenonT(60) DEF CopyLogs, LookForCollector, KillCollector
      <4>7. CASE DeleteService(j)
        BY <4>7 DEF DeleteService
      <4>8. CASE WriteScript(j) \/ LaunchDaemon(j) \/ MarkFailure(j)
        BY <4>8 DEF WriteScript, LaunchDaemon, MarkFailure
      <4> QED
        BY <2>2, <4>1, <4>2, <4>3, <4>4, <4>5, <4>6, <4>7, <4>8 DEF Job
    <3> QED
      BY <3>1, <3>2 DEF ConnInv
  <2> QED
    BY <2>1, <2>2, OtherFrame
<1> QED
  BY <1>1, <1>2, TypeCorrect, PTL DEF Safe

\* No benchmark ever runs with the connection string of another unit.
THEOREM OwnServiceHolds == Safe => []RunsOnOwnService
<1>1. ConnInv => RunsOnOwnService
  BY DEF ConnInv, RunsOnOwnService
<1> QED
  BY <1>1, ConnHolds, PTL

-----------------------------------------------------------------------------
(* What a successful job left behind                                       *)

Trapped == {"trap", "launch", "trapVms", "launchVms", "mark", "done"}
Before  == {"login", "group", "newGroup", "unit", "create", "dns", "query", "test"}

\* A failed job is in its exit handler, and a job whose handler found errors
\* has failed.
ExitInv ==
  \A j \in Jobs :
    /\ exit[j] = "failed" => pc[j] \in Trapped
    /\ pc[j] = "done" /\ exit[j] = "ok" => ~meetError[j]

\* The units with a result directory are those the loop has come to.
BegunInv ==
  \A j \in Jobs :
    /\ pc[j] = "bench" => unit[j] \in begun[j]
    /\ \A v \in begun[j] : v <= unit[j]
    /\ pc[j] \in Before => \A v \in begun[j] : v < unit[j]

\* While nothing went wrong there are counters of exactly the scenario runs
\* that are over.
CountInv ==
  \A j \in Jobs : exit[j] # "failed" /\ ~meetError[j] =>
    \A v \in Units, n \in 1..NBench :
      <<v, n>> \in counters[j] <=>
        v \in begun[j] /\ (pc[j] = "bench" /\ v = unit[j] => n <= bench[j])

\* A successful job has counters of every scenario run it began.
THEOREM CountersHold == Safe => []SuccessMeansCounters
<1>1. Init => ExitInv /\ BegunInv /\ CountInv
  BY DEF Init, ExitInv, BegunInv, CountInv
<1>2. TypeOK /\ ExitInv /\ [Next]_vars => ExitInv'
  <2> SUFFICES ASSUME TypeOK, ExitInv, NEW j \in Jobs, Job(j) PROVE ExitInv'
    BY OtherFrame DEF ExitInv, shellVars
  <2>1. \A k \in Jobs : k # j => /\ pc'[k] = pc[k] /\ exit'[k] = exit[k]
                                 /\ meetError'[k] = meetError[k]
    BY JobFrame
  <2>2. /\ exit'[j] = "failed" => pc'[j] \in Trapped
        /\ pc'[j] = "done" /\ exit'[j] = "ok" => ~meetError'[j]
    <3> USE DEF TypeOK, ExitInv, Trapped, Goto, Abort, Failed, NextUnit, NextCollector
    <3>1. CASE Login(j) \/ DropOldGroup(j) \/ CreateGroup(j) \/ StartUnit(j)
      BY <3>1 DEF Login, DropOldGroup, CreateGroup, StartUnit
    <3>2. CASE CreateService(j) \/ CheckDns(j) \/ QueryConnection(j)
      BY <3>2 DEF CreateService, CheckDns, QueryConnection
    <3>3. CASE StartCollectors(j)
      BY <3>3 DEF StartCollectors
    <3>4. CASE RunScenario(j)
      BY <3>4 DEF RunScenario
    <3>5. CASE CopyLogs(j) \/ LookForCollector(j) \/ KillCollector(j)
      BY <3>5, ZenonT(60) DEF CopyLogs, LookForCollector, KillCollector
    <3>6. CASE DeleteService(j)
      BY <3>6 DEF DeleteService
    <3>7. CASE WriteScript(j) \/ LaunchDaemon(j)
      BY <3>7 DEF WriteScript, LaunchDaemon
    <3>8. CASE MarkFailure(j)
      BY <3>8 DEF MarkFailure
    <3> QED
      BY <3>1, <3>2, <3>3, <3>4, <3>5, <3>6, <3>7, <3>8 DEF Job
  <2> QED
    BY <2>1, <2>2 DEF ExitInv
<1>3. TypeOK /\ BegunInv /\ [Next]_vars => BegunInv'
  <2> SUFFICES ASSUME TypeOK, BegunInv, NEW j \in Jobs, Job(j) PROVE BegunInv'
    BY OtherFrame DEF BegunInv, shellVars
  <2>1. \A k \in Jobs : k # j => /\ pc'[k] = pc[k] /\ unit'[k] = unit[k]
                                 /\ begun'[k] = begun[k]
    BY JobFrame
  <2>2. /\ pc'[j] = "bench" => unit'[j] \in begun'[j]
        /\ \A v \in begun'[j] : v <= unit'[j]
        /\ pc'[j] \in Before => \A v \in begun'[j] : v < unit'[j]
    <3> USE DEF Before, Goto, Abort, Failed, NextUnit, NextCollector
    <3>0. /\ pc \in [Jobs -> JobPc] /\ begun[j] \subseteq Units /\ unit[j] \in Units
          /\ unit \in [Jobs -> Units] /\ begun \in [Jobs -> SUBSET Units]
      BY DEF TypeOK
    <3>1. CASE Login(j) \/ DropOldGroup(j) \/ CreateGroup(j) \/ StartUnit(j)
      BY <3>0, <3>1 DEF BegunInv, Login, DropOldGroup, CreateGroup, StartUnit
    <3>2. CASE CreateService(j) \/ CheckDns(j) \/ QueryConnection(j)
      BY <3>0, <3>2 DEF BegunInv, CreateService, CheckDns, QueryConnection
    <3>3. CASE StartCollectors(j)
      <4>1. /\ pc[j] = "test" /\ \A v \in begun[j] : v < unit[j]
            /\ \A v \in begun[j] : v \in Nat
        BY <3>0, <3>3 DEF BegunInv, StartCollectors
      <4>2. CASE pc'[j] = "bench"
        <5>1. begun'[j] = begun[j] \cup {unit[j]} /\ unit'[j] = unit[j]
          BY <3>0, <3>3, <4>2 DEF StartCollectors
        <5> QED
          BY <3>0, <4>1, <4>2, <5>1
      <4>3. CASE begun' = begun /\ NextUnit(j)
        <5>1. unit'[j] = unit[j] \/ unit'[j] = unit[j] + 1
          BY <3>0, <4>3
        <5>2. pc'[j] = "unit" => unit'[j] = unit[j] + 1
          BY <3>0, <4>3
        <5>3. pc'[j] \in {"unit", "trap"}
          BY <3>0, <4>3
        <5> QED
          BY <3>0, <4>1, <4>3, <5>1, <5>2, <5>3
      <4> QED
        BY <3>0, <3>3, <4>2, <4>3 DEF StartCollectors
    <3>4. CASE RunScenario(j)
      BY <3>0, <3>4 DEF BegunInv, RunScenario
    <3>5. CASE CopyLogs(j) \/ LookForCollector(j) \/ KillCollector(j)
      BY <3>0, <3>5 DEF BegunInv, CopyLogs, LookForCollector, KillCollector
    <3>6. CASE DeleteService(j)
      BY <3>0, <3>6, JobsAssumption DEF BegunInv, DeleteService
    <3>7. CASE WriteScript(j) \/ LaunchDaemon(j) \/ MarkFailure(j)
      BY <3>0, <3>7 DEF BegunInv, WriteScript, LaunchDaemon, MarkFailure
    <3> QED
      BY <3>1, <3>2, <3>3, <3>4, <3>5, <3>6, <3>7 DEF Job
  <2> QED
    BY <2>1, <2>2 DEF BegunInv
<1>4. TypeOK /\ ExitInv /\ BegunInv /\ CountInv /\ [Next]_vars => CountInv'
  <2> SUFFICES ASSUME TypeOK, ExitInv, BegunInv, CountInv, NEW j \in Jobs, Job(j)
               PROVE  CountInv'
    BY OtherFrame DEF CountInv, shellVars
  <2>1. \A k \in Jobs : k # j =>
          /\ pc'[k] = pc[k] /\ unit'[k] = unit[k] /\ exit'[k] = exit[k]
          /\ bench'[k] = bench[k] /\ meetError'[k] = meetError[k]
          /\ counters'[k] = counters[k] /\ begun'[k] = begun[k]
    BY JobFrame
  <2>2. ASSUME exit'[j] # "failed", ~meetError'[j], NEW v \in Units, NEW n \in 1..NBench
        PROVE  <<v, n>> \in counters'[j] <=>
                 v \in begun'[j] /\ (pc'[j] = "bench" /\ v = unit'[j] => n <= bench'[j])
    <3> USE DEF Goto, Abort, Failed, NextUnit, NextCollector
    <3>0. /\ pc \in [Jobs -> JobPc] /\ unit \in [Jobs -> Units]
          /\ begun \in [Jobs -> SUBSET Units] /\ bench \in [Jobs -> 0..NBench]
          /\ exit \in [Jobs -> {"running", "ok", "failed"}]
          /\ meetError \in [Jobs -> BOOLEAN]
          /\ counters \in [Jobs -> SUBSET (Units \X (1..NBench))]
      BY DEF TypeOK
    <3>1. ASSUME exit[j] # "failed", ~meetError[j]
          PROVE  <<v, n>> \in counters[j] <=>
                   v \in begun[j] /\ (pc[j] = "bench" /\ v = unit[j] => n <= bench[j])
      BY <3>1 DEF CountInv
    <3>2. CASE pc[j] # "bench" /\ pc'[j] # "bench"
      <4>1. counters'[j] = counters[j] /\ begun'[j] = begun[j] /\ meetError'[j] = meetError[j]
        BY <3>0, <3>2 DEF Job, Login, DropOldGroup, CreateGroup, StartUnit, CreateService,
             CheckDns, QueryConnection, StartCollectors, RunScenario, CopyLogs,
             LookForCollector, KillCollector, DeleteService, WriteScript, LaunchDaemon,
             MarkFailure
      <4>2. exit[j] # "failed"
        <5>1. exit[j] = "failed" => pc[j] \in Trapped
          BY DEF ExitInv
        <5>2. pc[j] \in Trapped => exit'[j] = exit[j] \/ exit'[j] = "failed"
          BY <3>0 DEF Trapped, Job, Login, DropOldGroup, CreateGroup, StartUnit, CreateService,
             CheckDns, QueryConnection, StartCollectors, RunScenario, CopyLogs,
             LookForCollector, KillCollector, DeleteService, WriteScript, LaunchDaemon,
             MarkFailure
        <5> QED
          BY <2>2, <5>1, <5>2
      <4> QED
        BY <2>2, <3>1, <3>2, <4>1, <4>2
    <3>3. CASE StartCollectors(j) /\ pc'[j] = "bench"
      <4>1. /\ pc[j] = "test" /\ UNCHANGED <<counters, unit, exit, meetError>>
            /\ begun'[j] = begun[j] \cup {unit[j]} /\ bench'[j] = 0
        BY <3>0, <3>3 DEF StartCollectors
      <4>2. unit[j] \notin begun[j]
        BY <3>0, <4>1 DEF BegunInv, Before
      <4> QED
        BY <2>2, <3>0, <3>1, <3>3, <4>1, <4>2
    <3>4. CASE RunScenario(j)
      <4>1. /\ UNCHANGED <<unit, begun, pc, exit>> /\ bench'[j] = bench[j] + 1
            /\ pc[j] = "bench" /\ meetError[j] = FALSE
            /\ counters' = [counters EXCEPT ![j] = @ \cup {<<unit[j], bench[j] + 1>>}]
        BY <2>2, <3>0, <3>4 DEF RunScenario
      <4>2. unit[j] \in begun[j]
        BY <4>1 DEF BegunInv
      <4>3. <<v, n>> \in counters'[j] <=>
              <<v, n>> \in counters[j] \/ (v = unit[j] /\ n = bench[j] + 1)
        BY <3>0, <4>1
      <4>4. bench[j] \in Nat
        BY <3>0, JobsAssumption
      <4> QED
        BY <2>2, <3>1, <4>1, <4>2, <4>3, <4>4
    <3>5. CASE CopyLogs(j)
      <4>1. /\ UNCHANGED <<counters, unit, begun, exit, meetError>> /\ pc[j] = "bench"
            /\ bench[j] = NBench /\ pc'[j] # "bench"
        BY <3>0, <3>5 DEF CopyLogs
      <4> QED
        BY <2>2, <3>1, <4>1, JobsAssumption
    <3>6. \/ pc[j] # "bench" /\ pc'[j] # "bench"
          \/ StartCollectors(j) /\ pc'[j] = "bench"
          \/ RunScenario(j) \/ CopyLogs(j)
      BY <3>0 DEF Job, Login, DropOldGroup, CreateGroup, StartUnit, CreateService,
           CheckDns, QueryConnection, StartCollectors, LookForCollector, KillCollector,
           DeleteService, WriteScript, LaunchDaemon, MarkFailure
    <3> QED
      BY <3>2, <3>3, <3>4, <3>5, <3>6
  <2> QED
    BY <2>1, <2>2, ZenonT(60) DEF CountInv
<1>5. TypeOK /\ ExitInv /\ CountInv => SuccessMeansCounters
  <2> SUFFICES ASSUME TypeOK, ExitInv, CountInv, NEW j \in Jobs, pc[j] = "done", exit[j] = "ok"
               PROVE  begun[j] \X (1..NBench) = counters[j]
    BY DEF SuccessMeansCounters
  <2>1. counters[j] \subseteq Units \X (1..NBench) /\ begun[j] \subseteq Units
    BY DEF TypeOK
  <2>2. \A v \in Units, n \in 1..NBench : <<v, n>> \in counters[j] <=> v \in begun[j]
    BY DEF ExitInv, CountInv
  <2> QED
    BY <2>1, <2>2
<1> QED
  BY <1>1, <1>2, <1>3, <1>4, <1>5, TypeCorrect, PTL DEF Safe

-----------------------------------------------------------------------------
(* The collectors                                                          *)

Uncollected == {"login", "group", "newGroup", "unit", "create", "dns", "query", "test",
                "relogin", "delete"}

\* Collectors run together or not at all; those before the one run_unit is about to
\* stop have ended, and outside a unit's measuring all have.
CollInv ==
  \A j \in Jobs :
    /\ coll[j][1] = "none" => \A c \in Collectors : coll[j][c] = "none"
    /\ pc[j] \in {"ps", "kill"} => \A c \in Collectors : c < aim[j] => coll[j][c] # "alive"
    /\ pc[j] \in Uncollected => \A c \in Collectors : coll[j][c] # "alive"

\* The shell's other steps leave the collectors and the one aimed at.
LEMMA CollFrame ==
  ASSUME TypeOK, NEW j \in Jobs, Job(j)
  PROVE  /\ \A k \in Jobs : k # j =>
              pc'[k] = pc[k] /\ aim'[k] = aim[k] /\ coll'[k] = coll[k]
         /\ \/ coll'[j] = coll[j] \/ StartCollectors(j) \/ KillCollector(j)
<1> USE DEF TypeOK, Goto, Abort, Failed, NextUnit, NextCollector, procVars
<1>1. CASE Login(j) \/ DropOldGroup(j) \/ CreateGroup(j) \/ StartUnit(j)
  BY <1>1 DEF Login, DropOldGroup, CreateGroup, StartUnit
<1>2. CASE CreateService(j) \/ CheckDns(j) \/ QueryConnection(j)
  BY <1>2 DEF CreateService, CheckDns, QueryConnection
<1>3. CASE StartCollectors(j)
  BY <1>3, ZenonT(60) DEF StartCollectors
<1>4. CASE RunScenario(j)
  BY <1>4 DEF RunScenario
<1>5. CASE CopyLogs(j) \/ LookForCollector(j)
  BY <1>5 DEF CopyLogs, LookForCollector
<1>6. CASE KillCollector(j)
  <2>1. coll' = [coll EXCEPT ![j] = [coll[j] EXCEPT ![aim[j]] = "ended"]] \/ coll' = coll
    BY <1>6 DEF KillCollector
  <2> QED
    BY <1>6, <2>1 DEF KillCollector
<1>7. CASE DeleteService(j)
  BY <1>7 DEF DeleteService
<1>8. CASE WriteScript(j) \/ LaunchDaemon(j) \/ MarkFailure(j)
  BY <1>8 DEF WriteScript, LaunchDaemon, MarkFailure
<1> QED
  BY <1>1, <1>2, <1>3, <1>4, <1>5, <1>6, <1>7, <1>8 DEF Job

\* A job that goes on to the next service has stopped all collectors, whichever
\* of them ended on their own, for any number of jobs and failures.
THEOREM CollectorsHold == Safe => []CollectorsStopped
<1>1. Init => CollInv
  BY DEF Init, CollInv
<1>2. TypeOK /\ CollInv /\ [Next]_vars => CollInv'
  <2> SUFFICES ASSUME TypeOK, CollInv, [Next]_vars PROVE CollInv'
    OBVIOUS
  <2>0. /\ pc \in [Jobs -> JobPc] /\ aim \in [Jobs -> Collectors]
        /\ coll \in [Jobs -> [Collectors -> {"none", "alive", "ended"}]]
        /\ 1 \in Collectors /\ Collectors \subseteq Nat /\ NCollectors \in Nat
    <3>1. NCollectors \in Nat /\ NCollectors >= 2
      BY JobsAssumption
    <3> QED
      BY <3>1 DEF TypeOK, Collectors
  <2>1. ASSUME NEW j \in Jobs, Job(j) PROVE CollInv'
    <3> SUFFICES
          /\ coll'[j][1] = "none" => \A c \in Collectors : coll'[j][c] = "none"
          /\ pc'[j] \in {"ps", "kill"} => \A c \in Collectors : c < aim'[j] => coll'[j][c] # "alive"
          /\ pc'[j] \in Uncollected => \A c \in Collectors : coll'[j][c] # "alive"
      BY <2>1, CollFrame DEF CollInv
    <3>0. ASSUME coll'[j] = coll[j], pc'[j] \notin {"ps", "kill"},
                 pc'[j] \in Uncollected => pc[j] \in Uncollected
          PROVE  /\ coll'[j][1] = "none" => \A c \in Collectors : coll'[j][c] = "none"
                 /\ pc'[j] \in Uncollected => \A c \in Collectors : coll'[j][c] # "alive"
      BY <3>0 DEF CollInv
    <3> USE DEF Uncollected, Goto, Abort, Failed, NextUnit
    <3>1. CASE Login(j) \/ DropOldGroup(j) \/ CreateGroup(j) \/ StartUnit(j)
      <4>1. coll' = coll /\ pc[j] \in Uncollected /\ pc'[j] \notin {"ps", "kill"}
        BY <2>0, <3>1 DEF Login, DropOldGroup, CreateGroup, StartUnit, procVars
      <4> QED
        BY <3>0, <4>1
    <3>2. CASE CreateService(j) \/ CheckDns(j) \/ QueryConnection(j)
      <4>1. coll' = coll /\ pc[j] \in Uncollected /\ pc'[j] \notin {"ps", "kill"}
        BY <2>0, <3>2 DEF CreateService, CheckDns, QueryConnection, procVars
      <4> QED
        BY <3>0, <4>1
    <3>3. CASE StartCollectors(j)
      <4>1. CASE conn[j] = 0
        BY <2>0, <3>3, <4>1 DEF StartCollectors, CollInv
      <4>2. CASE conn[j] # 0
        <5>1. PICK named \in BOOLEAN :
                coll' = [coll EXCEPT ![j] = [c \in Collectors |-> IF named THEN "alive" ELSE "none"]]
          BY <3>3, <4>2 DEF StartCollectors
        <5>2. coll'[j] = [c \in Collectors |-> IF named THEN "alive" ELSE "none"]
          BY <2>0, <5>1
        <5>3. coll'[j][1] = "none" => ~named
          BY <2>0, <5>2
        <5>4. pc'[j] = "bench"
          BY <2>0, <3>3, <4>2 DEF StartCollectors
        <5> QED
          BY <5>2, <5>3, <5>4
      <4> QED
        BY <4>1, <4>2
    <3>4. CASE RunScenario(j)
      BY <2>0, <3>4 DEF RunScenario, procVars, CollInv
    <3>5. CASE CopyLogs(j)
      <4>1. \/ pc'[j] = "ps" /\ aim'[j] = 1
            \/ pc'[j] = "relogin" /\ coll[j][1] = "none"
        BY <2>0, <3>5 DEF CopyLogs
      <4>2. coll' = coll /\ \A c \in Collectors : ~(c < 1)
        BY <2>0, <3>5 DEF CopyLogs, procVars, Collectors
      <4> QED
        BY <4>1, <4>2 DEF CollInv
    <3>6. CASE LookForCollector(j)
      <4>0. UNCHANGED coll /\ pc[j] = "ps"
        BY <3>6 DEF LookForCollector, procVars
      <4>1. CASE coll[j][aim[j]] = "alive"
        BY <2>0, <3>6, <4>0, <4>1 DEF LookForCollector, CollInv
      <4>2. CASE coll[j][aim[j]] # "alive"
        <5>1. \A c \in Collectors : c <= aim[j] => coll[j][c] # "alive"
          BY <2>0, <4>0, <4>2 DEF CollInv
        <5>2. \/ aim'[j] = aim[j] + 1 /\ pc'[j] = "ps"
              \/ aim[j] = NCollectors /\ pc'[j] = "relogin"
          <6>1. NextCollector(j)
            BY <3>6, <4>2 DEF LookForCollector
          <6>2. aim[j] <= NCollectors /\ aim[j] \in Nat
            BY <2>0 DEF Collectors
          <6>3. CASE aim[j] < NCollectors
            BY <2>0, <6>1, <6>3 DEF NextCollector
          <6>4. CASE aim[j] = NCollectors
            BY <2>0, <6>1, <6>4 DEF NextCollector
          <6> QED
            BY <2>0, <6>2, <6>3, <6>4
        <5>3. aim[j] = NCollectors => \A c \in Collectors : c <= aim[j]
          BY <2>0 DEF Collectors
        <5> QED
          BY <2>0, <4>0, <5>1, <5>2, <5>3 DEF CollInv
      <4> QED
        BY <4>1, <4>2
    <3>7. CASE KillCollector(j)
      <4>1. CASE coll[j][aim[j]] = "alive"
        <5>0. coll' = [coll EXCEPT ![j] = [coll[j] EXCEPT ![aim[j]] = "ended"]] /\ pc[j] = "kill"
          BY <3>7, <4>1 DEF KillCollector
        <5>1. /\ \A c \in Collectors : c # aim[j] => coll'[j][c] = coll[j][c]
              /\ coll'[j][aim[j]] = "ended"
          BY <2>0, <5>0
        <5>2. \A c \in Collectors : c <= aim[j] => coll'[j][c] # "alive"
          BY <2>0, <5>0, <5>1 DEF CollInv
        <5>3. \/ aim'[j] = aim[j] + 1 /\ pc'[j] = "ps"
              \/ aim[j] = NCollectors /\ pc'[j] = "relogin"
          <6>1. NextCollector(j)
            BY <3>7, <4>1 DEF KillCollector
          <6>2. aim[j] <= NCollectors /\ aim[j] \in Nat
            BY <2>0 DEF Collectors
          <6>3. CASE aim[j] < NCollectors
            BY <2>0, <6>1, <6>3 DEF NextCollector
          <6>4. CASE aim[j] = NCollectors
            BY <2>0, <6>1, <6>4 DEF NextCollector
          <6> QED
            BY <2>0, <6>2, <6>3, <6>4
        <5>4. aim[j] = NCollectors => \A c \in Collectors : c <= aim[j]
          BY <2>0 DEF Collectors
        <5>5. coll[j][1] # "none" /\ coll'[j][1] # "none"
          BY <2>0, <4>1, <5>1 DEF CollInv
        <5> QED
          BY <2>0, <5>2, <5>3, <5>4, <5>5 DEF CollInv
      <4>2. CASE coll[j][aim[j]] # "alive"
        BY <2>0, <3>7, <4>2 DEF KillCollector, CollInv
      <4> QED
        BY <4>1, <4>2
    <3>8. CASE DeleteService(j)
      BY <2>0, <3>8 DEF DeleteService, procVars, CollInv
    <3>9. CASE WriteScript(j) \/ LaunchDaemon(j) \/ MarkFailure(j)
      BY <2>0, <3>9 DEF WriteScript, LaunchDaemon, MarkFailure, procVars, CollInv
    <3> QED
      BY <2>1, <3>1, <3>2, <3>3, <3>4, <3>5, <3>6, <3>7, <3>8, <3>9 DEF Job
  <2>2. ASSUME NEW j \in Jobs, NEW c \in Collectors, CollectorEnds(j, c) PROVE CollInv'
    <3>1. /\ coll' = [coll EXCEPT ![j] = [coll[j] EXCEPT ![c] = "ended"]]
          /\ coll[j][c] = "alive" /\ UNCHANGED <<pc, aim>>
      BY <2>2 DEF CollectorEnds, shellVars
    <3>2. \A k \in Jobs, d \in Collectors :
            coll'[k][d] = IF k = j /\ d = c THEN "ended" ELSE coll[k][d]
      BY <2>0, <3>1
    <3>3. coll[j][1] # "none"
      BY <3>1 DEF CollInv
    <3> QED
      BY <2>0, <3>1, <3>2, <3>3 DEF CollInv
  <2>3. ASSUME UNCHANGED <<pc, aim, coll>> PROVE CollInv'
    BY <2>3 DEF CollInv
  <2>4. \/ \E j \in Jobs : Job(j)
        \/ \E j \in Jobs, c \in Collectors : CollectorEnds(j, c)
        \/ UNCHANGED <<pc, aim, coll>>
    BY DEF Next, Cleaner, ReadScript, DeleteGroup, Unregister, DeleteVms, GroupGone, Quiet, vars,
           shellVars, procVars
  <2> QED
    BY <2>1, <2>2, <2>3, <2>4
<1>3. CollInv => CollectorsStopped
  BY DEF CollInv, CollectorsStopped, Uncollected
<1> QED
  BY <1>1, <1>2, <1>3, TypeCorrect, PTL DEF Safe

-----------------------------------------------------------------------------
(* One service at a time                                                   *)

\* While the job runs its exit handler has not begun.
TrapInv ==
  \A j \in Jobs :
    /\ exit[j] = "running" => pc[j] \notin Trapped
    /\ pc[j] \notin Trapped => \A k \in Kinds : daemon[j][k].at = "none"

\* Without the daemons of another job nothing takes the cloud away.
CloudInv == \A j \in Jobs : pc[j] \notin Trapped \cup {"login"} => cloud = "dogfood"

\* The service of the unit before is gone when the next one starts.
AloneInv ==
  faults = 0 => \A j \in Jobs : exit[j] = "running" =>
    /\ service[j] \subseteq {unit[j]}
    /\ pc[j] \in {"login", "group", "newGroup", "unit", "create"} => service[j] = {}
    /\ pc[j] = "test" /\ conn[j] = 0 => service[j] = {}

LEMMA TrapHolds == Safe => []TrapInv
<1>1. Init => TrapInv
  BY DEF Init, TrapInv, Trapped
<1>2. TypeOK /\ TrapInv /\ [Next]_vars => TrapInv'
  <2> SUFFICES ASSUME TypeOK, TrapInv, [Next]_vars PROVE TrapInv'
    OBVIOUS
  <2>0. /\ pc \in [Jobs -> JobPc] /\ exit \in [Jobs -> {"running", "ok", "failed"}]
        /\ daemon \in [Jobs -> [Kinds -> [at : DaemonPc, of : 0..NJobs]]]
    BY DEF TypeOK
  <2>1. ASSUME NEW j \in Jobs, Job(j) PROVE TrapInv'
    <3>1. \A k \in Jobs : k # j => pc'[k] = pc[k] /\ exit'[k] = exit[k]
      BY <2>1, JobFrame
    <3>2. \A k \in Jobs : k # j => daemon'[k] = daemon[k]
      BY <2>0, <2>1 DEF Job, Login, DropOldGroup, CreateGroup, StartUnit, CreateService, CheckDns,
           QueryConnection, StartCollectors, RunScenario, CopyLogs, LookForCollector, KillCollector,
           DeleteService, WriteScript, LaunchDaemon, MarkFailure, procVars
    <3>3. /\ exit'[j] = "running" => pc'[j] \notin Trapped
          /\ pc'[j] \notin Trapped => pc[j] \notin Trapped /\ daemon' = daemon
      <4> USE DEF TrapInv, Trapped, Goto, Abort, Failed, NextUnit, NextCollector, procVars
      <4>1. CASE Login(j) \/ DropOldGroup(j) \/ CreateGroup(j) \/ StartUnit(j)
        BY <2>0, <4>1 DEF Login, DropOldGroup, CreateGroup, StartUnit
      <4>2. CASE CreateService(j) \/ CheckDns(j) \/ QueryConnection(j)
        BY <2>0, <4>2 DEF CreateService, CheckDns, QueryConnection
      <4>3. CASE StartCollectors(j)
        BY <2>0, <4>3 DEF StartCollectors
      <4>4. CASE RunScenario(j)
        BY <2>0, <4>4 DEF RunScenario
      <4>5. CASE CopyLogs(j) \/ LookForCollector(j)
        BY <2>0, <4>5 DEF CopyLogs, LookForCollector
      <4>6. CASE KillCollector(j)
        BY <2>0, <4>6 DEF KillCollector
      <4>7. CASE DeleteService(j)
        BY <2>0, <4>7 DEF DeleteService
      <4>8. CASE WriteScript(j) \/ LaunchDaemon(j) \/ MarkFailure(j)
        BY <2>0, <4>8 DEF WriteScript, LaunchDaemon, MarkFailure
      <4> QED
        BY <2>1, <4>1, <4>2, <4>3, <4>4, <4>5, <4>6, <4>7, <4>8 DEF Job
    <3> QED
      BY <3>1, <3>2, <3>3 DEF TrapInv
  <2>2. ASSUME NEW j \in Jobs, Cleaner(j) PROVE TrapInv'
    <3>1. PICK k \in Kinds : daemon[j][k].at # "none"
      BY <2>2 DEF Cleaner, ReadScript, DeleteGroup, Unregister, DeleteVms, At, Kinds
    <3>2. pc[j] \in Trapped
      BY <3>1 DEF TrapInv
    <3>3. UNCHANGED <<pc, exit>> /\ \A i \in Jobs : i # j => daemon'[i] = daemon[i]
      BY <2>0, <2>2 DEF Cleaner, ReadScript, DeleteGroup, Unregister, DeleteVms, Move, shellVars
    <3> QED
      BY <3>2, <3>3 DEF TrapInv
  <2>3. ASSUME UNCHANGED <<pc, exit, daemon>> PROVE TrapInv'
    BY <2>3 DEF TrapInv
  <2>4. \/ \E j \in Jobs : Job(j) \/ Cleaner(j)
        \/ UNCHANGED <<pc, exit, daemon>>
    BY DEF Next, CollectorEnds, GroupGone, Quiet, vars, shellVars, procVars
  <2> QED
    BY <2>1, <2>2, <2>3, <2>4
<1> QED
  BY <1>1, <1>2, TypeCorrect, PTL DEF Safe

LEMMA CloudHolds == ASSUME NJobs = 1 PROVE Safe => []CloudInv
<1>0. \A j, k \in Jobs : j = k
  BY DEF Jobs
<1>1. Init => CloudInv
  BY DEF Init, CloudInv
<1>2. TypeOK /\ TrapInv /\ CloudInv /\ [Next]_vars => CloudInv'
  <2> SUFFICES ASSUME TypeOK, TrapInv, CloudInv, [Next]_vars,
                      NEW j \in Jobs, pc'[j] \notin Trapped \cup {"login"}
               PROVE  cloud' = "dogfood"
    BY DEF CloudInv
  <2>1. ASSUME NEW k \in Jobs, Job(k) PROVE cloud' = "dogfood"
    <3>1. k = j /\ pc \in [Jobs -> JobPc]
      BY <1>0 DEF TypeOK
    <3>2. Login(j) \/ (cloud' = cloud /\ pc[j] \notin Trapped \cup {"login"})
      BY <2>1, <3>1 DEF Job, DropOldGroup, CreateGroup, StartUnit, CreateService, CheckDns,
           QueryConnection, StartCollectors, RunScenario, CopyLogs, LookForCollector, KillCollector,
           DeleteService, WriteScript, LaunchDaemon, MarkFailure, nodeVars, Trapped, Goto
    <3> QED
      BY <3>2 DEF Login, CloudInv
  <2>2. ASSUME NEW k \in Jobs, Cleaner(k) PROVE cloud' = "dogfood"
    <3>1. k = j
      BY <1>0
    <3>2. \E q \in Kinds : daemon[j][q].at # "none"
      BY <2>2, <3>1 DEF Cleaner, ReadScript, DeleteGroup, Unregister, DeleteVms, At, Kinds
    <3>3. UNCHANGED pc
      BY <2>2 DEF Cleaner, ReadScript, DeleteGroup, Unregister, DeleteVms, shellVars
    <3> QED
      BY <3>2, <3>3 DEF TrapInv
  <2>3. CASE UNCHANGED <<pc, cloud>>
    BY <2>3 DEF CloudInv
  <2> QED
    BY <2>1, <2>2, <2>3
       DEF Next, CollectorEnds, GroupGone, Quiet, vars, shellVars, nodeVars
<1> QED
  BY <1>1, <1>2, TypeCorrect, TrapHolds, PTL DEF Safe

\* A job alone on its node measures every unit on the service made for it, and
\* while no call fails on no other beside it.  (With a second job, whose daemon
\* changes az's cloud, a deletion may be refused, and the old service stays.)
THEOREM OwnServiceAloneHolds == ASSUME NJobs = 1 PROVE Safe => []OwnServiceAlone
<1>1. Init => AloneInv
  BY DEF Init, AloneInv
<1>2. TypeOK /\ TrapInv /\ CloudInv /\ ConnInv /\ AloneInv /\ [Next]_vars => AloneInv'
  <2> SUFFICES ASSUME TypeOK, TrapInv, CloudInv, ConnInv, AloneInv, [Next]_vars, faults' = 0
               PROVE  AloneInv'
    BY DEF AloneInv
  <2>0. /\ pc \in [Jobs -> JobPc] /\ exit \in [Jobs -> {"running", "ok", "failed"}]
        /\ unit \in [Jobs -> Units] /\ service \in [Jobs -> SUBSET Units]
        /\ conn \in [Jobs -> 0..NUnits] /\ faults \in Nat
    BY JobsAssumption DEF TypeOK
  <2>1. ~Fault /\ (NoFault => faults = 0)
    BY <2>0 DEF Fault, NoFault
  <2>2. ASSUME NEW j \in Jobs, Job(j) PROVE AloneInv'
    <3>0. faults = 0
      BY <2>1, <2>2 DEF Job, Login, DropOldGroup, CreateGroup, StartUnit, CreateService, CheckDns,
           QueryConnection, StartCollectors, RunScenario, CopyLogs, LookForCollector, KillCollector,
           DeleteService, WriteScript, LaunchDaemon, MarkFailure
    <3>1. \A k \in Jobs : k # j => /\ pc'[k] = pc[k] /\ unit'[k] = unit[k]
                                   /\ exit'[k] = exit[k] /\ conn'[k] = conn[k]
      BY <2>2, JobFrame
    <3>2. \A k \in Jobs : k # j => service'[k] = service[k]
      BY <2>0, <2>2 DEF Job, Login, DropOldGroup, CreateGroup, StartUnit, CreateService, CheckDns,
           QueryConnection, StartCollectors, RunScenario, CopyLogs, LookForCollector, KillCollector,
           DeleteService, WriteScript, LaunchDaemon, MarkFailure, azureVars
    <3>3. ASSUME exit'[j] = "running"
          PROVE  /\ service'[j] \subseteq {unit'[j]}
                 /\ pc'[j] \in {"login", "group", "newGroup", "unit", "create"} => service'[j] = {}
                 /\ pc'[j] = "test" /\ conn'[j] = 0 => service'[j] = {}
      <4>1. CASE exit[j] # "running"
        BY <2>0, <2>2, <3>3, <4>1
           DEF Job, Login, DropOldGroup, CreateGroup, StartUnit, CreateService, CheckDns,
               QueryConnection, StartCollectors, RunScenario, CopyLogs, LookForCollector,
               KillCollector, DeleteService, WriteScript, LaunchDaemon, MarkFailure, Abort,
               Failed, NextUnit
      <4>2. CASE exit[j] = "running"
        <5>0. /\ service[j] \subseteq {unit[j]}
              /\ pc[j] \in {"login", "group", "newGroup", "unit", "create"} => service[j] = {}
              /\ pc[j] = "test" /\ conn[j] = 0 => service[j] = {}
              /\ pc[j] \notin Trapped /\ (pc[j] # "login" => cloud = "dogfood")
              /\ pc[j] \in {"create", "dns", "query"} => conn[j] = 0
          BY <3>0, <4>2 DEF AloneInv, TrapInv, CloudInv, ConnInv
        <5> USE DEF Goto, Abort, Failed, azureVars, Trapped
        <5>1. CASE Login(j) \/ DropOldGroup(j) \/ CreateGroup(j) \/ StartUnit(j)
          BY <2>0, <5>0, <5>1 DEF Login, DropOldGroup, CreateGroup, StartUnit
        <5>2. CASE CreateService(j)
          BY <2>0, <5>0, <5>2 DEF CreateService
        <5>3. CASE CheckDns(j)
          <6>1. \/ pc'[j] = "query" /\ service' = service
                \/ pc'[j] = "test" /\ service'[j] = service[j] \ {unit[j]}
            BY <2>0, <2>1, <5>3 DEF CheckDns
          <6>2. UNCHANGED <<unit, conn>>
            BY <5>3 DEF CheckDns
          <6> QED
            BY <5>0, <6>1, <6>2
        <5>4. CASE QueryConnection(j)
          BY <2>0, <2>1, <5>0, <5>4 DEF QueryConnection
        <5>5. CASE StartCollectors(j)
          <6>1. CASE conn[j] = 0
            BY <2>0, <5>0, <5>5, <6>1 DEF StartCollectors, NextUnit
          <6>2. CASE conn[j] # 0
            BY <2>0, <5>0, <5>5, <6>2 DEF StartCollectors
          <6> QED
            BY <6>1, <6>2
        <5>6. CASE RunScenario(j)
          BY <2>0, <5>0, <5>6 DEF RunScenario
        <5>7. CASE CopyLogs(j) \/ LookForCollector(j) \/ KillCollector(j)
          BY <2>0, <5>0, <5>7 DEF CopyLogs, LookForCollector, KillCollector, NextCollector
        <5>8. CASE DeleteService(j)
          <6>1. service' = [service EXCEPT ![j] = @ \ {unit[j]}] /\ NextUnit(j)
            BY <2>1, <5>0, <5>8 DEF DeleteService
          <6>2. service'[j] = {}
            BY <2>0, <5>0, <6>1
          <6>3. pc' = [pc EXCEPT ![j] = "unit"] \/ pc' = [pc EXCEPT ![j] = "trap"]
            BY <6>1 DEF NextUnit
          <6> QED
            BY <2>0, <6>2, <6>3
        <5>9. CASE WriteScript(j) \/ LaunchDaemon(j) \/ MarkFailure(j)
          BY <5>0, <5>9 DEF WriteScript, LaunchDaemon, MarkFailure
        <5> QED
          BY <2>2, <5>1, <5>2, <5>3, <5>4, <5>5, <5>6, <5>7, <5>8, <5>9 DEF Job
      <4> QED
        BY <4>1, <4>2
    <3>4. ASSUME NEW k \in Jobs, exit'[k] = "running"
          PROVE  /\ service'[k] \subseteq {unit'[k]}
                 /\ pc'[k] \in {"login", "group", "newGroup", "unit", "create"} => service'[k] = {}
                 /\ pc'[k] = "test" /\ conn'[k] = 0 => service'[k] = {}
      BY <3>0, <3>1, <3>2, <3>3, <3>4 DEF AloneInv
    <3> QED
      BY <3>4 DEF AloneInv
  <2>3. ASSUME NEW j \in Jobs, GroupGone(j) PROVE AloneInv'
    <3>1. /\ UNCHANGED <<pc, unit, exit, conn, faults>>
          /\ \A k \in Jobs : service'[k] \subseteq service[k]
      BY <2>0, <2>3 DEF GroupGone, shellVars
    <3> QED
      BY <3>1 DEF AloneInv
  <2>4. CASE UNCHANGED <<pc, unit, exit, conn, service>> /\ faults = 0
    BY <2>4 DEF AloneInv
  <2>5. \/ \E j \in Jobs : Job(j) \/ GroupGone(j)
        \/ UNCHANGED <<pc, unit, exit, conn, service>> /\ faults = 0
    BY <2>1 DEF Next, Cleaner, ReadScript, DeleteGroup, Unregister, DeleteVms, CollectorEnds, Quiet,
                vars, shellVars, azureVars
  <2> QED
    BY <2>2, <2>3, <2>4, <2>5
<1>3. AloneInv => OneServiceAtATime
  BY DEF AloneInv, OneServiceAtATime
<1>4. Safe => []AloneInv
  BY <1>1, <1>2, TypeCorrect, TrapHolds, CloudHolds, ConnHolds, PTL DEF Safe
<1>5. TypeOK /\ RunsOnOwnService /\ OneServiceAtATime => OwnServiceAlone
  BY DEF OwnServiceAlone
<1> QED
  BY <1>3, <1>4, <1>5, TypeCorrect, OwnServiceHolds, PTL
=============================================================================
