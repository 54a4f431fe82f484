---------------------------- MODULE StepUpProofs ----------------------------
(* Proofs about StepUp: a load is raised only after clean tries, and no try *)
(* disturbs another, for any lists of units and sizes without repetitions,  *)
(* any number of tries and any number of failures.                          *)
EXTENDS StepUp, TLAPS

\* The lists name no unit and no size twice; with the same unit again, the tries
\* of the second time would overwrite those of the first.
NoRepeats ==
  /\ \A u, v \in DOMAIN UnitList : UnitList[u] = UnitList[v] => u = v
  /\ \A y, z \in DOMAIN SizeList : SizeList[y] = SizeList[z] => y = z

\* A run with steps and at least one try; other runs leave no results.
Stepping == steps /\ MaxRetry > 0

(* Places of the shell: with a service at hand, and inside a try. *)
Trial   == {"inputs", "startServer", "poll", "session", "stopServer", "judge"}
Loading == {"query", "single", "try", "delete"} \cup Trial

(* Where the shell is tells which kind of run it is and how many tries are left. *)
PlaceInv ==
  /\ pc = "try" => Stepping
  /\ pc = "single" => ~Stepping
  /\ pc \in Trial /\ Stepping => i < MaxRetry

(* The service at hand exists, and only its string gets into a try's environment. *)
ServiceInv ==
  /\ pc \in {"dns", "patch", "rollout"} \cup Loading => Service \in services
  /\ pc \in {"single", "try"} \cup Trial => conn \in {None, Service}
  /\ pc \in {"single"} \cup Trial => env.conn = conn
  /\ pc \in {"startServer", "poll", "session"} => env.conn # None

(* Pods are the default ones until they are patched, which is done when asked. *)
LimitsInv ==
  /\ pc \in {"dns", "patch"} => pods = "default"
  /\ pc \in {"patch", "rollout"} => disable
  /\ pc \in Loading \ {"delete"} /\ waited => pods = (IF disable THEN "raised" ELSE "default")

\* A result of the service at hand, and one of a service before it.
Own(r)  == r.tag.unit = Unit /\ r.tag.size = Size
Past(r) == \E u \in DOMAIN UnitList, z \in DOMAIN SizeList :
             /\ r.tag.unit = UnitList[u] /\ r.tag.size = SizeList[z]
             /\ u < ui \/ (u = ui /\ z < si)

(* What the results are, and that those of other services are past ones. *)
ResultInv ==
  /\ names # {}
  /\ results \subseteq [tag : [unit : Nat, size : Nat, number : [names -> Nat]],
                        bad : BOOLEAN]
  /\ ~Stepping => results = {}
  /\ pc \in {"single"} \cup Trial => env.tag = (IF Stepping THEN Tag ELSE None)
  /\ \A r \in results : Past(r) \/ Own(r)
  /\ pc \in {"create", "dns", "patch", "rollout", "query"} => \A r \in results : Past(r)

(* The tries of the service at hand went up to here, cleanly until a session's mark. *)
LoadInv ==
  /\ pc \in {"try", "inputs", "startServer", "poll", "session"} =>
       \A r \in results : Own(r) =>
         ~r.bad /\ \A k \in names : r.tag.number[k] < number[k]
  /\ pc \in {"stopServer", "judge"} =>
       \A r \in results : Own(r) =>
         (r.bad => mark) /\ \A k \in names : r.tag.number[k] <= number[k]

(* A mark that is found after a session is the session's. *)
MarkInv ==
  pc \in {"stopServer", "judge"} /\ Stepping /\ mark =>
    exited \/ \E r \in results : r.tag = env.tag /\ r.bad
-----------------------------------------------------------------------------
(* Types. *)

USE DEF Kinds

LEMMA ListFacts ==
  /\ DOMAIN UnitList = 1..Len(UnitList) /\ Len(UnitList) \in Nat \ {0}
  /\ \A u \in DOMAIN UnitList : UnitList[u] \in Nat \ {0}
  /\ DOMAIN SizeList = 1..Len(SizeList) /\ Len(SizeList) \in Nat \ {0}
  /\ \A z \in DOMAIN SizeList : SizeList[z] \in Nat
  BY StepUpAssumption

LEMMA LoopStep ==
  ASSUME TypeOK, NextService
  PROVE  /\ ui' \in DOMAIN UnitList /\ si' \in DOMAIN SizeList
         /\ pc' \in {"create", "report"}
         /\ pc' = "report" => ui' = ui /\ si' = si
         /\ pc' = "create" => ui < ui' \/ (ui' = ui /\ si < si')
         /\ ui' >= ui
  BY ListFacts DEF TypeOK, NextService

LEMMA LiftStep ==
  ASSUME TypeOK, NextService
  PROVE  disable' \in BOOLEAN
  BY Zenon DEF TypeOK, NextService

\* Faults, conn and the services at the places that change them.
LEMMA FaultStep ==
  ASSUME TypeOK, Fault \/ UNCHANGED faults
  PROVE  faults' \in 0..FaultBudget
  <1> FaultBudget \in Nat /\ faults \in 0..FaultBudget
    BY StepUpAssumption DEF TypeOK
  <1> QED
    BY DEF Fault

LEMMA JudgeLoad ==
  ASSUME TypeOK, PlaceInv, Judge
  PROVE  /\ i' \in 0..MaxRetry
         /\ number' \in [Kinds -> Nat] /\ concurrent' \in [Kinds -> Nat]
         /\ pc' = "try" => /\ Stepping /\ ~mark
                           /\ \A k \in Kinds : number[k] < number'[k]
         /\ pc' = "delete" \/ pc' = "try"
  <1>1. CASE ~steps \/ MaxRetry = 0 \/ mark
    BY <1>1 DEF Judge, TypeOK, loadVars
  <1>2. CASE ~(~steps \/ MaxRetry = 0 \/ mark)
    <2>1. i < MaxRetry /\ i' = i + 1 /\ pc' = "try"
      BY <1>2, StepUpAssumption DEF Judge, PlaceInv, Trial, Stepping
    <2>2. \A k \in Kinds : number[k] \in Nat /\ Step[k] \in Nat \ {0}
      BY StepUpAssumption DEF TypeOK
    <2>3. /\ number' = [k \in Kinds |-> number[k] + Step[k]]
          /\ concurrent' = [concurrent EXCEPT !["broadcast"] = number'["broadcast"]]
      BY <1>2 DEF Judge
    <2>4. number' \in [Kinds -> Nat] /\ \A k \in Kinds : number[k] < number'[k]
      BY <2>2, <2>3
    <2>5. concurrent' \in [Kinds -> Nat]
      BY <2>3, <2>4 DEF TypeOK
    <2> QED
      BY <1>2, <2>1, <2>4, <2>5, StepUpAssumption DEF TypeOK, Stepping
  <1> QED
    BY <1>1, <1>2

(* The types in parts, each of which few steps touch. *)
PlaceOK ==
  /\ pc \in {"create", "dns", "patch", "rollout", "query", "try", "single", "inputs",
             "startServer", "poll", "session", "stopServer", "judge", "delete",
             "report", "done"}
  /\ ui \in DOMAIN UnitList /\ si \in DOMAIN SizeList
FlagsOK == steps \in BOOLEAN /\ waited \in BOOLEAN /\ exited \in BOOLEAN /\ mark \in BOOLEAN
NumbersOK ==
  /\ i \in 0..MaxRetry /\ number \in [Kinds -> Nat] /\ concurrent \in [Kinds -> Nat]
WorldOK ==
  /\ conn \in {None} \cup Services /\ services \subseteq Services
  /\ log \in {"empty", "started", "error"} /\ server \in {"down", "starting", "up"}
  /\ pods \in {"default", "rolling", "raised"}

LEMMA TypeParts ==
  TypeOK <=> /\ PlaceOK /\ FlagsOK /\ NumbersOK /\ WorldOK
             /\ names \subseteq Kinds /\ disable \in BOOLEAN /\ faults \in 0..FaultBudget
  BY DEF TypeOK, PlaceOK, FlagsOK, NumbersOK, WorldOK

LEMMA TypeStep ==
  ASSUME TypeOK, PlaceInv, [Next]_vars
  PROVE  TypeOK'
  <1> USE DEF asked, position, loadVars, jobVars, files, hostVars, cloudVars
  <1>0. PlaceOK /\ FlagsOK /\ NumbersOK /\ WorldOK
    BY TypeParts
  <1>1. PlaceOK'
    <2>1. CASE CreateService \/ DeleteService
      BY <1>0, <2>1, LoopStep DEF CreateService, DeleteService, PlaceOK
    <2>2. CASE CheckDns \/ Patch \/ WaitReady \/ Query \/ Try \/ Single \/ Judge \/ Report
      BY <1>0, <2>2 DEF CheckDns, Patch, WaitReady, Query, Try, Single, Judge, Report, PlaceOK
    <2>3. CASE CheckInputs \/ StartServer \/ Poll \/ Session \/ StopServer
      BY <1>0, <2>3 DEF CheckInputs, StartServer, Poll, Session, StopServer, Exit, PlaceOK
    <2>4. CASE RolledOut \/ ServerUp \/ ServerFails \/ Ended \/ UNCHANGED vars
      BY <1>0, <2>4 DEF RolledOut, ServerUp, ServerFails, Ended, vars, PlaceOK
    <2> QED
      BY <2>1, <2>2, <2>3, <2>4 DEF Next, Job
  <1>2. FlagsOK'
    <2>1. CASE CreateService \/ DeleteService \/ CheckDns \/ Patch \/ WaitReady \/ Query
      BY <1>0, <2>1, Zenon DEF CreateService, DeleteService, CheckDns, Patch, WaitReady, Query,
                          FlagsOK
    <2>2. CASE Try \/ Single \/ Judge \/ Report \/ CheckInputs \/ StartServer \/ StopServer
      BY <1>0, <2>2, Zenon DEF Try, Single, Judge, Report, CheckInputs, StartServer,
                               StopServer, Exit, FlagsOK
    <2>3. CASE Poll \/ Session
      BY <1>0, <2>3, Zenon DEF Poll, Session, Exit, FlagsOK
    <2>4. CASE RolledOut \/ ServerUp \/ ServerFails \/ Ended \/ UNCHANGED vars
      BY <1>0, <2>4, Zenon DEF RolledOut, ServerUp, ServerFails, Ended, vars, FlagsOK
    <2> QED
      BY <2>1, <2>2, <2>3, <2>4 DEF Next, Job
  <1>3. NumbersOK'
    <2>1. CASE Query
      BY <2>1, StepUpAssumption DEF Query, NumbersOK
    <2>2. CASE Judge
      BY <2>2, JudgeLoad DEF NumbersOK
    <2>3. CASE ~(Query \/ Judge)
      <3>1. UNCHANGED loadVars
        BY <2>3 DEF Next, Job, CreateService, CheckDns, Patch, WaitReady, DeleteService, Try,
                    Single, CheckInputs, StartServer, Poll, Session, StopServer, Report,
                    RolledOut, ServerUp, ServerFails, Ended, vars
      <3> QED
        BY <1>0, <3>1 DEF NumbersOK
    <2> QED
      BY <2>1, <2>2, <2>3
  <1>4. WorldOK'
    <2>0. Service \in Services
      BY <1>0 DEF PlaceOK, Service, Services
    <2>1. CASE CreateService \/ CheckDns \/ Patch \/ WaitReady
      BY <1>0, <2>0, <2>1 DEF CreateService, CheckDns, Patch, WaitReady, WorldOK, Services
    <2>2. CASE Query
      <3>1. conn' \in {None} \cup Services
        BY <2>0, <2>2 DEF Query, Services
      <3> QED
        BY <1>0, <2>2, <3>1 DEF Query, WorldOK, Services
    <2>3. CASE DeleteService \/ Try \/ Single \/ Judge \/ Report
      BY <1>0, <2>3 DEF DeleteService, Try, Single, Judge, Report, WorldOK, Services
    <2>4. CASE CheckInputs \/ StartServer \/ Poll \/ Session \/ StopServer
      BY <1>0, <2>4 DEF CheckInputs, StartServer, Poll, Session, StopServer, WorldOK, Services
    <2>5. CASE RolledOut \/ ServerUp \/ ServerFails \/ Ended \/ UNCHANGED vars
      BY <1>0, <2>5 DEF RolledOut, ServerUp, ServerFails, Ended, vars, WorldOK, Services
    <2> QED
      BY <2>1, <2>2, <2>3, <2>4, <2>5 DEF Next, Job
  <1>5. names' \subseteq Kinds
    <2>1. UNCHANGED names
      BY DEF Next, Job, CreateService, CheckDns, Patch, WaitReady, Query, DeleteService, Try,
             Single, Judge, CheckInputs, StartServer, Poll, Session, StopServer, Report,
             RolledOut, ServerUp, ServerFails, Ended, vars
    <2> QED
      BY <2>1 DEF TypeOK
  <1>6. disable' \in BOOLEAN
    <2>1. NextService \/ UNCHANGED disable
      BY DEF Next, Job, CreateService, CheckDns, Patch, WaitReady, Query, DeleteService, Try,
             Single, Judge, CheckInputs, StartServer, Poll, Session, StopServer, Report,
             RolledOut, ServerUp, ServerFails, Ended, vars
    <2> QED
      BY <2>1, LiftStep, Zenon DEF TypeOK
  <1>7. faults' \in 0..FaultBudget
    <2>1. Fault \/ UNCHANGED faults
      BY DEF Next, Job, CreateService, CheckDns, Patch, WaitReady, Query, DeleteService, Try,
             Single, Judge, CheckInputs, StartServer, Poll, Session, StopServer, Report,
             RolledOut, ServerUp, ServerFails, Ended, vars, NoFault
    <2> QED
      BY <2>1, FaultStep
  <1> QED
    BY <1>1, <1>2, <1>3, <1>4, <1>5, <1>6, <1>7
       DEF TypeOK, PlaceOK, FlagsOK, NumbersOK, WorldOK

LEMMA InitTypes == Init => TypeOK /\ PlaceInv
  <1> SUFFICES ASSUME Init PROVE TypeOK /\ PlaceInv
    OBVIOUS
  <1>1. PlaceOK /\ NumbersOK /\ names \subseteq Kinds /\ faults \in 0..FaultBudget
    BY ListFacts, StepUpAssumption DEF Init, PlaceOK, NumbersOK
  <1>2. FlagsOK /\ disable \in BOOLEAN
    BY Zenon DEF Init, FlagsOK
  <1>3. WorldOK
    BY DEF Init, WorldOK
  <1> QED
    BY <1>1, <1>2, <1>3, TypeParts DEF Init, PlaceInv, Trial
-----------------------------------------------------------------------------
(* Where the shell is. *)

LEMMA PlaceStep ==
  ASSUME TypeOK, PlaceInv, [Next]_vars
  PROVE  PlaceInv'
  <1> USE DEF PlaceInv, Trial, Stepping, asked, position, loadVars, jobVars, files, hostVars,
              cloudVars
  <1>1. CASE CreateService \/ DeleteService
    BY <1>1, LoopStep DEF CreateService, DeleteService
  <1>2. CASE CheckDns \/ Patch \/ WaitReady
    <2>1. pc' \in {"patch", "rollout", "query", "delete"}
      BY <1>2 DEF CheckDns, Patch, WaitReady
    <2> QED
      BY <2>1
  <1>8. CASE Single \/ Report
    <2>1. UNCHANGED <<steps, i>> /\ (Single => pc = "single" /\ pc' = "inputs")
      BY <1>8 DEF Single, Report
    <2>2. Report => pc' = "done"
      BY DEF Report
    <2> QED
      BY <1>8, <2>1, <2>2
  <1>3. CASE Query
    BY <1>3 DEF Query
  <1>4. CASE Try
    BY <1>4 DEF Try
  <1>5. CASE Judge
    BY <1>5, JudgeLoad DEF Judge
  <1>6. CASE CheckInputs \/ StartServer \/ Poll \/ Session \/ StopServer
    BY <1>6 DEF CheckInputs, StartServer, Poll, Session, StopServer, Exit
  <1>7. CASE RolledOut \/ ServerUp \/ ServerFails \/ Ended \/ UNCHANGED vars
    BY <1>7 DEF RolledOut, ServerUp, ServerFails, Ended, vars
  <1> QED
    BY <1>1, <1>2, <1>3, <1>4, <1>5, <1>6, <1>7, <1>8 DEF Next, Job

(* The service a try runs against. *)
LEMMA ServiceStep ==
  ASSUME TypeOK, PlaceInv, ServiceInv, [Next]_vars
  PROVE  ServiceInv'
  <1> USE DEF ServiceInv, Loading, Trial, Service, asked, position, loadVars, jobVars, files,
              hostVars, cloudVars
  <1>1. CASE CreateService
    BY <1>1, LoopStep DEF CreateService
  <1>2. CASE DeleteService
    BY <1>2, LoopStep DEF DeleteService
  <1>3. CASE CheckDns \/ Patch \/ WaitReady
    <2>1. pc' \in {"patch", "rollout", "query", "delete"} /\ UNCHANGED <<ui, si, services>>
      BY <1>3 DEF CheckDns, Patch, WaitReady
    <2>2. pc \in {"dns", "patch", "rollout"}
      BY <1>3 DEF CheckDns, Patch, WaitReady
    <2> QED
      BY <2>1, <2>2
  <1>9. CASE Single \/ Report
    BY <1>9 DEF Single, Report
  <1>4. CASE Query
    BY <1>4 DEF Query, NoEnv
  <1>5. CASE Try
    BY <1>5 DEF Try
  <1>6. CASE Judge
    BY <1>6, JudgeLoad DEF Judge
  <1>7. CASE CheckInputs \/ StartServer \/ Poll \/ Session \/ StopServer
    BY <1>7 DEF CheckInputs, StartServer, Poll, Session, StopServer, Exit
  <1>8. CASE RolledOut \/ ServerUp \/ ServerFails \/ Ended \/ UNCHANGED vars
    BY <1>8 DEF RolledOut, ServerUp, ServerFails, Ended, vars
  <1> QED
    BY <1>1, <1>2, <1>3, <1>4, <1>5, <1>6, <1>7, <1>8, <1>9 DEF Next, Job

(* The limits of its pods. *)
LEMMA LimitsStep ==
  ASSUME TypeOK, PlaceInv, LimitsInv, [Next]_vars
  PROVE  LimitsInv'
  <1> USE DEF LimitsInv, Loading, Trial, asked, position, loadVars, jobVars, files, hostVars,
              cloudVars
  <1>1. CASE CreateService \/ DeleteService
    BY <1>1, LoopStep DEF CreateService, DeleteService
  <1>2. CASE CheckDns \/ Patch \/ WaitReady
    BY <1>2 DEF CheckDns, Patch, WaitReady
  <1>3. CASE Query \/ Try \/ Single \/ Report
    BY <1>3 DEF Query, Try, Single, Report
  <1>4. CASE Judge
    BY <1>4, JudgeLoad DEF Judge
  <1>5. CASE CheckInputs \/ StartServer \/ Poll \/ Session \/ StopServer
    BY <1>5 DEF CheckInputs, StartServer, Poll, Session, StopServer, Exit
  <1>6. CASE RolledOut
    BY <1>6 DEF RolledOut
  <1>7. CASE ServerUp \/ ServerFails \/ Ended \/ UNCHANGED vars
    BY <1>7 DEF ServerUp, ServerFails, Ended, vars
  <1> QED
    BY <1>1, <1>2, <1>3, <1>4, <1>5, <1>6, <1>7 DEF Next, Job

-----------------------------------------------------------------------------
(* The results and the load. *)

LEMMA TagFacts ==
  ASSUME TypeOK
  PROVE  /\ Tag \in [unit : Nat, size : Nat, number : [names -> Nat]]
         /\ Tag.unit = Unit /\ Tag.size = Size
         /\ \A k \in names : Tag.number[k] = number[k] /\ number[k] \in Nat
         /\ Tag # None
  <1>1. Unit \in Nat /\ Size \in Nat
    BY ListFacts DEF TypeOK, Unit, Size
  <1>2. \A k \in names : number[k] \in Nat
    BY DEF TypeOK
  <1>3. Tag \in [unit : Nat, size : Nat, number : [names -> Nat]]
    BY <1>1, <1>2 DEF Tag
  <1> QED
    BY <1>1, <1>2, <1>3 DEF Tag, None

(* A past result is of another unit or size than the service at hand. *)
LEMMA PastIsNotOwn ==
  ASSUME NoRepeats, TypeOK, NEW r, Past(r)
  PROVE  ~Own(r)
  <1>1. ui \in DOMAIN UnitList /\ si \in DOMAIN SizeList
    BY DEF TypeOK
  <1>2. PICK u \in DOMAIN UnitList, z \in DOMAIN SizeList :
          /\ r.tag.unit = UnitList[u] /\ r.tag.size = SizeList[z]
          /\ u < ui \/ (u = ui /\ z < si)
    BY DEF Past
  <1>3. u \in Nat /\ z \in Nat /\ ui \in Nat /\ si \in Nat
    BY <1>1, ListFacts
  <1> SUFFICES ASSUME Own(r) PROVE FALSE
    OBVIOUS
  <1>4. u = ui /\ z = si
    BY <1>1, <1>2 DEF Own, Unit, Size, NoRepeats
  <1> QED
    BY <1>2, <1>3, <1>4

(* With the next service all results are past ones. *)
LEMMA NextIsPast ==
  ASSUME TypeOK, NextService, pc' = "create", results' = results,
         NEW r \in results, Past(r) \/ Own(r)
  PROVE  Past(r)'
  <1>0. /\ ui \in DOMAIN UnitList /\ si \in DOMAIN SizeList
        /\ ui' \in DOMAIN UnitList /\ si' \in DOMAIN SizeList
    BY LoopStep DEF TypeOK
  <1>1. /\ ui \in Nat /\ si \in Nat /\ ui' \in Nat /\ si' \in Nat
        /\ DOMAIN UnitList \subseteq Nat /\ DOMAIN SizeList \subseteq Nat
    BY <1>0, ListFacts
  <1>2. ui < ui' \/ (ui' = ui /\ si < si')
    BY LoopStep
  <1>3. PICK u \in DOMAIN UnitList, z \in DOMAIN SizeList :
          /\ r.tag.unit = UnitList[u] /\ r.tag.size = SizeList[z]
          /\ u < ui \/ (u = ui /\ z <= si)
    BY <1>0, <1>1 DEF Past, Own, Unit, Size
  <1>4. u < ui' \/ (u = ui' /\ z < si')
    BY <1>1, <1>2, <1>3
  <1> QED
    BY <1>3, <1>4 DEF Past

(* What a session adds to the results. *)
LEMMA SessionAdds ==
  ASSUME NoRepeats, TypeOK, ResultInv, LoadInv, Session, Stepping
  PROVE  /\ \E bad \in BOOLEAN :
               /\ mark' = bad
               /\ results' = results \cup {[tag |-> Tag, bad |-> bad]}
         /\ \A r \in results : r.tag # Tag
  <1>1. pc = "session" /\ env.tag = Tag
    BY DEF Session, ResultInv, Trial
  <1>2. \A r \in results : r.tag # Tag
    <2> SUFFICES ASSUME NEW r \in results, r.tag = Tag PROVE FALSE
      OBVIOUS
    <2>1. Own(r)
      BY TagFacts DEF Own
    <2>2. \A k \in names : r.tag.number[k] < number[k]
      BY <1>1, <2>1 DEF LoadInv
    <2>3. PICK k \in names : TRUE
      BY DEF ResultInv
    <2> QED
      BY <2>2, <2>3, TagFacts
  <1>3. PICK bad \in BOOLEAN : mark' = bad /\ Keep(bad)
    BY <1>1, TagFacts DEF Session
  <1>4. results' = results \cup {[tag |-> Tag, bad |-> bad]}
    BY <1>1, <1>2, <1>3 DEF Keep
  <1> QED
    BY <1>2, <1>3, <1>4

LEMMA ResultStep ==
  ASSUME NoRepeats, TypeOK, PlaceInv, ResultInv, LoadInv, [Next]_vars
  PROVE  ResultInv'
  <1> DEFINE Plain == [tag : [unit : Nat, size : Nat, number : [names -> Nat]], bad : BOOLEAN]
  <1> USE DEF asked, position, loadVars, jobVars, files, hostVars, cloudVars
  <1>1. CASE CreateService \/ DeleteService
    <2>1. /\ UNCHANGED <<names, steps, results>>
          /\ pc' \notin {"single"} \cup Trial
          /\ (pc' = "create" => NextService)
          /\ NextService \/ (CreateService /\ pc' = "dns" /\ UNCHANGED <<ui, si>>)
      BY <1>1, LoopStep DEF CreateService, DeleteService, Trial
    <2>2. CASE NextService /\ pc' = "create"
      <3>1. \A r \in results' : Past(r)'
        BY <2>1, <2>2, NextIsPast DEF ResultInv
      <3> QED
        BY <2>1, <2>2, <3>1 DEF ResultInv, Stepping
    <2>3. CASE NextService /\ pc' = "report"
      BY <2>1, <2>3, LoopStep DEF ResultInv, Stepping, Past, Own, Unit, Size
    <2>4. CASE CreateService /\ pc' = "dns" /\ UNCHANGED <<ui, si>>
      BY <2>1, <2>4 DEF CreateService, ResultInv, Stepping, Past, Own, Unit, Size
    <2> QED
      BY <2>1, <2>2, <2>3, <2>4, LoopStep
  <1>2. CASE Session
    <2>1. /\ UNCHANGED <<names, steps, ui, si, number, env>>
          /\ pc = "session" /\ pc' = "stopServer"
      BY <1>2 DEF Session
    <2>2. CASE Stepping
      <3>1. PICK bad \in BOOLEAN : results' = results \cup {[tag |-> Tag, bad |-> bad]}
        BY <1>2, <2>2, SessionAdds
      <3>2. results' \subseteq Plain
        BY <3>1, TagFacts DEF ResultInv
      <3>3. \A r \in results' : Past(r) \/ Own(r)
        BY <3>1, TagFacts DEF ResultInv, Own
      <3>4. Stepping' /\ Tag' = Tag /\ \A r : (Past(r) <=> Past(r)') /\ (Own(r) <=> Own(r)')
        BY <2>1, <2>2 DEF Stepping, Tag, Past, Own, Unit, Size
      <3>5. \A r \in results' : Past(r)' \/ Own(r)'
        BY <3>3, <3>4
      <3>6. pc' \in {"single"} \cup Trial => env'.tag = (IF Stepping' THEN Tag' ELSE None)
        BY <2>1, <2>2, <3>4 DEF ResultInv, Trial
      <3>7. names' # {} /\ results' \subseteq Plain'
        BY <2>1, <3>2 DEF ResultInv
      <3> QED
        BY <2>1, <3>4, <3>5, <3>6, <3>7 DEF ResultInv
    <2>3. CASE ~Stepping
      <3>1. results' = results
        BY <1>2, <2>1, <2>3 DEF Session, ResultInv, Trial
      <3> QED
        BY <2>1, <2>3, <3>1 DEF ResultInv, Trial, Stepping
    <2> QED
      BY <2>2, <2>3
  <1>3. CASE ~(CreateService \/ DeleteService \/ Session)
    <2>1. UNCHANGED <<names, steps, ui, si, results>>
      BY <1>3 DEF Next, Job, CheckDns, Patch, WaitReady, Query, Try, Single, Judge, CheckInputs,
                  StartServer, Poll, StopServer, Report, RolledOut, ServerUp, ServerFails, Ended,
                  vars
    <2>2. \A r : (Past(r) <=> Past(r)') /\ (Own(r) <=> Own(r)')
      BY <2>1 DEF Past, Own, Unit, Size
    <2>3. (Stepping <=> Stepping') /\ (~Stepping' => results' = {})
      BY <2>1 DEF Stepping, ResultInv
    <2>4. pc' \in {"create", "dns", "patch", "rollout", "query"} => \A r \in results' : Past(r)'
      <3>1. pc' \in {"create", "dns", "patch", "rollout", "query"} =>
              pc \in {"create", "dns", "patch", "rollout", "query"}
        BY <1>3 DEF Next, Job, CheckDns, Patch, WaitReady, Query, Try, Single, Judge,
                    CheckInputs, StartServer, Poll, StopServer, Report, RolledOut, ServerUp,
                    ServerFails, Ended, vars, Exit
      <3> QED
        BY <2>1, <2>2, <3>1 DEF ResultInv
    <2>5. pc' \in {"single"} \cup Trial => env'.tag = (IF Stepping' THEN Tag' ELSE None)
      <3>1. CASE Try
        BY <3>1, <2>1 DEF Try, Tag, Trial, PlaceInv, Stepping, Unit, Size
      <3>2. CASE ~Try /\ ~Query /\ pc' \in {"single"} \cup Trial
        <4>1. /\ UNCHANGED <<env, number>>
              /\ pc \in {"single"} \cup Trial
          BY <1>3, <3>2
             DEF Next, Job, CheckDns, Patch, WaitReady, Query, Single, Judge, CheckInputs,
                 StartServer, Poll, StopServer, Report, RolledOut, ServerUp, ServerFails, Ended,
                 vars, Exit, Trial
        <4>2. Tag' = Tag
          BY <2>1, <4>1 DEF Tag, Unit, Size
        <4>3. env.tag = (IF Stepping THEN Tag ELSE None)
          BY <4>1 DEF ResultInv
        <4> QED
          BY <2>3, <4>1, <4>2, <4>3
      <3>3. CASE Query
        BY <3>3 DEF Query, NoEnv, Trial, Stepping
      <3> QED
        BY <3>1, <3>2, <3>3
    <2> QED
      BY <2>1, <2>2, <2>3, <2>4, <2>5 DEF ResultInv
  <1> QED
    BY <1>1, <1>2, <1>3

(* A step outside the session and the verdict leaves the load and the results. *)
LEMMA LoadStep ==
  ASSUME NoRepeats, TypeOK, PlaceInv, ResultInv, LoadInv, [Next]_vars
  PROVE  LoadInv'
  <1> USE DEF asked, position, loadVars, jobVars, files, hostVars, cloudVars
  <1>0. /\ \A k \in names : number[k] \in Nat
        /\ \A r \in results, k \in names : r.tag.number[k] \in Nat
    BY TagFacts DEF ResultInv
  <1>1. CASE Query
    <2>1. \A r \in results' : ~Own(r)'
      <3>1. \A r \in results : ~Own(r)
        BY <1>1, PastIsNotOwn DEF Query, ResultInv
      <3> QED
        BY <1>1, <3>1 DEF Query, Own, Unit, Size
    <2> QED
      BY <2>1 DEF LoadInv
  <1>2. CASE Session
    <2>1. /\ UNCHANGED <<names, ui, si, number>>
          /\ pc = "session" /\ pc' = "stopServer"
          /\ \A r : Own(r) <=> Own(r)'
      BY <1>2 DEF Session, Own, Unit, Size
    <2>2. \A r \in results : Own(r) => ~r.bad /\ \A k \in names : r.tag.number[k] <= number[k]
      BY <1>0, <2>1 DEF LoadInv
    <2>3. CASE Stepping
      <3>1. PICK bad \in BOOLEAN :
              mark' = bad /\ results' = results \cup {[tag |-> Tag, bad |-> bad]}
        BY <1>2, <2>3, SessionAdds
      <3>2. ASSUME NEW r \in results', Own(r)
            PROVE  (r.bad => mark') /\ \A k \in names : r.tag.number[k] <= number[k]
        <4>1. CASE r \in results
          BY <2>2, <3>2, <4>1
        <4>2. CASE r = [tag |-> Tag, bad |-> bad]
          BY <1>0, <3>1, <4>2, TagFacts
        <4> QED
          BY <3>1, <4>1, <4>2
      <3> QED
        BY <2>1, <3>2 DEF LoadInv
    <2>4. CASE ~Stepping
      <3>1. results' = {}
        BY <1>2, <2>1, <2>4 DEF Session, ResultInv, Trial
      <3> QED
        BY <3>1 DEF LoadInv
    <2> QED
      BY <2>3, <2>4
  <1>3. CASE Judge
    <2>1. /\ UNCHANGED <<names, ui, si, results>>
          /\ pc = "judge" /\ pc' \in {"try", "delete"}
          /\ \A r : Own(r) <=> Own(r)'
      BY <1>3, JudgeLoad DEF Judge, Own, Unit, Size
    <2>2. CASE pc' = "try"
      <3>1. ~mark /\ (\A k \in names : number[k] < number'[k] /\ number'[k] \in Nat)
        BY <1>3, <2>2, JudgeLoad DEF TypeOK
      <3>2. \A r \in results : Own(r) =>
              ~r.bad /\ \A k \in names : r.tag.number[k] <= number[k]
        BY <2>1, <3>1 DEF LoadInv
      <3>3. ASSUME NEW r \in results, Own(r), NEW k \in names
            PROVE  r.tag.number[k] < number'[k]
        <4>1. r.tag.number[k] <= number[k] /\ number[k] < number'[k]
          BY <3>1, <3>2, <3>3
        <4> QED
          BY <1>0, <3>1, <4>1
      <3> QED
        BY <2>1, <2>2, <3>2, <3>3 DEF LoadInv
    <2> QED
      BY <2>1, <2>2 DEF LoadInv
  <1>4. CASE CheckInputs \/ Poll
    <2>1. /\ UNCHANGED <<names, ui, si, number, results, mark>>
          /\ pc \in {"inputs", "poll"} /\ pc' \in {"startServer", "session", "judge"}
          /\ \A r : Own(r) <=> Own(r)'
      BY <1>4 DEF CheckInputs, Poll, Exit, Own, Unit, Size
    <2>2. \A r \in results : Own(r) =>
            ~r.bad /\ \A k \in names : r.tag.number[k] < number[k]
      BY <2>1 DEF LoadInv
    <2>3. \A r \in results : Own(r) => \A k \in names : r.tag.number[k] <= number[k]
      BY <1>0, <2>2
    <2> QED
      BY <2>1, <2>2, <2>3 DEF LoadInv
  <1>5. CASE CreateService \/ DeleteService
    <2>1. pc' \in {"create", "report", "dns"}
      BY <1>5, LoopStep DEF CreateService, DeleteService
    <2> QED
      BY <2>1 DEF LoadInv
  <1>6. CASE ~(Query \/ Session \/ Judge \/ CheckInputs \/ Poll \/ CreateService \/ DeleteService)
    <2>1. UNCHANGED <<names, ui, si, number, results, mark>>
      BY <1>6 DEF Next, Job, CheckDns, Patch, WaitReady, Try, Single, StartServer, StopServer,
                  Report, RolledOut, ServerUp, ServerFails, Ended, vars
    <2>2. /\ pc' \in {"try", "inputs", "startServer", "poll", "session"} =>
               pc \in {"try", "inputs", "startServer", "poll", "session"} \/ Single
          /\ pc' \in {"stopServer", "judge"} => pc \in {"stopServer", "judge"}
      BY <1>6 DEF Next, Job, CheckDns, Patch, WaitReady, Try, Single, StartServer, StopServer,
                  Report, RolledOut, ServerUp, ServerFails, Ended, vars
    <2>3. Single => results = {}
      BY DEF Single, PlaceInv, ResultInv
    <2>4. \A r : Own(r) <=> Own(r)'
      BY <2>1 DEF Own, Unit, Size
    <2> QED
      BY <2>1, <2>2, <2>3, <2>4 DEF LoadInv
  <1> QED
    BY <1>1, <1>2, <1>3, <1>4, <1>5, <1>6

LEMMA MarkStep ==
  ASSUME NoRepeats, TypeOK, PlaceInv, ResultInv, LoadInv, MarkInv, [Next]_vars
  PROVE  MarkInv'
  <1> USE DEF asked, position, loadVars, jobVars, files, hostVars, cloudVars
  <1>1. CASE Session
    <2>1. UNCHANGED <<steps, exited, env>> /\ env.tag = (IF Stepping THEN Tag ELSE None)
      BY <1>1 DEF Session, ResultInv, Trial
    <2>2. CASE Stepping
      <3>1. PICK bad \in BOOLEAN :
              mark' = bad /\ results' = results \cup {[tag |-> Tag, bad |-> bad]}
        BY <1>1, <2>2, SessionAdds
      <3> DEFINE new == [tag |-> Tag, bad |-> bad]
      <3>2. new \in results' /\ new.tag = env'.tag /\ new.bad = bad
        BY <2>1, <2>2, <3>1
      <3>3. mark' => \E r \in results' : r.tag = env'.tag /\ r.bad
        BY <3>1, <3>2
      <3> QED
        BY <3>3 DEF MarkInv
    <2> QED
      BY <2>1, <2>2 DEF MarkInv, Stepping
  <1>2. CASE CheckInputs \/ Poll
    BY <1>2 DEF CheckInputs, Poll, Exit, MarkInv
  <1>3. CASE CreateService \/ DeleteService
    <2>1. pc' \in {"create", "report", "dns"}
      BY <1>3, LoopStep DEF CreateService, DeleteService
    <2> QED
      BY <2>1 DEF MarkInv
  <1>4. CASE Judge
    BY <1>4, JudgeLoad DEF MarkInv
  <1>5. CASE ~(Session \/ CheckInputs \/ Poll \/ CreateService \/ DeleteService \/ Judge)
    <2>1. /\ pc' \in {"stopServer", "judge"} => UNCHANGED <<steps, exited, env, results, mark>>
          /\ pc' \in {"stopServer", "judge"} => pc \in {"stopServer", "judge"}
      BY <1>5 DEF Next, Job, CheckDns, Patch, WaitReady, Query, Try, Single, StartServer,
                  StopServer, Report, RolledOut, ServerUp, ServerFails, Ended, vars
    <2> SUFFICES ASSUME pc' \in {"stopServer", "judge"}, Stepping', mark'
                 PROVE  exited' \/ \E r \in results' : r.tag = env'.tag /\ r.bad
      BY DEF MarkInv
    <2>2. pc \in {"stopServer", "judge"} /\ Stepping /\ mark
      BY <2>1 DEF Stepping
    <2>3. exited \/ \E r \in results : r.tag = env.tag /\ r.bad
      BY <2>2 DEF MarkInv
    <2>4. CASE exited
      BY <2>1, <2>4
    <2> QED
      BY <2>1, <2>3, <2>4
  <1> QED
    BY <1>1, <1>2, <1>3, <1>4, <1>5

(* A bad result is that of the highest load of its service. *)
LEMMA RaisedStep ==
  ASSUME NoRepeats, TypeOK, PlaceInv, ResultInv, LoadInv, RaisedWhileClean, [Next]_vars
  PROVE  RaisedWhileClean'
  <1> USE DEF asked, position, loadVars, jobVars, files, hostVars, cloudVars
  <1>1. CASE Session /\ Stepping
    <2>1. PICK bad \in BOOLEAN : results' = results \cup {[tag |-> Tag, bad |-> bad]}
      BY <1>1, SessionAdds
    <2>2. pc = "session" /\ UNCHANGED names
      BY <1>1 DEF Session
    <2>3. \A r \in results : Own(r) => ~r.bad /\ \A k \in names : r.tag.number[k] < number[k]
      BY <2>2 DEF LoadInv
    <2> SUFFICES ASSUME NEW r \in results', NEW q \in results', NEW k \in names,
                        r.tag.unit = q.tag.unit, r.tag.size = q.tag.size,
                        r.tag.number[k] < q.tag.number[k]
                 PROVE  ~r.bad
      BY <2>2 DEF RaisedWhileClean
    <2>4. CASE r \in results /\ q \in results
      BY <2>4 DEF RaisedWhileClean
    <2>5. CASE r \in results /\ q = [tag |-> Tag, bad |-> bad]
      BY <2>3, <2>5, TagFacts DEF Own
    <2>6. CASE r = [tag |-> Tag, bad |-> bad] /\ q \in results
      <3>1. Own(q) /\ r.tag.number[k] = number[k]
        BY <2>6, TagFacts DEF Own
      <3>2. q.tag.number[k] < number[k] /\ q.tag.number[k] \in Nat /\ number[k] \in Nat
        BY <2>3, <2>6, <3>1, TagFacts DEF ResultInv
      <3> QED
        BY <3>1, <3>2
    <2>7. CASE r = [tag |-> Tag, bad |-> bad] /\ q = [tag |-> Tag, bad |-> bad]
      BY <2>7, TagFacts
    <2> QED
      BY <2>1, <2>4, <2>5, <2>6, <2>7
  <1>2. CASE ~(Session /\ Stepping)
    <2>1. CASE Session
      BY <1>2, <2>1 DEF Session, ResultInv, Trial, RaisedWhileClean
    <2>2. CASE ~Session
      <3>1. UNCHANGED <<names, results>>
        BY <2>2 DEF Next, Job, CreateService, CheckDns, Patch, WaitReady, Query, DeleteService,
                    Try, Single, Judge, CheckInputs, StartServer, Poll, StopServer, Report,
                    RolledOut, ServerUp, ServerFails, Ended, vars
      <3> QED
        BY <3>1 DEF RaisedWhileClean
    <2> QED
      BY <2>1, <2>2
  <1> QED
    BY <1>1, <1>2
-----------------------------------------------------------------------------
(* The theorems. *)

\* The inductive invariant.
IInv == TypeOK /\ PlaceInv /\ ServiceInv /\ LimitsInv /\ ResultInv /\ LoadInv /\ MarkInv
          /\ RaisedWhileClean

LEMMA InvInit == Init => IInv
  <1> SUFFICES ASSUME Init PROVE IInv
    OBVIOUS
  <1>1. TypeOK /\ PlaceInv
    BY InitTypes
  <1>2. ServiceInv /\ LimitsInv /\ LoadInv /\ MarkInv /\ RaisedWhileClean
    BY DEF Init, ServiceInv, LimitsInv, LoadInv, MarkInv, RaisedWhileClean, Loading, Trial
  <1>3. ResultInv
    <2>1. results = {} /\ names # {} /\ pc = "create"
      BY DEF Init
    <2> QED
      BY <2>1 DEF ResultInv, Trial
  <1> QED
    BY <1>1, <1>2, <1>3 DEF IInv

LEMMA InvHolds == ASSUME NoRepeats PROVE Spec => []IInv
  <1>1. IInv /\ [Next]_vars => IInv'
    <2> SUFFICES ASSUME IInv, [Next]_vars PROVE IInv'
      OBVIOUS
    <2>0. TypeOK /\ PlaceInv /\ ServiceInv /\ LimitsInv /\ ResultInv /\ LoadInv /\ MarkInv
          /\ RaisedWhileClean
      BY DEF IInv
    <2>1. TypeOK' /\ PlaceInv' /\ ServiceInv' /\ LimitsInv'
      BY <2>0, TypeStep, PlaceStep, ServiceStep, LimitsStep
    <2>2. ResultInv' /\ LoadInv' /\ MarkInv' /\ RaisedWhileClean'
      BY <2>0, ResultStep, LoadStep, MarkStep, RaisedStep
    <2> QED
      BY <2>1, <2>2 DEF IInv
  <1> QED
    BY <1>1, InvInit, PTL DEF Spec

\* For any lists of units and sizes without repetitions, whatever fails: of the
\* results of one unit and size only the one with the highest load is a bad one
\* (run_unit_benchmark, jenkins-dogfood-run-sz.sh).
THEOREM RaisedHolds == ASSUME NoRepeats PROVE Spec => []RaisedWhileClean
  <1>1. IInv => RaisedWhileClean
    BY DEF IInv
  <1> QED
    BY <1>1, InvHolds, PTL

LEMMA LimitsAndService == IInv => TypeOK /\ LimitsAsAsked /\ OwnService
  <1> SUFFICES ASSUME IInv PROVE TypeOK /\ LimitsAsAsked /\ OwnService
    OBVIOUS
  <1>1. TypeOK /\ ServiceInv /\ LimitsInv
    BY DEF IInv
  <1>2. LimitsAsAsked
    BY <1>1 DEF LimitsInv, LimitsAsAsked, Loading, Trial
  <1>3. OwnService
    BY <1>1 DEF ServiceInv, OwnService, Loading, Trial
  <1> QED
    BY <1>1, <1>2, <1>3

\* The verdict that ends the tries of a unit is about its own last session.
LEMMA StopStep ==
  IInv /\ [Next]_vars =>
    [pc = "judge" /\ pc' = "delete" /\ steps /\ MaxRetry > 0 =>
       \/ exited
       \/ \E r \in results : r.tag = env.tag /\ r.bad]_vars
  <1> SUFFICES ASSUME IInv, [Next]_vars, pc = "judge", pc' = "delete", steps, MaxRetry > 0
               PROVE  exited \/ \E r \in results : r.tag = env.tag /\ r.bad
    OBVIOUS
  <1>1. Judge
    BY DEF Next, Job, CreateService, CheckDns, Patch, WaitReady, Query, DeleteService, Try,
           Single, CheckInputs, StartServer, Poll, Session, StopServer, Report, RolledOut,
           ServerUp, ServerFails, Ended, vars, jobVars, position, asked
  <1>2. mark /\ Stepping
    BY <1>1, StepUpAssumption DEF Judge, Stepping
  <1> QED
    BY <1>2 DEF IInv, MarkInv

\* Results are only added.
LEMMA KeepStep ==
  ASSUME NoRepeats
  PROVE  IInv /\ [Next]_vars => [\A r \in results : r \in results']_vars
  <1> SUFFICES ASSUME IInv, [Next]_vars PROVE \A r \in results : r \in results'
    OBVIOUS
  <1>0. TypeOK /\ ResultInv /\ LoadInv
    BY DEF IInv
  <1>1. CASE Session /\ Stepping
    BY <1>0, <1>1, SessionAdds
  <1>2. CASE Session /\ ~Stepping
    BY <1>0, <1>2 DEF ResultInv
  <1>3. CASE ~Session
    BY <1>3 DEF Next, Job, CreateService, CheckDns, Patch, WaitReady, Query, DeleteService, Try,
                Single, Judge, CheckInputs, StartServer, Poll, StopServer, Report, RolledOut,
                ServerUp, ServerFails, Ended, vars, jobVars, position, asked, files
  <1> QED
    BY <1>1, <1>2, <1>3

\* For any lists of units and sizes without repetitions, whatever fails: a try
\* keeps the results of those before it, runs on its own unit's service with the
\* limits the job was asked for, and ends the search for its own errors only.
THEOREM ApartHolds == ASSUME NoRepeats PROVE Spec => TriesApart
  BY InvHolds, LimitsAndService, StopStep, KeepStep, PTL DEF TriesApart, StopIsOwn, ResultsKept, Spec
=============================================================================
