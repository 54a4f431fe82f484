--------------------------- MODULE AzureVmsProofs ---------------------------
(* Proofs about AzureVms: types, clean retries, honest host files. *)
EXTENDS AzureVms, TLAPS

(* The types in two halves: where the jobs are, and what they and Azure hold. *)
PlaceOK ==
    /\ pc \in [Jobs -> PCs]
    /\ tries \in [Jobs -> 0 .. MaxRetry]
    /\ got \in [Jobs -> BOOLEAN]
    /\ done \in [Jobs -> SUBSET Index]
    /\ bad \in [Jobs -> BOOLEAN]

HeldOK ==
    /\ listed \in [Jobs -> SUBSET Name]
    /\ key \in [Jobs -> Jobs \cup {NoKey}]
    /\ keyFile \in Jobs \cup {NoKey}
    /\ ips \subseteq Name
    /\ nics \subseteq Name
    /\ vmKey \in [Name -> Jobs \cup {NoKey}]
    /\ hosts \in [Jobs -> BOOLEAN]
    /\ faults \in 0 .. FaultBudget

LEMMA TypeParts == TypeOK <=> PlaceOK /\ HeldOK
  BY DEF TypeOK, PlaceOK, HeldOK

(* Entering a loop, throwing and retrying keep the jobs' places typed. *)
LEMMA EnterTyped ==
  ASSUME PlaceOK, NEW j \in Jobs, NEW l \in PCs, Enter(j, l)
  PROVE  PlaceOK'
  <1>1. 0 \in 0 .. MaxRetry /\ {} \in SUBSET Index
    BY MaxRetryAssumption
  <1> QED
    BY <1>1 DEF Enter, Goto, PlaceOK

LEMMA ThrowTyped ==
  ASSUME PlaceOK, NEW j \in Jobs, Throw(j)
  PROVE  PlaceOK'
  <1>1. "failed" \in PCs
    BY DEF PCs
  <1> QED
    BY <1>1 DEF Throw, Goto, PlaceOK

LEMMA RetryTyped ==
  ASSUME PlaceOK, NEW j \in Jobs, NEW b \in Batches, Retry(j, b)
  PROVE  PlaceOK'
  <1>1. CASE Throw(j)
    BY <1>1, ThrowTyped
  <1>2. CASE ~Throw(j)
    <2>1. tries[j] \in 0 .. MaxRetry
      BY DEF PlaceOK
    <2>2. tries[j] + 1 < MaxRetry
      BY <1>2 DEF Retry
    <2>3. tries[j] + 1 \in 0 .. MaxRetry
      BY <2>1, <2>2, MaxRetryAssumption
    <2>4. b \in PCs
      BY DEF Batches, PCs
    <2>5. pc' = [pc EXCEPT ![j] = b] /\ got' = got
      BY <1>2 DEF Retry, Goto
    <2>6. tries' = [tries EXCEPT ![j] = tries[j] + 1]
      BY <1>2 DEF Retry
    <2>7. done' = [done EXCEPT ![j] = {}] /\ bad' = [bad EXCEPT ![j] = FALSE]
      BY <1>2 DEF Retry
    <2>8. tries' \in [Jobs -> 0 .. MaxRetry]
      BY <2>3, <2>6 DEF PlaceOK
    <2> QED
      BY <2>4, <2>5, <2>7, <2>8 DEF PlaceOK
  <1> QED
    BY <1>1, <1>2

(* An answered creation keeps them typed too. *)
LEMMA AnsweredTyped ==
  ASSUME PlaceOK, NEW j \in Jobs, NEW i \in Index, NEW failed \in BOOLEAN,
         Answered(j, i, failed)
  PROVE  PlaceOK'
  <1>1. done[j] \cup {i} \in SUBSET Index
    BY DEF PlaceOK
  <1>2. done' \in [Jobs -> SUBSET Index]
    BY <1>1 DEF Answered, PlaceOK
  <1>3. bad' \in [Jobs -> BOOLEAN]
    BY DEF Answered, PlaceOK
  <1> QED
    BY <1>2, <1>3 DEF Answered, PlaceOK

LEMMA FaultTyped ==
  ASSUME faults \in 0 .. FaultBudget, Fault
  PROVE  faults' \in 0 .. FaultBudget
  BY FaultAssumption DEF Fault

LEMMA NameIndex ==
  ASSUME NEW j \in Jobs, NEW i \in Index
  PROVE  <<j, i>> \in Name
  BY DEF Name

(* One job's step keeps the types. *)
LEMMA StepTyped ==
  ASSUME TypeOK, NEW j \in Jobs, Step(j)
  PROVE  TypeOK'
  <1>0. PlaceOK /\ HeldOK
    BY TypeParts
  <1>1. CASE WriteKey(j)
    <2>1. PlaceOK'
      BY <1>0, <1>1, EnterTyped DEF WriteKey, PCs
    <2> QED
      BY <1>0, <1>1, <2>1 DEF WriteKey, azureState, TypeOK, PlaceOK, HeldOK
  <1>2. CASE AskAgain(j)
    <2>1. tries[j] \in 0 .. MaxRetry /\ tries[j] < MaxRetry
      BY <1>0, <1>2 DEF AskAgain, PlaceOK
    <2>2. tries[j] + 1 \in 0 .. MaxRetry
      BY <2>1, MaxRetryAssumption
    <2>3. tries' \in [Jobs -> 0 .. MaxRetry]
      BY <1>0, <1>2, <2>2 DEF AskAgain, PlaceOK
    <2>4. got' \in [Jobs -> BOOLEAN]
      BY <1>0, <1>2 DEF AskAgain, PlaceOK
    <2>5. faults' \in 0 .. FaultBudget
      BY <1>0, <1>2, FaultTyped DEF AskAgain, HeldOK
    <2> QED
      BY <1>0, <1>2, <2>3, <2>4, <2>5
         DEF AskAgain, azureState, files, TypeOK, PlaceOK, HeldOK
  <1>3. CASE LoopOver(j)
    <2>1. PlaceOK'
      BY <1>0, <1>3, EnterTyped, ThrowTyped DEF LoopOver, PCs
    <2> QED
      BY <1>0, <1>3, <2>1 DEF LoopOver, azureState, files, TypeOK, PlaceOK, HeldOK
  <1>4. CASE ReadKey(j)
    <2>1. PlaceOK'
      BY <1>0, <1>4, EnterTyped DEF ReadKey, PCs
    <2> QED
      BY <1>0, <1>4, <2>1 DEF ReadKey, azureState, files, TypeOK, PlaceOK, HeldOK
  <1>5. CASE EnsureGroup(j)
    <2>1. PlaceOK'
      BY <1>0, <1>5, EnterTyped, ThrowTyped DEF EnsureGroup, PCs
    <2>2. faults' \in 0 .. FaultBudget
      BY <1>0, <1>5, FaultTyped DEF EnsureGroup, HeldOK
    <2> QED
      BY <1>0, <1>5, <2>1, <2>2
         DEF EnsureGroup, azureState, files, TypeOK, PlaceOK, HeldOK
  <1>6. CASE MakeNetwork(j)
    <2>1. ASSUME Enter(j, "ips") \/ Throw(j)
          PROVE  PlaceOK'
      BY <1>0, <2>1, EnterTyped, ThrowTyped DEF PCs
    <2>2. ASSUME tries[j] + 1 < MaxRetry, tries' = [tries EXCEPT ![j] = @ + 1],
                 UNCHANGED <<pc, got, done, bad>>
          PROVE  PlaceOK'
      <3>1. tries[j] \in 0 .. MaxRetry
        BY <1>0 DEF PlaceOK
      <3>2. tries[j] + 1 \in 0 .. MaxRetry
        BY <2>2, <3>1, MaxRetryAssumption
      <3>3. tries' \in [Jobs -> 0 .. MaxRetry]
        BY <1>0, <2>2, <3>2 DEF PlaceOK
      <3> QED
        BY <1>0, <2>2, <3>3 DEF PlaceOK
    <2>3. PlaceOK'
      BY <1>6, <2>1, <2>2 DEF MakeNetwork
    <2>4. faults' \in 0 .. FaultBudget
      BY <1>0, <1>6, FaultTyped DEF MakeNetwork, HeldOK
    <2> QED
      BY <1>0, <1>6, <2>3, <2>4
         DEF MakeNetwork, azureState, files, TypeOK, PlaceOK, HeldOK
  <1>7. CASE JoinVms(j)
    <2>1. PlaceOK'
      BY <1>0, <1>7, EnterTyped, ThrowTyped DEF JoinVms, PCs
    <2> QED
      BY <1>0, <1>7, <2>1 DEF JoinVms, azureState, files, TypeOK, PlaceOK, HeldOK
  <1>8. CASE CheckPorts(j)
    <2>1. PlaceOK'
      BY <1>0, <1>8, EnterTyped, ThrowTyped DEF CheckPorts, PCs
    <2>2. faults' \in 0 .. FaultBudget
      BY <1>0, <1>8, FaultTyped DEF CheckPorts, HeldOK
    <2> QED
      BY <1>0, <1>8, <2>1, <2>2 DEF CheckPorts, azureState, TypeOK, PlaceOK, HeldOK
  <1>9. ASSUME NEW i \in Index, CreateIp(j, i)
        PROVE  TypeOK'
    <2>1. PlaceOK'
      BY <1>0, <1>9, AnsweredTyped DEF CreateIp
    <2>2. faults' \in 0 .. FaultBudget
      BY <1>0, <1>9, FaultTyped DEF CreateIp, HeldOK
    <2>0. ips' = ips \/ ips' = ips \cup {<<j, i>>}
      BY <1>9 DEF CreateIp
    <2>3. ips' \subseteq Name
      BY <1>0, <2>0, NameIndex DEF HeldOK
    <2>4. UNCHANGED <<listed, key, keyFile, hosts, nics, vmKey>>
      BY <1>9 DEF CreateIp, Answered, files
    <2> QED
      BY <1>0, <2>1, <2>2, <2>3, <2>4 DEF TypeOK, PlaceOK, HeldOK
  <1>10. ASSUME NEW i \in Index, CreateNic(j, i)
         PROVE  TypeOK'
    <2>1. PlaceOK'
      BY <1>0, <1>10, AnsweredTyped DEF CreateNic
    <2>2. faults' \in 0 .. FaultBudget
      BY <1>0, <1>10, FaultTyped DEF CreateNic, HeldOK
    <2>0. nics' = nics \/ nics' = nics \cup {<<j, i>>}
      BY <1>10 DEF CreateNic
    <2>3. nics' \subseteq Name
      BY <1>0, <2>0, NameIndex DEF HeldOK
    <2>4. UNCHANGED <<listed, key, keyFile, hosts, ips, vmKey>>
      BY <1>10 DEF CreateNic, Answered, files
    <2> QED
      BY <1>0, <2>1, <2>2, <2>3, <2>4 DEF TypeOK, PlaceOK, HeldOK
  <1>11. ASSUME NEW i \in Index, CreateVm(j, i)
         PROVE  TypeOK'
    <2>1. PlaceOK'
      BY <1>0, <1>11, AnsweredTyped DEF CreateVm
    <2>2. faults' \in 0 .. FaultBudget
      BY <1>0, <1>11, FaultTyped DEF CreateVm, HeldOK
    <2>3. key[j] \in Jobs \cup {NoKey}
      BY <1>0 DEF HeldOK
    <2>4. vmKey' = vmKey \/ vmKey' = [vmKey EXCEPT ![<<j, i>>] = key[j]]
      BY <1>11 DEF CreateVm
    <2>5. vmKey' \in [Name -> Jobs \cup {NoKey}]
      BY <1>0, <2>3, <2>4 DEF HeldOK
    <2>6. UNCHANGED <<listed, key, keyFile, hosts, ips, nics>>
      BY <1>11 DEF CreateVm, Answered, files
    <2> QED
      BY <1>0, <2>1, <2>2, <2>5, <2>6 DEF TypeOK, PlaceOK, HeldOK
  <1>12. ASSUME NEW b \in Batches, JoinBatch(j, b)
         PROVE  TypeOK'
    <2>1. After[b] \in PCs /\ Listing[b] \in PCs
      BY DEF Batches, After, Listing, PCs
    <2>2. ASSUME Enter(j, After[b])
          PROVE  PlaceOK'
      BY <1>0, <2>1, <2>2, EnterTyped
    <2>3. ASSUME Goto(j, Listing[b]), UNCHANGED <<tries, got, done, bad>>
          PROVE  PlaceOK'
      BY <1>0, <2>1, <2>3 DEF Goto, PlaceOK
    <2>4. PlaceOK'
      BY <1>12, <2>2, <2>3 DEF JoinBatch
    <2> QED
      BY <1>0, <1>12, <2>4 DEF JoinBatch, azureState, files, TypeOK, PlaceOK, HeldOK
  <1>13. ASSUME NEW b \in Batches, ListBatch(j, b)
         PROVE  TypeOK'
    <2>1. Dropping[b] \in PCs
      BY DEF Batches, Dropping, PCs
    <2>2. PlaceOK'
      <3>1. CASE Throw(j)
        BY <1>0, <3>1, ThrowTyped
      <3>2. CASE Goto(j, Dropping[b]) /\ UNCHANGED <<tries, got, done, bad>>
        BY <1>0, <2>1, <3>2 DEF Goto, PlaceOK
      <3> QED
        BY <1>13, <3>1, <3>2 DEF ListBatch
    <2>3. Existing(b) \cap InGroup(j) \in SUBSET Name
      BY DEF InGroup
    <2>4. listed' \in [Jobs -> SUBSET Name]
      BY <1>0, <1>13, <2>3 DEF ListBatch, HeldOK
    <2>5. faults' \in 0 .. FaultBudget
      BY <1>0, <1>13, FaultTyped DEF ListBatch, HeldOK
    <2> QED
      BY <1>0, <1>13, <2>2, <2>4, <2>5
         DEF ListBatch, azureState, files, TypeOK, PlaceOK, HeldOK
  <1>14. ASSUME NEW b \in Batches, DropBatch(j, b)
         PROVE  TypeOK'
    <2>1. PlaceOK'
      BY <1>0, <1>14, RetryTyped, ThrowTyped DEF DropBatch
    <2>2. faults' \in 0 .. FaultBudget
      BY <1>0, <1>14, FaultTyped DEF DropBatch, HeldOK
    <2>3. PICK ns : Delete(b, ns)
      BY <1>14 DEF DropBatch
    <2>4. ips' \subseteq Name /\ nics' \subseteq Name
      BY <1>0, <2>3 DEF Delete, HeldOK
    <2>5. listed' \in [Jobs -> SUBSET Name]
      BY <1>0, <1>14 DEF DropBatch, HeldOK
    <2>6. UNCHANGED <<key, vmKey, keyFile, hosts>>
      BY <1>14 DEF DropBatch, files
    <2> QED
      BY <1>0, <2>1, <2>2, <2>4, <2>5, <2>6 DEF TypeOK, PlaceOK, HeldOK
  <1> QED
    BY <1>1, <1>2, <1>3, <1>4, <1>5, <1>6, <1>7, <1>8, <1>9, <1>10, <1>11,
       <1>12, <1>13, <1>14 DEF Step

(* TypeOK: every place, address, interface, machine and file keeps its type. *)
THEOREM TypeCorrect == Spec => []TypeOK
  <1>1. Init => TypeOK
    BY MaxRetryAssumption, FaultAssumption, KeyAssumption DEF Init, TypeOK, PCs
  <1>2. TypeOK /\ [Next]_vars => TypeOK'
    <2>1. ASSUME TypeOK, UNCHANGED vars
          PROVE  TypeOK'
      BY <2>1 DEF TypeOK, vars
    <2>2. ASSUME TypeOK, NEW j \in Jobs, Step(j)
          PROVE  TypeOK'
      BY <2>2, StepTyped
    <2> QED
      BY <2>1, <2>2 DEF Next, Finished
  <1> QED
    BY <1>1, <1>2, PTL DEF Spec
-----------------------------------------------------------------------------
(* What a step of job j cannot do to another job's name or place. *)
LEMMA Frame ==
  ASSUME TypeOK, NEW j \in Jobs, NEW k \in Jobs \ {j}, Step(j)
  PROVE  /\ pc'[k] = pc[k] /\ done'[k] = done[k] /\ bad'[k] = bad[k]
         /\ listed'[k] = listed[k] /\ key'[k] = key[k] /\ hosts'[k] = hosts[k]
         /\ \A i \in Index :
              /\ <<k, i>> \in ips' => <<k, i>> \in ips
              /\ <<k, i>> \in nics' => <<k, i>> \in nics
              /\ vmKey'[<<k, i>>] = vmKey[<<k, i>>]
  <1>0. PlaceOK /\ HeldOK
    BY TypeParts
  <1> USE DEF Enter, Throw, Goto, Retry, Answered, Delete, azureState, files
  <1>1. pc'[k] = pc[k] /\ done'[k] = done[k] /\ bad'[k] = bad[k]
    <2>1. ASSUME NEW l, Enter(j, l)
          PROVE  pc'[k] = pc[k] /\ done'[k] = done[k] /\ bad'[k] = bad[k]
      BY <1>0, <2>1 DEF PlaceOK
    <2>2. ASSUME Throw(j)
          PROVE  pc'[k] = pc[k] /\ done'[k] = done[k] /\ bad'[k] = bad[k]
      BY <1>0, <2>2 DEF PlaceOK
    <2>3. ASSUME NEW l, Goto(j, l), UNCHANGED <<tries, got, done, bad>>
          PROVE  pc'[k] = pc[k] /\ done'[k] = done[k] /\ bad'[k] = bad[k]
      BY <1>0, <2>3 DEF PlaceOK
    <2>4. ASSUME NEW i \in Index, NEW failed, Answered(j, i, failed)
          PROVE  pc'[k] = pc[k] /\ done'[k] = done[k] /\ bad'[k] = bad[k]
      BY <1>0, <2>4 DEF PlaceOK
    <2>5. ASSUME NEW b \in Batches, Retry(j, b)
          PROVE  pc'[k] = pc[k] /\ done'[k] = done[k] /\ bad'[k] = bad[k]
      BY <1>0, <2>5 DEF PlaceOK
    <2>6. ASSUME UNCHANGED <<pc, done, bad>>
          PROVE  pc'[k] = pc[k] /\ done'[k] = done[k] /\ bad'[k] = bad[k]
      BY <2>6
    <2> HIDE DEF Enter, Throw, Goto, Retry, Answered
    <2>7. CASE WriteKey(j) \/ ReadKey(j) \/ CheckPorts(j)
      BY <2>1, <2>2, <2>7 DEF WriteKey, ReadKey, CheckPorts
    <2>8. CASE AskAgain(j)
      BY <2>6, <2>8 DEF AskAgain
    <2>9. CASE LoopOver(j) \/ EnsureGroup(j) \/ JoinVms(j)
      BY <2>1, <2>2, <2>9 DEF LoopOver, EnsureGroup, JoinVms
    <2>10. CASE MakeNetwork(j)
      BY <2>1, <2>2, <2>6, <2>10 DEF MakeNetwork
    <2>11. ASSUME NEW i \in Index, CreateIp(j, i) \/ CreateNic(j, i) \/ CreateVm(j, i)
           PROVE  pc'[k] = pc[k] /\ done'[k] = done[k] /\ bad'[k] = bad[k]
      BY <2>4, <2>11 DEF CreateIp, CreateNic, CreateVm
    <2>12. ASSUME NEW b \in Batches, JoinBatch(j, b)
           PROVE  pc'[k] = pc[k] /\ done'[k] = done[k] /\ bad'[k] = bad[k]
      BY <2>1, <2>3, <2>12 DEF JoinBatch
    <2>13. ASSUME NEW b \in Batches, ListBatch(j, b)
           PROVE  pc'[k] = pc[k] /\ done'[k] = done[k] /\ bad'[k] = bad[k]
      BY <2>2, <2>3, <2>13 DEF ListBatch
    <2>14. ASSUME NEW b \in Batches, DropBatch(j, b)
           PROVE  pc'[k] = pc[k] /\ done'[k] = done[k] /\ bad'[k] = bad[k]
      BY <2>2, <2>5, <2>14 DEF DropBatch
    <2> QED
      BY <2>7, <2>8, <2>9, <2>10, <2>11, <2>12, <2>13, <2>14 DEF Step
  <1> HIDE DEF Enter, Throw, Goto, Retry
  <1>2. listed'[k] = listed[k] /\ key'[k] = key[k] /\ hosts'[k] = hosts[k]
    <2>1. listed'[k] = listed[k]
      BY <1>0 DEF Step, WriteKey, AskAgain, LoopOver, ReadKey, EnsureGroup, MakeNetwork,
         JoinVms, CheckPorts, CreateIp, CreateNic, CreateVm, JoinBatch, ListBatch,
         DropBatch, HeldOK
    <2>2. key'[k] = key[k]
      BY <1>0 DEF Step, WriteKey, AskAgain, LoopOver, ReadKey, EnsureGroup, MakeNetwork,
         JoinVms, CheckPorts, CreateIp, CreateNic, CreateVm, JoinBatch, ListBatch,
         DropBatch, HeldOK
    <2>3. hosts'[k] = hosts[k]
      BY <1>0 DEF Step, WriteKey, AskAgain, LoopOver, ReadKey, EnsureGroup, MakeNetwork,
         JoinVms, CheckPorts, CreateIp, CreateNic, CreateVm, JoinBatch, ListBatch,
         DropBatch, HeldOK
    <2> QED
      BY <2>1, <2>2, <2>3
  <1>3. ASSUME NEW i \in Index
        PROVE  /\ <<k, i>> \in ips' => <<k, i>> \in ips
               /\ <<k, i>> \in nics' => <<k, i>> \in nics
               /\ vmKey'[<<k, i>>] = vmKey[<<k, i>>]
    <2>0. <<k, i>> \in Name /\ \A h \in Index : <<j, h>> # <<k, i>>
      BY NameIndex
    <2>2. ASSUME NEW h \in Index, CreateIp(j, h)
          PROVE  /\ <<k, i>> \in ips' => <<k, i>> \in ips
                 /\ nics' = nics /\ vmKey' = vmKey
      BY <2>0, <2>2 DEF CreateIp
    <2>3. ASSUME NEW h \in Index, CreateNic(j, h)
          PROVE  /\ <<k, i>> \in nics' => <<k, i>> \in nics
                 /\ ips' = ips /\ vmKey' = vmKey
      BY <2>0, <2>3 DEF CreateNic
    <2>4. ASSUME NEW h \in Index, CreateVm(j, h)
          PROVE  /\ vmKey'[<<k, i>>] = vmKey[<<k, i>>]
                 /\ ips' = ips /\ nics' = nics
      BY <1>0, <2>0, <2>4 DEF CreateVm, HeldOK
    <2>5. ASSUME NEW b \in Batches, DropBatch(j, b)
          PROVE  ips' \subseteq ips /\ nics' \subseteq nics /\ vmKey' = vmKey
      BY <2>5 DEF DropBatch
    <2>6. CASE \/ WriteKey(j) \/ AskAgain(j) \/ LoopOver(j) \/ ReadKey(j)
               \/ EnsureGroup(j) \/ MakeNetwork(j) \/ JoinVms(j) \/ CheckPorts(j)
               \/ \E b \in Batches : JoinBatch(j, b) \/ ListBatch(j, b)
      <3>1. UNCHANGED azureState
        BY <2>6 DEF WriteKey, AskAgain, LoopOver, ReadKey, EnsureGroup, MakeNetwork,
           JoinVms, CheckPorts, JoinBatch, ListBatch
      <3> QED
        BY <3>1
    <2> QED
      BY <2>2, <2>3, <2>4, <2>5, <2>6 DEF Step
  <1> QED
    BY <1>1, <1>2, <1>3
-----------------------------------------------------------------------------
(* Which of its own addresses and interfaces may exist where a job stands. *)
BeforeIps == {"key", "image", "readKey", "group", "net"}
BeforeNics == BeforeIps \cup {"ips", "listIps", "dropIps", "nsg"}

OwnIps(j) ==
    /\ pc[j] \in BeforeIps => \A i \in Index : <<j, i>> \notin ips
    /\ pc[j] = "ips" => \A i \in Index \ done[j] : <<j, i>> \notin ips
    /\ pc[j] \in {"listIps", "dropIps"} => done[j] = Index
    /\ pc[j] = "dropIps" => \A i \in Index : <<j, i>> \in ips => <<j, i>> \in listed[j]

OwnNics(j) ==
    /\ pc[j] \in BeforeNics => \A i \in Index : <<j, i>> \notin nics
    /\ pc[j] = "nics" => \A i \in Index \ done[j] : <<j, i>> \notin nics
    /\ pc[j] \in {"listNics", "dropNics"} => done[j] = Index
    /\ pc[j] = "dropNics" => \A i \in Index : <<j, i>> \in nics => <<j, i>> \in listed[j]

CleanInv == \A j \in Jobs : OwnIps(j) /\ OwnNics(j)

LEMMA CleanFrame ==
  ASSUME TypeOK, CleanInv, NEW j \in Jobs, NEW k \in Jobs \ {j}, Step(j)
  PROVE  OwnIps(k)' /\ OwnNics(k)'
  <1>1. OwnIps(k) /\ OwnNics(k)
    BY DEF CleanInv
  <1> QED
    BY <1>1, Frame DEF OwnIps, OwnNics

LEMMA CleanStep ==
  ASSUME TypeOK, CleanInv, NEW j \in Jobs, Step(j)
  PROVE  OwnIps(j)' /\ OwnNics(j)'
  <1>0. OwnIps(j) /\ OwnNics(j) /\ PlaceOK /\ HeldOK
    BY TypeParts DEF CleanInv
  <1>a. pc[j] \in PCs
    BY <1>0 DEF PlaceOK
  <1>1. ASSUME NEW l, Enter(j, l)
        PROVE  pc'[j] = l /\ done'[j] = {}
    BY <1>0, <1>1 DEF Enter, Goto, PlaceOK
  <1>2. ASSUME Throw(j)
        PROVE  pc'[j] = "failed"
    BY <1>0, <1>2 DEF Throw, Goto, PlaceOK
  <1>3. CASE WriteKey(j)
    BY <1>0, <1>1, <1>3
       DEF WriteKey, azureState, OwnIps, OwnNics, BeforeIps, BeforeNics
  <1>4. CASE AskAgain(j)
    BY <1>0, <1>4
       DEF AskAgain, azureState, OwnIps, OwnNics, BeforeIps, BeforeNics
  <1>5. CASE LoopOver(j)
    <2>1. CASE pc[j] = "image"
      BY <1>0, <1>1, <1>2, <1>5, <2>1
         DEF LoopOver, azureState, OwnIps, OwnNics, BeforeIps, BeforeNics
    <2>2. CASE pc[j] = "nsg"
      BY <1>0, <1>1, <1>2, <1>5, <2>2
         DEF LoopOver, azureState, OwnIps, OwnNics, BeforeIps, BeforeNics
    <2> QED
      BY <1>5, <2>1, <2>2 DEF LoopOver, Looped
  <1>6. CASE ReadKey(j)
    BY <1>0, <1>1, <1>6
       DEF ReadKey, azureState, OwnIps, OwnNics, BeforeIps, BeforeNics
  <1>7. CASE EnsureGroup(j)
    BY <1>0, <1>1, <1>2, <1>7
       DEF EnsureGroup, azureState, OwnIps, OwnNics, BeforeIps, BeforeNics
  <1>8. CASE MakeNetwork(j)
    <2>1. pc'[j] \in {"net", "ips", "failed"} /\ (pc'[j] = "net" \/ pc'[j] # "net")
      BY <1>0, <1>1, <1>2, <1>8 DEF MakeNetwork
    <2> QED
      BY <1>0, <1>8, <2>1
         DEF MakeNetwork, azureState, OwnIps, OwnNics, BeforeIps, BeforeNics
  <1>9. CASE JoinVms(j)
    BY <1>0, <1>1, <1>2, <1>9
       DEF JoinVms, azureState, OwnIps, OwnNics, BeforeIps, BeforeNics
  <1>10. CASE CheckPorts(j)
    BY <1>0, <1>1, <1>2, <1>10
       DEF CheckPorts, azureState, OwnIps, OwnNics, BeforeIps, BeforeNics
  <1>11. ASSUME NEW i \in Index, CreateIp(j, i)
         PROVE  OwnIps(j)' /\ OwnNics(j)'
    <2>0. pc[j] = "ips"
      BY <1>0, <1>11 DEF CreateIp, Pending, Listing, Dropping, OwnIps
    <2>1. /\ pc'[j] = "ips" /\ pc[j] = "ips" /\ nics' = nics
          /\ done'[j] = done[j] \cup {i}
          /\ ips' \subseteq ips \cup {<<j, i>>}
      BY <1>0, <1>11, <2>0 DEF CreateIp, Answered, PlaceOK
    <2> QED
      BY <1>0, <2>1 DEF OwnIps, OwnNics, BeforeIps, BeforeNics
  <1>12. ASSUME NEW i \in Index, CreateNic(j, i)
         PROVE  OwnIps(j)' /\ OwnNics(j)'
    <2>0. pc[j] = "nics"
      BY <1>0, <1>12 DEF CreateNic, Pending, Listing, Dropping, OwnNics
    <2>1. /\ pc'[j] = "nics" /\ pc[j] = "nics" /\ ips' = ips
          /\ done'[j] = done[j] \cup {i}
          /\ nics' \subseteq nics \cup {<<j, i>>}
      BY <1>0, <1>12, <2>0 DEF CreateNic, Answered, PlaceOK
    <2> QED
      BY <1>0, <2>1 DEF OwnIps, OwnNics, BeforeIps, BeforeNics
  <1>13. ASSUME NEW i \in Index, CreateVm(j, i)
         PROVE  OwnIps(j)' /\ OwnNics(j)'
    <2>1. pc'[j] = "vms" /\ ips' = ips /\ nics' = nics
      BY <1>0, <1>13 DEF CreateVm, Answered, PlaceOK
    <2> QED
      BY <1>0, <2>1 DEF OwnIps, OwnNics, BeforeIps, BeforeNics
  <1>14. ASSUME NEW b \in Batches, JoinBatch(j, b)
         PROVE  OwnIps(j)' /\ OwnNics(j)'
    <2>1. ips' = ips /\ nics' = nics /\ pc[j] = b
      BY <1>14 DEF JoinBatch, azureState
    <2>2. pc'[j] = After[b] \/ (pc'[j] = Listing[b] /\ done'[j] = Index)
      BY <1>0, <1>1, <1>14 DEF JoinBatch, Goto, PlaceOK
    <2>3. CASE b = "ips"
      BY <1>0, <2>1, <2>2, <2>3
         DEF After, Listing, OwnIps, OwnNics, BeforeIps, BeforeNics
    <2>4. CASE b = "nics"
      BY <1>0, <2>1, <2>2, <2>4
         DEF After, Listing, OwnIps, OwnNics, BeforeIps, BeforeNics
    <2> QED
      BY <2>3, <2>4 DEF Batches
  <1>15. ASSUME NEW b \in Batches, ListBatch(j, b)
         PROVE  OwnIps(j)' /\ OwnNics(j)'
    <2>1. ips' = ips /\ nics' = nics /\ pc[j] = Listing[b]
      BY <1>15 DEF ListBatch, azureState
    <2>2. \/ pc'[j] = "failed"
          \/ pc'[j] = Dropping[b] /\ done' = done /\ listed'[j] = Existing(b) \cap InGroup(j)
      BY <1>0, <1>2, <1>15 DEF ListBatch, Goto, PlaceOK, HeldOK
    <2>3. \A i \in Index : <<j, i>> \in InGroup(j)
      BY NameIndex DEF InGroup
    <2>4. CASE b = "ips"
      BY <1>0, <2>1, <2>2, <2>3, <2>4
         DEF Listing, Dropping, Existing, OwnIps, OwnNics, BeforeIps, BeforeNics
    <2>5. CASE b = "nics"
      BY <1>0, <2>1, <2>2, <2>3, <2>5
         DEF Listing, Dropping, Existing, OwnIps, OwnNics, BeforeIps, BeforeNics
    <2> QED
      BY <2>4, <2>5 DEF Batches
  <1>16. ASSUME NEW b \in Batches, DropBatch(j, b)
         PROVE  OwnIps(j)' /\ OwnNics(j)'
    <2>1. \/ pc'[j] = "failed"
          \/ pc'[j] = b /\ done'[j] = {} /\ Delete(b, listed[j])
      BY <1>0, <1>2, <1>16 DEF DropBatch, Retry, Goto, PlaceOK
    <2>2. pc[j] = Dropping[b] /\ ips' \subseteq ips /\ nics' \subseteq nics
      BY <1>16 DEF DropBatch, Delete
    <2>3. CASE b = "ips"
      BY <1>0, <2>1, <2>2, <2>3
         DEF Delete, Dropping, OwnIps, OwnNics, BeforeIps, BeforeNics
    <2>4. CASE b = "nics"
      BY <1>0, <2>1, <2>2, <2>4
         DEF Delete, Dropping, OwnIps, OwnNics, BeforeIps, BeforeNics
    <2> QED
      BY <2>3, <2>4 DEF Batches
  <1> QED
    BY <1>3, <1>4, <1>5, <1>6, <1>7, <1>8, <1>9, <1>10, <1>11, <1>12, <1>13,
       <1>14, <1>15, <1>16 DEF Step

(* CleanRetry: each attempt at the addresses or the interfaces starts with none *)
(* of the job's own, however many jobs share the group and whatever fails.      *)
THEOREM CleanHolds == Spec => []CleanRetry
  <1>1. Init => CleanInv
    BY DEF Init, CleanInv, OwnIps, OwnNics
  <1>2. TypeOK /\ CleanInv /\ [Next]_vars => CleanInv'
    <2>1. ASSUME CleanInv, UNCHANGED vars
          PROVE  CleanInv'
      BY <2>1 DEF CleanInv, OwnIps, OwnNics, vars
    <2>2. ASSUME TypeOK, CleanInv, NEW j \in Jobs, Step(j)
          PROVE  CleanInv'
      BY <2>2, CleanFrame, CleanStep DEF CleanInv
    <2> QED
      BY <2>1, <2>2 DEF Next, Finished
  <1>3. CleanInv => CleanRetry
    BY DEF CleanInv, CleanRetry, OwnIps, OwnNics
  <1> QED
    BY <1>1, <1>2, <1>3, TypeCorrect, PTL DEF Spec
-----------------------------------------------------------------------------
(* Wired is inductive: the order of creation and the refusals of Azure. *)
LEMMA WiredStep ==
  ASSUME TypeOK, Wired, NEW j \in Jobs, Step(j)
  PROVE  Wired'
  <1>0. HeldOK
    BY TypeParts
  <1>1. ASSUME NEW i \in Index, CreateIp(j, i)
        PROVE  Wired'
    BY <1>1 DEF CreateIp, Wired, vms
  <1>2. ASSUME NEW i \in Index, CreateNic(j, i)
        PROVE  Wired'
    BY <1>2 DEF CreateNic, Wired, vms
  <1>3. ASSUME NEW i \in Index, CreateVm(j, i)
        PROVE  Wired'
    <2>1. ips' = ips /\ nics' = nics
      BY <1>3 DEF CreateVm
    <2>2. vms' \subseteq vms \cup {<<j, i>>} /\ (vms' # vms => <<j, i>> \in nics)
      BY <1>0, <1>3 DEF CreateVm, vms, HeldOK
    <2> QED
      BY <2>1, <2>2 DEF Wired
  <1>4. ASSUME NEW b \in Batches, DropBatch(j, b)
        PROVE  Wired'
    <2>1. vms' = vms
      BY <1>4 DEF DropBatch, vms
    <2>2. PICK ns : Delete(b, ns) /\ ns \subseteq listed[j] \ InUse(b)
      BY <1>4 DEF DropBatch
    <2>3. CASE b = "ips"
      BY <2>1, <2>2, <2>3 DEF Delete, InUse, Wired
    <2>4. CASE b = "nics"
      BY <2>1, <2>2, <2>4 DEF Delete, InUse, Wired
    <2> QED
      BY <2>3, <2>4 DEF Batches
  <1>5. CASE \/ WriteKey(j) \/ AskAgain(j) \/ LoopOver(j) \/ ReadKey(j)
             \/ EnsureGroup(j) \/ MakeNetwork(j) \/ JoinVms(j) \/ CheckPorts(j)
             \/ \E b \in Batches : JoinBatch(j, b) \/ ListBatch(j, b)
    <2>1. UNCHANGED azureState
      BY <1>5 DEF WriteKey, AskAgain, LoopOver, ReadKey, EnsureGroup, MakeNetwork,
         JoinVms, CheckPorts, JoinBatch, ListBatch
    <2> QED
      BY <2>1 DEF azureState, Wired, vms
  <1> QED
    BY <1>1, <1>2, <1>3, <1>4, <1>5 DEF Step

(* Where a job stands with its key, its machines and its host file. *)
KeyRead == {"group", "net", "ips", "listIps", "dropIps", "nsg", "nics",
            "listNics", "dropNics", "vms"}

Machines(j) ==
    /\ pc[j] # "key" => keyFile \in Jobs
    /\ pc[j] \in KeyRead => key[j] \in Jobs
    /\ (pc[j] = "vms" /\ ~bad[j]) => \A i \in done[j] : vmKey[<<j, i>>] # NoKey
    /\ pc[j] \in {"ports", "end"} => \A i \in Index : vmKey[<<j, i>>] # NoKey
    /\ hosts[j] => pc[j] = "end"

MachineInv == \A j \in Jobs : Machines(j)

LEMMA KeyFileStays ==
  ASSUME TypeOK, NEW j \in Jobs, Step(j), keyFile \in Jobs
  PROVE  keyFile' \in Jobs
  BY DEF Step, WriteKey, AskAgain, LoopOver, ReadKey, EnsureGroup, MakeNetwork,
     JoinVms, CheckPorts, CreateIp, CreateNic, CreateVm, Answered, JoinBatch,
     ListBatch, DropBatch, files

LEMMA MachinesFrame ==
  ASSUME TypeOK, MachineInv, NEW j \in Jobs, NEW k \in Jobs \ {j}, Step(j)
  PROVE  Machines(k)'
  <1>1. Machines(k)
    BY DEF MachineInv
  <1>2. done[k] \subseteq Index
    BY DEF TypeOK
  <1> QED
    BY <1>1, <1>2, Frame, KeyFileStays DEF Machines

LEMMA MachinesStep ==
  ASSUME TypeOK, MachineInv, NEW j \in Jobs, Step(j)
  PROVE  Machines(j)'
  <1>0. Machines(j) /\ PlaceOK /\ HeldOK /\ done[j] \subseteq Index
    BY TypeParts DEF MachineInv, PlaceOK
  <1>k. keyFile \in Jobs => keyFile' \in Jobs
    BY KeyFileStays
  <1>1. ASSUME NEW l, Enter(j, l)
        PROVE  pc'[j] = l /\ done'[j] = {}
    BY <1>0, <1>1 DEF Enter, Goto, PlaceOK
  <1>2. ASSUME Throw(j)
        PROVE  pc'[j] = "failed"
    BY <1>0, <1>2 DEF Throw, Goto, PlaceOK
  <1>3. CASE WriteKey(j)
    BY <1>0, <1>1, <1>3 DEF WriteKey, azureState, Machines, KeyRead
  <1>4. CASE AskAgain(j)
    BY <1>0, <1>k, <1>4 DEF AskAgain, azureState, files, Looped, Machines, KeyRead
  <1>5. CASE LoopOver(j)
    <2>1. CASE pc[j] = "image"
      BY <1>0, <1>1, <1>2, <1>k, <1>5, <2>1
         DEF LoopOver, azureState, files, Machines, KeyRead
    <2>2. CASE pc[j] = "nsg"
      BY <1>0, <1>1, <1>2, <1>k, <1>5, <2>2
         DEF LoopOver, azureState, files, Machines, KeyRead
    <2> QED
      BY <1>5, <2>1, <2>2 DEF LoopOver, Looped
  <1>6. CASE ReadKey(j)
    <2>1. key'[j] = keyFile /\ pc'[j] = "group" /\ hosts' = hosts /\ keyFile' = keyFile
      BY <1>0, <1>1, <1>6 DEF ReadKey, files, HeldOK
    <2> QED
      BY <1>0, <1>6, <2>1 DEF ReadKey, Machines
  <1>7. CASE EnsureGroup(j)
    BY <1>0, <1>1, <1>2, <1>k, <1>7
       DEF EnsureGroup, azureState, files, Machines, KeyRead
  <1>8. CASE MakeNetwork(j)
    <2>1. pc'[j] \in {"net", "ips", "failed"} /\ pc[j] = "net"
      BY <1>0, <1>1, <1>2, <1>8 DEF MakeNetwork
    <2>2. key' = key /\ hosts' = hosts
      BY <1>8 DEF MakeNetwork, files
    <2> QED
      BY <1>0, <1>k, <2>1, <2>2 DEF Machines, KeyRead
  <1>9. CASE JoinVms(j)
    BY <1>0, <1>1, <1>2, <1>k, <1>9
       DEF JoinVms, azureState, files, Machines, KeyRead
  <1>10. CASE CheckPorts(j)
    <2>1. vmKey' = vmKey /\ pc[j] = "ports"
      BY <1>10 DEF CheckPorts, azureState
    <2>2. pc'[j] = "end" \/ (pc'[j] = "failed" /\ hosts' = hosts)
      BY <1>1, <1>2, <1>10 DEF CheckPorts
    <2>3. CASE pc'[j] = "end"
      BY <1>0, <1>k, <2>1, <2>3 DEF Machines, KeyRead
    <2>4. CASE pc'[j] = "failed" /\ hosts' = hosts
      BY <1>0, <1>k, <2>1, <2>4 DEF Machines, KeyRead
    <2> QED
      BY <2>2, <2>3, <2>4
  <1>11. ASSUME NEW i \in Index, CreateIp(j, i)
         PROVE  Machines(j)'
    <2>1. /\ pc'[j] = pc[j] /\ key' = key /\ hosts' = hosts
          /\ pc[j] \in {"ips", "listIps", "dropIps"}
      BY <1>11 DEF CreateIp, Pending, Listing, Dropping, Answered, files
    <2> QED
      BY <1>0, <1>k, <2>1 DEF Machines, KeyRead
  <1>12. ASSUME NEW i \in Index, CreateNic(j, i)
         PROVE  Machines(j)'
    <2>1. /\ pc'[j] = pc[j] /\ key' = key /\ hosts' = hosts
          /\ pc[j] \in {"nics", "listNics", "dropNics"}
      BY <1>12 DEF CreateNic, Pending, Listing, Dropping, Answered, files
    <2> QED
      BY <1>0, <1>k, <2>1 DEF Machines, KeyRead
  <1>13. ASSUME NEW i \in Index, CreateVm(j, i)
         PROVE  Machines(j)'
    <2>1. pc'[j] = "vms" /\ pc[j] = "vms" /\ key' = key /\ hosts' = hosts
      BY <1>13 DEF CreateVm, Answered, files
    <2>2. key[j] \in Jobs /\ key[j] # NoKey
      BY <1>0, <2>1, KeyAssumption DEF Machines, KeyRead
    <2>3. done'[j] = done[j] \cup {i} /\ (bad[j] => bad'[j])
      BY <1>0, <1>13 DEF CreateVm, Answered, PlaceOK
    <2>4. ASSUME ~bad'[j]
          PROVE  vmKey' = [vmKey EXCEPT ![<<j, i>>] = key[j]]
      BY <1>0, <1>13, <2>4 DEF CreateVm, Answered, PlaceOK
    <2>5. ASSUME ~bad'[j], NEW h \in done'[j]
          PROVE  vmKey'[<<j, h>>] # NoKey
      <3>1. h \in Index /\ <<j, h>> \in Name /\ <<j, i>> \in Name
        BY <1>0, <2>3, <2>5, NameIndex
      <3>2. CASE h = i
        BY <1>0, <2>2, <2>4, <2>5, <3>1, <3>2 DEF HeldOK
      <3>3. CASE h # i
        <4>1. vmKey[<<j, h>>] # NoKey
          BY <1>0, <2>1, <2>3, <2>5, <3>3 DEF Machines
        <4> QED
          BY <1>0, <2>4, <2>5, <3>1, <3>3, <4>1 DEF HeldOK
      <3> QED
        BY <3>2, <3>3
    <2> QED
      BY <1>0, <1>k, <2>1, <2>5 DEF Machines, KeyRead
  <1>14. ASSUME NEW b \in Batches, JoinBatch(j, b)
         PROVE  Machines(j)'
    <2>1. key' = key /\ hosts' = hosts /\ pc[j] = b
      BY <1>14 DEF JoinBatch, files
    <2>2. (pc'[j] = After[b] /\ done'[j] = {}) \/ pc'[j] = Listing[b]
      BY <1>0, <1>1, <1>14 DEF JoinBatch, Goto, PlaceOK
    <2> QED
      BY <1>0, <1>k, <2>1, <2>2 DEF Batches, After, Listing, Machines, KeyRead
  <1>15. ASSUME NEW b \in Batches, ListBatch(j, b)
         PROVE  Machines(j)'
    <2>1. key' = key /\ hosts' = hosts /\ pc[j] = Listing[b]
      BY <1>15 DEF ListBatch, files
    <2>2. pc'[j] = "failed" \/ pc'[j] = Dropping[b]
      BY <1>0, <1>2, <1>15 DEF ListBatch, Goto, PlaceOK
    <2> QED
      BY <1>0, <1>k, <2>1, <2>2 DEF Batches, Listing, Dropping, Machines, KeyRead
  <1>16. ASSUME NEW b \in Batches, DropBatch(j, b)
         PROVE  Machines(j)'
    <2>1. key' = key /\ hosts' = hosts /\ pc[j] = Dropping[b]
      BY <1>16 DEF DropBatch, files
    <2>2. pc'[j] = "failed" \/ pc'[j] = b
      BY <1>0, <1>2, <1>16 DEF DropBatch, Retry, Goto, PlaceOK
    <2> QED
      BY <1>0, <1>k, <2>1, <2>2 DEF Batches, Dropping, Machines, KeyRead
  <1> QED
    BY <1>3, <1>4, <1>5, <1>6, <1>7, <1>8, <1>9, <1>10, <1>11, <1>12, <1>13,
       <1>14, <1>15, <1>16 DEF Step

(* HostsExist: every machine a host file names exists, with its interface and   *)
(* its address, for any number of jobs, machines, attempts and failing calls.   *)
THEOREM HostsHold == Spec => []HostsExist
  <1>1. Init => Wired /\ MachineInv
    BY DEF Init, Wired, vms, MachineInv, Machines, KeyRead
  <1>2. TypeOK /\ Wired /\ MachineInv /\ [Next]_vars => (Wired /\ MachineInv)'
    <2>1. ASSUME Wired, MachineInv, UNCHANGED vars
          PROVE  (Wired /\ MachineInv)'
      BY <2>1 DEF Wired, vms, MachineInv, Machines, vars
    <2>2. ASSUME TypeOK, Wired, MachineInv, NEW j \in Jobs, Step(j)
          PROVE  (Wired /\ MachineInv)'
      BY <2>2, WiredStep, MachinesFrame, MachinesStep DEF MachineInv
    <2> QED
      BY <2>1, <2>2 DEF Next, Finished
  <1>3. Wired /\ MachineInv => HostsExist
    BY NameIndex DEF Wired, vms, MachineInv, Machines, HostsExist
  <1> QED
    BY <1>1, <1>2, <1>3, TypeCorrect, PTL DEF Spec
=============================================================================
