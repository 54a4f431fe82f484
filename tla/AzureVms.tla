------------------------------ MODULE AzureVms ------------------------------
(***************************************************************************)
(* Jenkins jobs that create Linux machines: jenkins_create_vm_from_img.sh   *)
(* writes the user's public key and runs AzureAccess (VMAccess.Program),    *)
(* which creates Count public addresses, then Count network interfaces,     *)
(* then Count machines, each batch in parallel and joined by Task.WhenAll.  *)
(* A batch of addresses or interfaces with a failure is undone by deleting  *)
(* everything of its kind in the resource group, and tried again.           *)
(*                                                                          *)
(* A name, <<j, i>>, is the i-th address (interface, machine) of job j's    *)
(* prefix.  Azure is external: it refuses to delete an address that an      *)
(* interface uses and an interface that a machine uses.                     *)
(***************************************************************************)
EXTENDS Integers, FiniteSets

CONSTANTS
    Jobs,        \* jobs that run at the same time, each with its own Alias
    Count,       \* -c: machines of a job
    MaxRetry,    \* -r: attempts at a batch
    FaultBudget, \* bound: Azure calls that fail for a reason of Azure's own
    Group        \* Group[j]: the resource group the user of job j typed

ASSUME CountAssumption == Count \in Nat \ {0}
ASSUME MaxRetryAssumption == MaxRetry \in Nat \ {0}
ASSUME FaultAssumption == FaultBudget \in Nat

NoKey == "none"
ASSUME KeyAssumption == NoKey \notin Jobs

Index == 0 .. Count - 1
Name == Jobs \X Index
Batches == {"ips", "nics"}                  \* the batches that are retried
Looped == {"image", "nsg"}                  \* asked MaxRetry times, come what may

VARIABLES
    pc,       \* pc[j]: the call job j is about to make
    tries,    \* tries[j]: i or j of the retry loop it is in
    got,      \* got[j]: the loop over "image" or "nsg" has had an answer
    done,     \* done[j]: members of the batch in flight that were answered
    bad,      \* bad[j]: one of them with an exception
    listed,   \* listed[j]: what ListByResourceGroupAsync returned
    key,      \* key[j]: sshPubKey, by the job whose key it is
    keyFile,  \* the content of /tmp/${Aliasa}_ssh_pub_key: Aliasa is never set
    ips,      \* the public addresses of all groups
    nics,     \* the network interfaces; <<j, i>> uses the address <<j, i>>
    vmKey,    \* vmKey[n]: the key of machine n, NoKey when there is none
    hosts,    \* hosts[j]: the host file of job j was written
    faults    \* failures so far

vars == <<pc, tries, got, done, bad, listed, key, keyFile, ips, nics, vmKey,
          hosts, faults>>

PCs == {"key", "image", "readKey", "group", "net", "ips", "nsg", "nics", "vms",
        "listIps", "listNics", "dropIps", "dropNics", "ports", "end", "failed"}

vms == {n \in Name : vmKey[n] # NoKey}

TypeOK ==
    /\ pc \in [Jobs -> PCs]
    /\ tries \in [Jobs -> 0 .. MaxRetry]
    /\ got \in [Jobs -> BOOLEAN]
    /\ done \in [Jobs -> SUBSET Index]
    /\ bad \in [Jobs -> BOOLEAN]
    /\ listed \in [Jobs -> SUBSET Name]
    /\ key \in [Jobs -> Jobs \cup {NoKey}]
    /\ keyFile \in Jobs \cup {NoKey}
    /\ ips \subseteq Name
    /\ nics \subseteq Name
    /\ vmKey \in [Name -> Jobs \cup {NoKey}]
    /\ hosts \in [Jobs -> BOOLEAN]
    /\ faults \in 0 .. FaultBudget

Init ==
    /\ pc = [j \in Jobs |-> "key"]
    /\ tries = [j \in Jobs |-> 0]
    /\ got = [j \in Jobs |-> FALSE]
    /\ done = [j \in Jobs |-> {}]
    /\ bad = [j \in Jobs |-> FALSE]
    /\ listed = [j \in Jobs |-> {}]
    /\ key = [j \in Jobs |-> NoKey]
    /\ keyFile = NoKey
    /\ ips = {}
    /\ nics = {}
    /\ vmKey = [n \in Name |-> NoKey]
    /\ hosts = [j \in Jobs |-> FALSE]
    /\ faults = 0

-----------------------------------------------------------------------------
(* Helpers *)

(* What the calls of job j list and delete: all of the group, whoever made it. *)
InGroup(j) == {n \in Name : Group[n[1]] = Group[j]}

(* Azure may fail a call; the budget bounds how often it does. *)
Fault == faults < FaultBudget /\ faults' = faults + 1

Goto(j, l) == pc' = [pc EXCEPT ![j] = l]

(* A fresh loop or batch. *)
Enter(j, l) ==
    /\ Goto(j, l)
    /\ tries' = [tries EXCEPT ![j] = 0]
    /\ got' = [got EXCEPT ![j] = FALSE]
    /\ done' = [done EXCEPT ![j] = {}]
    /\ bad' = [bad EXCEPT ![j] = FALSE]

(* An exception that reaches Main. *)
Throw(j) == Goto(j, "failed") /\ UNCHANGED <<tries, got, done, bad>>

azureState == <<ips, nics, vmKey>>
files == <<keyFile, hosts>>
-----------------------------------------------------------------------------
(* The shell and the preparation *)

(* echo "$SSHPubKey" > /tmp/${Aliasa}_ssh_pub_key; dotnet run. *)
WriteKey(j) ==
    /\ pc[j] = "key"
    /\ keyFile' = j
    /\ Enter(j, "image")
    /\ UNCHANGED <<listed, key, azureState, hosts, faults>>

(* GetVMImageWithRetry, CreateNetworkSecurityGroupWithRetry: the loop runs     *)
(* MaxRetry times, also after a success, and any answer counts.                *)
AskAgain(j) ==
    /\ pc[j] \in Looped
    /\ tries[j] < MaxRetry
    /\ tries' = [tries EXCEPT ![j] = @ + 1]
    /\ \/ got' = [got EXCEPT ![j] = TRUE] /\ UNCHANGED faults
       \/ Fault /\ UNCHANGED got
    /\ UNCHANGED <<pc, done, bad, listed, key, azureState, files>>

(* if (img == null) throw / if (nsg == null) throw. *)
LoopOver(j) ==
    /\ pc[j] \in Looped
    /\ tries[j] = MaxRetry
    /\ \/ got[j] /\ Enter(j, IF pc[j] = "image" THEN "readKey" ELSE "nics")
       \/ ~got[j] /\ Throw(j)
    /\ UNCHANGED <<listed, key, azureState, files, faults>>

(* sshPubKey = File.ReadAllText(agentConfig.SshPubKeyFile). *)
ReadKey(j) ==
    /\ pc[j] = "readKey"
    /\ key' = [key EXCEPT ![j] = keyFile]
    /\ Enter(j, "group")
    /\ UNCHANGED <<listed, azureState, files, faults>>

(* ResourceGroups.Contain and Define: not retried. *)
EnsureGroup(j) ==
    /\ pc[j] = "group"
    /\ \/ Enter(j, "net") /\ UNCHANGED faults
       \/ Fault /\ Throw(j)
    /\ UNCHANGED <<listed, key, azureState, files>>

(* CreateVirtualNetworkWithRetry, GetVirtualNetworkAsync: the first answer is  *)
(* returned, MaxRetry failures return null, and null throws.                   *)
MakeNetwork(j) ==
    /\ pc[j] = "net"
    /\ \/ Enter(j, "ips") /\ UNCHANGED faults
       \/ /\ Fault
          /\ \/ tries[j] + 1 < MaxRetry
                /\ tries' = [tries EXCEPT ![j] = @ + 1]
                /\ UNCHANGED <<pc, got, done, bad>>
             \/ tries[j] + 1 = MaxRetry /\ Throw(j)
    /\ UNCHANGED <<listed, key, azureState, files>>
-----------------------------------------------------------------------------
(* The batches: CreateAsync for every member, then Task.WhenAll.  A call that  *)
(* throws may have done its work all the same.                                 *)

After == [ips |-> "nsg", nics |-> "vms"]
Listing == [ips |-> "listIps", nics |-> "listNics"]
Dropping == [ips |-> "dropIps", nics |-> "dropNics"]

(* A call of the batch is answered when Azure pleases, whatever the job does   *)
(* meanwhile: that it waits for all of them is the guard of JoinBatch.         *)
Pending(j, b, i) == pc[j] \in {b, Listing[b], Dropping[b]} /\ i \notin done[j]

Answered(j, i, failed) ==
    /\ done' = [done EXCEPT ![j] = @ \cup {i}]
    /\ bad' = [bad EXCEPT ![j] = @ \/ failed]
    /\ UNCHANGED <<pc, tries, got, listed, key, files>>

CreateIp(j, i) ==
    /\ Pending(j, "ips", i)
    /\ \/ ips' = ips \cup {<<j, i>>} /\ Answered(j, i, FALSE) /\ UNCHANGED faults
       \/ Fault /\ Answered(j, i, TRUE) /\ ips' \in {ips, ips \cup {<<j, i>>}}
    /\ UNCHANGED <<nics, vmKey>>

(* WithExistingPrimaryPublicIPAddress fails when the address is gone. *)
CreateNic(j, i) ==
    /\ Pending(j, "nics", i)
    /\ \/ /\ <<j, i>> \in ips
          /\ nics' = nics \cup {<<j, i>>}
          /\ Answered(j, i, FALSE) /\ UNCHANGED faults
       \/ <<j, i>> \notin ips /\ Answered(j, i, TRUE) /\ UNCHANGED <<nics, faults>>
       \/ Fault /\ Answered(j, i, TRUE) /\ UNCHANGED nics
    /\ UNCHANGED <<ips, vmKey>>

(* azure.VirtualMachines.Create creates the machines side by side. *)
CreateVm(j, i) ==
    /\ pc[j] = "vms" /\ i \notin done[j]
    /\ \/ /\ <<j, i>> \in nics
          /\ vmKey' = [vmKey EXCEPT ![<<j, i>>] = key[j]]
          /\ Answered(j, i, FALSE) /\ UNCHANGED faults
       \/ <<j, i>> \notin nics /\ Answered(j, i, TRUE) /\ UNCHANGED <<vmKey, faults>>
       \/ Fault /\ Answered(j, i, TRUE) /\ UNCHANGED vmKey
    /\ UNCHANGED <<ips, nics>>

\* Mutant: a call that throws leaves the batch at once, with the others in flight.
JoinBatchEarly(j, b) ==
    /\ pc[j] = b
    /\ \/ done[j] = Index /\ ~bad[j] /\ Enter(j, After[b])
       \/ bad[j] /\ Goto(j, Listing[b]) /\ UNCHANGED <<tries, got, done, bad>>
    /\ UNCHANGED <<listed, key, azureState, files, faults>>

(* Task.WhenAll returns, or throws into the catch that starts to undo. *)
JoinBatch(j, b) ==
    /\ pc[j] = b
    /\ done[j] = Index
    /\ \/ ~bad[j] /\ Enter(j, After[b])
       \/ bad[j] /\ Goto(j, Listing[b]) /\ UNCHANGED <<tries, got, done, bad>>
    /\ UNCHANGED <<listed, key, azureState, files, faults>>

\* Mutant: the machines' own failures are not looked at.
JoinVmsAnyway(j) ==
    /\ pc[j] = "vms"
    /\ done[j] = Index
    /\ Enter(j, "ports")
    /\ UNCHANGED <<listed, key, azureState, files, faults>>

(* VirtualMachines.Create returns, or throws out of CreateVM. *)
JoinVms(j) ==
    /\ pc[j] = "vms"
    /\ done[j] = Index
    /\ \/ ~bad[j] /\ Enter(j, "ports")
       \/ bad[j] /\ Throw(j)
    /\ UNCHANGED <<listed, key, azureState, files, faults>>

Existing(b) == IF b = "ips" THEN ips ELSE nics
InUse(b) == IF b = "ips" THEN nics ELSE vms

(* ListByResourceGroupAsync, in the catch: its own exception is not caught. *)
ListBatch(j, b) ==
    /\ pc[j] = Listing[b]
    /\ \/ /\ listed' = [listed EXCEPT ![j] = Existing(b) \cap InGroup(j)]
          /\ Goto(j, Dropping[b])
          /\ UNCHANGED <<tries, got, done, bad, faults>>
       \/ Fault /\ Throw(j) /\ UNCHANGED listed
    /\ UNCHANGED <<key, azureState, files>>

Delete(b, ns) ==
    /\ ips' = IF b = "ips" THEN ips \ ns ELSE ips
    /\ nics' = IF b = "nics" THEN nics \ ns ELSE nics

(* The next attempt, or null once there were maxTry of them, which throws. *)
Retry(j, b) ==
    \/ /\ tries[j] + 1 < MaxRetry
       /\ Goto(j, b)
       /\ tries' = [tries EXCEPT ![j] = @ + 1]
       /\ done' = [done EXCEPT ![j] = {}]
       /\ bad' = [bad EXCEPT ![j] = FALSE]
       /\ UNCHANGED got
    \/ tries[j] + 1 = MaxRetry /\ Throw(j)

(* DeleteByIdsAsync: what is in use stays, and makes the call throw; it throws *)
(* out of the catch, and so out of CreateVM.                                   *)
DropBatch(j, b) ==
    /\ pc[j] = Dropping[b]
    /\ LET free == listed[j] \ InUse(b) IN
       \/ free = listed[j] /\ Delete(b, free) /\ Retry(j, b) /\ UNCHANGED faults
       \/ free # listed[j] /\ Delete(b, free) /\ Throw(j) /\ UNCHANGED faults
       \/ Fault /\ (\E gone \in SUBSET free : Delete(b, gone)) /\ Throw(j)
    /\ listed' = [listed EXCEPT ![j] = {}]
    /\ UNCHANGED <<key, vmKey, files>>

(* The port check only logs that not all ports are ready, and the file follows; *)
(* an address that cannot be read throws.                                      *)
CheckPorts(j) ==
    /\ pc[j] = "ports"
    /\ \/ hosts' = [hosts EXCEPT ![j] = TRUE] /\ Enter(j, "end") /\ UNCHANGED faults
       \/ Fault /\ Throw(j) /\ UNCHANGED hosts
    /\ UNCHANGED <<listed, key, keyFile, azureState>>

Ended == \A j \in Jobs : pc[j] \in {"end", "failed"}
Finished == Ended /\ UNCHANGED vars
-----------------------------------------------------------------------------
Step(j) ==
    \/ WriteKey(j) \/ AskAgain(j) \/ LoopOver(j) \/ ReadKey(j)
    \/ EnsureGroup(j) \/ MakeNetwork(j) \/ JoinVms(j) \/ CheckPorts(j)
    \/ \E i \in Index : CreateIp(j, i) \/ CreateNic(j, i) \/ CreateVm(j, i)
    \/ \E b \in Batches : JoinBatch(j, b) \/ ListBatch(j, b) \/ DropBatch(j, b)

Next == Finished \/ \E j \in Jobs : Step(j)

Spec == Init /\ [][Next]_vars
-----------------------------------------------------------------------------
(* Properties *)

(* Whatever the jobs of a group delete when they undo an attempt, a machine    *)
(* keeps its interface and an interface its address, since Azure refuses to    *)
(* delete what is in use; HostsExist rests on it.                              *)
Wired == vms \subseteq nics /\ nics \subseteq ips

(* A host file names only machines that exist and can be reached by the name:  *)
(* it is written after VirtualMachines.Create has returned for all of them.    *)
HostsExist ==
    \A j \in Jobs : hosts[j] =>
        \A i \in Index : <<j, i>> \in vms \cap nics \cap ips

(* An attempt never meets what an earlier attempt of the job left behind:      *)
(* Task.WhenAll has waited for every creation before the catch lists and       *)
(* deletes, so that "will retry" starts from nothing of the job's own.         *)
CleanRetry ==
    \A j \in Jobs :
        /\ pc[j] = "ips" => \A i \in Index \ done[j] : <<j, i>> \notin ips
        /\ pc[j] = "nics" => \A i \in Index \ done[j] : <<j, i>> \notin nics
=============================================================================
