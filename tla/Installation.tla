---------------------------- MODULE Installation ----------------------------
(***************************************************************************)
(* What Create and Delete of the cluster manager do to a cluster and to    *)
(* what clusters share: the phases of the installer, kept in the cluster's *)
(* document; the deployment and the blobs in its resource group; the DNS   *)
(* records of its domain, the network security groups of its subnets and   *)
(* its private endpoint.                                                   *)
(*                                                                         *)
(* Every call to Azure is a step.  A worker may die at any step, and       *)
(* another one then starts over from the phase in the document; a lease    *)
(* may also expire while its worker is alive, and then two workers are at  *)
(* it, until the first one notices.  PatchWithLease is one step here: what *)
(* its read and its write may interleave with is in ClusterLifecycle.      *)
(***************************************************************************)
EXTENDS Naturals, Sequences, FiniteSets

CONSTANTS
  Clusters,     \* all with the same domain and the same subnets
  Workers,      \* the goroutines that run handle
  Subnets,      \* the sequence <<master, worker>>
  None,
  MaxCreates,   \* bound on the clusters created
  MaxFaults,    \* bound on crashes, expired leases and failing calls
  MaxEvents     \* bound on both together

ASSUME NoneAssumption == None \notin Clusters \cup Workers

NoInstall == 9     \* Install is nil

VARIABLES
  works,     \* of every worker, the cluster it works on...
  proc,      \* ...and its process, which owns its leases
  state,     \* of every cluster, its provisioning state or "none"
  doc,       \* its document
  lease,     \* the process that holds the lease, or None
  cloud,     \* its resource group and its private endpoints
  api, apps, \* the owner of the api record, and who wrote the *.apps record
  nsg,       \* of every subnet, the cluster whose group is attached
  pc, loc,   \* of every worker, its step and its local variables
  creates, faults,
  expired    \* the clusters whose lease expired under a worker

shared == <<api, apps, nsg>>
counters == <<creates, faults, expired>>
fixed == <<works, proc>>
vars == <<fixed, state, doc, lease, cloud, shared, pc, loc, counters>>

\* id: new for every document; suffix: StorageSuffix; kubeconfig, password:
\* the generation of secrets they are from; peIP: PrivateEndpointIP is set.
NewDoc(id) == [id |-> id, suffix |-> 0, phase |-> NoInstall, kubeconfig |-> 0, password |-> 0, peIP |-> FALSE]

\* active: the template being deployed under the name azuredeploy; last: how
\* the last deployment ended; account: the suffix of the storage account;
\* ign, graph: the generation of the blobs; booted: that of the ignition the
\* bootstrap machine started from; endpoints: ids of documents.
Empty == [group |-> FALSE, active |-> None, last |-> None, deployed |-> {}, account |-> 0, ign |-> 0,
          graph |-> 0, bootstrap |-> FALSE, booted |-> 0, complete |-> FALSE, endpoints |-> {}]

\* The manager's and the installer's copy of the document, the secrets just
\* resolved, those read from the graph, the subnet at hand and what is known
\* of it, and whether the api record is as it was when read.
NoLocals == [doc |-> NewDoc(0), gen |-> 0, graph |-> 0, s |-> 1, fresh |-> FALSE]

Init ==
  /\ works \in [Workers -> Clusters] /\ proc \in [Workers -> Workers]
  /\ state = [c \in Clusters |-> "none"]
  /\ doc = [c \in Clusters |-> NewDoc(0)]
  /\ lease = [c \in Clusters |-> None]
  /\ cloud = [c \in Clusters |-> Empty]
  /\ api = None /\ apps = None
  /\ nsg = [i \in 1..Len(Subnets) |-> None]
  /\ pc = [w \in Workers |-> "idle"]
  /\ loc = [w \in Workers |-> NoLocals]
  /\ creates = 0 /\ faults = 0
  /\ expired = {}

---------------------------------------------------------------------------
(***************************************************************************)
(* Requests, leases and faults.                                            *)
(***************************************************************************)
\* Nothing else goes wrong once a lease has expired under a worker.
MayFail == faults < MaxFaults /\ creates + faults < MaxEvents /\ expired = {}

Active(w) == pc[w] # "idle"
Holds(w) == lease[works[w]] = proc[w]

\* PUT of a new cluster, of those some worker may get at.
Put(c) ==
  /\ state[c] = "none" /\ \E w \in Workers : works[w] = c
  /\ creates < MaxCreates /\ creates + faults < MaxEvents
  /\ creates' = creates + 1
  /\ state' = [state EXCEPT ![c] = "creating"]
  /\ doc' = [doc EXCEPT ![c] = NewDoc(doc[c].id + 1)]
  /\ UNCHANGED <<fixed, lease, cloud, shared, pc, loc, faults, expired>>

Delete(c) ==
  /\ state[c] \in {"succeeded", "failed"}
  /\ state' = [state EXCEPT ![c] = "deleting"]
  /\ UNCHANGED <<fixed, doc, lease, cloud, shared, pc, loc, counters>>

\* A worker takes a document whose lease is free or has expired.  An idle
\* worker of a process that is at it already may do so as well.
Dequeue(w) ==
  LET c == works[w]
      stolen == \E v \in Workers : works[v] = c /\ Active(v) /\ Holds(v)
  IN /\ pc[w] = "idle" /\ state[c] \in {"creating", "deleting"}
     /\ stolen => MayFail
     /\ faults' = IF stolen THEN faults + 1 ELSE faults
     /\ expired' = IF stolen THEN expired \cup {c} ELSE expired
     /\ lease' = [lease EXCEPT ![c] = proc[w]]
     /\ pc' = [pc EXCEPT ![w] = IF state[c] = "creating" THEN "create" ELSE "delDnsGet"]
     /\ loc' = [loc EXCEPT ![w] = [NoLocals EXCEPT !.doc = doc[c]]]
     /\ UNCHANGED <<fixed, state, doc, cloud, shared, creates>>

\* A process dies with its workers, and its leases expire.
Crash(w) ==
  LET dead == {v \in Workers : proc[v] = proc[w]}
  IN /\ Active(w) /\ MayFail
     /\ faults' = faults + 1
     /\ pc' = [v \in Workers |-> IF v \in dead THEN "idle" ELSE pc[v]]
     /\ loc' = [v \in Workers |-> IF v \in dead THEN NoLocals ELSE loc[v]]
     /\ lease' = [c \in Clusters |-> IF lease[c] = proc[w] THEN None ELSE lease[c]]
     /\ UNCHANGED <<fixed, state, doc, cloud, shared, creates, expired>>

\* endLease: with the lease lost the document stays as it is.
End(w, s) ==
  LET c == works[w]
  IN /\ pc' = [pc EXCEPT ![w] = "idle"]
     /\ loc' = [loc EXCEPT ![w] = NoLocals]
     /\ state' = IF Holds(w) THEN [state EXCEPT ![c] = s] ELSE state
     /\ lease' = IF Holds(w) THEN [lease EXCEPT ![c] = None] ELSE lease

\* A panic is recovered at the top of the goroutine.  No one renews the lease
\* any more, unless another worker of the process does.
Panic(w) ==
  LET c == works[w]
      renewed == \E v \in Workers \ {w} : works[v] = c /\ proc[v] = proc[w] /\ Active(v)
  IN /\ pc' = [pc EXCEPT ![w] = "idle"]
     /\ loc' = [loc EXCEPT ![w] = NoLocals]
     /\ lease' = IF Holds(w) /\ ~renewed THEN [lease EXCEPT ![c] = None] ELSE lease
     /\ UNCHANGED state

\* A call fails, of those whose error is returned, or the heartbeat has
\* cancelled the context of a worker that has lost its lease.
Fail(w) ==
  /\ Active(w)
  /\ Holds(w) => MayFail /\ pc[w] \notin {"delNsgGet", "delNsgPut"}
  /\ faults' = IF Holds(w) THEN faults + 1 ELSE faults
  /\ End(w, "failed")
  /\ UNCHANGED <<fixed, doc, cloud, shared, creates, expired>>

---------------------------------------------------------------------------
(***************************************************************************)
(* The steps of a worker.                                                  *)
(***************************************************************************)
Go(w, from, to) == pc[w] = from /\ pc' = [pc EXCEPT ![w] = to]

\* The call at this step returns an error that no retry would avoid.
Error(w) == End(w, "failed") /\ UNCHANGED <<fixed, doc, cloud, shared, counters>>

\* PatchWithLease, whose result replaces the worker's copy.
Patch(w, d) ==
  /\ Holds(w)
  /\ doc' = [doc EXCEPT ![works[w]] = d]
  /\ loc' = [loc EXCEPT ![w].doc = d]
  /\ UNCHANGED <<fixed, state, lease, cloud, shared>>

\* Something random, different from whatever the cluster still has.
Fresh(c) ==
  LET used == {doc[c].suffix, doc[c].kubeconfig, doc[c].password, cloud[c].account,
               cloud[c].ign, cloud[c].graph, cloud[c].booted}
                \cup UNION {{loc[w].gen, loc[w].graph, loc[w].doc.suffix,
                            loc[w].doc.kubeconfig, loc[w].doc.password} : w \in {v \in Workers : works[v] = c}}
  IN CHOOSE n \in 1..(Cardinality(used) + 1) : n \notin used /\ \A k \in 1..(n - 1) : k \in used

\* Mutant: a takeover chooses another suffix.
Create_NewSuffix(w) ==
  /\ Go(w, "create", "install")
  /\ Patch(w, [doc[works[w]] EXCEPT !.suffix = Fresh(works[w])])
  /\ UNCHANGED counters

\* Create: the SSH key and the suffix of the storage account, once.
Create(w) ==
  /\ Go(w, "create", "install")
  /\ Patch(w, [doc[works[w]] EXCEPT !.suffix = IF @ = 0 THEN Fresh(works[w]) ELSE @])
  /\ UNCHANGED counters

\* The loop's switch on the phase.
Label(phase) == CASE phase = 0 -> "dnsGet" [] phase \in {1, 2} -> "getGraph" [] OTHER -> "unrecognised"

Install(w) ==
  LET d == [doc[works[w]] EXCEPT !.phase = IF @ = NoInstall THEN 0 ELSE @]
  IN /\ Go(w, "install", Label(d.phase))
     /\ Patch(w, d)
     /\ UNCHANGED counters

\* Mutant: Install is not a pointer.
NextPhase_NotNil(w) ==
  LET d == [doc[works[w]] EXCEPT !.phase = @ + 1]
  IN /\ Holds(w)
     /\ Go(w, "nextPhase", Label(d.phase))
     /\ doc' = [doc EXCEPT ![works[w]] = d]
     /\ loc' = [loc EXCEPT ![w] = [NoLocals EXCEPT !.doc = d]]
     /\ UNCHANGED <<fixed, state, lease, cloud, shared, counters>>

\* Phase++, of the document's Install and not of the worker's copy.  What
\* installStorage or installResources knew is gone.
NextPhase(w) ==
  LET d == [doc[works[w]] EXCEPT !.phase = @ + 1]
  IN /\ pc[w] = "nextPhase" /\ Holds(w)
     /\ IF doc[works[w]].phase = NoInstall
        THEN Panic(w) /\ UNCHANGED <<fixed, doc, cloud, shared, counters>>
        ELSE /\ Go(w, "nextPhase", Label(d.phase))
             /\ doc' = [doc EXCEPT ![works[w]] = d]
             /\ loc' = [loc EXCEPT ![w] = [NoLocals EXCEPT !.doc = d]]
             /\ UNCHANGED <<fixed, state, lease, cloud, shared, counters>>

Unrecognised(w) == pc[w] = "unrecognised" /\ Error(w)

Others == <<fixed, state, lease, doc>>
Known(w, r) == loc' = [loc EXCEPT ![w] = r]
Cloud(w, r) == cloud' = [cloud EXCEPT ![works[w]] = r]

---------------------------------------------------------------------------
(***************************************************************************)
(* The DNS records and the network security groups.                        *)
(***************************************************************************)
\* Whoever writes or deletes the api record changes its ETag.
SetApi(w, owner, locals) ==
  /\ api' = owner
  /\ loc' = [v \in Workers |-> [(IF v = w THEN locals ELSE loc[v]) EXCEPT !.fresh = FALSE]]

\* dns.Create: Get, and if there is none, CreateOrUpdate with If-None-Match.
DnsGet(w) ==
  /\ pc[w] = "dnsGet"
  /\ IF api \notin {None, works[w]} THEN Error(w)
     ELSE /\ Go(w, "dnsGet", IF api = None THEN "dnsPut" ELSE "assets")
          /\ UNCHANGED <<Others, cloud, shared, loc, counters>>

\* Mutant: without If-None-Match.
DnsPut_Unconditional(w) ==
  /\ Go(w, "dnsPut", "assets")
  /\ SetApi(w, works[w], loc[w])
  /\ UNCHANGED <<Others, cloud, apps, nsg, counters>>

DnsPut(w) ==
  /\ pc[w] = "dnsPut"
  /\ IF api # None THEN Error(w)
     ELSE /\ Go(w, "dnsPut", "assets")
          /\ SetApi(w, works[w], loc[w])
          /\ UNCHANGED <<Others, cloud, apps, nsg, counters>>

\* dns.Update: Get, then CreateOrUpdate with If-Match.
DnsUpdateGet(w) ==
  /\ pc[w] = "updateGet"
  /\ IF api # works[w] THEN Error(w)
     ELSE /\ Go(w, "updateGet", "updatePut")
          /\ Known(w, [loc[w] EXCEPT !.fresh = TRUE])
          /\ UNCHANGED <<Others, cloud, shared, counters>>

DnsUpdatePut(w) ==
  /\ pc[w] = "updatePut"
  /\ IF ~loc[w].fresh THEN Error(w)
     ELSE /\ Go(w, "updatePut", "getIP")
          /\ SetApi(w, works[w], loc[w])
          /\ UNCHANGED <<Others, cloud, apps, nsg, counters>>

\* dns.CreateOrUpdateRouter, whoever has the domain.
CreateOrUpdateRouter(w) ==
  /\ Go(w, "router", "final")
  /\ apps' = works[w]
  /\ UNCHANGED <<Others, cloud, api, nsg, loc, counters>>

\* dns.Delete: nothing to do for a domain that is another's.
DnsDeleteGet(w) ==
  /\ Go(w, "delDnsGet", IF api = works[w] THEN "delApps" ELSE "delNsgGet")
  /\ Known(w, [loc[w] EXCEPT !.fresh = api = works[w]])
  /\ UNCHANGED <<Others, cloud, shared, counters>>

DnsDeleteApps(w) ==
  /\ Go(w, "delApps", "delApi")
  /\ apps' = None
  /\ UNCHANGED <<Others, cloud, api, nsg, loc, counters>>

\* Deleting what is not there any more is no error.
DnsDeleteApi(w) ==
  /\ pc[w] = "delApi"
  /\ IF ~loc[w].fresh /\ api # None THEN Error(w)
     ELSE /\ Go(w, "delApi", "delNsgGet")
          /\ SetApi(w, None, loc[w])
          /\ UNCHANGED <<Others, cloud, apps, nsg, counters>>

NextSubnet(w, again, after) ==
  IF loc[w].s < Len(Subnets)
  THEN pc' = [pc EXCEPT ![w] = again] /\ Known(w, [loc[w] EXCEPT !.s = @ + 1])
  ELSE pc' = [pc EXCEPT ![w] = after] /\ Known(w, [loc[w] EXCEPT !.s = 1])

\* installStorage's loop: Get and CreateOrUpdate of a subnet.
AttachGet(w) ==
  /\ pc[w] = "nsgGet"
  /\ IF nsg[loc[w].s] \notin {None, works[w]} THEN Error(w)
     ELSE /\ IF nsg[loc[w].s] = None
             THEN Go(w, "nsgGet", "nsgPut") /\ UNCHANGED loc
             ELSE NextSubnet(w, "nsgGet", "now")
          /\ UNCHANGED <<Others, cloud, shared, counters>>

AttachPut(w) ==
  /\ pc[w] = "nsgPut"
  /\ nsg' = [nsg EXCEPT ![loc[w].s] = works[w]]
  /\ NextSubnet(w, "nsgGet", "now")
  /\ UNCHANGED <<Others, cloud, api, apps, counters>>

\* Delete's loop: an error is logged and the next subnet is tried.
Logged == MayFail /\ faults' = faults + 1

DetachGet(w) ==
  /\ pc[w] = "delNsgGet"
  /\ \/ nsg[loc[w].s] = works[w] /\ Go(w, "delNsgGet", "delNsgPut") /\ UNCHANGED <<loc, faults>>
     \/ nsg[loc[w].s] # works[w] /\ NextSubnet(w, "delNsgGet", "delEndpoint") /\ UNCHANGED faults
     \/ Logged /\ NextSubnet(w, "delNsgGet", "delEndpoint")
  /\ UNCHANGED <<Others, cloud, shared, creates, expired>>

DetachPut(w) ==
  /\ pc[w] = "delNsgPut"
  /\ \/ nsg' = [nsg EXCEPT ![loc[w].s] = None] /\ UNCHANGED faults
     \/ Logged /\ UNCHANGED nsg
  /\ NextSubnet(w, "delNsgGet", "delEndpoint")
  /\ UNCHANGED <<Others, cloud, api, apps, creates, expired>>

---------------------------------------------------------------------------
(***************************************************************************)
(* installStorage, between the DNS record and the subnets.                 *)
(***************************************************************************)
\* The graph is resolved: every run makes new secrets.  Then the group.
Assets(w) ==
  /\ Go(w, "assets", "storage")
  /\ Known(w, [loc[w] EXCEPT !.gen = Fresh(works[w])])
  /\ Cloud(w, [cloud[works[w]] EXCEPT !.group = TRUE])
  /\ UNCHANGED <<Others, shared, counters>>

\* CreateOrUpdateAndWait, or Wait for whatever deployment is active.
Submit(w, from, to, template) ==
  LET r == cloud[works[w]]
  IN /\ pc[w] = from
     /\ IF ~r.group THEN Error(w)
        ELSE /\ Go(w, from, to)
             /\ Cloud(w, IF r.active = None THEN [r EXCEPT !.active = template] ELSE r)
             /\ UNCHANGED <<Others, shared, loc, counters>>

DeployStorage(w) == Submit(w, "storage", "storageWait", "storage")
DeployResources(w) == Submit(w, "resources", "resourcesWait", "resources")

Wait(w, from, to) ==
  LET r == cloud[works[w]]
  IN /\ pc[w] = from /\ r.active = None
     /\ IF r.last = "ok"
        THEN Go(w, from, to) /\ UNCHANGED <<Others, cloud, shared, loc, counters>>
        ELSE Error(w)

WaitStorage(w) == Wait(w, "storageWait", "ign")
WaitResources(w) == Wait(w, "resourcesWait", "endpoint")

\* Azure ends a deployment.  With the resources comes the bootstrap machine,
\* if there is none, which starts from the ignition it finds.
DeploymentEnds(c) ==
  LET r == cloud[c]
      ok == [r EXCEPT !.active = None, !.last = "ok", !.deployed = @ \cup {r.active}]
  IN /\ r.active # None
     /\ \/ /\ cloud' = [cloud EXCEPT ![c] =
                IF r.active = "storage" THEN [ok EXCEPT !.account = doc[c].suffix]
                ELSE IF r.bootstrap THEN ok ELSE [ok EXCEPT !.bootstrap = TRUE, !.booted = r.ign]]
           /\ UNCHANGED faults
        \/ /\ MayFail /\ faults' = faults + 1
           /\ cloud' = [cloud EXCEPT ![c] = [r EXCEPT !.active = None, !.last = "failed"]]
     /\ UNCHANGED <<fixed, state, doc, lease, shared, pc, loc, creates, expired>>

\* The blobs need the account; bootstrap.ign comes first.
HasAccount(w) == cloud[works[w]].account # 0 /\ cloud[works[w]].account = loc[w].doc.suffix

PutIgnition(w) ==
  /\ pc[w] = "ign"
  /\ IF ~HasAccount(w) THEN Error(w)
     ELSE /\ Go(w, "ign", "graph")
          /\ Cloud(w, [cloud[works[w]] EXCEPT !.ign = loc[w].gen])
          /\ UNCHANGED <<Others, shared, loc, counters>>

PutGraph(w) ==
  /\ pc[w] = "graph"
  /\ IF ~HasAccount(w) THEN Error(w)
     ELSE /\ Go(w, "graph", "nsgGet")
          /\ Cloud(w, [cloud[works[w]] EXCEPT !.graph = loc[w].gen])
          /\ UNCHANGED <<Others, shared, loc, counters>>

\* Install.Now and AdminKubeconfig.  With a nil Install it panics.
PatchKubeconfig(w) ==
  LET d == doc[works[w]]
  IN /\ pc[w] = "now" /\ Holds(w)
     /\ IF d.phase = NoInstall
        THEN Panic(w) /\ UNCHANGED <<fixed, doc, cloud, shared, counters>>
        ELSE Go(w, "now", "nextPhase") /\ Patch(w, [d EXCEPT !.kubeconfig = loc[w].gen]) /\ UNCHANGED counters

---------------------------------------------------------------------------
(***************************************************************************)
(* installResources and removeBootstrap.                                   *)
(***************************************************************************)
GetGraph(w) ==
  LET r == cloud[works[w]]
  IN /\ pc[w] = "getGraph"
     /\ IF ~HasAccount(w) \/ r.graph = 0 THEN Error(w)
        ELSE /\ Go(w, "getGraph", IF loc[w].doc.phase = 1 THEN "resources" ELSE "removeVM")
             /\ Known(w, [loc[w] EXCEPT !.graph = r.graph])
             /\ UNCHANGED <<Others, cloud, shared, counters>>

\* privateendpoint.Create, to the cluster's private link service.
CreateEndpoint(w) ==
  LET r == cloud[works[w]]
  IN /\ pc[w] = "endpoint"
     /\ IF "resources" \notin r.deployed THEN Error(w)
        ELSE /\ Go(w, "endpoint", "updateGet")
             /\ Cloud(w, [r EXCEPT !.endpoints = @ \cup {loc[w].doc.id}])
             /\ UNCHANGED <<Others, shared, loc, counters>>

\* GetIP, which turns an error into an empty address, and its Patch.
GetIP(w) ==
  LET d == doc[works[w]]
      found == d.id \in cloud[works[w]].endpoints
  IN /\ Go(w, "getIP", "bootstrapped")
     /\ \/ Patch(w, [d EXCEPT !.peIP = found]) /\ UNCHANGED faults
        \/ Patch(w, [d EXCEPT !.peIP = FALSE]) /\ MayFail /\ faults' = faults + 1
     /\ UNCHANGED <<creates, expired>>

BootstrapCompletes(c) ==
  /\ cloud[c].bootstrap /\ ~cloud[c].complete
  /\ cloud' = [cloud EXCEPT ![c].complete = TRUE]
  /\ UNCHANGED <<fixed, state, doc, lease, shared, pc, loc, counters>>

\* The API server answers at the private endpoint, to the kubeconfig of the
\* secrets the cluster was started with.
Reachable(w) == loc[w].doc.peIP /\ loc[w].doc.kubeconfig = cloud[works[w]].booted

\* The poll for the config map "bootstrap".
PollBootstrap(w) ==
  /\ Reachable(w) /\ cloud[works[w]].complete
  /\ Go(w, "bootstrapped", "nextPhase")
  /\ UNCHANGED <<Others, cloud, shared, loc, counters>>

\* Mutant: the machine is left where it is.
RemoveVM_None(w) == Go(w, "removeVM", "version") /\ UNCHANGED <<Others, cloud, shared, loc, counters>>

RemoveVM(w) ==
  /\ Go(w, "removeVM", "version")
  /\ Cloud(w, [cloud[works[w]] EXCEPT !.bootstrap = FALSE])
  /\ UNCHANGED <<Others, shared, loc, counters>>

\* The poll for the cluster version, and the router's address.
PollVersion(w) ==
  /\ Reachable(w) /\ cloud[works[w]].complete
  /\ Go(w, "version", "router")
  /\ UNCHANGED <<Others, cloud, shared, loc, counters>>

\* Mutant: the polls do not give up.
PollTimeout_Never(w) == pc[w] = "unrecognised" /\ Error(w)

\* Either poll gives up after 30 minutes.
PollTimeout(w) ==
  /\ pc[w] \in {"bootstrapped", "version"}
  /\ Error(w)

PatchConsole(w) ==
  /\ Go(w, "final", "clear")
  /\ Patch(w, [doc[works[w]] EXCEPT !.password = loc[w].graph])
  /\ UNCHANGED counters

ClearInstall(w) ==
  /\ Go(w, "clear", "success")
  /\ Patch(w, [doc[works[w]] EXCEPT !.phase = NoInstall])
  /\ UNCHANGED counters

Succeed(w) ==
  /\ pc[w] = "success"
  /\ End(w, "succeeded")
  /\ UNCHANGED <<fixed, doc, cloud, shared, counters>>

---------------------------------------------------------------------------
(***************************************************************************)
(* The end of Delete.                                                      *)
(***************************************************************************)
DeleteEndpoint(w) ==
  /\ Go(w, "delEndpoint", "delGroup")
  /\ Cloud(w, [cloud[works[w]] EXCEPT !.endpoints = @ \ {loc[w].doc.id}])
  /\ UNCHANGED <<Others, shared, loc, counters>>

\* Mutant: no error of the deletion is returned.
DeleteGroup_Ignored(w) ==
  LET kept == IF \E i \in DOMAIN nsg : nsg[i] = works[w] THEN cloud[works[w]] ELSE Empty
  IN /\ Go(w, "delGroup", "delDoc")
     /\ Cloud(w, [kept EXCEPT !.endpoints = cloud[works[w]].endpoints])
     /\ UNCHANGED <<Others, shared, loc, counters>>

\* Azure does not delete a network security group in use.  The RP is not
\* allowed to delete a group that does not exist: Forbidden is no error.
DeleteGroup(w) ==
  /\ pc[w] = "delGroup"
  /\ IF \E i \in DOMAIN nsg : nsg[i] = works[w] THEN Error(w)
     ELSE /\ Go(w, "delGroup", "delDoc")
          /\ Cloud(w, [Empty EXCEPT !.endpoints = cloud[works[w]].endpoints])
          /\ UNCHANGED <<Others, shared, loc, counters>>

\* The document is deleted by its id, whoever holds the lease.
DeleteDoc(w) ==
  LET c == works[w]
      there == state[c] # "none" /\ doc[c].id = loc[w].doc.id
  IN /\ Go(w, "delDoc", "idle")
     /\ state' = IF there THEN [state EXCEPT ![c] = "none"] ELSE state
     /\ lease' = IF there THEN [lease EXCEPT ![c] = None] ELSE lease
     /\ Known(w, NoLocals)
     /\ UNCHANGED <<fixed, doc, cloud, shared, counters>>

---------------------------------------------------------------------------
Work(w) ==
  \/ Create(w) \/ Install(w) \/ NextPhase(w) \/ Unrecognised(w)
  \/ DnsGet(w) \/ DnsPut(w) \/ Assets(w) \/ DeployStorage(w) \/ WaitStorage(w)
  \/ PutIgnition(w) \/ PutGraph(w) \/ AttachGet(w) \/ AttachPut(w) \/ PatchKubeconfig(w)
  \/ GetGraph(w) \/ DeployResources(w) \/ WaitResources(w) \/ CreateEndpoint(w)
  \/ DnsUpdateGet(w) \/ DnsUpdatePut(w) \/ GetIP(w) \/ PollBootstrap(w)
  \/ RemoveVM(w) \/ PollVersion(w) \/ PollTimeout(w) \/ CreateOrUpdateRouter(w)
  \/ PatchConsole(w) \/ ClearInstall(w) \/ Succeed(w)
  \/ DnsDeleteGet(w) \/ DnsDeleteApps(w) \/ DnsDeleteApi(w) \/ DetachGet(w) \/ DetachPut(w)
  \/ DeleteEndpoint(w) \/ DeleteGroup(w) \/ DeleteDoc(w)

Next ==
  \/ \E c \in Clusters : Put(c) \/ Delete(c) \/ DeploymentEnds(c) \/ BootstrapCompletes(c)
  \/ \E w \in Workers : Dequeue(w) \/ Crash(w) \/ Fail(w) \/ Work(w)

\* Documents are dequeued, a running worker goes on and one that has lost its
\* lease notices, and Azure ends deployments.
Fairness ==
  /\ \A c \in Clusters : WF_vars(DeploymentEnds(c))
  /\ \A w \in Workers : WF_vars(Dequeue(w) /\ lease[works[w]] = None) /\ WF_vars(Work(w))
                          /\ WF_vars(Fail(w) /\ ~Holds(w))

Spec == Init /\ [][Next]_vars /\ Fairness

---------------------------------------------------------------------------
Docs == [id : Nat, suffix : Nat, phase : 0..NoInstall, kubeconfig : Nat, password : Nat, peIP : BOOLEAN]
Locals == [doc : Docs, gen : Nat, graph : Nat, s : 1..Len(Subnets), fresh : BOOLEAN]

\* Every variable keeps to its type; above all, the phase of a document is
\* one that its Install may have, whoever else increments or clears it.
TypeOK ==
  /\ works \in [Workers -> Clusters] /\ proc \in [Workers -> Workers]
  /\ state \in [Clusters -> {"none", "creating", "deleting", "succeeded", "failed"}]
  /\ doc \in [Clusters -> Docs]
  /\ lease \in [Clusters -> Workers \cup {None}]
  /\ api \in Clusters \cup {None} /\ apps \in Clusters \cup {None}
  /\ nsg \in [1..Len(Subnets) -> Clusters \cup {None}]
  /\ loc \in [Workers -> Locals]
  /\ expired \subseteq Clusters

\* A phase that the document says is over has left what the later ones, and
\* whoever takes over, rely on: a storage account of the document's name
\* whose two blobs and the document's kubeconfig are of one generation of
\* secrets, and after the second phase a bootstrapped cluster
\* (installStorage, installResources, Install's Phase++), unless a lease
\* expired under a worker.
PhasesLeaveTheirWork ==
  \A c \in Clusters : c \notin expired /\ state[c] = "creating" /\ doc[c].phase \in {1, 2} =>
    /\ cloud[c].account = doc[c].suffix
    /\ cloud[c].ign = doc[c].kubeconfig /\ cloud[c].graph = doc[c].kubeconfig
    /\ doc[c].phase = 2 => cloud[c].complete /\ cloud[c].booted = doc[c].kubeconfig

\* A cluster that is reported as installed can be used: the kubeconfig and
\* the password are those of the secrets it was started with, its private
\* endpoint's address is known, though GetIP hides errors, both DNS records
\* are its own and the bootstrap machine is gone, unless a lease expired.
SucceededUsable ==
  \A c \in Clusters : c \notin expired /\ state[c] = "succeeded" =>
    /\ doc[c].kubeconfig = cloud[c].booted /\ doc[c].password = cloud[c].booted
    /\ doc[c].peIP /\ ~cloud[c].bootstrap /\ doc[c].phase = NoInstall
    /\ api = c /\ apps = c

\* A deleted cluster has left nothing behind: no DNS record, no private
\* endpoint, no resource group and no subnet with its security group, though
\* Delete goes on when a subnet cannot be written, unless a lease expired.
DeletedLeavesNothing ==
  \A c \in Clusters : c \notin expired /\ state[c] = "none" =>
    /\ api # c /\ apps # c
    /\ \A i \in DOMAIN nsg : nsg[i] # c
    /\ ~cloud[c].group /\ cloud[c].endpoints = {}

\* The api record of a cluster is only changed by a step of a worker of that
\* cluster: a second cluster with the same domain never takes it over
\* (dns.Create, Update and Delete), even if leases expire.
DomainKept ==
  [][api # None /\ api' # api => \E w \in Workers : works[w] = api /\ pc'[w] # pc[w]]_vars

\* An installation or a deletion ends, whatever crash, failure or expired
\* lease there is in between, two workers of one process included.
OperationEnds ==
  \A c \in Clusters : state[c] \in {"creating", "deleting"} ~> state[c] \in {"none", "succeeded", "failed"}
===========================================================================
