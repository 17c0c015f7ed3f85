---------------------------- MODULE Deployments ----------------------------
(***************************************************************************)
(* How the templates are deployed: the resources of one resource group,    *)
(* created by Azure Resource Manager in any order that the templates'      *)
(* dependsOn allow, with failures, retries and takeovers, and the RP       *)
(* processes that start meanwhile in the resource group of the RP.         *)
(*                                                                         *)
(* The resource group is one of three: a cluster's, deployed by the        *)
(* installer; the RP's in production or in a shared development            *)
(* environment, deployed by an operator in the documented order.           *)
(***************************************************************************)
EXTENDS Templates, Naturals, Sequences

CONSTANTS
  Procs,         \* the RP processes
  MaxFailures    \* bound on failed deployments, takeovers and crashes

VARIABLES
  group,       \* "cluster", "production" or "development"
  exists,      \* the names of what exists in the group, parts included
  at,          \* the step of the plan being carried out
  deployment,  \* deployment "azuredeploy": "none" or "running"
  waiting,     \* the installer or the operator waits for the deployment
  ended,       \* the installation has failed for good
  failures,
  refused,     \* what Azure has refused because something was missing or in use
  start           \* of every RP process, the start step it is at

deployVars == <<group, exists, at, deployment, waiting, ended, failures, refused, start>>

(***************************************************************************)
(* The plan of a resource group.                                           *)
(***************************************************************************)
\* Submit a template with values for some parameters; put blobs or
\* certificates there; delete a resource.
Deploy(template_, values) == [op |-> "deploy", template |-> template_, values |-> values]
Upload(name) == [op |-> "put", name |-> name]
Remove(name) == [op |-> "remove", name |-> name]

installStorageSteps == <<Deploy(storageTemplate, {}), Upload(Ignition), Upload(Graph)>>
installResourcesSteps == <<Deploy(resourcesTemplate, {"sas"})>>

\* Mutant: the disk is taken to go with the machine.
removeBootstrapSteps_NoDisk == <<Remove(Bootstrap), Remove(BootstrapNIC)>>

removeBootstrapSteps == <<Remove(Bootstrap), Remove(BootstrapDisk), Remove(BootstrapNIC)>>

\* docs/prepare-a-shared-rp-development-environment.md and
\* docs/deploy-development-rp.md.
developmentSteps ==
  <<Deploy(nsgTemplate(FALSE), {}),
    Deploy(template(FALSE), templateParams(FALSE)),
    Deploy(devTemplate, devTemplate.parameters \ devTemplate.defaults),
    Upload(<<"vault", "rp-firstparty">>), Upload(<<"vault", "rp-server">>),
    Deploy(databasesTemplate, databasesTemplate.parameters)>>

productionSteps ==
  <<Deploy(nsgTemplate(TRUE), {}), Deploy(template(TRUE), parametersTemplate),
    Upload(<<"vault", "rp-firstparty">>), Upload(<<"vault", "rp-server">>)>>

Plan == CASE group = "cluster" -> installStorageSteps \o installResourcesSteps \o removeBootstrapSteps
          [] group = "development" -> developmentSteps
          [] group = "production" -> productionSteps

\* A takeover continues with the first step of the installation's phase.
PhaseStart == LET starts == {1, 1 + Len(installStorageSteps),
                             1 + Len(installStorageSteps \o installResourcesSteps)}
              IN CHOOSE s \in starts : s <= at /\ \A t \in starts : t <= at => t <= s

Done == at > Len(Plan)
Step == Plan[at]
InPlan == ~Done /\ ~ended

\* What exists before: the virtual network of a cluster is its owner's.
Given == IF group = "cluster" THEN {<<"vnet">>, MasterSubnet, WorkerSubnet} ELSE {}

DeployInit ==
  /\ group \in {"cluster", "production", "development"}
  /\ exists = Given
  /\ at = 1
  /\ deployment = "none"
  /\ waiting = FALSE
  /\ ended = FALSE
  /\ failures = 0
  /\ refused = {}
  /\ start = [p \in Procs |-> 1]

---------------------------------------------------------------------------
(***************************************************************************)
(* Azure Resource Manager.                                                 *)
(***************************************************************************)
Names(t) == {r.name : r \in t.resources}
Copies(t) == {r.copy : r \in t.resources} \ {<<>>}

\* A template is accepted if it only waits for its own resources and copy
\* loops, only takes parameters it declares, and is given a value for each
\* parameter without a default and for no other.
Accepted(t, values) ==
  /\ \A r \in t.resources : r.dependsOn \subseteq Names(t) \cup Copies(t) /\ r.params \subseteq t.parameters
  /\ values \subseteq t.parameters
  /\ t.parameters \ t.defaults \subseteq values

\* CreateOrUpdateAndWait, or Wait if the answer is DeploymentActive.
SubmitDeployment ==
  /\ InPlan /\ Step.op = "deploy" /\ ~waiting
  /\ IF deployment = "running" \/ Accepted(Step.template, Step.values)
     THEN deployment' = "running" /\ waiting' = TRUE /\ UNCHANGED <<ended, refused>>
     ELSE ended' = TRUE /\ refused' = refused \cup {<<"template">>} /\ UNCHANGED <<deployment, waiting>>
  /\ UNCHANGED <<group, exists, at, failures, start>>

Ready(r, t) ==
  \A d \in r.dependsOn :
    \/ d \in exists
    \/ d \in Copies(t) /\ \A c \in t.resources : c.copy = d => c.name \in exists

\* A deployment creates a resource that waits for no other.  It fails if
\* something the resource refers to does not exist.
CreateResource(r) ==
  /\ deployment = "running"
  /\ r \in Step.template.resources
  /\ r.name \notin exists
  /\ Ready(r, Step.template)
  /\ IF r.uses \subseteq exists \cup r.parts
     THEN exists' = exists \cup {r.name} \cup r.parts /\ UNCHANGED refused
     ELSE refused' = refused \cup {r.name} /\ UNCHANGED exists
  /\ deployment' = IF refused' = refused THEN "running" ELSE "none"
  /\ waiting' = (waiting /\ refused' = refused)
  /\ ended' = (refused' /= refused)
  /\ UNCHANGED <<group, at, failures, start>>

\* A deployment fails halfway.  The operator repeats it; an installation is
\* over.
FailDeployment ==
  /\ deployment = "running"
  /\ failures < MaxFailures
  /\ failures' = failures + 1
  /\ deployment' = "none"
  /\ waiting' = FALSE
  /\ ended' = (ended \/ (group = "cluster" /\ waiting))
  /\ UNCHANGED <<group, exists, at, refused, start>>

CompleteDeployment ==
  /\ deployment = "running"
  /\ Names(Step.template) \subseteq exists
  /\ deployment' = "none"
  /\ waiting' = FALSE
  /\ at' = IF waiting THEN at + 1 ELSE at
  /\ UNCHANGED <<group, exists, ended, failures, refused, start>>

---------------------------------------------------------------------------
(***************************************************************************)
(* The other steps of a plan.                                              *)
(***************************************************************************)
PutBlob ==
  /\ InPlan /\ Step.op = "put"
  /\ exists' = exists \cup {Step.name}
  /\ at' = at + 1
  /\ UNCHANGED <<group, deployment, waiting, ended, failures, refused, start>>

\* Azure refuses to delete what an existing resource uses, and deleting what
\* does not exist succeeds.
DeleteAndWait ==
  /\ InPlan /\ Step.op = "remove"
  /\ IF \E r \in resourcesTemplate.resources : r.name \in exists \ {Step.name} /\ Step.name \in r.uses
     THEN ended' = TRUE /\ refused' = refused \cup {Step.name} /\ UNCHANGED <<exists, at>>
     ELSE exists' = exists \ {Step.name} /\ at' = at + 1 /\ UNCHANGED <<ended, refused>>
  /\ UNCHANGED <<group, deployment, waiting, failures, start>>

\* The process that installs dies; another takes over.  The deployment goes on.
TakeOver ==
  /\ group = "cluster" /\ InPlan
  /\ failures < MaxFailures
  /\ failures' = failures + 1
  /\ at' = PhaseStart
  /\ waiting' = FALSE
  /\ UNCHANGED <<group, exists, deployment, ended, refused, start>>

---------------------------------------------------------------------------
(***************************************************************************)
(* The start of an RP process: what each step finds in the resource group. *)
(***************************************************************************)
populateCosmosDB == {RPReader, DatabaseAccount, RPAccount}
populateDomain == {RPReader, DNSZone}
populateVaultURI == {RPReader, Vault}
populateZones == {RPReader}
GetFirstParty == {Vault, <<"vault", "rp-firstparty">>}
newProd == <<populateCosmosDB, populateDomain, populateVaultURI, populateZones, GetFirstParty>>

Trigger(c, t) == <<"account", "database", c, t>>

NewFrontend == {Vault, <<"vault", "rp-server">>}

\* The steps of rp(): a set of things that must exist, or a trigger to
\* create in its container.
StartSteps ==
  newProd \o <<Trigger("OpenShiftClusters", "renewLease"),
               Trigger("Subscriptions", "renewLease"), Trigger("Subscriptions", "retryLater")>>
          \o <<NewFrontend>>
CreatesTrigger(n) == n \in 6..8
Serving == Len(StartSteps) + 1

\* Mutant: a trigger that exists already is an error.
CreateTrigger_Conflict(t) ==
  /\ Container(t[3]) \in exists /\ t \notin exists
  /\ exists' = exists \cup {t}

\* Of several processes one creates the trigger; the conflict that the
\* others get is no error.
CreateTrigger(t) ==
  /\ Container(t[3]) \in exists
  /\ exists' = exists \cup {t}

\* The machines of the scale set start the RP; in development it is started
\* by hand.
Started ==
  \/ group = "development"
  \/ group = "production" /\ <<"rp-vmss">> \in exists

StartStep(p) ==
  /\ Started /\ start[p] < Serving
  /\ IF CreatesTrigger(start[p])
     THEN CreateTrigger(StartSteps[start[p]])
     ELSE StartSteps[start[p]] \subseteq exists /\ UNCHANGED exists
  /\ start' = [start EXCEPT ![p] = @ + 1]
  /\ UNCHANGED <<group, at, deployment, waiting, ended, failures, refused>>

\* A step that does not find what it needs ends the process, and systemd
\* (Restart=always), or the developer, starts it again.
Exit(p) ==
  /\ Started /\ start[p] \in 2..(Serving - 1)
  /\ ~(IF CreatesTrigger(start[p])
       THEN Container(StartSteps[start[p]][3]) \in exists
       ELSE StartSteps[start[p]] \subseteq exists)
  /\ start' = [start EXCEPT ![p] = 1]
  /\ UNCHANGED <<group, exists, at, deployment, waiting, ended, failures, refused>>

ProcessDies(p) ==
  /\ start[p] > 1
  /\ failures < MaxFailures
  /\ failures' = failures + 1
  /\ start' = [start EXCEPT ![p] = 1]
  /\ UNCHANGED <<group, exists, at, deployment, waiting, ended, refused>>

---------------------------------------------------------------------------
CreateSome == \E r \in IF deployment = "running" THEN Step.template.resources ELSE {} : CreateResource(r)

DeployNext ==
  \/ SubmitDeployment \/ CreateSome \/ FailDeployment \/ CompleteDeployment
  \/ PutBlob \/ DeleteAndWait \/ TakeOver
  \/ \E p \in Procs : StartStep(p) \/ Exit(p) \/ ProcessDies(p)

\* Azure carries deployments on, the installer or the operator goes on with
\* the plan, and systemd restarts a process.
DeployFairness ==
  /\ WF_deployVars(SubmitDeployment) /\ WF_deployVars(CreateSome) /\ WF_deployVars(CompleteDeployment)
  /\ WF_deployVars(PutBlob) /\ WF_deployVars(DeleteAndWait)
  /\ \A p \in Procs : WF_deployVars(StartStep(p)) /\ WF_deployVars(Exit(p))

DeploySpec == DeployInit /\ [][DeployNext]_deployVars /\ DeployFairness

---------------------------------------------------------------------------
\* Whatever the order in which Azure creates the resources of a template,
\* and whatever a failed or interrupted deployment has left there, no
\* template is rejected, no resource is created before everything it refers
\* to exists, and no resource is deleted while another uses it: the dependsOn
\* of the templates and the order of the plan suffice.
OrderSuffices == refused = {}

\* An installation that is done has left everything its templates describe,
\* and nothing of the bootstrap machine (installStorage, installResources,
\* removeBootstrap, under takeovers at any point).
InstalledWithoutBootstrap ==
  group = "cluster" /\ Done =>
    /\ exists \cap {Bootstrap, BootstrapDisk, BootstrapNIC} = {}
    /\ (Names(storageTemplate) \cup Names(resourcesTemplate)) \ {Bootstrap, BootstrapNIC} \subseteq exists

\* In the RP's resource group every process ends up serving, though it may
\* be started long before the database or the certificates exist, may crash,
\* and may find that another process has created its triggers (rp, newProd,
\* NewOpenShiftClusters, NewSubscriptions, NewFrontend).
EveryProcessServes == group /= "cluster" => <>[](\A p \in Procs : start[p] = Serving)

\* Every plan is carried out, unless an installation fails.
PlanEnds == <>(Done \/ (ended /\ group = "cluster"))
===========================================================================
