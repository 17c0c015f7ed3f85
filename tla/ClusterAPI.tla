----------------------------- MODULE ClusterAPI -----------------------------
(***************************************************************************)
(* What API requests do to the content of a cluster: conversion between    *)
(* the external and the internal representation, JSON bodies, static and   *)
(* dynamic validation, immutable properties, and the replies.              *)
(*                                                                         *)
(* A cluster is a function of its properties, flattened.  A JSON object is *)
(* a function of the properties it names.  A request is one step here: how *)
(* requests and workers interleave is the matter of ClusterLifecycle.      *)
(***************************************************************************)
EXTENDS Naturals, Sequences, FiniteSets, TLC

CONSTANTS
  Inputs,   \* PUT and PATCH requests: [method, body, registered, azure]
  None

VARIABLES
  oc,       \* the stored cluster, or None
  nsg,      \* the network security group attached to each subnet
  answer    \* the reply that is being sent: [status, body], or None

apiVars == <<oc, nsg, answer>>

---------------------------------------------------------------------------
(* Representations. *)

External ==
  {"id", "name", "type", "location", "tags", "provisioningState", "domain", "version",
   "resourceGroupId", "consoleUrl", "clientId", "clientSecret", "podCidr", "serviceCidr",
   "masterVmSize", "masterSubnetId", "workerProfiles", "visibility", "apiserverUrl",
   "apiserverIp", "ingressProfiles"}
Internal == {"failedProvisioningState", "tenantId", "kubeadminPassword"}

\* A CIDR: whether it parses and is IPv4, its first address, its length.
\* The address space is counted in blocks of /27.
CIDR(first, ones) == [ipv4 |-> TRUE, first |-> first, ones |-> ones]
NoCIDR == [ipv4 |-> FALSE, first |-> 0, ones |-> 0]
Addresses(c) == c.first .. c.first + 2 ^ (27 - (IF c.ones > 27 THEN 27 ELSE c.ones)) - 1

\* The zero value of a property: omitempty leaves it out.
Zero(f) == CASE f = "tags" -> {}
             [] f \in {"workerProfiles", "ingressProfiles"} -> <<>>
             [] f \in {"podCidr", "serviceCidr"} -> NoCIDR
             [] OTHER -> ""
Empty == [f \in External \cup Internal |-> Zero(f)]

\* Mutant: the IP address of the API server is forgotten.
ToExternal_NoIP(c) == [f \in External |-> IF f = "apiserverIp" THEN "" ELSE c[f]]

ToExternal(c) == [f \in External |-> c[f]]
ToInternal(ext, c) == [f \in DOMAIN c |-> IF f \in External THEN ext[f] ELSE c[f]]

ToExternalList(cs) == [i \in DOMAIN cs |-> ToExternal(cs[i])]

Without(o, f) == [g \in DOMAIN o \ {f} |-> o[g]]
MarshalIndent(ext) == [f \in {g \in External : ext[g] # Zero(g)} |-> ext[f]]

\* Decoding an array into a slice decodes each element over the one that
\* was there: what a JSON object leaves out keeps its value.
EmptyWorker == [name |-> "", vmSize |-> "", diskSizeGB |-> 0, subnetId |-> "", count |-> 0]
EmptyIngress == [name |-> "", visibility |-> "", ip |-> ""]
Over(slice, empty, json) == [i \in DOMAIN json |-> json[i] @@ (IF i \in DOMAIN slice THEN slice[i] ELSE empty)]

\* json.Unmarshal, with the UnmarshalJSON of Tags: a slice is overwritten,
\* everything else, the tags included, replaced.
Unmarshal(body, ext) ==
  [f \in External |->
     CASE f \notin DOMAIN body -> ext[f]
       [] f = "workerProfiles" -> Over(ext[f], EmptyWorker, body[f])
       [] f = "ingressProfiles" -> Over(ext[f], EmptyIngress, body[f])
       [] OTHER -> body[f]]

\* strings.EqualFold, on the words that differ in case only.
Fold(s) == CASE s = "ID" -> "id" [] s = "NAME" -> "name" [] s = "EASTUS" -> "eastus" [] OTHER -> s
EqualFold(s, t) == Fold(s) = Fold(t)

---------------------------------------------------------------------------
(* Static validation: the code of the first error, or "OK". *)

FirstError(checks) ==
  IF \A i \in DOMAIN checks : checks[i] = "OK" THEN "OK"
  ELSE checks[CHOOSE i \in DOMAIN checks : checks[i] # "OK" /\ \A j \in 1 .. i - 1 : checks[j] = "OK"]
Check(ok, code) == IF ok THEN "OK" ELSE code
Parameter(ok) == Check(ok, "InvalidParameter")

\* IDs that match rxSubnetID, in the cluster's subscription or in another.
Vnet == [s \in {"vnet/master", "vnet/worker"} |-> "vnet"] @@ [s \in {"other/worker"} |-> "other"]
        @@ [s \in {"foreign/master"} |-> "foreign"]
Subscription(id) == IF id \in {"foreign/master", "foreign/group"} THEN "foreign" ELSE "own"

validateClusterProfile(c) ==
  Parameter(/\ c.domain \notin {"", "bad"}
            /\ c.version \in {"", "4.3.0"}
            /\ c.resourceGroupId \notin {"", "bad"}
            /\ Subscription(c.resourceGroupId) = "own")
validateConsoleProfile(c) == Parameter(c.consoleUrl # "bad")
validateServicePrincipalProfile(c) == Parameter(c.clientId \notin {"", "bad"} /\ c.clientSecret # "")
validateNetworkProfile(c) ==
  Parameter(/\ c.podCidr.ipv4 /\ c.podCidr.ones <= 18
            /\ c.serviceCidr.ipv4 /\ c.serviceCidr.ones <= 22)
validateMasterProfile(c) ==
  Parameter(/\ c.masterVmSize = "D8s"
            /\ c.masterSubnetId \in DOMAIN Vnet
            /\ Subscription(c.masterSubnetId) = "own")

validateWorkerProfile(w, c) ==
  Parameter(/\ w.name = "worker" /\ w.vmSize \in {"D2s", "D4s", "D8s"} /\ w.diskSizeGB >= 128
            /\ w.subnetId \in DOMAIN Vnet
            /\ Vnet[w.subnetId] = Vnet[c.masterSubnetId] /\ w.subnetId # c.masterSubnetId
            /\ w.count >= 3 /\ w.count <= 20)
validateAPIServerProfile(c) ==
  Parameter(/\ c.visibility \in {"Public", "Private"}
            /\ c.apiserverUrl # "bad" /\ c.apiserverIp \notin {"bad", "ipv6"})
validateIngressProfile(p) ==
  Parameter(p.name = "default" /\ p.visibility \in {"Public", "Private"} /\ p.ip \notin {"bad", "ipv6"})

States == {"Creating", "Updating", "Deleting", "Succeeded", "Failed"}

validateProperties(c) ==
  LET before == FirstError(<<Parameter(c.provisioningState \in States), validateClusterProfile(c),
                             validateConsoleProfile(c), validateServicePrincipalProfile(c),
                             validateNetworkProfile(c), validateMasterProfile(c)>>)
  IN  IF before # "OK" THEN before
      ELSE IF Len(c.workerProfiles) # 1 THEN "InvalidParameter"
      ELSE IF validateWorkerProfile(c.workerProfiles[1], c) # "OK" THEN "InvalidParameter"
      ELSE IF validateAPIServerProfile(c) # "OK" \/ Len(c.ingressProfiles) # 1 THEN "InvalidParameter"
      ELSE validateIngressProfile(c.ingressProfiles[1])

validate(c, id) ==
  FirstError(<<Check(EqualFold(c.id, id), "MismatchingResourceID"),
               Check(EqualFold(c.name, "name"), "MismatchingResourceName"),
               Check(EqualFold(c.type, "type"), "MismatchingResourceType"),
               Parameter(EqualFold(c.location, "eastus")),
               validateProperties(c)>>)

\* immutable.Validate, by the tags of the external structures: tags and the
\* worker count are mutable, id, name and type in their case.
Validate(c, current) ==
  LET SameButCount(v, w) == v = [w EXCEPT !.count = v.count]
      Same(f) == CASE f = "tags" -> TRUE
                   [] f \in {"id", "name", "type"} -> EqualFold(c[f], current[f])
                   [] f = "workerProfiles" -> /\ Len(c[f]) = Len(current[f])
                                              /\ \A i \in DOMAIN c[f] : SameButCount(c[f][i], current[f][i])
                   [] OTHER -> c[f] = current[f]
  IN  Check(\A f \in External : Same(f), "PropertyChangeNotAllowed")

\* Mutant: a cluster that exists is not compared with.
Static_NoDelta(ext, current, id) == validate(ext, id)

Static(ext, current, id) ==
  IF validate(ext, id) # "OK" \/ current = None THEN validate(ext, id)
  ELSE Validate(ext, ToExternal(current))

---------------------------------------------------------------------------
(* Dynamic validation, against what it finds in Azure:                     *)
(*   [token, roles, sp, fp: [found, permissions], and subnets, for each of *)
(*   them [found, policies, endpoint, prefix]].                            *)
(* A permission is a pair of sets of actions, the ones its patterns match. *)

CanDoAction(ps, a) == \E p \in ps : a \in p.actions /\ a \notin p.notActions

\* The closure of PollImmediate has an err of its own: without a token the
\* next step fails instead, when it parses an empty one.
validateServicePrincipalRole(az) ==
  FirstError(<<Check(az.token, "InternalServerError"),
               Check("Application.ReadWrite.OwnedBy" \notin az.roles, "InvalidServicePrincipalCredentials")>>)

validateVnetPermissions(client, code) ==
  FirstError(<<Check(client.found, "InvalidLinkedVNet"),
               Check(\A a \in {"join", "read", "write"} : CanDoAction(client.permissions, a), code)>>)

NetworkSecurityGroupID(c, subnet) ==
  <<c.resourceGroupId, IF subnet = c.masterSubnetId THEN "aro-controlplane-nsg" ELSE "aro-node-nsg">>

validateSubnet(c, az, subnet) ==
  LET s == az.subnets[subnet]
  IN  Check(/\ s.found
            /\ subnet = c.masterSubnetId => s.policies = "Disabled"
            /\ s.endpoint = "Succeeded"
            /\ IF c.provisioningState = "Creating" THEN nsg[subnet] = None
               ELSE nsg[subnet] = NetworkSecurityGroupID(c, subnet)
            /\ s.prefix.ones <= 27, "InvalidLinkedVNet")

\* The ranges of the cluster: subnets, pods, services.
Networks(c, az) ==
  <<az.subnets[c.masterSubnetId].prefix, az.subnets[c.workerProfiles[1].subnetId].prefix,
    c.podCidr, c.serviceCidr>>

\* External: cidr.VerifyNoOverlap, with all of IPv4 around.
VerifyNoOverlap(nets) ==
  \A i, j \in DOMAIN nets :
    i # j => LET first == nets[j].first
                 last == first + Cardinality(Addresses(nets[j])) - 1
             IN  first \notin Addresses(nets[i]) /\ last \notin Addresses(nets[i])

validateSubnets(c, az) ==
  LET found == FirstError(<<validateSubnet(c, az, c.masterSubnetId),
                            validateSubnet(c, az, c.workerProfiles[1].subnetId)>>)
  IN  IF found # "OK" THEN found
      ELSE Check(VerifyNoOverlap(Networks(c, az)), "InvalidLinkedVNet")

Dynamic(c, az) ==
  FirstError(<<validateServicePrincipalRole(az),
               validateVnetPermissions(az.sp, "InvalidServicePrincipalPermissions"),
               validateVnetPermissions(az.fp, "InvalidResourceProviderPermissions"),
               validateSubnets(c, az)>>)

---------------------------------------------------------------------------
(* The middleware and the handlers.                                        *)

Status(code) ==
  CASE code \in {"NotFound", "ResourceNotFound", "ResourceGroupNotFound", "InvalidSubscriptionID",
                 "InvalidResourceNamespace", "InvalidResourceType", "InvalidLocation", "InvalidOperationID"} -> 404
    [] code = "Forbidden" -> 403
    [] code = "UnsupportedMediaType" -> 415
    [] code = "InternalServerError" -> 500
    [] OTHER -> 400
Refuse(code) == [status |-> Status(code), body |-> [code |-> code]]
Reply(status, body) == [status |-> status, body |-> body]

\* What the middleware makes of a request: its path ("none" if there is no
\* route for it) and API version, its body, its certificate.  setupRouter
\* puts Validate and Body before Authenticated, which alone is also around
\* the handler of unknown paths.
Verdicts ==
  [path : {"OK", "none", "InvalidSubscriptionID", "ResourceGroupNotFound", "InvalidResourceNamespace",
           "InvalidResourceType", "ResourceNotFound", "InvalidLocation", "InvalidOperationID"},
   body : {"OK", "InvalidResource", "UnsupportedMediaType"},
   authorized : BOOLEAN]
Middleware(r) ==
  IF r.path = "none" THEN FirstError(<<Check(r.authorized, "Forbidden"), "NotFound">>)
  ELSE FirstError(<<r.path, r.body, Check(r.authorized, "Forbidden")>>)
Rejected ==
  /\ \E r \in Verdicts : Middleware(r) # "OK" /\ answer' = Refuse(Middleware(r))
  /\ UNCHANGED <<oc, nsg>>

\* The cluster of a request that creates it.
NewCluster ==
  [Empty EXCEPT !.id = "id", !.name = "name", !.type = "type", !.provisioningState = "Succeeded",
                !.tenantId = "tenant"]

\* What a PUT replaces and what a PATCH adds to.
Base(method, c) ==
  IF method = "PATCH" THEN ToExternal(c)
  ELSE ToExternal([Empty EXCEPT !.id = c.id, !.name = c.name, !.type = c.type,
                                !.provisioningState = c.provisioningState])

Blank(c) == [c EXCEPT !.clientSecret = ""]

\* ToInternal, but for the spelling of the ID, the name and the type.
Updated(ext, c, isCreate) ==
  LET new == [ToInternal(ext, c) EXCEPT !.id = c.id, !.name = c.name, !.type = c.type]
  IN  IF isCreate
      THEN [new EXCEPT !.provisioningState = "Creating", !.version = "4.3.0"]
      ELSE [new EXCEPT !.provisioningState = "Updating", !.failedProvisioningState = ""]

PutOrPatchVerdict(c, isCreate, ext, registered) ==
  FirstError(<<
    Check(registered, "InvalidSubscriptionState"),
    Check(c.provisioningState \in {"Succeeded", "Failed"}, "RequestNotAllowed"),
    Check(c.provisioningState = "Failed" => c.failedProvisioningState = "Updating", "RequestNotAllowed"),
    Static(ext, IF isCreate THEN None ELSE c, "id")>>)

\* Mutant: the reply is blanked before the document is written.
putOrPatchOpenShiftCluster_BlankFirst(method, body, registered, az) ==
  LET isCreate == oc = None
      c == IF isCreate THEN NewCluster ELSE oc
      ext == Unmarshal(body, Base(method, c))
      verdict == PutOrPatchVerdict(c, isCreate, ext, registered)
      new == Blank(Updated(ext, c, isCreate))
  IN  /\ IF verdict # "OK" THEN answer' = Refuse(verdict) /\ UNCHANGED oc
         ELSE IF Dynamic(new, az) # "OK" THEN answer' = Refuse(Dynamic(new, az)) /\ UNCHANGED oc
         ELSE /\ oc' = new
              /\ answer' = Reply(IF isCreate THEN 201 ELSE 200, MarshalIndent(ToExternal(new)))
      /\ UNCHANGED nsg

putOrPatchOpenShiftCluster(method, body, registered, az) ==
  LET isCreate == oc = None
      c == IF isCreate THEN NewCluster ELSE oc
      ext == Unmarshal(body, Base(method, c))
      verdict == PutOrPatchVerdict(c, isCreate, ext, registered)
      new == Updated(ext, c, isCreate)
  IN  /\ IF verdict # "OK" THEN answer' = Refuse(verdict) /\ UNCHANGED oc
         ELSE IF Dynamic(new, az) # "OK" THEN answer' = Refuse(Dynamic(new, az)) /\ UNCHANGED oc
         ELSE /\ oc' = new
              /\ answer' = Reply(IF isCreate THEN 201 ELSE 200, MarshalIndent(ToExternal(Blank(new))))
      /\ UNCHANGED nsg

\* A body "null" makes the validator's type assertion panic; the middleware
\* answers for it.
PanicBody ==
  /\ oc # None => \/ oc.provisioningState = "Succeeded"
                  \/ oc.provisioningState = "Failed" /\ oc.failedProvisioningState = "Updating"
  /\ answer' = Refuse("InternalServerError")
  /\ UNCHANGED <<oc, nsg>>

getOpenShiftCluster ==
  /\ answer' = IF oc = None THEN Refuse("ResourceNotFound")
               ELSE Reply(200, MarshalIndent(ToExternal(Blank(oc))))
  /\ UNCHANGED <<oc, nsg>>

getOpenShiftClusters ==
  /\ answer' = Reply(200, IF oc = None THEN <<>> ELSE MarshalIndent(ToExternalList(<<Blank(oc)>>)[1]))
  /\ UNCHANGED <<oc, nsg>>

postOpenShiftClusterCredentials(registered) ==
  /\ answer' = IF ~registered THEN Refuse("InvalidSubscriptionState")
               ELSE IF oc = None THEN Refuse("ResourceNotFound")
               ELSE IF oc.provisioningState = "Creating" THEN Refuse("RequestNotAllowed")
               ELSE Reply(200, [kubeadminPassword |-> oc.kubeadminPassword])
  /\ UNCHANGED <<oc, nsg>>

deleteOpenShiftCluster(known) ==
  LET verdict == FirstError(<<Check(known, "InvalidSubscriptionState"),
                              Check(oc.provisioningState \in {"Succeeded", "Failed"}, "RequestNotAllowed")>>)
  IN  /\ \/ oc = None /\ answer' = Reply(204, <<>>) /\ UNCHANGED oc
         \/ oc # None /\ verdict # "OK" /\ answer' = Refuse(verdict) /\ UNCHANGED oc
         \/ oc # None /\ verdict = "OK" /\ answer' = Reply(202, <<>>)
              /\ oc' = [oc EXCEPT !.provisioningState = "Deleting"]
      /\ UNCHANGED nsg

---------------------------------------------------------------------------
(* The back end, as far as it writes the content. *)

ClusterSubnets == {oc.masterSubnetId, oc.workerProfiles[1].subnetId}
EndLease(c, ok) ==
  IF ok THEN [c EXCEPT !.provisioningState = "Succeeded", !.failedProvisioningState = ""]
  ELSE [c EXCEPT !.provisioningState = "Failed", !.failedProvisioningState = c.provisioningState]

Attach == nsg' = [s \in DOMAIN nsg |-> IF s \in ClusterSubnets THEN NetworkSecurityGroupID(oc, s) ELSE nsg[s]]

\* The installer attaches the groups and fills in what it made.
CreateDone ==
  /\ oc # None /\ oc.provisioningState = "Creating"
  /\ Attach
  /\ oc' = EndLease([oc EXCEPT !.apiserverUrl = "url", !.apiserverIp = "ip", !.consoleUrl = "url",
                               !.kubeadminPassword = "password",
                               !.ingressProfiles = <<[oc.ingressProfiles[1] EXCEPT !.ip = "ip"]>>], TRUE)
  /\ UNCHANGED answer

UpdateDone ==
  /\ oc # None /\ oc.provisioningState = "Updating"
  /\ oc' = EndLease(oc, TRUE)
  /\ UNCHANGED <<nsg, answer>>

OperationFails ==
  /\ oc # None /\ oc.provisioningState \in {"Creating", "Updating", "Deleting"}
  /\ \/ UNCHANGED nsg
     \/ oc.provisioningState = "Creating" /\ Attach
  /\ oc' = EndLease(oc, FALSE)
  /\ UNCHANGED answer

DeleteDone ==
  /\ oc # None /\ oc.provisioningState = "Deleting"
  /\ nsg' = [s \in DOMAIN nsg |-> IF s \in ClusterSubnets THEN None ELSE nsg[s]]
  /\ oc' = None
  /\ UNCHANGED answer

\* The owner of the network takes the group off a subnet again.
Detach ==
  /\ \E s \in DOMAIN nsg : nsg[s] # None /\ nsg' = [nsg EXCEPT ![s] = None]
  /\ UNCHANGED <<oc, answer>>

ApiInit ==
  /\ oc = None
  /\ nsg = [s \in {"vnet/master", "vnet/worker"} |-> None]
  /\ answer = None

PutOrPatch ==
  \E r \in Inputs : putOrPatchOpenShiftCluster(r.method, r.body, r.registered, r.azure)
Credentials == \E registered \in BOOLEAN : postOpenShiftClusterCredentials(registered)
Delete == \E known \in BOOLEAN : deleteOpenShiftCluster(known)

Sent ==
  /\ answer # None /\ answer' = None
  /\ UNCHANGED <<oc, nsg>>

ApiNext ==
  \/ /\ answer = None
     /\ \/ Rejected \/ PutOrPatch \/ PanicBody \/ getOpenShiftCluster \/ getOpenShiftClusters
        \/ Credentials \/ Delete
        \/ CreateDone \/ UpdateDone \/ OperationFails \/ DeleteDone \/ Detach
  \/ Sent

---------------------------------------------------------------------------
\* A cluster that is stored can be created and scaled: one worker profile of
\* 3 to 20 machines, two subnets of one vnet and four ranges of addresses
\* without a common one, through every order of PUT and PATCH requests that
\* passed validation; and its tags are those of one request, never mixed
\* from several ("overwrites an existing tags map rather than endlessly
\* adding to it", Tags.UnmarshalJSON).
StoredConsistent ==
  oc # None =>
    /\ Len(oc.workerProfiles) = 1 /\ oc.workerProfiles[1].count \in 3 .. 20
    /\ Vnet[oc.workerProfiles[1].subnetId] = Vnet[oc.masterSubnetId]
    /\ oc.clientSecret # ""
    /\ oc.tags \in {{}} \cup {r.body.tags : r \in {q \in Inputs : "tags" \in DOMAIN q.body}}
    /\ \E az \in {r.azure : r \in Inputs} :
         LET nets == Networks(oc, az)
         IN  \A i, j \in DOMAIN nets : i # j => Addresses(nets[i]) \cap Addresses(nets[j]) = {}

\* What a client reads it may send back: a PATCH with the body of a GET is
\* valid and changes nothing, the secret that the body lacks included; so
\* does a PUT to which the secret is added (conversions, immutable.Validate).
ReadThenWrite ==
  oc # None =>
    LET body == MarshalIndent(ToExternal(Blank(oc)))
        Same(ext) == Static(ext, oc, "id") = "OK" /\ ToInternal(ext, oc) = oc
    IN  /\ Same(Unmarshal(body, Base("PATCH", oc)))
        /\ Same(Unmarshal(body @@ [clientSecret |-> oc.clientSecret], Base("PUT", oc)))

\* After its creation nothing that a client does changes a property of the
\* cluster other than its tags, the number of its workers and its state, and
\* nothing at all while an operation runs.
OnlyMutableChanges ==
  [][(oc # None /\ oc' # None /\ oc.provisioningState # "Creating") =>
       /\ \A f \in DOMAIN oc \ {"tags", "workerProfiles", "provisioningState", "failedProvisioningState"} :
            oc'[f] = oc[f]
       /\ Without(oc'.workerProfiles[1], "count") = Without(oc.workerProfiles[1], "count")
       /\ oc.provisioningState \notin {"Succeeded", "Failed"} =>
            oc'.workerProfiles = oc.workerProfiles /\ oc'.tags = oc.tags]_apiVars
===========================================================================
