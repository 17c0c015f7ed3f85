------------------------------ MODULE MCParts ------------------------------
(***************************************************************************)
(* Small instances, for TLC, of the parts of the resource provider that    *)
(* share no state with one another: the back end's main loop, the front    *)
(* end server, the client authorizer, the content of a cluster, queries,   *)
(* machine sets and the mirror command.  Since they share nothing, every   *)
(* property of one of them holds in every interleaving if it holds when    *)
(* the others rest, so in a behaviour only one of them moves.              *)
(***************************************************************************)
EXTENDS BackendRun, FrontendServer, ClientAuthorizer, ClusterAPI, DocumentQuery, MachineSets, Mirror

VARIABLE part   \* the part that moves

partVars == <<vars, srvVars, authVars, apiVars, listVars, msVars, mirrorVars, part>>

Parts == {"loop", "server", "authorizer", "api", "query", "machinesets", "mirror"}

PartsInit ==
  /\ part \in Parts
  /\ Init /\ SrvInit /\ AuthInit /\ ApiInit /\ ListInit /\ MsInit /\ MirrorInit
  /\ part # "authorizer" => published = {} /\ validity = [c \in Certs |-> "early"]
  /\ part # "query" => stored = {}

\* A step of a part, while the others rest.
Of(p, A) == part = p /\ A /\ UNCHANGED part

LoopMoves(A) == Of("loop", A) /\ UNCHANGED <<srvVars, authVars, apiVars, listVars, msVars, mirrorVars>>
ServerMoves(A) == Of("server", A) /\ UNCHANGED <<vars, authVars, apiVars, listVars, msVars, mirrorVars>>
AuthorizerMoves(A) == Of("authorizer", A) /\ UNCHANGED <<vars, srvVars, apiVars, listVars, msVars, mirrorVars>>
ApiMoves(A) == Of("api", A) /\ UNCHANGED <<vars, srvVars, authVars, listVars, msVars, mirrorVars>>
QueryMoves(A) == Of("query", A) /\ UNCHANGED <<vars, srvVars, authVars, apiVars, msVars, mirrorVars>>
MachineSetsMove(A) == Of("machinesets", A) /\ UNCHANGED <<vars, srvVars, authVars, apiVars, listVars, mirrorVars>>
MirrorMoves(A) == Of("mirror", A) /\ UNCHANGED <<vars, srvVars, authVars, apiVars, listVars, msVars>>

PartsNext ==
  \/ LoopMoves(Next) \/ ServerMoves(SrvNext) \/ AuthorizerMoves(AuthNext) \/ ApiMoves(ApiNext)
  \/ QueryMoves(ListNext) \/ MachineSetsMove(MsNext) \/ MirrorMoves(MirrorNext)

\* Scheduled, AuthFairness and MirrorFairness, of the part that moves.
PartsFairness ==
  /\ WF_partVars(LoopMoves(Loop))
  /\ \A k \in Goroutines : WF_partVars(LoopMoves(WorkerSignal(k)))
  /\ WF_partVars(LoopMoves(StoreStopping \/ StopSignal))
  /\ WF_partVars(AuthorizerMoves(Hour))
  /\ WF_partVars(AuthorizerMoves(RefreshBegin))
  /\ WF_partVars(AuthorizerMoves(RefreshStore))
  /\ WF_partVars(AuthorizerMoves(Answer \/ RefreshFails \/ RefreshPanics))
  /\ SF_partVars(AuthorizerMoves(Answer))
  /\ WF_partVars(MirrorMoves(MirrorNext))

PartsSpec == PartsInit /\ [][PartsNext]_partVars /\ PartsFairness

---------------------------------------------------------------------------
(* The mirror: a release that is too old, and two that are not. *)

MCNodes ==
  <<[version |-> <<4, 2, 9>>, payload |-> "r1"], [version |-> <<4, 3, 0>>, payload |-> "r2"],
    [version |-> <<3, 4, 0>>, payload |-> "r4"]>>
MCMinimum == <<4, 3, 0>>
MCTags == [r \in {"r1", "r2", "r3", "r4"} |-> IF r = "r2" THEN <<"a", "b">> ELSE <<"c">>]

---------------------------------------------------------------------------
(* Requests: a body that is valid for a new cluster and, of each property, *)
(* values that are not, or not to be changed to; every one of them alone   *)
(* in a PUT and a PATCH, many of them in a PUT of the whole.  And what is  *)
(* found in Azure: all in order, or one thing not.                         *)

Worker == [name |-> "worker", vmSize |-> "D2s", diskSizeGB |-> 128, subnetId |-> "vnet/worker", count |-> 3]
Ingress == [name |-> "default", visibility |-> "Public"]
FullBody ==
  [location |-> "eastus", tags |-> {"t1"}, domain |-> "domain", resourceGroupId |-> "group",
   clientId |-> "client", clientSecret |-> "secret", podCidr |-> CIDR(4096, 18), serviceCidr |-> CIDR(8192, 22),
   masterVmSize |-> "D8s", masterSubnetId |-> "vnet/master", workerProfiles |-> <<Worker>>,
   visibility |-> "Public", ingressProfiles |-> <<Ingress>>]
Variations ==
  [id |-> {"ID", "other"}, name |-> {"NAME", "other"}, type |-> {"other"}, location |-> {"EASTUS", "west"},
   tags |-> {{}, {"t2"}}, provisioningState |-> {"Succeeded", "Failed", "bad"}, domain |-> {"other", "bad"},
   version |-> {"4.3.0", "bad"}, resourceGroupId |-> {"other", "foreign/group"}, consoleUrl |-> {"url", "bad"},
   clientId |-> {"other", "bad"}, clientSecret |-> {"", "other"},
   podCidr |-> {NoCIDR, CIDR(4096, 19), CIDR(8192, 18), CIDR(0, 18)}, serviceCidr |-> {NoCIDR, CIDR(8192, 23), CIDR(0, 22)},
   masterVmSize |-> {"D2s"}, masterSubnetId |-> {"bad", "vnet/worker", "foreign/master"},
   workerProfiles |-> {<<>>, <<Worker, Worker>>} \cup {<<[count |-> n]>> : n \in {2, 3, 4, 20, 21}}
     \cup {<<[Worker EXCEPT !.name = "other"]>>, <<[Worker EXCEPT !.vmSize = "D4s"]>>, <<[Worker EXCEPT !.diskSizeGB = 127]>>,
           <<[Worker EXCEPT !.subnetId = "other/worker"]>>, <<[Worker EXCEPT !.subnetId = "vnet/master"]>>,
           <<[Worker EXCEPT !.count = 2]>>, <<[Worker EXCEPT !.count = 20]>>, <<[Worker EXCEPT !.count = 21]>>},
   visibility |-> {"Private", "bad"}, apiserverUrl |-> {"url", "bad"}, apiserverIp |-> {"ip", "ipv6"},
   ingressProfiles |-> {<<>>, <<[visibility |-> "Private"]>>, <<[name |-> "other", visibility |-> "Public"]>>, <<[ip |-> "bad"]>>}]
Changes == UNION {{(f :> x) : x \in Variations[f]} : f \in DOMAIN Variations}
Contributor == [found |-> TRUE, permissions |-> {[actions |-> {"join", "read", "write"}, notActions |-> {}]}]
Subnet(prefix) == [found |-> TRUE, policies |-> "Disabled", endpoint |-> "Succeeded", prefix |-> prefix]
GoodAzure == [token |-> TRUE, roles |-> {}, sp |-> Contributor, fp |-> Contributor,
              subnets |-> [s \in {"vnet/master", "vnet/worker"} |-> Subnet(CIDR(IF s = "vnet/master" THEN 16 ELSE 32, 24))]]
BadClients ==
  {[Contributor EXCEPT !.found = FALSE], [Contributor EXCEPT !.permissions = {}],
   [Contributor EXCEPT !.permissions = {[actions |-> {"join", "read", "write"}, notActions |-> {"write"}],
                                         [actions |-> {"read"}, notActions |-> {}]}]}
BadSubnets == LET s == Subnet(CIDR(16, 24)) IN
  {[s EXCEPT !.found = FALSE], [s EXCEPT !.policies = "Enabled"], [s EXCEPT !.endpoint = "Failed"], [s EXCEPT !.prefix = CIDR(16, 28)],
   [s EXCEPT !.prefix = CIDR(32, 24)], [s EXCEPT !.prefix = CIDR(32, 27)]}
MCAzures ==
  {GoodAzure, [GoodAzure EXCEPT !.token = FALSE], [GoodAzure EXCEPT !.roles = {"Application.ReadWrite.OwnedBy"}]}
  \cup {[GoodAzure EXCEPT !.sp = p] : p \in BadClients} \cup {[GoodAzure EXCEPT !.fp = p] : p \in BadClients}
  \cup {[GoodAzure EXCEPT !.subnets["vnet/master"] = s] : s \in BadSubnets}
Full(change) == change @@ FullBody
PutChanges ==
  UNION {{(f :> x) : x \in Variations[f]} :
           f \in {"location", "tags", "workerProfiles", "masterSubnetId", "podCidr", "serviceCidr", "clientSecret"}}
  \cup {(f :> "bad") : f \in {"id", "domain", "version", "resourceGroupId", "consoleUrl", "clientId", "visibility", "apiserverIp"}}
Request(method, body, az) == [method |-> method, body |-> body, registered |-> TRUE, azure |-> az]
MCInputs ==
  {Request(method, change, GoodAzure) : method \in {"PUT", "PATCH"}, change \in Changes}
  \cup {Request("PUT", Full(change), GoodAzure) : change \in PutChanges}
  \cup {Request("PUT", FullBody, az) : az \in MCAzures}
  \cup {[Request("PUT", FullBody, GoodAzure) EXCEPT !.registered = FALSE]}
===========================================================================
