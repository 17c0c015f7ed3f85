----------------------------- MODULE Templates -----------------------------
(***************************************************************************)
(* The ARM templates of the RP: those of a cluster, which the installer    *)
(* submits, and those of the RP's own resource group, which the generators *)
(* of pkg/deploy write and an operator submits.                            *)
(*                                                                         *)
(* Of a resource a template says what the order of a deployment depends    *)
(* on: its name, the names of the parts declared inside it (subnets,       *)
(* probes, address pools...), the resources of the same template it is to  *)
(* wait for (dependsOn), everything its properties refer to by resourceId, *)
(* reference, listAccountSas or by being the child of another resource     *)
(* (uses), and the template's parameters it takes (params).                *)
(***************************************************************************)
EXTENDS FiniteSets

CONSTANTS
  Masters,      \* the copy indices 0 to *ControlPlane.Replicas - 1
  Visibility    \* of the API server: "Public" or "Private"

\* Names are paths: the parts of a resource and its children begin with it.
Resource(name, dependsOn, uses) ==
  [name |-> name, dependsOn |-> dependsOn, uses |-> uses,
   parts |-> {}, params |-> {}, copy |-> <<>>]

\* parameters: those declared; defaults: those of them with a DefaultValue.
Template(resources, parameters, defaults) ==
  [resources |-> resources, parameters |-> parameters, defaults |-> defaults]

---------------------------------------------------------------------------
(***************************************************************************)
(* A cluster.  Its subnets are the customer's and exist already.           *)
(***************************************************************************)
MasterSubnet == <<"vnet", "master">>
WorkerSubnet == <<"vnet", "worker">>

Account == <<"cluster">>        \* "cluster" + StorageSuffix
Ignition == <<"cluster", "ignition", "bootstrap.ign">>
Graph == <<"cluster", "aro", "graph">>

storageTemplate == Template(
  {Resource(Account, {}, {})}
    \cup {Resource(<<"cluster", c>>, {Account}, {Account}) : c \in {"ignition", "aro"}}
    \cup {Resource(<<n>>, {}, {}) : n \in {"aro-controlplane-nsg", "aro-node-nsg"}},
  {}, {})

Role == <<"SP / Contributor">>
Zone == <<"private zone">>
Link == <<"private zone", "network-link">>
PublicLB == <<"aro-public-lb">>
InternalLB == <<"aro-internal-lb">>
BootstrapNIC == <<"aro-bootstrap-nic">>
BootstrapDisk == <<"aro-bootstrap_OSDisk">>
Bootstrap == <<"aro-bootstrap">>
MasterNIC(m) == <<"aro-master-nic", m>>

roleAssignment == {Resource(Role, {}, {})}

privateZone ==
  {Resource(Zone, {}, {})}
    \cup {Resource(<<"private zone", n>>, {Zone}, {Zone}) : n \in {"api-int", "api", "_etcd-server-ssl._tcp"}}

\* Mutant: the records wait for the network to be linked.
etcdRecords_AfterLink ==
  {[Resource(<<"private zone", "etcd", m>>, {MasterNIC(m), Link}, {MasterNIC(m), Zone})
      EXCEPT !.copy = <<"privatednscopy">>] : m \in Masters}

etcdRecords ==
  {[Resource(<<"private zone", "etcd", m>>, {MasterNIC(m), Zone}, {MasterNIC(m), Zone})
      EXCEPT !.copy = <<"privatednscopy">>] : m \in Masters}

networkLink == {Resource(Link, {Zone, <<"privatednscopy">>}, {Zone, <<"vnet">>})}

\* Mutant: the order of the load balancer and the private link service is
\* left to chance.
privateLinkService_Unordered ==
  {Resource(<<"aro-pls">>, {}, {<<"aro-internal-lb", "internal-lb-ip">>, MasterSubnet})}

privateLinkService ==
  {Resource(<<"aro-pls">>, {InternalLB}, {<<"aro-internal-lb", "internal-lb-ip">>, MasterSubnet})}

routeTableAndPublicIP == {Resource(<<"aro-node-routetable">>, {}, {}), Resource(<<"aro-pip">>, {}, {})}

\* Only a public API server has a rule on the public load balancer, and the
\* probe the rule refers to.
apiServerPublicLoadBalancer ==
  LET probe == IF Visibility = "Public" THEN {<<"aro-public-lb", "api-internal-probe">>} ELSE {}
      front == {<<"aro-public-lb", "public-lb-ip">>, <<"aro-public-lb", "aro-public-lb-control-plane">>}
  IN {[Resource(PublicLB, {<<"aro-pip">>}, {<<"aro-pip">>} \cup front \cup probe)
         EXCEPT !.parts = front \cup probe]}

internalLoadBalancer ==
  LET parts == {<<"aro-internal-lb", p>> : p \in {"internal-lb-ip", "aro-internal-controlplane",
                                                  "api-internal-probe", "sint-probe"}}
  IN {[Resource(InternalLB, {}, {MasterSubnet} \cup parts) EXCEPT !.parts = parts]}

NIC(name) == Resource(name, {InternalLB, PublicLB},
  {<<"aro-public-lb", "aro-public-lb-control-plane">>, <<"aro-internal-lb", "aro-internal-controlplane">>, MasterSubnet})

bootstrapInterface == {NIC(BootstrapNIC)}

masterInterfaces == {[NIC(MasterNIC(m)) EXCEPT !.copy = <<"networkcopy">>] : m \in Masters}

\* The disk is created with the machine and stays when it is deleted.
bootstrapMachine ==
  {[Resource(Bootstrap, {Role, BootstrapNIC, Link}, {BootstrapNIC, BootstrapDisk, Account, Ignition})
      EXCEPT !.parts = {BootstrapDisk}, !.params = {"sas"}]}

masterMachines ==
  {[Resource(<<"aro-master", m>>, {Role, MasterNIC(m), Link}, {MasterNIC(m), Account})
      EXCEPT !.copy = <<"computecopy">>] : m \in Masters}

outboundLoadBalancer ==
  LET parts == {<<"aro", "outbound">>, <<"aro", "aro">>}
  IN {Resource(<<"aro-outbound-pip">>, {}, {}),
      [Resource(<<"aro">>, {<<"aro-outbound-pip">>}, {<<"aro-outbound-pip">>} \cup parts) EXCEPT !.parts = parts]}

resourcesTemplate == Template(
  roleAssignment \cup privateZone \cup etcdRecords \cup networkLink \cup privateLinkService
    \cup routeTableAndPublicIP \cup apiServerPublicLoadBalancer \cup internalLoadBalancer
    \cup bootstrapInterface \cup masterInterfaces \cup bootstrapMachine \cup masterMachines
    \cup outboundLoadBalancer,
  {"sas"}, {})

---------------------------------------------------------------------------
(***************************************************************************)
(* The RP.                                                                 *)
(***************************************************************************)
DatabaseAccount == <<"account">>
Database == <<"account", "database">>
Container(c) == <<"account", "database", c>>
DNSZone == <<"zone">>
Vault == <<"vault">>
VNet == <<"rp-vnet">>
RPSubnet == <<"rp-vnet", "rp-subnet">>
LB == <<"rp-lb">>
RPReader == <<"RP / Reader">>
RPAccount == <<"account", "RP / DocumentDB Account Contributor">>

nsgTemplate(production) == Template(
  {Resource(<<n>>, {}, {}) : n \in {"rp-nsg", "rp-pe-nsg"} \cup (IF production THEN {"rp-identity"} ELSE {})},
  {}, {})

vnet == {[Resource(VNet, {}, {<<"rp-nsg">>, <<"rp-pe-nsg">>})
            EXCEPT !.parts = {RPSubnet, <<"rp-vnet", "rp-pe-subnet">>}]}

pip == {Resource(<<"rp-pip">>, {}, {})}

lb == LET parts == {<<"rp-lb", "rp-frontend">>, <<"rp-lb", "rp-backend">>, <<"rp-lb", "rp-probe">>}
      IN {[Resource(LB, {<<"rp-pip">>}, {<<"rp-pip">>} \cup parts) EXCEPT !.parts = parts]}

vmssVariables == {"mdmCertificate", "mdmFrontendUrl", "mdmMetricNamespace", "mdmMonitoringAccount",
                  "mdmPrivateKey", "pullSecret", "rpImage", "rpImageAuth"}

vmss == {[Resource(<<"rp-vmss">>, {VNet, LB},
                   {<<"rp-lb", "rp-probe">>, RPSubnet, <<"rp-lb", "rp-backend">>, <<"rp-identity">>})
            EXCEPT !.params = vmssVariables \cup {"sshPublicKey", "vmssDomainNameLabel"}]}

zone == {[Resource(DNSZone, {}, {}) EXCEPT !.params = {"domainName"}]}

\* In production the empty list of access policies is replaced by one with
\* the policy for the RP and an extra parameter.
vault(production) ==
  {[Resource(Vault, {}, {}) EXCEPT !.params =
      {"keyvaultName", "rpServicePrincipalId"}
        \cup (IF production THEN {"extraKeyvaultAccessPolicies"} ELSE {"adminObjectId"})]}

\* databaseName is the parameter the name is taken from, if any.
database(databaseName, addDependsOn) ==
  LET account == IF addDependsOn THEN {DatabaseAccount} ELSE {}
      params == {"databaseAccountName"} \cup databaseName
  IN {[Resource(Database, account, {DatabaseAccount}) EXCEPT !.params = params]}
       \cup {[Resource(Container(c), {Database} \cup account, {Database}) EXCEPT !.params = params] :
               c \in {"AsyncOperations", "OpenShiftClusters", "Subscriptions"}}

cosmosdb(production, databaseName) ==
  IF production
  THEN {[Resource(DatabaseAccount, {VNet}, {RPSubnet})
           EXCEPT !.params = {"databaseAccountName", "extraCosmosDBIPs"}]}
         \cup database(databaseName, TRUE)
  ELSE {[Resource(DatabaseAccount, {}, {}) EXCEPT !.params = {"databaseAccountName"}]}

rbac ==
  {[Resource(RPReader, {}, {}) EXCEPT !.params = {"rpServicePrincipalId"}],
   [Resource(<<"FP / Network Contributor">>, {}, {}) EXCEPT !.params = {"fpServicePrincipalId"}],
   [Resource(RPAccount, {DatabaseAccount}, {DatabaseAccount})
      EXCEPT !.params = {"databaseAccountName", "rpServicePrincipalId"}],
   [Resource(<<"zone", "FP / DNS Zone Contributor">>, {DNSZone}, {DNSZone})
      EXCEPT !.params = {"domainName", "fpServicePrincipalId"}]}

templateParams(production) ==
  {"databaseAccountName", "domainName", "fpServicePrincipalId", "keyvaultName", "rpServicePrincipalId"}
    \cup (IF production
          THEN vmssVariables \cup {"sshPublicKey", "vmssDomainNameLabel",
                                   "extraCosmosDBIPs", "extraKeyvaultAccessPolicies"}
          ELSE {"adminObjectId"})

template(production) == Template(
  (IF production THEN pip \cup lb \cup vmss ELSE {}) \cup zone \cup vault(production) \cup vnet
    \cup cosmosdb(production, IF production THEN {} ELSE {"databaseName"}) \cup rbac,
  templateParams(production),
  IF production THEN {"extraCosmosDBIPs", "extraKeyvaultAccessPolicies"} ELSE {})

databasesTemplate ==
  Template(database({"databaseName"}, FALSE), {"databaseAccountName", "databaseName"}, {})

\* GenerateRPParameterTemplate: a value for every parameter.
parametersTemplate == template(TRUE).parameters

proxyVmss == {[Resource(<<"dev-proxy-vmss">>, {}, {RPSubnet}) EXCEPT !.params =
  {"proxyImage", "proxyImageAuth", "proxyCert", "proxyClientCert", "proxyKey",
   "sshPublicKey", "proxyDomainNameLabel"}]}

devResources ==
  {[Resource(<<"dev-vpn-pip">>, {}, {})
      EXCEPT !.params = {"publicIPAddressSkuName", "publicIPAddressAllocationMethod"}],
   [Resource(<<"dev-vnet">>, {}, {}) EXCEPT !.parts = {<<"dev-vnet", "GatewaySubnet">>}],
   [Resource(<<"dev-vpn">>, {<<"dev-vpn-pip">>, <<"dev-vnet">>}, {<<"dev-vnet", "GatewaySubnet">>, <<"dev-vpn-pip">>})
      EXCEPT !.params = {"vpnCACertificate"}]}

devDefaults == {"publicIPAddressAllocationMethod", "publicIPAddressSkuName"}

devTemplate == Template(devResources \cup proxyVmss,
  {"proxyCert", "proxyClientCert", "proxyDomainNameLabel", "proxyImage", "proxyImageAuth", "proxyKey",
   "sshPublicKey", "vpnCACertificate"} \cup devDefaults,
  devDefaults)
===========================================================================
