------------------------- MODULE InstallationProofs -------------------------
(***************************************************************************)
(* The api record of a domain stays with its cluster, for any number of    *)
(* clusters and workers, however many leases expire.                       *)
(***************************************************************************)
EXTENDS Installation, TLAPS

LocalsOK ==
  /\ DOMAIN pc = Workers /\ DOMAIN loc = Workers
  /\ \A w \in Workers : "fresh" \in DOMAIN loc[w]

\* A worker whose copy of the record is as stored found itself its owner.
FreshOwner == \A w \in Workers : loc[w].fresh => api = works[w]

DnsInv == LocalsOK /\ FreshOwner

\* What the steps do that leave the api record alone: no one's copy becomes
\* that of another cluster's record.
Quiet ==
  /\ api' = api /\ works' = works
  /\ DOMAIN pc' = Workers /\ DOMAIN loc' = Workers
  /\ \A v \in Workers : /\ "fresh" \in DOMAIN loc'[v]
                        /\ loc'[v].fresh => loc[v].fresh \/ api = works[v]

\* The record of a cluster changes only in a step of one of its workers.
OwnStep == api # None /\ api' # api => \E w \in Workers : works[w] = api /\ pc'[w] # pc[w]

\* Quiet steps keep the invariant.
LEMMA QuietLemma == ASSUME DnsInv, Quiet PROVE DnsInv' /\ OwnStep
BY DEF DnsInv, LocalsOK, FreshOwner, Quiet, OwnStep

\* The end of an operation, whether it succeeds, fails or panics.
LEMMA EndLemma ==
  ASSUME DnsInv, NEW w \in Workers, NEW s, End(w, s) \/ Panic(w), UNCHANGED <<fixed, shared>>
  PROVE  Quiet
BY DEF DnsInv, LocalsOK, End, Panic, NoLocals, Quiet, fixed, shared

\* An error of a step.
LEMMA ErrorLemma == ASSUME DnsInv, NEW w \in Workers, Error(w) PROVE Quiet
<1>1. End(w, "failed") /\ UNCHANGED <<fixed, shared>>
  BY DEF Error
<1> QED BY <1>1, EndLemma

\* A step to another label at which the worker learns nothing, or nothing of
\* the record.
LEMMA LocalLemma ==
  ASSUME DnsInv, NEW w \in Workers, NEW to, pc' = [pc EXCEPT ![w] = to],
         NEW f, f # "fresh", NEW x,
         UNCHANGED loc \/ loc' = [loc EXCEPT ![w] = [loc[w] EXCEPT ![f] = x]],
         UNCHANGED <<api, works>>
  PROVE  Quiet
BY DEF DnsInv, LocalsOK, Quiet

\* The same for the loops over the subnets.
LEMMA SubnetLemma ==
  ASSUME DnsInv, NEW w \in Workers, NEW again, NEW after, NextSubnet(w, again, after),
         UNCHANGED <<api, works>>
  PROVE  Quiet
BY DEF NextSubnet, Known, DnsInv, LocalsOK, Quiet

\* PatchWithLease.
LEMMA PatchLemma ==
  ASSUME DnsInv, NEW w \in Workers, NEW to, NEW d, pc' = [pc EXCEPT ![w] = to], Patch(w, d)
  PROVE  Quiet
BY DEF DnsInv, LocalsOK, Quiet, Patch, fixed, shared

---------------------------------------------------------------------------
\* Requests, leases, faults and what Azure does by itself.
LEMMA OutsideLemma ==
  ASSUME DnsInv,
         \/ \E c \in Clusters : Put(c) \/ Delete(c) \/ DeploymentEnds(c) \/ BootstrapCompletes(c)
         \/ \E w \in Workers : Dequeue(w) \/ Crash(w) \/ Fail(w)
  PROVE  Quiet
<1>1. CASE \E c \in Clusters : Put(c) \/ Delete(c) \/ DeploymentEnds(c) \/ BootstrapCompletes(c)
  <2>1. UNCHANGED <<fixed, shared, pc, loc>>
    BY <1>1 DEF Put, Delete, DeploymentEnds, BootstrapCompletes
  <2> QED BY <2>1 DEF DnsInv, LocalsOK, Quiet, fixed, shared
<1>2. ASSUME NEW w \in Workers, Dequeue(w)
      PROVE  Quiet
  BY <1>2 DEF Dequeue, DnsInv, LocalsOK, Quiet, NoLocals, fixed, shared
<1>3. ASSUME NEW w \in Workers, Crash(w)
      PROVE  Quiet
  BY <1>3 DEF Crash, DnsInv, LocalsOK, Quiet, NoLocals, fixed, shared
<1>4. ASSUME NEW w \in Workers, Fail(w)
      PROVE  Quiet
  <2>1. End(w, "failed") /\ UNCHANGED <<fixed, shared>>
    BY <1>4 DEF Fail
    <2> QED BY <2>1, EndLemma
<1> QED BY <1>1, <1>2, <1>3, <1>4

\* The steps that patch the document.
LEMMA DocumentLemma ==
  ASSUME DnsInv, NEW w \in Workers,
         \/ Create(w) \/ Install(w) \/ NextPhase(w) \/ PatchKubeconfig(w) \/ GetIP(w)
         \/ PatchConsole(w) \/ ClearInstall(w) \/ Succeed(w) \/ DeleteDoc(w)
  PROVE  Quiet
<1>1. CASE Create(w)
  BY <1>1, PatchLemma DEF Create, Go
<1>2. CASE Install(w)
  BY <1>2, PatchLemma DEF Install, Go
<1>3. CASE NextPhase(w)
  <2>1. CASE Panic(w) /\ UNCHANGED <<fixed, shared>>
    BY <2>1, EndLemma
  <2>2. CASE ~(Panic(w) /\ UNCHANGED <<fixed, shared>>)
    <3> DEFINE d == [doc[works[w]] EXCEPT !.phase = @ + 1]
    <3>1. /\ pc' = [pc EXCEPT ![w] = Label(d.phase)]
          /\ loc' = [loc EXCEPT ![w] = [NoLocals EXCEPT !.doc = d]]
          /\ UNCHANGED <<fixed, shared>>
      BY <1>3, <2>2 DEF NextPhase, Go
    <3> HIDE DEF d
    <3> QED BY <3>1 DEF DnsInv, LocalsOK, Quiet, NoLocals, fixed, shared
  <2> QED BY <2>1, <2>2
<1>4. CASE PatchKubeconfig(w)
  <2>1. CASE Panic(w) /\ UNCHANGED <<fixed, shared>>
    BY <2>1, EndLemma
  <2>2. CASE ~(Panic(w) /\ UNCHANGED <<fixed, shared>>)
    BY <1>4, <2>2, PatchLemma DEF PatchKubeconfig, Go
  <2> QED BY <2>1, <2>2
<1>5. CASE GetIP(w)
  BY <1>5, PatchLemma DEF GetIP, Go
<1>6. CASE PatchConsole(w)
  BY <1>6, PatchLemma DEF PatchConsole, Go
<1>7. CASE ClearInstall(w)
  BY <1>7, PatchLemma DEF ClearInstall, Go
<1>8. CASE Succeed(w)
  <2>1. End(w, "succeeded") /\ UNCHANGED <<fixed, shared>>
    BY <1>8 DEF Succeed
    <2> QED BY <2>1, EndLemma
<1>9. CASE DeleteDoc(w)
  BY <1>9 DEF DeleteDoc, Go, Known, DnsInv, LocalsOK, Quiet, NoLocals, fixed, shared
<1> QED BY <1>1, <1>2, <1>3, <1>4, <1>5, <1>6, <1>7, <1>8, <1>9

\* The steps that read or write what is in Azure, but for the api record.
LEMMA AzureLemma ==
  ASSUME DnsInv, NEW w \in Workers,
         \/ DnsGet(w) \/ Assets(w) \/ DeployStorage(w) \/ WaitStorage(w)
         \/ PutIgnition(w) \/ PutGraph(w) \/ AttachGet(w) \/ AttachPut(w)
         \/ GetGraph(w) \/ DeployResources(w) \/ WaitResources(w) \/ CreateEndpoint(w)
         \/ PollBootstrap(w) \/ RemoveVM(w) \/ PollVersion(w) \/ PollTimeout(w)
         \/ Unrecognised(w) \/ CreateOrUpdateRouter(w) \/ DnsDeleteApps(w)
         \/ DetachGet(w) \/ DetachPut(w) \/ DeleteEndpoint(w) \/ DeleteGroup(w)
  PROVE  Quiet
<1>1. CASE Error(w)
  BY <1>1, ErrorLemma
<1> SUFFICES ASSUME ~Error(w) PROVE Quiet
  BY <1>1
<1> USE DEF Go, Known, Others, fixed, shared
<1>2. CASE DnsGet(w)
  BY <1>2, LocalLemma, "s" # "fresh" DEF DnsGet
<1>3. CASE PutIgnition(w)
  BY <1>3, LocalLemma, "s" # "fresh" DEF PutIgnition
<1>4. CASE PutGraph(w)
  BY <1>4, LocalLemma, "s" # "fresh" DEF PutGraph
<1>5. CASE CreateEndpoint(w)
  BY <1>5, LocalLemma, "s" # "fresh" DEF CreateEndpoint
<1>6. CASE PollBootstrap(w)
  BY <1>6, LocalLemma, "s" # "fresh" DEF PollBootstrap
<1>7. CASE RemoveVM(w)
  BY <1>7, LocalLemma, "s" # "fresh" DEF RemoveVM
<1>8. CASE PollVersion(w)
  BY <1>8, LocalLemma, "s" # "fresh" DEF PollVersion
<1>9. CASE CreateOrUpdateRouter(w)
  BY <1>9, LocalLemma, "s" # "fresh" DEF CreateOrUpdateRouter
<1>10. CASE DnsDeleteApps(w)
  BY <1>10, LocalLemma, "s" # "fresh" DEF DnsDeleteApps
<1>11. CASE DeleteEndpoint(w)
  BY <1>11, LocalLemma, "s" # "fresh" DEF DeleteEndpoint
<1>12. CASE DeleteGroup(w)
  BY <1>12, LocalLemma, "s" # "fresh" DEF DeleteGroup
<1>13. CASE Assets(w)
  BY <1>13, LocalLemma, "gen" # "fresh" DEF Assets
<1>14. CASE GetGraph(w)
  BY <1>14, LocalLemma, "graph" # "fresh" DEF GetGraph
<1>15. CASE DeployStorage(w) \/ DeployResources(w)
  BY <1>15, LocalLemma, "s" # "fresh" DEF DeployStorage, DeployResources, Submit
<1>16. CASE WaitStorage(w) \/ WaitResources(w)
  BY <1>16, LocalLemma, "s" # "fresh" DEF WaitStorage, WaitResources, Wait
<1>17. CASE AttachGet(w)
  <2>1. CASE UNCHANGED loc
    BY <1>17, <2>1, LocalLemma, SubnetLemma, "s" # "fresh" DEF AttachGet
  <2>2. CASE ~UNCHANGED loc
    BY <1>17, <2>2, SubnetLemma DEF AttachGet
  <2> QED BY <2>1, <2>2
<1>18. CASE AttachPut(w)
  BY <1>18, SubnetLemma DEF AttachPut
<1>19. CASE DetachGet(w)
  <2>1. CASE UNCHANGED loc
    BY <1>19, <2>1, LocalLemma, SubnetLemma, "s" # "fresh" DEF DetachGet
  <2>2. CASE ~UNCHANGED loc
    BY <1>19, <2>2, SubnetLemma DEF DetachGet
  <2> QED BY <2>1, <2>2
<1>20. CASE DetachPut(w)
  BY <1>20, SubnetLemma DEF DetachPut
<1>21. ~PollTimeout(w) /\ ~Unrecognised(w)
  BY DEF PollTimeout, Unrecognised
<1> QED
  BY <1>2, <1>3, <1>4, <1>5, <1>6, <1>7, <1>8, <1>9, <1>10, <1>11, <1>12, <1>13, <1>14, <1>15, <1>16, <1>17, <1>18, <1>19, <1>20, <1>21

\* Reading the record: what is known of it is what it is.
LEMMA ReadLemma ==
  ASSUME DnsInv, NEW w \in Workers, DnsUpdateGet(w) \/ DnsDeleteGet(w)
  PROVE  Quiet
<1>1. CASE DnsUpdateGet(w)
  <2>1. CASE Error(w)
    BY <2>1, ErrorLemma
  <2>2. CASE ~Error(w)
    BY <1>1, <2>2
    DEF DnsUpdateGet, Go, Known, Others, fixed, shared, DnsInv, LocalsOK, Quiet
  <2> QED BY <2>1, <2>2
<1>2. CASE DnsDeleteGet(w)
  BY <1>2 DEF DnsDeleteGet, Go, Known, Others, fixed, shared, DnsInv, LocalsOK, Quiet
<1> QED BY <1>1, <1>2

\* Writing the record: only who owns it does, or who found none.
LEMMA WriteLemma ==
  ASSUME DnsInv, NEW w \in Workers, DnsPut(w) \/ DnsUpdatePut(w) \/ DnsDeleteApi(w)
  PROVE  DnsInv' /\ OwnStep
<1>1. CASE Error(w)
  BY <1>1, ErrorLemma, QuietLemma
<1> SUFFICES ASSUME ~Error(w) PROVE DnsInv' /\ OwnStep
  BY <1>1
<1> USE DEF Go, Others, fixed
<1>2. ASSUME NEW owner, SetApi(w, owner, loc[w]), NEW to, pc' = [pc EXCEPT ![w] = to],
             UNCHANGED works
      PROVE  DnsInv'
  BY <1>2 DEF SetApi, DnsInv, LocalsOK, FreshOwner
<1>3. CASE DnsPut(w)
  <2>1. DnsInv'
    BY <1>2, <1>3 DEF DnsPut
  <2>2. api = None
    BY <1>3 DEF DnsPut
  <2> QED BY <2>1, <2>2 DEF OwnStep
<1>4. CASE DnsUpdatePut(w)
  <2>1. DnsInv'
    BY <1>2, <1>4 DEF DnsUpdatePut
  <2>2. api' = api
    BY <1>4 DEF DnsUpdatePut, SetApi, DnsInv, FreshOwner
  <2> QED BY <2>1, <2>2 DEF OwnStep
<1>5. CASE DnsDeleteApi(w)
  <2>1. DnsInv'
    BY <1>2, <1>5 DEF DnsDeleteApi
  <2>2. api = None \/ api = works[w]
    BY <1>5 DEF DnsDeleteApi, DnsInv, FreshOwner
  <2>3. pc'[w] # pc[w]
    BY <1>5 DEF DnsDeleteApi, DnsInv, LocalsOK
  <2> QED BY <2>1, <2>2, <2>3 DEF OwnStep
<1> QED BY <1>3, <1>4, <1>5

\* The invariant is inductive, and every step is a permitted one.
LEMMA DnsStepLemma == DnsInv /\ [Next]_vars => DnsInv' /\ [OwnStep]_vars
<1> SUFFICES ASSUME DnsInv, [Next]_vars
             PROVE  DnsInv' /\ [OwnStep]_vars
  OBVIOUS
<1>1. CASE UNCHANGED vars
  BY <1>1 DEF vars, fixed, shared, DnsInv, LocalsOK, FreshOwner
<1>2. ASSUME NEW w \in Workers, Work(w)
      PROVE  DnsInv' /\ OwnStep
  BY <1>2, DocumentLemma, AzureLemma, ReadLemma, WriteLemma, QuietLemma DEF Work
<1>3. CASE Next
  BY <1>2, <1>3, OutsideLemma, QuietLemma DEF Next
<1> QED BY <1>1, <1>3

\* The api record of a cluster is only changed by a step of a worker of that
\* cluster: a second cluster with the same domain never takes it over
\* (dns.Create, Update and Delete), even if leases expire.
THEOREM DomainKeptCorrect == Spec => DomainKept
<1>1. Init => DnsInv
  BY DEF Init, DnsInv, LocalsOK, FreshOwner, NoLocals
<1>2. Init /\ [][Next]_vars => [][OwnStep]_vars
  BY <1>1, DnsStepLemma, PTL
<1> QED BY <1>2, PTL DEF Spec, DomainKept, OwnStep
===========================================================================
