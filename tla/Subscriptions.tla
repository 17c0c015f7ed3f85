--------------------------- MODULE Subscriptions ---------------------------
(***************************************************************************)
(* One subscription and its clusters.  ARM PUTs the state of the           *)
(* subscription; once it is Deleted, the back end dequeues the             *)
(* subscription's document under a lease and sweeps its clusters: each is  *)
(* made to be deleted, and the sweep is repeated until none is being       *)
(* created or updated.                                                     *)
(*                                                                         *)
(* A cluster is its provisioningState, or None; its own life, the subject  *)
(* of ClusterLifecycle, is cut down to the steps from state to state.      *)
(*                                                                         *)
(* patchWithLease drops its options: Lease and EndLease write without      *)
(* If-Match and without pre-trigger.  Dequeue alone is conditional; as in  *)
(* ClusterLifecycle, "fresh" holds the dequeue loops whose copy has the    *)
(* stored ETag.                                                            *)
(*                                                                         *)
(* leaseExpires is the time left, in ticks of the heartbeat; Clock makes   *)
(* it shorter, in the copies of the document as well.                      *)
(***************************************************************************)
EXTENDS Naturals

CONSTANTS
  Puts,              \* PUTs of the subscription; each runs at most once
  Bodies,            \* the states they may carry
  Clusters,          \* keys of clusters; each is created at most once
  Instances,         \* uuids of RP processes
  Workers,           \* worker goroutine slots of all the RP processes
  InstanceOf,        \* the RP process a worker slot belongs to
  MaxDequeueCount,   \* maxDequeueCount, pkg/backend/backend.go
  LeaseTicks,        \* ticks for which renewLease sets the lease
  None,              \* the zero value of an owner, a copy, ...
  DBErrors,          \* TRUE: a call to the store may fail
  SerialPuts,        \* TRUE: once a subscription is registered, ARM sends one
                     \*   PUT of it at a time
  TimelyHeartbeats,  \* TRUE: a heartbeat is done before its next tick
  LateCreates        \* TRUE: a PUT of a cluster may take so long that the
                     \*   subscription is deleted meanwhile

VARIABLES
  sub,        \* the stored SubscriptionDocument, or None
  fresh,      \* dequeue loops whose copy has the stored ETag
  ppc, pdoc,  \* a PUT's control point and the document it is to write
  clusters,   \* provisioningState of each cluster, or None
  creating,   \* control point of the PUT that creates each cluster
  up,         \* RP processes that are running
  pc,         \* control point of each dequeue loop and each worker
  buf,        \* copy of the document that is to be written back
  todo,       \* clusters the sweep has listed and not yet patched
  cbuf,       \* the cluster being patched, as it was read, or None
  fin,        \* how the sweep is to end: "done", with everything enqueued,
              \* "retryLater", to come back for clusters, or "error"
  hb, hbuf,   \* a worker's heartbeat: control point and copy
  cancelled,  \* the worker's context has been cancelled
  enqueued    \* history: clusters whose deletion was ever stored

puts == <<ppc, pdoc>>
cl   == <<clusters, creating, enqueued>>
work == <<pc, buf, todo, cbuf, fin>>
beat == <<hb, hbuf, cancelled>>
vars == <<sub, fresh, ppc, pdoc, clusters, creating, up, pc, buf, todo,
          cbuf, fin, hb, hbuf, cancelled, enqueued>>

Executors == Workers \cup Instances
UUID(e)   == IF e \in Instances THEN e ELSE InstanceOf[e]

\* api.SubscriptionState and api.ProvisioningState.
SubStates == {"Registered", "Unregistered", "Warned", "Suspended", "Deleted"}
Terminal  == {"Succeeded", "Failed"}
States    == Terminal \cup {"Creating", "Updating", "Deleting"}

Docs == [state : SubStates,
         deleting : BOOLEAN,
         leaseOwner : Instances \cup {None},
         leaseExpires : 0 .. LeaseTicks,
         dequeues : 0 .. MaxDequeueCount + 1]

ASSUME ConstantsAssumption ==
  /\ Bodies \subseteq SubStates
  /\ InstanceOf \in [Workers -> Instances]
  /\ Workers \cap Instances = {}
  /\ MaxDequeueCount \in Nat
  /\ LeaseTicks \in Nat \ {0}
  /\ None \notin Instances \cup Docs \cup States
  /\ {DBErrors, SerialPuts, TimelyHeartbeats, LateCreates} \subseteq BOOLEAN

\* Nothing is under way.
AtRest ==
  /\ fresh = {}
  /\ ppc = [p \in Puts |-> "idle"]
  /\ pdoc = [p \in Puts |-> None]
  /\ clusters = [c \in Clusters |-> None]
  /\ creating = [c \in Clusters |-> "idle"]
  /\ up = Instances
  /\ pc = [e \in Executors |-> "idle"]
  /\ buf = [e \in Executors |-> None]
  /\ todo = [e \in Executors |-> {}]
  /\ cbuf = [e \in Executors |-> None]
  /\ fin = [e \in Executors |-> "done"]
  /\ hb = [e \in Executors |-> "off"]
  /\ hbuf = [e \in Executors |-> None]
  /\ cancelled = [e \in Executors |-> FALSE]
  /\ enqueued = {}

Init == sub = None /\ AtRest

---------------------------------------------------------------------------
(***************************************************************************)
(* PUT of the subscription.                                                *)
(***************************************************************************)
Write(d) == sub' = d /\ fresh' = {}

\* What the PUT makes of the document it read, or of a new one.
Put(d, s) == [d EXCEPT !.state = s, !.deleting = @ \/ s = "Deleted"]

NewDocument(s) ==
  [state |-> s, deleting |-> s = "Deleted", leaseOwner |-> None,
   leaseExpires |-> 0, dequeues |-> 0]

\* Mutant: a deleted subscription can be registered again.
Allowed_Any(d, s) == TRUE

\* A deleted subscription stays deleted.
Allowed(d, s) == d.state = "Deleted" => s = "Deleted"

\* The state in the body of the request, which is the same in every attempt.
Body(p) == IF ppc[p] = "idle" THEN Bodies ELSE {pdoc[p].state}

PutRead(p) ==
  /\ ppc[p] \in {"idle", "retry"}
  /\ SerialPuts => \A q \in Puts : ppc[q] # "update"
  /\ \E s \in Body(p) :
       \/ /\ sub = None
          /\ pdoc' = [pdoc EXCEPT ![p] = NewDocument(s)]
          /\ ppc' = [ppc EXCEPT ![p] = "create"]
       \/ /\ sub # None
          /\ Allowed(sub, s)
          /\ pdoc' = [pdoc EXCEPT ![p] = Put(sub, s)]
          /\ ppc' = [ppc EXCEPT ![p] = "update"]
  /\ UNCHANGED <<sub, fresh, cl, up, work, beat>>

\* Create; Update is a Replace with nil options.
PutWrite(p) ==
  /\ ppc[p] \in {"create", "update"}
  /\ ppc[p] = "create" => sub = None
  /\ Write(pdoc[p])
  /\ pdoc' = [pdoc EXCEPT ![p] = None]
  /\ ppc' = [ppc EXCEPT ![p] = "done"]
  /\ UNCHANGED <<cl, up, work, beat>>

\* The 409 is turned into a 412, on which the whole handler runs again.
PutRetry(p) ==
  /\ ppc[p] = "create"
  /\ sub # None
  /\ ppc' = [ppc EXCEPT ![p] = "retry"]
  /\ UNCHANGED <<sub, fresh, pdoc, cl, up, work, beat>>

\* Refused, or a call failed.
PutEnd(p) ==
  /\ ppc[p] # "done"
  /\ \/ /\ ppc[p] \in {"idle", "retry"}
        /\ sub # None
        /\ \E s \in Body(p) : ~Allowed(sub, s)
     \/ DBErrors
  /\ pdoc' = [pdoc EXCEPT ![p] = None]
  /\ ppc' = [ppc EXCEPT ![p] = "done"]
  /\ UNCHANGED <<sub, fresh, cl, up, work, beat>>

---------------------------------------------------------------------------
(***************************************************************************)
(* The clusters' own life.                                                 *)
(***************************************************************************)
SetCluster(c, s) == clusters' = [clusters EXCEPT ![c] = s]

Enqueue(c, s) ==
  enqueued' = IF s = "Deleting" THEN enqueued \cup {c} ELSE enqueued

\* PUT of a new cluster: validateSubscriptionState ...
CreateCheck(c) ==
  /\ creating[c] = "idle"
  /\ sub # None
  /\ sub.state = "Registered"
  /\ creating' = [creating EXCEPT ![c] = "store"]
  /\ UNCHANGED <<sub, fresh, puts, clusters, enqueued, up, work, beat>>

\* ... and, validation done, Create.
CreateStore(c) ==
  /\ creating[c] = "store"
  /\ sub.state = "Deleted" => LateCreates
  /\ creating' = [creating EXCEPT ![c] = "done"]
  /\ SetCluster(c, "Creating")
  /\ UNCHANGED <<sub, fresh, puts, enqueued, up, work, beat>>

\* PUT, PATCH and DELETE of a cluster in a terminal state.
ClusterRequest(c) ==
  /\ clusters[c] \in Terminal
  /\ \E s \in {"Updating", "Deleting"} :
       /\ sub.state \in IF s = "Updating" THEN {"Registered"}
                        ELSE {"Registered", "Warned", "Suspended"}
       /\ SetCluster(c, s)
       /\ Enqueue(c, s)
  /\ UNCHANGED <<sub, fresh, puts, creating, up, work, beat>>

\* The back end is done with the cluster.
ClusterEnds(c) ==
  /\ clusters[c] \in {"Creating", "Updating", "Deleting"}
  /\ \E s \in Terminal :
       SetCluster(c, IF clusters[c] = "Deleting" /\ s = "Succeeded"
                      THEN None ELSE s)
  /\ UNCHANGED <<sub, fresh, puts, creating, enqueued, up, work, beat>>

---------------------------------------------------------------------------
(***************************************************************************)
(* The dequeue loop of an RP process.                                      *)
(***************************************************************************)
\* Mutant: a document that was ever leased is not selected again.
Queued_NeverLeased ==
  sub # None /\ sub.deleting /\ sub.leaseExpires = 0 /\ sub.leaseOwner = None

Queued == sub # None /\ sub.deleting /\ sub.leaseExpires = 0

Idle(i) == {w \in Workers : InstanceOf[w] = i /\ pc[w] = "idle"}

\* dequeues only matters compared with maxDequeueCount: it saturates.
Dequeued(d, i) ==
  [d EXCEPT !.leaseOwner = i, !.leaseExpires = LeaseTicks,
            !.dequeues = IF @ > MaxDequeueCount THEN @ ELSE @ + 1]

DequeueQuery(i) ==
  /\ i \in up
  /\ pc[i] = "idle"
  /\ Idle(i) # {}
  /\ Queued
  /\ buf' = [buf EXCEPT ![i] = sub]
  /\ fresh' = fresh \cup {i}
  /\ pc' = [pc EXCEPT ![i] = "update"]
  /\ UNCHANGED <<sub, puts, cl, up, todo, cbuf, fin, beat>>

\* The If-Match held: start a worker with its heartbeat ...
DequeueStart(i) ==
  /\ pc[i] = "update"
  /\ i \in fresh
  /\ Dequeued(buf[i], i).dequeues <= MaxDequeueCount
  /\ Write(Dequeued(buf[i], i))
  /\ buf' = [buf EXCEPT ![i] = None]
  /\ \E w \in Idle(i) : /\ pc' = [pc EXCEPT ![i] = "idle", ![w] = "list"]
                        /\ hb' = [hb EXCEPT ![w] = "read"]
  /\ UNCHANGED <<puts, cl, up, todo, cbuf, fin, hbuf, cancelled>>

\* ... or, dequeued too often, end the lease from the loop itself.
DequeueGiveUp(i) ==
  /\ pc[i] = "update"
  /\ i \in fresh
  /\ Dequeued(buf[i], i).dequeues > MaxDequeueCount
  /\ Write(Dequeued(buf[i], i))
  /\ buf' = [buf EXCEPT ![i] = None]
  /\ pc' = [pc EXCEPT ![i] = "end"]
  /\ fin' = [fin EXCEPT ![i] = "retryLater"]
  /\ UNCHANGED <<puts, cl, up, todo, cbuf, beat>>

\* 412, someone else got there first; or an error, with which the write may
\* have taken place all the same.
DequeueFail(i) ==
  /\ pc[i] = "update"
  /\ \/ /\ i \notin fresh \/ DBErrors
        /\ fresh' = fresh \ {i}
        /\ sub' = sub
     \/ /\ i \in fresh
        /\ DBErrors
        /\ Write(Dequeued(buf[i], i))
  /\ buf' = [buf EXCEPT ![i] = None]
  /\ pc' = [pc EXCEPT ![i] = "idle"]
  /\ UNCHANGED <<puts, cl, up, todo, cbuf, fin, beat>>

---------------------------------------------------------------------------
(***************************************************************************)
(* A worker: handleDelete.                                                 *)
(***************************************************************************)
Goto(e, l) == pc' = [pc EXCEPT ![e] = l]

ListByPrefix(w) ==
  /\ pc[w] = "list"
  /\ ~cancelled[w]
  /\ todo' = [todo EXCEPT ![w] = {c \in Clusters : clusters[c] # None}]
  /\ fin' = [fin EXCEPT ![w] = "done"]
  /\ Goto(w, "sweep")
  /\ UNCHANGED <<sub, fresh, puts, cl, up, buf, cbuf, beat>>

\* Mutant: clusters that are being created or updated are passed over.
Verdict_PassOver(s, f) == f

\* done becomes false on a cluster that cannot be deleted yet.
Verdict(s, f) == IF s \in {"Creating", "Updating"} THEN "retryLater" ELSE f

\* Patch: Get, and f ...
SweepRead(w) ==
  /\ pc[w] = "sweep"
  /\ ~cancelled[w]
  /\ \E c \in todo[w] :
       /\ clusters[c] # None
       /\ cbuf' = [cbuf EXCEPT ![w] = [c |-> c, state |-> clusters[c]]]
       /\ fin' = [fin EXCEPT ![w] = Verdict(clusters[c], @)]
  /\ Goto(w, "patch")
  /\ UNCHANGED <<sub, fresh, puts, cl, up, buf, todo, beat>>

\* ... and, whatever f did, a Replace with nil options.
Replace(w) ==
  LET s == IF cbuf[w].state \in Terminal THEN "Deleting" ELSE cbuf[w].state
  IN  /\ clusters[cbuf[w].c] # None
      /\ SetCluster(cbuf[w].c, s)
      /\ Enqueue(cbuf[w].c, s)

SweepWrite(w) ==
  /\ pc[w] = "patch"
  /\ ~cancelled[w]
  /\ Replace(w)
  /\ todo' = [todo EXCEPT ![w] = @ \ {cbuf[w].c}]
  /\ cbuf' = [cbuf EXCEPT ![w] = None]
  /\ Goto(w, "sweep")
  /\ UNCHANGED <<sub, fresh, puts, creating, up, buf, fin, beat>>

SweepDone(w) ==
  /\ pc[w] = "sweep"
  /\ todo[w] = {}
  /\ Goto(w, "stop")
  /\ UNCHANGED <<sub, fresh, puts, cl, up, buf, todo, cbuf, fin, beat>>

\* A cluster that was listed, or read, has been removed meanwhile.
Gone(w) ==
  \/ pc[w] = "sweep" /\ \E c \in todo[w] : clusters[c] = None
  \/ pc[w] = "patch" /\ clusters[cbuf[w].c] = None

\* The context is cancelled, the cluster is gone, or the store failed; the
\* write may have taken place all the same.
SweepFail(w) ==
  /\ pc[w] \in {"list", "sweep", "patch"}
  /\ \/ /\ cancelled[w] \/ DBErrors \/ Gone(w)
        /\ UNCHANGED <<clusters, enqueued>>
     \/ pc[w] = "patch" /\ DBErrors /\ ~cancelled[w] /\ Replace(w)
  /\ cbuf' = [cbuf EXCEPT ![w] = None]
  /\ todo' = [todo EXCEPT ![w] = {}]
  /\ fin' = [fin EXCEPT ![w] = "error"]
  /\ Goto(w, "stop")
  /\ UNCHANGED <<sub, fresh, puts, creating, up, buf, beat>>

\* A panic is recovered; the lease is left to expire.
SweepPanic(w) ==
  /\ pc[w] \in {"list", "sweep", "patch"}
  /\ cbuf' = [cbuf EXCEPT ![w] = None]
  /\ todo' = [todo EXCEPT ![w] = {}]
  /\ Goto(w, "exit")
  /\ UNCHANGED <<sub, fresh, puts, cl, up, buf, fin, beat>>

---------------------------------------------------------------------------
(***************************************************************************)
(* endLease, by a worker or, without a heartbeat, by the dequeue loop.     *)
(***************************************************************************)
Leased(e) == sub # None /\ sub.leaseOwner = UUID(e)

HeartbeatStopped(e) == hb[e] \in {"off", "wait"}

Stop(e) ==
  /\ pc[e] = "stop"
  /\ HeartbeatStopped(e)
  /\ hb' = [hb EXCEPT ![e] = "off"]
  /\ Goto(e, "end")
  /\ UNCHANGED <<sub, fresh, puts, cl, up, buf, todo, cbuf, fin, hbuf, cancelled>>

EndRead(e) ==
  /\ pc[e] = "end"
  /\ ~cancelled[e]
  /\ Leased(e)
  /\ buf' = [buf EXCEPT ![e] = sub]
  /\ Goto(e, "endWrite")
  /\ UNCHANGED <<sub, fresh, puts, cl, up, todo, cbuf, fin, beat>>

\* The lease is zero even with retryLater: its trigger is not passed on.
Ended(d, f) ==
  [d EXCEPT !.deleting = @ /\ f # "done",
            !.leaseOwner = None,
            !.leaseExpires = 0,
            !.dequeues = IF f = "error" THEN @ ELSE 0]

\* handle() returned: the slot is free again.
Finish(e) ==
  /\ Goto(e, "idle")
  /\ buf' = [buf EXCEPT ![e] = None]
  /\ fin' = [fin EXCEPT ![e] = "done"]
  /\ hb' = [hb EXCEPT ![e] = "off"]
  /\ hbuf' = [hbuf EXCEPT ![e] = None]
  /\ cancelled' = [cancelled EXCEPT ![e] = FALSE]

EndWrite(e) ==
  /\ pc[e] = "endWrite"
  /\ ~cancelled[e]
  /\ Write(Ended(buf[e], fin[e]))
  /\ Finish(e)
  /\ UNCHANGED <<puts, cl, up, todo, cbuf>>

\* Lease lost, context cancelled or the store failing.
EndFail(e) ==
  /\ pc[e] \in {"end", "endWrite"}
  /\ cancelled[e] \/ DBErrors \/ (pc[e] = "end" /\ ~Leased(e))
  /\ Finish(e)
  /\ UNCHANGED <<sub, fresh, puts, cl, up, todo, cbuf>>

Exit(e) ==
  /\ pc[e] = "exit"
  /\ HeartbeatStopped(e)
  /\ Finish(e)
  /\ UNCHANGED <<sub, fresh, puts, cl, up, todo, cbuf>>

---------------------------------------------------------------------------
(***************************************************************************)
(* The heartbeat of a worker.  Lease() writes back the copy it read: there *)
(* is no If-Match, and no trigger to renew the lease.                      *)
(***************************************************************************)
LeaseRead(w) ==
  /\ hb[w] = "read"
  /\ ~cancelled[w]
  /\ Leased(w)
  /\ hbuf' = [hbuf EXCEPT ![w] = sub]
  /\ hb' = [hb EXCEPT ![w] = "write"]
  /\ UNCHANGED <<sub, fresh, puts, cl, up, work, cancelled>>

LeaseWrite(w) ==
  /\ hb[w] = "write"
  /\ ~cancelled[w]
  /\ Write(hbuf[w])
  /\ hbuf' = [hbuf EXCEPT ![w] = None]
  /\ hb' = [hb EXCEPT ![w] = "wait"]
  /\ UNCHANGED <<puts, cl, up, work, cancelled>>

\* Lease lost, context cancelled or the store failing: the heartbeat cancels
\* the worker's context and returns.
LeaseFail(w) ==
  /\ hb[w] \in {"read", "write"}
  /\ \/ /\ cancelled[w] \/ DBErrors \/ (hb[w] = "read" /\ ~Leased(w))
        /\ UNCHANGED <<sub, fresh>>
     \/ hb[w] = "write" /\ DBErrors /\ ~cancelled[w] /\ Write(hbuf[w])
  /\ hbuf' = [hbuf EXCEPT ![w] = None]
  /\ hb' = [hb EXCEPT ![w] = "off"]
  /\ cancelled' = [cancelled EXCEPT ![w] = TRUE]
  /\ UNCHANGED <<puts, cl, up, work>>

---------------------------------------------------------------------------
(***************************************************************************)
(* Time, and RP processes that die.                                        *)
(***************************************************************************)
Aged(d) == IF d = None \/ d.leaseExpires = 0 THEN d
           ELSE [d EXCEPT !.leaseExpires = @ - 1]

\* One period of the heartbeats' tickers passes.
Clock ==
  /\ TimelyHeartbeats => \A w \in Workers : hb[w] \notin {"read", "write"}
  /\ sub' = Aged(sub)
  /\ pdoc' = [p \in Puts |-> Aged(pdoc[p])]
  /\ buf' = [e \in Executors |-> Aged(buf[e])]
  /\ hbuf' = [e \in Executors |-> Aged(hbuf[e])]
  /\ hb' = [e \in Executors |-> IF hb[e] = "wait" THEN "read" ELSE hb[e]]
  /\ UNCHANGED <<fresh, ppc, cl, up, pc, todo, cbuf, fin, cancelled>>

Crash(i) ==
  /\ i \in up
  /\ up # {i}
  /\ up' = up \ {i}
  /\ LET gone == {e \in Executors : UUID(e) = i}
         Cleared(f, v) == [e \in Executors |-> IF e \in gone THEN v ELSE f[e]]
     IN  /\ pc' = Cleared(pc, "idle")
         /\ buf' = Cleared(buf, None)
         /\ todo' = Cleared(todo, {})
         /\ cbuf' = Cleared(cbuf, None)
         /\ fin' = Cleared(fin, "done")
         /\ hb' = Cleared(hb, "off")
         /\ hbuf' = Cleared(hbuf, None)
         /\ cancelled' = Cleared(cancelled, FALSE)
         /\ fresh' = fresh \ gone
  /\ UNCHANGED <<sub, puts, cl>>

---------------------------------------------------------------------------
PutSubscription(p) == PutRead(p) \/ PutWrite(p) \/ PutRetry(p) \/ PutEnd(p)

Cluster(c) == \/ CreateCheck(c) \/ CreateStore(c)
              \/ ClusterRequest(c) \/ ClusterEnds(c)

Dequeue(i) == \/ DequeueQuery(i) \/ DequeueStart(i)
              \/ DequeueGiveUp(i) \/ DequeueFail(i)

Sweep(w) == \/ ListByPrefix(w) \/ SweepRead(w) \/ SweepWrite(w)
            \/ SweepDone(w) \/ SweepFail(w) \/ SweepPanic(w)

EndLease(e) == \/ Stop(e) \/ EndRead(e) \/ EndWrite(e) \/ EndFail(e)
               \/ Exit(e)

Heartbeat(w) == LeaseRead(w) \/ LeaseWrite(w) \/ LeaseFail(w)

Next ==
  \/ \E p \in Puts : PutSubscription(p)
  \/ \E c \in Clusters : Cluster(c)
  \/ \E i \in Instances : Dequeue(i) \/ Crash(i)
  \/ \E w \in Workers : Sweep(w) \/ Heartbeat(w)
  \/ \E e \in Executors : EndLease(e)
  \/ Clock

Spec == Init /\ [][Next]_vars

\* Sweeps that hold a copy of the cluster.
Holders(c) == {w \in Workers : cbuf[w] # None /\ cbuf[w].c = c}

\* The dequeue loop polls, goroutines are scheduled, time passes, and the
\* back end gets done with a cluster at a moment when no sweep holds a copy
\* of it: the sweep would write the old state back.
Fairness ==
  /\ WF_vars(Clock)
  /\ \A i \in Instances : WF_vars(Dequeue(i) \/ EndLease(i))
  /\ \A w \in Workers : /\ WF_vars(Sweep(w) \/ EndLease(w))
                         /\ SF_vars(Stop(w) \/ Exit(w))
                         /\ WF_vars(Heartbeat(w))
  /\ \A c \in Clusters :
       SF_vars(ClusterEnds(c) /\ Holders(c) = {})

\* A call fails: none of the other causes of these steps is there.
CallFails ==
  \/ \E i \in Instances : DequeueFail(i) /\ i \in fresh
  \/ \E w \in Workers : /\ ~cancelled[w]
                        /\ \/ SweepFail(w) /\ ~Gone(w)
                           \/ LeaseFail(w) /\ Leased(w)
  \/ \E e \in Executors : EndFail(e) /\ Leased(e) /\ ~cancelled[e]

\* From some time on no call fails, and a sweep does not panic and takes less
\* than its lease, which the heartbeat does not prolong.
Calm ==
  <>[][/\ ~CallFails
       /\ \A w \in Workers : ~SweepPanic(w)
       /\ Clock => \A e \in Executors : pc[e] = "idle"]_vars

FairSpec == Spec /\ Fairness /\ Calm

---------------------------------------------------------------------------
\* ARM's last word: once Deleted is stored no later write, of a PUT or of a
\* lease, brings the subscription back, if ARM sends one PUT at a time.
DeletedIsFinal ==
  [][sub # None /\ sub.state = "Deleted" => sub'.state = "Deleted"]_vars

\* "handleDelete ensures that all the clusters in a subscription which is
\* being deleted are at least enqueued for deletion": when a sweep is stored
\* as done, the deletion of every cluster has been stored.
DoneMeansSwept ==
  [][\A w \in Workers : EndWrite(w) /\ fin[w] = "done" =>
       \A c \in Clusters : clusters[c] # None => c \in enqueued]_vars

\* The sweep of a deleted subscription ends.
SweepCompletes ==
  (sub # None /\ sub.deleting) ~> (sub # None /\ ~sub.deleting)

\* "The backend updates the document with a heartbeat - if this fails, the
\* document will be picked up by a different worker" (README.md): while the
\* heartbeat of a worker has not failed, no other worker is started.
PickedUpOnlyIfHeartbeatFails ==
  [][\A i \in Instances : DequeueStart(i) =>
       \A w \in Workers : hb[w] = "off"]_vars
===========================================================================
