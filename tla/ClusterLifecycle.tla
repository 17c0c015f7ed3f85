------------------------- MODULE ClusterLifecycle -------------------------
(***************************************************************************)
(* The life of one cluster document: the front end's PUT/PATCH and DELETE  *)
(* handlers, the document store with its ETags and leases, the back end's  *)
(* dequeue loops, workers and heartbeats, and the asynchronous operation   *)
(* documents through which a client learns the outcome.                    *)
(*                                                                         *)
(* One key is modelled: documents of different keys share nothing but the  *)
(* pool of workers.  Every call to the store is a step of its own, so a    *)
(* read-modify-write is two steps with anything in between.                *)
(*                                                                         *)
(* ETags.  The store gives every write of the document a new ETag; a       *)
(* Replace with options sends the ETag of the copy it was made from as     *)
(* If-Match, a Replace with nil options sends none.  Instead of numbering  *)
(* the versions, "fresh" is the set of the conditional writers (dequeue    *)
(* loops and heartbeats) whose copy is of the version now stored: a read   *)
(* adds the reader and every write empties the set.                        *)
(*                                                                         *)
(* Leases.  leaseExpires is "zero", "live" or "expired"; the passing of    *)
(* time is the action Expire.                                              *)
(***************************************************************************)
EXTENDS Naturals, FiniteSets

CONSTANTS
  Requests,          \* mutating client requests; each runs at most once
  Instances,         \* uuids of RP processes, one dequeue loop each
  Workers,           \* worker goroutine slots of all the RP processes
  InstanceOf,        \* the RP process a worker slot belongs to
  MaxDequeueCount,   \* maxDequeueCount, pkg/backend/backend.go
  None,              \* the zero value of an id, an owner, a copy, ...
  DBErrors,          \* TRUE: a call to the store may fail
  SerialRequests,    \* TRUE: clients send one mutating request at a time
  TimelyHeartbeats   \* TRUE: a lease outlives the worker that renews it

VARIABLES
  doc,        \* the stored OpenShiftClusterDocument, or None
  fresh,      \* conditional writers whose copy has the stored ETag
  aop,        \* the AsyncOperationDocument each request created, or None
  rpc, rdoc,  \* a request's control point and its copy of the document
  up,         \* RP processes that are running
  pc,         \* control point of each dequeue loop and each worker
  wdoc,       \* the document handle() was called with
  buf,        \* copy of the document read by a patch, not yet written
  abuf,       \* copy of the asynchronous operation document, likewise
  outcome,    \* provisioningState the worker is about to report
  hb, hbuf,   \* a worker's heartbeat: control point and copy
  cancelled,  \* the worker's context has been cancelled
  asked       \* history: ids of documents a DELETE was stored for

store    == <<doc, fresh>>
frontend == <<rpc, rdoc, asked>>
work     == <<pc, wdoc, buf, abuf, outcome>>
beat     == <<hb, hbuf, cancelled>>
vars     == <<doc, fresh, aop, rpc, rdoc, up, pc, wdoc, buf, abuf, outcome,
              hb, hbuf, cancelled, asked>>

Executors == Workers \cup Instances
UUID(e)   == IF e \in Instances THEN e ELSE InstanceOf[e]

\* api.ProvisioningState.
Terminal    == {"Succeeded", "Failed"}
NonTerminal == {"Creating", "Updating", "Deleting"}

Docs == [id : Requests,
         provisioningState : Terminal \cup NonTerminal,
         failedProvisioningState : NonTerminal \cup {None},
         leaseOwner : Instances \cup {None},
         leaseExpires : {"zero", "live", "expired"},
         dequeues : 0 .. MaxDequeueCount + 1,
         asyncOperationID : Requests \cup {None}]

\* openShiftCluster: the provisioningState of the copy of the cluster which
\* the asynchronous operation carries, None while it carries none.
AsyncDocs == [provisioningState : Terminal \cup NonTerminal,
              error : BOOLEAN,
              openShiftCluster : Terminal \cup {None}]

ASSUME ConstantsAssumption ==
  /\ InstanceOf \in [Workers -> Instances]
  /\ Workers \cap Instances = {}
  /\ MaxDequeueCount \in Nat
  /\ None \notin Requests \cup Instances \cup NonTerminal
  /\ None \notin Docs \cup AsyncDocs
  /\ {DBErrors, SerialRequests, TimelyHeartbeats} \subseteq BOOLEAN

TypeOK ==
  /\ doc \in Docs \cup {None}
  /\ fresh \subseteq Executors
  /\ aop \in [Requests -> AsyncDocs \cup {None}]
  /\ rpc \in [Requests ->
              {"idle", "retry", "async", "write", "accepted", "done"}]
  /\ rdoc \in [Requests -> Docs \cup {None}]
  /\ up \subseteq Instances
  /\ pc \in [Executors -> {"idle", "update", "work", "patch", "async",
                           "asyncWrite", "stop", "end", "endWrite",
                           "delete", "exit"}]
  /\ wdoc \in [Executors -> Docs \cup {None}]
  /\ buf \in [Executors -> Docs \cup {None}]
  /\ abuf \in [Executors -> AsyncDocs \cup {None}]
  /\ outcome \in [Executors -> Terminal \cup {None}]
  /\ hb \in [Executors -> {"off", "read", "write", "wait"}]
  /\ hbuf \in [Executors -> Docs \cup {None}]
  /\ cancelled \in [Executors -> BOOLEAN]
  /\ asked \subseteq Requests

Init ==
  /\ doc = None
  /\ fresh = {}
  /\ aop = [r \in Requests |-> None]
  /\ rpc = [r \in Requests |-> "idle"]
  /\ rdoc = [r \in Requests |-> None]
  /\ up = Instances
  /\ pc = [e \in Executors |-> "idle"]
  /\ wdoc = [e \in Executors |-> None]
  /\ buf = [e \in Executors |-> None]
  /\ abuf = [e \in Executors |-> None]
  /\ outcome = [e \in Executors |-> None]
  /\ hb = [e \in Executors |-> "off"]
  /\ hbuf = [e \in Executors |-> None]
  /\ cancelled = [e \in Executors |-> FALSE]
  /\ asked = {}

---------------------------------------------------------------------------
(***************************************************************************)
(* The store.  Replace and Delete address a document by its id, which is   *)
(* new for every document, Get and the queries by its key.                 *)
(***************************************************************************)
Exists(d) == doc # None /\ doc.id = d.id

Write(d) == doc' = d /\ fresh' = {}

\* patchWithLease: the caller's RP process still owns the lease.
Leased(e) == doc # None /\ doc.leaseOwner = UUID(e)

\* Mutant: the query does not select documents whose lease has expired.
Queued_NeverLeased == /\ doc # None
                      /\ doc.provisioningState \in NonTerminal
                      /\ doc.leaseExpires = "zero"

\* What Dequeue's query selects.
Queued == /\ doc # None
          /\ doc.provisioningState \in NonTerminal
          /\ doc.leaseExpires # "live"

---------------------------------------------------------------------------
(***************************************************************************)
(* The front end.                                                          *)
(***************************************************************************)
MayStart(r) ==
  /\ rpc[r] = "idle"
  /\ SerialRequests =>
       \A q \in Requests : rpc[q] \notin {"retry", "async", "write"}

NewDocument(r) ==
  [id |-> r, provisioningState |-> "Creating",
   failedProvisioningState |-> None, leaseOwner |-> None,
   leaseExpires |-> "zero", dequeues |-> 0, asyncOperationID |-> None]

ToUpdate(d) ==
  [d EXCEPT !.provisioningState = "Updating",
            !.failedProvisioningState =
               IF d.provisioningState = "Failed" THEN None ELSE @,
            !.dequeues = 0]

ToDelete(d) == [d EXCEPT !.provisioningState = "Deleting", !.dequeues = 0]

\* PUT or PATCH, up to the call of newAsyncOperation.
PutGet(r) ==
  /\ MayStart(r) \/ rpc[r] = "retry"
  /\ \/ /\ doc = None
        /\ rdoc' = [rdoc EXCEPT ![r] = NewDocument(r)]
     \/ /\ doc # None
        /\ doc.provisioningState \in Terminal
        /\ doc.provisioningState = "Failed" =>
             doc.failedProvisioningState = "Updating"
        /\ rdoc' = [rdoc EXCEPT ![r] = ToUpdate(doc)]
  /\ rpc' = [rpc EXCEPT ![r] = "async"]
  /\ UNCHANGED <<store, aop, up, work, beat, asked>>

\* DELETE, up to the call of newAsyncOperation.
DeleteGet(r) ==
  /\ MayStart(r)
  /\ doc # None
  /\ doc.provisioningState \in Terminal
  /\ rdoc' = [rdoc EXCEPT ![r] = ToDelete(doc)]
  /\ rpc' = [rpc EXCEPT ![r] = "async"]
  /\ UNCHANGED <<store, aop, up, work, beat, asked>>

PointAt(d, r) == [d EXCEPT !.asyncOperationID = r]

\* Mutant: the document does not point at the operation.
NewAsyncOperation_NotLinked(r) ==
  /\ rpc[r] = "async"
  /\ aop' = [aop EXCEPT ![r] =
       [provisioningState |-> rdoc[r].provisioningState,
        error |-> FALSE, openShiftCluster |-> None]]
  /\ rpc' = [rpc EXCEPT ![r] = "write"]
  /\ UNCHANGED <<store, rdoc, up, work, beat, asked>>

NewAsyncOperation(r) ==
  /\ rpc[r] = "async"
  /\ aop' = [aop EXCEPT ![r] =
       [provisioningState |-> rdoc[r].provisioningState,
        error |-> FALSE, openShiftCluster |-> None]]
  /\ rdoc' = [rdoc EXCEPT ![r] = PointAt(@, r)]
  /\ rpc' = [rpc EXCEPT ![r] = "write"]
  /\ UNCHANGED <<store, up, work, beat, asked>>

\* The reply of a write that took place; it may be lost.
Replied == {"accepted"} \cup IF DBErrors THEN {"done"} ELSE {}

\* Create: the unique key policy refuses a second document with the key.
PutCreate(r) ==
  /\ rpc[r] = "write"
  /\ rdoc[r].provisioningState = "Creating"
  /\ doc = None
  /\ Write(rdoc[r])
  /\ rdoc' = [rdoc EXCEPT ![r] = None]
  /\ \E s \in Replied : rpc' = [rpc EXCEPT ![r] = s]
  /\ UNCHANGED <<aop, up, work, beat, asked>>

\* The 409 is turned into a 412, on which the whole handler runs again.  The
\* operation just created is left behind, no document points at it.
PutRetry(r) ==
  /\ rpc[r] = "write"
  /\ rdoc[r].provisioningState = "Creating"
  /\ doc # None
  /\ rdoc' = [rdoc EXCEPT ![r] = None]
  /\ rpc' = [rpc EXCEPT ![r] = "retry"]
  /\ UNCHANGED <<store, aop, up, work, beat, asked>>

\* Update and Patch: Replace with nil options, whatever is stored by now.
RequestUpdate(r) ==
  /\ rpc[r] = "write"
  /\ rdoc[r].provisioningState # "Creating"
  /\ Exists(rdoc[r])
  /\ Write(rdoc[r])
  /\ rdoc' = [rdoc EXCEPT ![r] = None]
  /\ asked' = IF rdoc[r].provisioningState = "Deleting"
               THEN asked \cup {rdoc[r].id} ELSE asked
  /\ \E s \in Replied : rpc' = [rpc EXCEPT ![r] = s]
  /\ UNCHANGED <<aop, up, work, beat>>

\* A request that ends without writing the document: refused by the
\* subscription's or the document's state or by validation, nothing to
\* delete, too many 412s, 404 from the store, a failed call, a client that
\* hung up.
RequestEnd(r) ==
  /\ rpc[r] \in {"idle", "retry", "async", "write"}
  /\ rpc[r] = "idle" => MayStart(r)
  /\ rpc' = [rpc EXCEPT ![r] = "done"]
  /\ rdoc' = [rdoc EXCEPT ![r] = None]
  /\ UNCHANGED <<store, aop, up, work, beat, asked>>

---------------------------------------------------------------------------
(***************************************************************************)
(* The dequeue loop of an RP process.                                      *)
(***************************************************************************)
Idle(i) == {w \in Workers : InstanceOf[w] = i /\ pc[w] = "idle"}

\* Dequeues only matters compared with maxDequeueCount: it saturates.
Increment(n) == IF n > MaxDequeueCount THEN n ELSE n + 1

\* What Dequeue writes, from the copy the query returned.
Dequeued(d, i) ==
  [d EXCEPT !.leaseOwner = i, !.dequeues = Increment(@),
            !.leaseExpires = "live"]

DequeueQuery(i) ==
  /\ i \in up
  /\ pc[i] = "idle"
  /\ Idle(i) # {}
  /\ Queued
  /\ buf' = [buf EXCEPT ![i] = doc]
  /\ fresh' = fresh \cup {i}
  /\ pc' = [pc EXCEPT ![i] = "update"]
  /\ UNCHANGED <<doc, aop, frontend, up, wdoc, abuf, outcome, beat>>

\* The If-Match held (in the mutant there is none): start a worker with its
\* heartbeat ...
DequeueStart_NoIfMatch(i) ==
  /\ pc[i] = "update"
  /\ Exists(buf[i])
  /\ Dequeued(buf[i], i).dequeues <= MaxDequeueCount
  /\ Write(Dequeued(buf[i], i))
  /\ buf' = [buf EXCEPT ![i] = None]
  /\ \E w \in Idle(i) :
       /\ pc' = [pc EXCEPT ![i] = "idle", ![w] = "work"]
       /\ wdoc' = [wdoc EXCEPT ![w] = Dequeued(buf[i], i)]
       /\ hb' = [hb EXCEPT ![w] = "read"]
  /\ UNCHANGED <<aop, frontend, up, abuf, outcome, hbuf, cancelled>>

DequeueStart(i) ==
  /\ pc[i] = "update"
  /\ i \in fresh
  /\ Dequeued(buf[i], i).dequeues <= MaxDequeueCount
  /\ Write(Dequeued(buf[i], i))
  /\ buf' = [buf EXCEPT ![i] = None]
  /\ \E w \in Idle(i) :
       /\ pc' = [pc EXCEPT ![i] = "idle", ![w] = "work"]
       /\ wdoc' = [wdoc EXCEPT ![w] = Dequeued(buf[i], i)]
       /\ hb' = [hb EXCEPT ![w] = "read"]
  /\ UNCHANGED <<aop, frontend, up, abuf, outcome, hbuf, cancelled>>

\* ... or, dequeued too often, end the lease from the loop itself.
DequeueGiveUp(i) ==
  /\ pc[i] = "update"
  /\ i \in fresh
  /\ Dequeued(buf[i], i).dequeues > MaxDequeueCount
  /\ Write(Dequeued(buf[i], i))
  /\ buf' = [buf EXCEPT ![i] = None]
  /\ pc' = [pc EXCEPT ![i] = "async"]
  /\ wdoc' = [wdoc EXCEPT ![i] = Dequeued(buf[i], i)]
  /\ outcome' = [outcome EXCEPT ![i] = "Failed"]
  /\ UNCHANGED <<aop, frontend, up, abuf, beat>>

\* 412, someone else got there first; 404; or an error, with which the
\* write may have taken place all the same.
DequeueFail(i) ==
  /\ pc[i] = "update"
  /\ \/ /\ i \notin fresh \/ DBErrors
        /\ fresh' = fresh \ {i}
        /\ doc' = doc
     \/ /\ i \in fresh
        /\ DBErrors
        /\ Write(Dequeued(buf[i], i))
  /\ buf' = [buf EXCEPT ![i] = None]
  /\ pc' = [pc EXCEPT ![i] = "idle"]
  /\ UNCHANGED <<aop, frontend, up, wdoc, abuf, outcome, beat>>

---------------------------------------------------------------------------
(***************************************************************************)
(* A worker: handle(), then endLease() or the removal of the document.     *)
(* The dequeue loop runs endLease() too, without a heartbeat.              *)
(***************************************************************************)
Goto(e, l) == pc' = [pc EXCEPT ![e] = l]

\* handle() returned: the slot is free again.
Finish(e) ==
  /\ Goto(e, "idle")
  /\ wdoc' = [wdoc EXCEPT ![e] = None]
  /\ buf' = [buf EXCEPT ![e] = None]
  /\ abuf' = [abuf EXCEPT ![e] = None]
  /\ outcome' = [outcome EXCEPT ![e] = None]
  /\ hb' = [hb EXCEPT ![e] = "off"]
  /\ hbuf' = [hbuf EXCEPT ![e] = None]
  /\ cancelled' = [cancelled EXCEPT ![e] = FALSE]

\* A successful deletion removes the document instead of ending the lease.
Removing(e) == /\ wdoc[e].provisioningState = "Deleting"
               /\ outcome[e] = "Succeeded"

\* NewManager, Create, Update or Delete returned, with or without an error.
WorkDone(w) ==
  /\ pc[w] = "work"
  /\ \E s \in Terminal : outcome' = [outcome EXCEPT ![w] = s]
  /\ Goto(w, "async")
  /\ UNCHANGED <<store, aop, frontend, up, wdoc, buf, abuf, beat>>

\* A panic in handle() is recovered; the lease is left to expire.
WorkPanic(w) ==
  /\ pc[w] = "work"
  /\ Goto(w, "exit")
  /\ UNCHANGED <<store, aop, frontend, up, wdoc, buf, abuf, outcome, beat>>

\* PatchWithLease, by which Create records its progress.
PatchRead(w) ==
  /\ pc[w] = "work"
  /\ wdoc[w].provisioningState = "Creating"
  /\ ~cancelled[w]
  /\ Leased(w)
  /\ buf' = [buf EXCEPT ![w] = doc]
  /\ Goto(w, "patch")
  /\ UNCHANGED <<store, aop, frontend, up, wdoc, abuf, outcome, beat>>

PatchWrite(w) ==
  /\ pc[w] = "patch"
  /\ ~cancelled[w]
  /\ Exists(buf[w])
  /\ Write(buf[w])
  /\ buf' = [buf EXCEPT ![w] = None]
  /\ Goto(w, "work")
  /\ UNCHANGED <<aop, frontend, up, wdoc, abuf, outcome, beat>>

\* The error makes Create return; the write may have taken place.
PatchFail(w) ==
  /\ pc[w] = "patch"
  /\ \/ /\ cancelled[w] \/ DBErrors \/ ~Exists(buf[w])
        /\ UNCHANGED store
     \/ /\ DBErrors /\ ~cancelled[w] /\ Exists(buf[w])
        /\ Write(buf[w])
  /\ buf' = [buf EXCEPT ![w] = None]
  /\ outcome' = [outcome EXCEPT ![w] = "Failed"]
  /\ Goto(w, "async")
  /\ UNCHANGED <<aop, frontend, up, wdoc, abuf, beat>>

\* updateAsyncOperation: nothing to do, or a Get ...
AsyncRead(e) ==
  /\ pc[e] = "async"
  /\ \/ /\ wdoc[e].asyncOperationID = None
        /\ abuf' = abuf
        /\ Goto(e, "stop")
     \/ /\ wdoc[e].asyncOperationID # None
        /\ ~cancelled[e]
        /\ abuf' = [abuf EXCEPT ![e] = aop[wdoc[e].asyncOperationID]]
        /\ Goto(e, "asyncWrite")
  /\ UNCHANGED <<store, aop, frontend, up, wdoc, buf, outcome, beat>>

\* ... and a Replace with nil options.
\* Mutant: the copy of the cluster keeps its old provisioningState.
UpdateAsyncOperation_StaleCopy(e) ==
  aop' = [aop EXCEPT ![wdoc[e].asyncOperationID] =
    [provisioningState |-> outcome[e],
     error |-> outcome[e] = "Failed" \/ abuf[e].error,
     openShiftCluster |-> IF Removing(e) THEN abuf[e].openShiftCluster
                                         ELSE wdoc[e].provisioningState]]

UpdateAsyncOperation(e) ==
  aop' = [aop EXCEPT ![wdoc[e].asyncOperationID] =
    [provisioningState |-> outcome[e],
     error |-> outcome[e] = "Failed" \/ abuf[e].error,
     openShiftCluster |-> IF Removing(e) THEN abuf[e].openShiftCluster
                                         ELSE outcome[e]]]

AsyncWrite(e) ==
  /\ pc[e] = "asyncWrite"
  /\ ~cancelled[e]
  /\ UpdateAsyncOperation(e)
  /\ abuf' = [abuf EXCEPT ![e] = None]
  /\ Goto(e, "stop")
  /\ UNCHANGED <<store, frontend, up, wdoc, buf, outcome, beat>>

\* Mutant: endLease() carries on after the error.
AsyncFail_Ignored(e) ==
  /\ pc[e] = "asyncWrite"
  /\ DBErrors
  /\ abuf' = [abuf EXCEPT ![e] = None]
  /\ Goto(e, "stop")
  /\ UNCHANGED <<store, aop, frontend, up, wdoc, buf, outcome, beat>>

\* An error ends the worker, except that one met on the way to removing the
\* document makes handle() end the lease with Failed instead.
AsyncFail(e) ==
  /\ \/ pc[e] = "async" /\ wdoc[e].asyncOperationID # None
     \/ pc[e] = "asyncWrite"
  /\ cancelled[e] \/ DBErrors
  /\ \/ aop' = aop
     \/ pc[e] = "asyncWrite" /\ ~cancelled[e] /\ UpdateAsyncOperation(e)
  /\ abuf' = [abuf EXCEPT ![e] = None]
  /\ \/ /\ Removing(e)
        /\ outcome' = [outcome EXCEPT ![e] = "Failed"]
        /\ Goto(e, "async")
     \/ /\ ~Removing(e)
        /\ outcome' = outcome
        /\ Goto(e, "exit")
  /\ UNCHANGED <<store, frontend, up, wdoc, buf, beat>>

\* stop() returns once the heartbeat goroutine has.
HeartbeatStopped(e) == hb[e] \in {"off", "wait"}

Stop(e) ==
  /\ pc[e] = "stop"
  /\ HeartbeatStopped(e)
  /\ hb' = [hb EXCEPT ![e] = "off"]
  /\ Goto(e, IF Removing(e) THEN "delete" ELSE "end")
  /\ UNCHANGED <<store, aop, frontend, up, wdoc, buf, abuf, outcome,
                 hbuf, cancelled>>

EndLeaseRead(e) ==
  /\ pc[e] = "end"
  /\ ~cancelled[e]
  /\ Leased(e)
  /\ buf' = [buf EXCEPT ![e] = doc]
  /\ Goto(e, "endWrite")
  /\ UNCHANGED <<store, aop, frontend, up, wdoc, abuf, outcome, beat>>

\* What EndLease makes of the document it read, when an operation started
\* in state op ends in state s (in the mutant, without the
\* failedProvisioningState).
Ended_NoFailedState(d, op, s) ==
  [d EXCEPT !.provisioningState = s, !.leaseOwner = None,
            !.leaseExpires = "zero", !.asyncOperationID = None,
            !.dequeues = IF s = "Succeeded" THEN 0 ELSE @]

Ended(d, op, s) ==
  [d EXCEPT !.provisioningState = s,
            !.failedProvisioningState = IF s = "Failed" THEN op ELSE None,
            !.leaseOwner = None,
            !.leaseExpires = "zero",
            !.dequeues = IF s = "Succeeded" THEN 0 ELSE @,
            !.asyncOperationID = None]

EndLeaseWrite(e) ==
  /\ pc[e] = "endWrite"
  /\ ~cancelled[e]
  /\ Exists(buf[e])
  /\ Write(Ended(buf[e], wdoc[e].provisioningState, outcome[e]))
  /\ Finish(e)
  /\ UNCHANGED <<aop, frontend, up>>

\* Mutant: the document is removed by its key.
RemoveDocument_ByKey(e) ==
  /\ pc[e] = "delete"
  /\ ~cancelled[e]
  /\ doc # None
  /\ Write(None)
  /\ Finish(e)
  /\ UNCHANGED <<aop, frontend, up>>

RemoveDocument(e) ==
  /\ pc[e] = "delete"
  /\ ~cancelled[e]
  /\ Exists(wdoc[e])
  /\ Write(None)
  /\ Finish(e)
  /\ UNCHANGED <<aop, frontend, up>>

\* Lease lost, document gone, context cancelled or the store failing.
EndFail(e) ==
  /\ \/ pc[e] = "end" /\ ~Leased(e)
     \/ pc[e] = "endWrite" /\ ~Exists(buf[e])
     \/ pc[e] = "delete" /\ ~Exists(wdoc[e])
     \/ pc[e] \in {"end", "endWrite", "delete"} /\ (cancelled[e] \/ DBErrors)
  /\ Finish(e)
  /\ UNCHANGED <<store, aop, frontend, up>>

Exit(e) ==
  /\ pc[e] = "exit"
  /\ HeartbeatStopped(e)
  /\ Finish(e)
  /\ UNCHANGED <<store, aop, frontend, up>>

---------------------------------------------------------------------------
(***************************************************************************)
(* The heartbeat of a worker: Lease(), at once and then on every tick.     *)
(***************************************************************************)
LeaseRead(w) ==
  /\ hb[w] = "read"
  /\ ~cancelled[w]
  /\ Leased(w)
  /\ hbuf' = [hbuf EXCEPT ![w] = doc]
  /\ fresh' = fresh \cup {w}
  /\ hb' = [hb EXCEPT ![w] = "write"]
  /\ UNCHANGED <<doc, aop, frontend, up, work, cancelled>>

\* The renewLease trigger.
Renewed(d) == [d EXCEPT !.leaseExpires = "live"]

\* Mutant: the renewal is written with nil options.
LeaseWrite_NoIfMatch(w) ==
  /\ hb[w] = "write"
  /\ ~cancelled[w]
  /\ Exists(hbuf[w])
  /\ Write(Renewed(hbuf[w]))
  /\ hbuf' = [hbuf EXCEPT ![w] = None]
  /\ hb' = [hb EXCEPT ![w] = "wait"]
  /\ UNCHANGED <<aop, frontend, up, work, cancelled>>

LeaseWrite(w) ==
  /\ hb[w] = "write"
  /\ ~cancelled[w]
  /\ w \in fresh
  /\ Write(Renewed(hbuf[w]))
  /\ hbuf' = [hbuf EXCEPT ![w] = None]
  /\ hb' = [hb EXCEPT ![w] = "wait"]
  /\ UNCHANGED <<aop, frontend, up, work, cancelled>>

\* 412: RetryOnPreconditionFailed reads the document again.
LeaseRetry(w) ==
  /\ hb[w] = "write"
  /\ w \notin fresh
  /\ Exists(hbuf[w])
  /\ hbuf' = [hbuf EXCEPT ![w] = None]
  /\ hb' = [hb EXCEPT ![w] = "read"]
  /\ UNCHANGED <<store, aop, frontend, up, work, cancelled>>

\* Mutant: the worker's context is not cancelled.
LeaseFail_NoCancel(w) ==
  /\ hb[w] \in {"read", "write"}
  /\ DBErrors \/ ~Leased(w)
  /\ fresh' = fresh \ {w}
  /\ hbuf' = [hbuf EXCEPT ![w] = None]
  /\ hb' = [hb EXCEPT ![w] = "off"]
  /\ UNCHANGED <<doc, aop, frontend, up, work, cancelled>>

\* Lease lost, document gone, retries exhausted, context cancelled or the
\* store failing: the heartbeat cancels the worker's context and returns.
LeaseFail(w) ==
  /\ \/ /\ \/ hb[w] = "read" /\ ~Leased(w)
           \/ hb[w] = "write" /\ w \notin fresh
           \/ hb[w] \in {"read", "write"} /\ (cancelled[w] \/ DBErrors)
        /\ fresh' = fresh \ {w}
        /\ doc' = doc
     \/ /\ hb[w] = "write" /\ w \in fresh /\ DBErrors /\ ~cancelled[w]
        /\ Write(Renewed(hbuf[w]))
  /\ hbuf' = [hbuf EXCEPT ![w] = None]
  /\ hb' = [hb EXCEPT ![w] = "off"]
  /\ cancelled' = [cancelled EXCEPT ![w] = TRUE]
  /\ UNCHANGED <<aop, frontend, up, work>>

Tick(w) ==
  /\ hb[w] = "wait"
  /\ hb' = [hb EXCEPT ![w] = "read"]
  /\ UNCHANGED <<store, aop, frontend, up, work, hbuf, cancelled>>

---------------------------------------------------------------------------
(***************************************************************************)
(* Time, and RP processes that die.  A restarted process has a new uuid,   *)
(* so it is another member of Instances.                                   *)
(***************************************************************************)
\* A lease is renewed every 10s and lasts 60s.  Once the heartbeat has been
\* stopped the worker is a few calls to the store away from ending it.
Renewing(e) ==
  \/ hb[e] # "off"
  \/ pc[e] \in {"end", "endWrite", "delete"}
  \/ e \in Instances /\ pc[e] \notin {"idle", "update"}

Expire ==
  /\ doc # None
  /\ doc.leaseExpires = "live"
  /\ TimelyHeartbeats =>
       \A e \in Executors : Renewing(e) => UUID(e) # doc.leaseOwner
  /\ doc' = [doc EXCEPT !.leaseExpires = "expired"]
  /\ UNCHANGED <<fresh, aop, frontend, up, work, beat>>

Crash(i) ==
  /\ i \in up
  /\ up # {i}
  /\ up' = up \ {i}
  /\ LET gone == {e \in Executors : UUID(e) = i}
         Cleared(f, v) == [e \in Executors |-> IF e \in gone THEN v ELSE f[e]]
     IN  /\ pc' = Cleared(pc, "idle")
         /\ wdoc' = Cleared(wdoc, None)
         /\ buf' = Cleared(buf, None)
         /\ abuf' = Cleared(abuf, None)
         /\ outcome' = Cleared(outcome, None)
         /\ hb' = Cleared(hb, "off")
         /\ hbuf' = Cleared(hbuf, None)
         /\ cancelled' = Cleared(cancelled, FALSE)
         /\ fresh' = fresh \ gone
  /\ UNCHANGED <<doc, aop, frontend>>

---------------------------------------------------------------------------
Request(r) == \/ PutGet(r) \/ DeleteGet(r) \/ NewAsyncOperation(r)
              \/ PutCreate(r) \/ PutRetry(r) \/ RequestUpdate(r)
              \/ RequestEnd(r)

Dequeue(i) == \/ DequeueQuery(i) \/ DequeueStart(i)
              \/ DequeueGiveUp(i) \/ DequeueFail(i)

EndLease(e) == \/ AsyncRead(e) \/ AsyncWrite(e) \/ AsyncFail(e) \/ Stop(e)
               \/ EndLeaseRead(e) \/ EndLeaseWrite(e)
               \/ RemoveDocument(e) \/ EndFail(e) \/ Exit(e)

Work(w) == \/ WorkDone(w) \/ WorkPanic(w)
           \/ PatchRead(w) \/ PatchWrite(w) \/ PatchFail(w)

Heartbeat(w) == \/ LeaseRead(w) \/ LeaseWrite(w) \/ LeaseRetry(w)
                \/ LeaseFail(w) \/ Tick(w)

Next ==
  \/ \E r \in Requests : Request(r)
  \/ \E i \in Instances : Dequeue(i) \/ Crash(i)
  \/ \E w \in Workers : Work(w) \/ Heartbeat(w)
  \/ \E e \in Executors : EndLease(e)
  \/ Expire

Spec == Init /\ [][Next]_vars

\* Scheduling.  The dequeue loop polls the store on every tick, goroutines
\* are scheduled, time passes, and the managers' work ends: Create patches
\* finitely often and every wait of theirs has a timeout.  A heartbeat in
\* its select takes a closed stop channel sooner or later.
Fairness ==
  /\ WF_vars(Expire)
  /\ \A i \in Instances : WF_vars(Dequeue(i) \/ EndLease(i))
  /\ \A w \in Workers : /\ WF_vars(PatchWrite(w) \/ PatchFail(w) \/ EndLease(w))
                         /\ WF_vars(Heartbeat(w))
                         /\ SF_vars(WorkDone(w))
                         /\ SF_vars(Stop(w) \/ Exit(w))

FairSpec == Spec /\ Fairness

---------------------------------------------------------------------------
(***************************************************************************)
(* What holds in every environment.                                        *)
(***************************************************************************)

\* A Failed document names the state that failed, so putOrPatch never meets
\* an "unexpected failedProvisioningState"; and the field is left behind
\* only by a Failed document or by the DELETE of one.
FailedStateConsistent ==
  doc # None =>
    /\ doc.provisioningState = "Failed" => doc.failedProvisioningState # None
    /\ doc.failedProvisioningState # None =>
         doc.provisioningState \in {"Failed", "Deleting"}

\* Dequeue takes a document only while it is still queued: between its query
\* and its write nobody leased or completed it, and its write loses nothing.
DequeueTakesQueued ==
  [][\A i \in Instances : DequeueStart(i) \/ DequeueGiveUp(i) =>
       /\ Queued
       /\ doc' = Dequeued(doc, i)]_vars

\* A heartbeat renews the lease and nothing else: it takes it from no other
\* RP process and overwrites no concurrent change of the document.
HeartbeatOnlyRenews ==
  [][\A w \in Workers : LeaseWrite(w) =>
       /\ Leased(w)
       /\ doc' = Renewed(doc)]_vars

\* A document is removed only if a DELETE of that very document was stored:
\* a worker that outlives the removal, and finds the key in use again, does
\* not remove the new cluster.
RemovedOnlyIfAsked ==
  [][doc # None /\ doc' = None => doc.id \in asked]_vars

---------------------------------------------------------------------------
(***************************************************************************)
(* What holds if heartbeats are timely and clients send one mutating       *)
(* request at a time.                                                      *)
(***************************************************************************)

\* Working on the document with a context that is still good.
Active(e) == pc[e] \notin {"idle", "update", "exit"} /\ ~cancelled[e]

\* No two workers work on the document at once.
OneWorker ==
  \A e, f \in Executors : Active(e) /\ Active(f) => e = f

Visible(r) == doc = None \/ doc.asyncOperationID # r

\* A document in a non-terminal state gets a terminal state or is removed.
Progress ==
  (doc # None /\ doc.provisioningState \in NonTerminal) ~>
    (doc = None \/ doc.provisioningState \in Terminal)

\* The operation of an accepted request is completed and becomes visible.
OperationsComplete ==
  \A r \in Requests : rpc[r] = "accepted" ~>
    (Visible(r) /\ aop[r] # None /\ aop[r].provisioningState \in Terminal)

---------------------------------------------------------------------------
(***************************************************************************)
(* What the documentation says and the code does not do.                   *)
(***************************************************************************)

\* "no PUT, PATCH or DELETE is accepted unless the cluster is currently in a
\* terminal provisioning state" (pkg/api/openshiftcluster.go).
AcceptedOnlyIfTerminal ==
  [][\A r \in Requests : RequestUpdate(r) =>
       doc.provisioningState \in Terminal]_vars
===========================================================================
