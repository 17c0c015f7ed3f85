---------------------- MODULE ClusterLifecycleProofs ----------------------
(***************************************************************************)
(* Theorems about ClusterLifecycle, for every value of its constants.      *)
(***************************************************************************)
EXTENDS ClusterLifecycleSteps

\* A worker, or the dequeue loop, reporting the outcome and ending the lease.
LEMMA EndLeaseIInv ==
  ASSUME IInv, NEW e \in Executors, EndLease(e)
  PROVE  IInv'
<1> USE DEF IInv, store, frontend, work, beat, Goto
<1>1. ASSUME NEW f \in Executors, f # e PROVE Untouched(f)
  BY <1>1 DEF EndLease, AsyncRead, AsyncWrite, AsyncFail, Stop, EndLeaseRead,
              EndLeaseWrite, RemoveDocument, EndFail, Exit, Finish, TypeOK,
              Untouched
<1>2. /\ pc[e] # "update"
      /\ hb[e] = "write" => hb'[e] = hb[e] /\ hbuf'[e] = hbuf[e]
  BY DEF EndLease, AsyncRead, AsyncWrite, AsyncFail, Stop, EndLeaseRead,
         EndLeaseWrite, RemoveDocument, EndFail, Exit, HeartbeatStopped,
         ExecutorOK
<1>3. ASSUME UNCHANGED store PROVE FreshOK'
  <2>1. \A i \in Instances \cap fresh : i # e
    BY <1>2 DEF FreshOK, FreshLoop
  <2>2. \A i \in Instances \cap fresh : pc'[i] = pc[i] /\ buf'[i] = buf[i]
    BY <1>1, <2>1 DEF Executors, Untouched
  <2>3. \A w \in Workers \cap fresh : hb'[w] = hb[w] /\ hbuf'[w] = hbuf[w]
    BY <1>1, <1>2 DEF FreshOK, FreshBeat, Executors, Untouched
  <2> QED BY <1>3, <2>2, <2>3, FreshFrame
<1>4. ASSUME aop' = aop, asked' = asked, ExecutorOK(e)'
      PROVE  \A f \in Executors : ExecutorOK(f)'
  BY <1>1, <1>4, ExecutorFrame
<1>5. CASE AsyncRead(e)
  <2>1. pc[e] = "async" BY <1>5 DEF AsyncRead
  <2>2. Good(wdoc[e], aop, asked)
    BY <2>1 DEF ExecutorOK, Handling
  <2>3. wdoc[e].asyncOperationID # None =>
          aop[wdoc[e].asyncOperationID] \in AsyncDocs
    BY <2>2 DEF Good, Linked
  <2>4. TypeOK'
    BY <1>5, <2>3 DEF AsyncRead, TypeOK
  <2>5. StoreOK' /\ \A q \in Requests : RequestOK(q)'
    BY <1>5 DEF AsyncRead, StoreOK, RequestOK
  <2>6. ExecutorOK(e)'
    BY <1>5, <2>1, <2>3 DEF AsyncRead, TypeOK, ExecutorOK, Handling,
                            Reporting, Patching
  <2> QED BY <1>3, <1>4, <1>5, <2>4, <2>5, <2>6 DEF AsyncRead
<1>6. CASE AsyncWrite(e) \/ AsyncFail(e)
  <2> DEFINE op == wdoc[e].asyncOperationID
  <2>1. pc[e] \in {"async", "asyncWrite"}
    BY <1>6 DEF AsyncWrite, AsyncFail
  <2>2. /\ Good(wdoc[e], aop, asked)
        /\ outcome[e] \in Terminal
    BY <2>1 DEF ExecutorOK, Handling, Reporting
  <2>3. ASSUME pc[e] = "asyncWrite", UpdateAsyncOperation(e)
        PROVE  /\ aop' \in [Requests -> AsyncDocs \cup {None}]
               /\ \A r \in Requests :
                    aop[r] \in AsyncDocs => aop'[r] \in AsyncDocs
    <3>1. op \in Requests /\ abuf[e] \in AsyncDocs
      BY <2>2, <2>3 DEF ExecutorOK, Good, Docs
    <3>2. [provisioningState |-> outcome[e],
           error |-> outcome[e] = "Failed" \/ abuf[e].error,
           openShiftCluster |-> IF Removing(e) THEN abuf[e].openShiftCluster
                                               ELSE outcome[e]] \in AsyncDocs
      BY <2>2, <3>1 DEF AsyncDocs
    <3> QED BY <2>3, <3>1, <3>2 DEF UpdateAsyncOperation, TypeOK
  <2>4. /\ aop' \in [Requests -> AsyncDocs \cup {None}]
        /\ \A r \in Requests : aop[r] \in AsyncDocs => aop'[r] \in AsyncDocs
    BY <1>6, <2>3 DEF AsyncWrite, AsyncFail, TypeOK
  <2>5. \A d : Good(d, aop, asked) => Good(d, aop', asked')
    BY <1>6, <2>4, GoodStable DEF AsyncWrite, AsyncFail
  <2>6. TypeOK'
    <3>1. /\ outcome' \in [Executors -> Terminal \cup {None}]
          /\ abuf' \in [Executors -> AsyncDocs \cup {None}]
      BY <1>6 DEF AsyncWrite, AsyncFail, TypeOK, Terminal
    <3>2. pc' = [pc EXCEPT ![e] = "stop"] \/ pc' = [pc EXCEPT ![e] = "async"]
            \/ pc' = [pc EXCEPT ![e] = "exit"]
      BY <1>6 DEF AsyncWrite, AsyncFail
    <3>3. UNCHANGED <<store, frontend, up, wdoc, buf, beat>>
      BY <1>6 DEF AsyncWrite, AsyncFail
    <3> QED BY <2>4, <3>1, <3>2, <3>3 DEF TypeOK
  <2>7. StoreOK' /\ UNCHANGED store
    BY <1>6, <2>5 DEF AsyncWrite, AsyncFail, StoreOK
  <2>8. ASSUME NEW q \in Requests PROVE RequestOK(q)'
    BY <1>6, <2>4 DEF AsyncWrite, AsyncFail, RequestOK, Linked, Docs
  <2>9. /\ Good(wdoc[e], aop', asked')
        /\ hb[e] = "write" => Good(hbuf[e], aop', asked')
    BY <2>2, <2>5 DEF ExecutorOK
  <2>10. CASE AsyncWrite(e)
    <3>1. ExecutorOK(e)'
      BY <2>2, <2>9, <2>10
      DEF AsyncWrite, TypeOK, ExecutorOK, Handling, Reporting, Patching
    <3>2. \A f \in Executors : ExecutorOK(f)'
      BY <1>1, <2>5, <3>1, ExecutorFrame
    <3> QED BY <1>3, <2>6, <2>7, <2>8, <3>2
  <2>11. CASE AsyncFail(e)
    <3>1. /\ pc'[e] \in {"async", "exit"}
          /\ outcome'[e] \in Terminal
          /\ wdoc' = wdoc /\ hb' = hb /\ hbuf' = hbuf
      BY <2>2, <2>11 DEF AsyncFail, TypeOK, Terminal
    <3>2. wdoc[e].provisioningState \in NonTerminal
      BY <2>1 DEF ExecutorOK, Handling
    <3>3. ExecutorOK(e)'
      BY <2>9, <3>1, <3>2 DEF ExecutorOK, Handling, Reporting, Patching
    <3>4. \A f \in Executors : ExecutorOK(f)'
      BY <1>1, <2>5, <3>3, ExecutorFrame
    <3> QED BY <1>3, <2>6, <2>7, <2>8, <3>4
  <2> QED BY <1>6, <2>10, <2>11
<1>7. CASE Stop(e)
  <2>1. TypeOK' /\ StoreOK' /\ \A q \in Requests : RequestOK(q)'
    BY <1>7 DEF Stop, TypeOK, StoreOK, RequestOK
  <2>2. ExecutorOK(e)'
    BY <1>7 DEF Stop, TypeOK, ExecutorOK, Removing, Handling, Reporting,
                Patching
  <2> QED BY <1>3, <1>4, <1>7, <2>1, <2>2 DEF Stop
<1>8. CASE EndLeaseRead(e)
  <2>1. TypeOK' /\ StoreOK' /\ \A q \in Requests : RequestOK(q)'
    BY <1>8 DEF EndLeaseRead, TypeOK, StoreOK, RequestOK
  <2>2. ExecutorOK(e)'
    BY <1>8 DEF EndLeaseRead, Leased, TypeOK, StoreOK, ExecutorOK,
                Handling, Reporting, Patching
  <2> QED BY <1>3, <1>4, <1>8, <2>1, <2>2 DEF EndLeaseRead
<1>9. ASSUME Finish(e) PROVE ExecutorOK(e)'
  <2>1. pc'[e] = "idle" /\ hb'[e] = "off"
    BY <1>9 DEF Finish, TypeOK
  <2> QED BY <2>1 DEF ExecutorOK, Handling, Reporting, Patching
<1>10. ASSUME Finish(e), doc' \in Docs \cup {None}, fresh' \subseteq fresh,
              UNCHANGED <<aop, frontend, up>>
       PROVE  TypeOK' /\ \A q \in Requests : RequestOK(q)'
  BY <1>10 DEF Finish, TypeOK, RequestOK
<1>11. CASE EndLeaseWrite(e)
  <2>1. Good(Ended(buf[e], wdoc[e].provisioningState, outcome[e]), aop, asked)
    BY <1>11, EndedLemma
    DEF EndLeaseWrite, ExecutorOK, Handling, Reporting, Patching
  <2>2. StoreOK' /\ FreshOK'
    BY <1>11, <2>1 DEF EndLeaseWrite, Write, StoreOK, FreshOK
  <2>3. doc' \in Docs /\ fresh' = {}
    BY <1>11, <2>1 DEF EndLeaseWrite, Write, Good
  <2> QED BY <1>4, <1>9, <1>10, <1>11, <2>2, <2>3 DEF EndLeaseWrite
<1>12. CASE RemoveDocument(e)
  <2>1. StoreOK' /\ FreshOK' /\ doc' = None /\ fresh' = {}
    BY <1>12 DEF RemoveDocument, Write, StoreOK, FreshOK
  <2> QED BY <1>4, <1>9, <1>10, <1>12, <2>1 DEF RemoveDocument
<1>13. CASE EndFail(e) \/ Exit(e)
  <2>1. Finish(e) /\ UNCHANGED <<store, aop, frontend, up>>
    BY <1>13 DEF EndFail, Exit
  <2>2. StoreOK'
    BY <2>1 DEF StoreOK
  <2>3. doc' \in Docs \cup {None} /\ fresh' = fresh
    BY <2>1 DEF TypeOK
  <2> QED BY <1>3, <1>4, <1>9, <1>10, <2>1, <2>2, <2>3
<1> QED
  BY <1>5, <1>6, <1>7, <1>8, <1>11, <1>12, <1>13 DEF EndLease

\* A step that changes no variable.
LEMMA StutterIInv == IInv /\ UNCHANGED vars => IInv'
<1> SUFFICES ASSUME IInv, UNCHANGED vars PROVE IInv'
  OBVIOUS
<1> USE DEF IInv, vars
<1>1. TypeOK' /\ StoreOK' BY DEF TypeOK, StoreOK
<1>2. \A r \in Requests : RequestOK(r)' BY DEF RequestOK
<1>3. \A e \in Executors : ExecutorOK(e)' BY ExecutorFrame DEF Untouched
<1>4. FreshOK' BY FreshFrame
<1>5. QED BY <1>1, <1>2, <1>3, <1>4

LEMMA NextIInv == IInv /\ [Next]_vars => IInv'
  BY RequestIInv, DequeueIInv, WorkIInv, HeartbeatIInv, EnvironmentIInv,
     EndLeaseIInv, StutterIInv
  DEF Next

LEMMA Inductive == Spec => []IInv
  BY InitIInv, NextIInv, PTL DEF Spec

---------------------------------------------------------------------------
(***************************************************************************)
(* The theorems.                                                           *)
(***************************************************************************)

\* Every field, copy and control point keeps to its values: a document never
\* holds a state, an owner or a count the code has no case for.
THEOREM TypeCorrect == Spec => []TypeOK
  BY Inductive, PTL DEF IInv

\* endLease and putOrPatch keep provisioningState and failedProvisioningState
\* in agreement, whatever requests, workers and crashes interleave.
THEOREM FailedStateCorrect == Spec => []FailedStateConsistent
<1>1. IInv => FailedStateConsistent
  BY DEF IInv, StoreOK, Good, Consistent, FailedStateConsistent
<1>2. QED BY <1>1, Inductive, PTL

\* Dequeue's conditional write leases only what is still queued.
THEOREM DequeueCorrect == Spec => DequeueTakesQueued
<1>1. IInv => \A i \in Instances : DequeueStart(i) \/ DequeueGiveUp(i) =>
                /\ Queued
                /\ doc' = Dequeued(doc, i)
  BY DEF IInv, FreshOK, FreshLoop, DequeueStart, DequeueGiveUp, Write
<1>2. QED BY <1>1, Inductive, PTL DEF DequeueTakesQueued

\* A heartbeat's conditional write renews the lease and nothing else.
THEOREM HeartbeatCorrect == Spec => HeartbeatOnlyRenews
<1>1. IInv => \A w \in Workers : LeaseWrite(w) =>
                /\ Leased(w)
                /\ doc' = Renewed(doc)
  BY DEF IInv, FreshOK, FreshBeat, LeaseWrite, Write
<1>2. QED BY <1>1, Inductive, PTL DEF HeartbeatOnlyRenews

\* A worker removes no document whose deletion was not asked for.
THEOREM RemovalCorrect == Spec => RemovedOnlyIfAsked
<1>1. ASSUME IInv, [Next]_vars, doc # None, doc' = None
      PROVE  doc.id \in asked
  <2>0. \A d : Good(d, aop, asked) => d # None
    BY ConstantsAssumption DEF Good
  <2>1. doc' # doc BY <1>1
  <2>2. ASSUME NEW r \in Requests, Request(r) PROVE FALSE
    BY <1>1, <2>2, ConstantsAssumption
    DEF IInv, Request, PutGet, DeleteGet, NewAsyncOperation, PutCreate,
        PutRetry, RequestUpdate, RequestEnd, RequestOK, Write, store
  <2>3. ASSUME NEW i \in Instances, Dequeue(i) PROVE FALSE
    <3>1. pc[i] = "update" /\ doc' = Dequeued(buf[i], i)
      BY <2>1, <2>3
      DEF Dequeue, DequeueQuery, DequeueStart, DequeueGiveUp, DequeueFail, Write
    <3>2. Good(buf[i], aop, asked)
      BY <1>1, <3>1 DEF IInv, ExecutorOK, Patching, Executors
    <3> QED BY <1>1, <2>0, <3>1, <3>2, DequeuedLemma
  <2>4. ASSUME NEW w \in Workers, Work(w) PROVE FALSE
    <3>1. pc[w] = "patch" /\ doc' = buf[w]
      BY <2>1, <2>4 DEF Work, WorkDone, WorkPanic, PatchRead, PatchWrite,
                        PatchFail, Write, store
    <3> QED BY <1>1, <2>0, <3>1 DEF IInv, ExecutorOK, Patching, Executors
  <2>5. ASSUME NEW w \in Workers, Heartbeat(w) PROVE FALSE
    <3>1. hb[w] = "write" /\ doc' = Renewed(hbuf[w])
      BY <2>1, <2>5 DEF Heartbeat, LeaseRead, LeaseWrite, LeaseRetry,
                        LeaseFail, Tick, Write, store
    <3>2. Good(hbuf[w], aop, asked)
      BY <1>1, <3>1 DEF IInv, ExecutorOK, Executors
    <3> QED BY <1>1, <2>0, <3>1, <3>2, RenewedLemma
  <2>6. ASSUME Expire \/ \E i \in Instances : Crash(i) PROVE FALSE
    BY <1>1, <2>0, <2>1, <2>6, ExpiredLemma
    DEF Expire, Crash, IInv, StoreOK
  <2>7. ASSUME NEW e \in Executors, EndLease(e) PROVE doc.id \in asked
    <3>1. CASE RemoveDocument(e)
      <4>1. Removing(e) /\ Good(wdoc[e], aop, asked)
        BY <1>1, <3>1 DEF RemoveDocument, IInv, ExecutorOK, Handling
      <4> QED BY <3>1, <4>1
              DEF RemoveDocument, Exists, Removing, Good, Sanctioned
    <3>2. CASE EndLeaseWrite(e)
      <4>1. Good(doc', aop, asked)
        BY <1>1, <3>2, EndedLemma
        DEF EndLeaseWrite, Write, IInv, ExecutorOK, Handling, Reporting, Patching
      <4> QED BY <1>1, <2>0, <4>1
    <3> QED BY <2>1, <2>7, <3>1, <3>2
            DEF EndLease, AsyncRead, AsyncWrite, AsyncFail, Stop,
                EndLeaseRead, EndFail, Exit, store
  <2> QED BY <1>1, <2>1, <2>2, <2>3, <2>4, <2>5, <2>6, <2>7 DEF Next, vars
<1>2. QED BY <1>1, Inductive, PTL DEF Spec, RemovedOnlyIfAsked
===========================================================================
