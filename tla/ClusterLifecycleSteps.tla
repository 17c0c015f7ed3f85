---------------------- MODULE ClusterLifecycleSteps -----------------------
(***************************************************************************)
(* The dequeue loop, the workers' work, the heartbeats and the environment *)
(* preserve the inductive invariant of ClusterLifecycle.                   *)
(***************************************************************************)
EXTENDS ClusterLifecycleInvariant

\* The dequeue loop.
LEMMA DequeueIInv ==
  ASSUME IInv, NEW i \in Instances, Dequeue(i)
  PROVE  IInv'
<1> USE DEF IInv, store, frontend, work, beat
<1>1. i \in Executors /\ i \notin Workers
  BY ConstantsAssumption DEF Executors
<1>2. \A w \in Workers : w \in Executors /\ w \notin Instances
  BY ConstantsAssumption DEF Executors
<1>3. /\ \A q \in Requests : RequestOK(q)'
      /\ aop' = aop /\ asked' = asked
  BY DEF Dequeue, DequeueQuery, DequeueStart, DequeueGiveUp, DequeueFail,
         RequestOK
<1>4. CASE DequeueQuery(i)
  <2>1. TypeOK'
    BY <1>1, <1>4 DEF DequeueQuery, TypeOK
  <2>2. StoreOK'
    BY <1>4 DEF DequeueQuery, StoreOK
  <2>3. ASSUME NEW e \in Executors PROVE ExecutorOK(e)'
    <3>1. CASE e # i
      BY <1>3, <1>4, <3>1, ExecutorFrame DEF DequeueQuery, TypeOK, Untouched
    <3>2. CASE e = i
      BY <1>1, <1>4, <3>2 DEF DequeueQuery, TypeOK, StoreOK, ExecutorOK,
                              Queued, Handling, Reporting, Patching
    <3> QED BY <3>1, <3>2
  <2>4. ASSUME NEW j \in Instances \cap fresh' PROVE FreshLoop(j)'
    BY <1>1, <1>4 DEF DequeueQuery, TypeOK, FreshOK, FreshLoop, Queued
  <2>5. ASSUME NEW w \in Workers \cap fresh' PROVE FreshBeat(w)'
    BY <1>1, <1>4 DEF DequeueQuery, FreshOK, FreshBeat, Leased
  <2> QED BY <1>3, <2>1, <2>2, <2>3, <2>4, <2>5 DEF FreshOK
<1>5. ASSUME pc[i] = "update"
      PROVE  /\ Good(Dequeued(buf[i], i), aop, asked)
             /\ Dequeued(buf[i], i).provisioningState \in NonTerminal
  BY <1>1, <1>5, DequeuedLemma DEF ExecutorOK, Patching
<1>6. CASE DequeueStart(i)
  <2> PICK w \in Idle(i) :
        /\ pc' = [pc EXCEPT ![i] = "idle", ![w] = "work"]
        /\ wdoc' = [wdoc EXCEPT ![w] = Dequeued(buf[i], i)]
        /\ hb' = [hb EXCEPT ![w] = "read"]
    BY <1>6 DEF DequeueStart
  <2>1. w \in Executors /\ w # i
    BY <1>1, <1>2 DEF Idle
  <2>2. pc[i] = "update" BY <1>6 DEF DequeueStart
  <2>3. TypeOK'
    BY <1>1, <1>5, <1>6, <2>1, <2>2 DEF DequeueStart, TypeOK, Write, Good
  <2>4. StoreOK' /\ FreshOK'
    BY <1>5, <1>6, <2>2 DEF DequeueStart, StoreOK, FreshOK, Write
  <2>5. ASSUME NEW e \in Executors PROVE ExecutorOK(e)'
    <3>1. CASE e \notin {i, w}
      <4>1. Untouched(e)
        BY <1>6, <3>1 DEF DequeueStart, TypeOK, Untouched
      <4> QED BY <1>3, <4>1, ExecutorFrame
    <3>2. CASE e = i
      <4>1. pc'[i] = "idle" /\ hb'[i] = hb[i] /\ hbuf'[i] = hbuf[i]
        BY <1>1, <1>6, <2>1 DEF DequeueStart, TypeOK
      <4> QED BY <1>1, <1>3, <3>2, <4>1
              DEF ExecutorOK, Handling, Reporting, Patching
    <3>3. CASE e = w
      BY <1>3, <1>5, <1>6, <2>1, <2>2, <3>3
      DEF DequeueStart, TypeOK, ExecutorOK, Handling, Reporting, Patching
    <3> QED BY <3>1, <3>2, <3>3
  <2> QED BY <1>3, <2>3, <2>4, <2>5
<1>7. CASE DequeueGiveUp(i)
  <2>1. pc[i] = "update" BY <1>7 DEF DequeueGiveUp
  <2>2. TypeOK'
    BY <1>1, <1>5, <1>7, <2>1 DEF DequeueGiveUp, TypeOK, Write, Good, Terminal
  <2>3. StoreOK' /\ FreshOK'
    BY <1>5, <1>7, <2>1 DEF DequeueGiveUp, StoreOK, FreshOK, Write
  <2>4. ASSUME NEW e \in Executors PROVE ExecutorOK(e)'
    <3>1. CASE e # i
      BY <1>3, <1>7, <3>1, ExecutorFrame DEF DequeueGiveUp, TypeOK, Untouched
    <3>2. CASE e = i
      BY <1>1, <1>3, <1>5, <1>7, <2>1, <3>2
      DEF DequeueGiveUp, TypeOK, ExecutorOK, Handling, Reporting, Patching,
          Terminal
    <3> QED BY <3>1, <3>2
  <2> QED BY <1>3, <2>2, <2>3, <2>4
<1>8. CASE DequeueFail(i)
  <2>1. pc[i] = "update" BY <1>8 DEF DequeueFail
  <2>2. TypeOK'
    BY <1>1, <1>5, <1>8, <2>1 DEF DequeueFail, TypeOK, Write, Good
  <2>3. StoreOK'
    BY <1>5, <1>8, <2>1 DEF DequeueFail, StoreOK, Write
  <2>4. ASSUME fresh' = {} PROVE FreshOK'
    BY <2>4 DEF FreshOK
  <2>5. ASSUME doc' = doc, fresh' = fresh \ {i} PROVE FreshOK'
    <3>1. \A j \in Instances \cap fresh' : pc'[j] = pc[j] /\ buf'[j] = buf[j]
      BY <1>8, <2>5 DEF DequeueFail, TypeOK, Executors
    <3> QED BY <1>8, <2>5, <3>1, FreshFrame DEF DequeueFail
  <2>6. FreshOK'
    BY <1>8, <2>4, <2>5 DEF DequeueFail, Write
  <2>7. ASSUME NEW e \in Executors PROVE ExecutorOK(e)'
    <3>1. CASE e # i
      BY <1>3, <1>8, <3>1, ExecutorFrame DEF DequeueFail, TypeOK, Untouched
    <3>2. CASE e = i
      BY <1>1, <1>3, <1>8, <3>2
      DEF DequeueFail, TypeOK, ExecutorOK, Handling, Reporting, Patching
    <3> QED BY <3>1, <3>2
  <2> QED BY <1>3, <2>2, <2>3, <2>6, <2>7
<1> QED BY <1>4, <1>6, <1>7, <1>8 DEF Dequeue

\* A worker up to the end of its work.
LEMMA WorkIInv ==
  ASSUME IInv, NEW w \in Workers, Work(w)
  PROVE  IInv'
<1> USE DEF IInv, store, frontend, work, beat, Goto
<1>1. w \in Executors /\ w \notin Instances
  BY ConstantsAssumption DEF Executors
<1>2. /\ \A q \in Requests : RequestOK(q)'
      /\ aop' = aop /\ asked' = asked
  BY DEF Work, WorkDone, WorkPanic, PatchRead, PatchWrite, PatchFail, RequestOK
<1>3. ASSUME NEW e \in Executors, e # w PROVE Untouched(e)
  BY <1>3 DEF Work, WorkDone, WorkPanic, PatchRead, PatchWrite, PatchFail,
              TypeOK, Untouched
<1>4. ASSUME UNCHANGED store PROVE StoreOK' /\ FreshOK'
  <2>1. \A i \in Instances : pc'[i] = pc[i] /\ buf'[i] = buf[i]
    BY <1>1, <1>3 DEF Executors, Untouched
  <2>2. hb' = hb /\ hbuf' = hbuf
    BY DEF Work, WorkDone, WorkPanic, PatchRead, PatchWrite, PatchFail
  <2>3. FreshOK'
    BY <1>4, <2>1, <2>2, FreshFrame
  <2> QED BY <1>2, <1>4, <2>3 DEF StoreOK
<1>5. ASSUME TypeOK', StoreOK', FreshOK', ExecutorOK(w)' PROVE IInv'
  BY <1>2, <1>3, <1>5, ExecutorFrame
<1>6. CASE WorkDone(w)
  <2>1. TypeOK'
    BY <1>1, <1>6 DEF WorkDone, TypeOK
  <2>2. ExecutorOK(w)'
    BY <1>1, <1>6 DEF WorkDone, TypeOK, ExecutorOK, Handling, Reporting,
                      Patching
  <2> QED BY <1>4, <1>5, <1>6, <2>1, <2>2 DEF WorkDone
<1>7. CASE WorkPanic(w)
  <2>1. TypeOK'
    BY <1>1, <1>7 DEF WorkPanic, TypeOK
  <2>2. ExecutorOK(w)'
    BY <1>1, <1>7 DEF WorkPanic, TypeOK, ExecutorOK, Handling, Reporting,
                      Patching
  <2> QED BY <1>4, <1>5, <1>7, <2>1, <2>2 DEF WorkPanic
<1>8. CASE PatchRead(w)
  <2>1. TypeOK'
    BY <1>1, <1>8 DEF PatchRead, TypeOK
  <2>2. ExecutorOK(w)'
    BY <1>1, <1>8 DEF PatchRead, Leased, TypeOK, StoreOK, ExecutorOK,
                      Handling, Reporting, Patching
  <2> QED BY <1>4, <1>5, <1>8, <2>1, <2>2 DEF PatchRead
<1>9. CASE PatchWrite(w) \/ PatchFail(w)
  <2>1. Good(buf[w], aop, asked)
    BY <1>1, <1>9 DEF PatchWrite, PatchFail, ExecutorOK, Patching
  <2>2. TypeOK'
    BY <1>1, <1>9, <2>1
    DEF PatchWrite, PatchFail, Write, TypeOK, Good, Terminal
  <2>3. ASSUME Write(buf[w]) PROVE StoreOK' /\ FreshOK'
    BY <1>2, <2>1, <2>3 DEF Write, StoreOK, FreshOK
  <2>4. StoreOK' /\ FreshOK'
    BY <1>4, <1>9, <2>3 DEF PatchWrite, PatchFail
  <2>5. ExecutorOK(w)'
    BY <1>1, <1>9
    DEF PatchWrite, PatchFail, TypeOK, ExecutorOK, Handling, Reporting,
        Patching, Terminal
  <2> QED BY <1>5, <2>2, <2>4, <2>5
<1> QED BY <1>6, <1>7, <1>8, <1>9 DEF Work

\* A heartbeat.
LEMMA HeartbeatIInv ==
  ASSUME IInv, NEW w \in Workers, Heartbeat(w)
  PROVE  IInv'
<1> USE DEF IInv, store, frontend, work, beat
<1>1. w \in Executors /\ w \notin Instances
  BY ConstantsAssumption DEF Executors
<1>2. /\ \A q \in Requests : RequestOK(q)'
      /\ aop' = aop /\ asked' = asked /\ UNCHANGED work
  BY DEF Heartbeat, LeaseRead, LeaseWrite, LeaseRetry, LeaseFail, Tick,
         RequestOK
<1>3. ASSUME NEW e \in Executors, e # w PROVE Untouched(e)
  BY <1>3 DEF Heartbeat, LeaseRead, LeaseWrite, LeaseRetry, LeaseFail, Tick,
              TypeOK, Untouched
<1>4. ASSUME TypeOK', StoreOK', FreshOK', ExecutorOK(w)' PROVE IInv'
  BY <1>2, <1>3, <1>4, ExecutorFrame
<1>5. CASE LeaseRead(w)
  <2>1. TypeOK' /\ StoreOK'
    BY <1>1, <1>5 DEF LeaseRead, TypeOK, StoreOK
  <2>2. ASSUME NEW i \in Instances \cap fresh' PROVE FreshLoop(i)'
    BY <1>1, <1>5 DEF LeaseRead, FreshOK, FreshLoop, Queued
  <2>3. ASSUME NEW x \in Workers \cap fresh' PROVE FreshBeat(x)'
    <3>1. CASE x # w
      BY <1>5, <3>1 DEF LeaseRead, TypeOK, FreshOK, FreshBeat, Leased
    <3>2. CASE x = w
      BY <1>1, <1>5, <3>2 DEF LeaseRead, TypeOK, FreshBeat, Leased
    <3> QED BY <3>1, <3>2
  <2>4. ExecutorOK(w)'
    BY <1>1, <1>5 DEF LeaseRead, Leased, TypeOK, StoreOK, ExecutorOK, Removing
  <2> QED BY <1>4, <2>1, <2>2, <2>3, <2>4 DEF FreshOK
<1>6. ASSUME doc' = doc, fresh' \subseteq fresh, w \notin fresh' PROVE FreshOK'
  <2>1. \A x \in Workers \cap fresh' : hb'[x] = hb[x] /\ hbuf'[x] = hbuf[x]
    BY <1>3, <1>6 DEF Executors, Untouched
  <2> QED BY <1>2, <1>6, <2>1, FreshFrame
<1>7. CASE LeaseWrite(w) \/ LeaseFail(w)
  <2>1. hb[w] = "write" => Good(Renewed(hbuf[w]), aop, asked)
    BY <1>1, RenewedLemma DEF ExecutorOK
  <2>2. TypeOK'
    <3>1. doc' \in Docs \cup {None} /\ fresh' \subseteq Executors
      BY <1>7, <2>1 DEF LeaseWrite, LeaseFail, Write, TypeOK, Good
    <3>2. CASE LeaseWrite(w)
      BY <1>1, <3>1, <3>2 DEF LeaseWrite, TypeOK
    <3>3. CASE LeaseFail(w)
      BY <1>1, <3>1, <3>3 DEF LeaseFail, TypeOK
    <3> QED BY <1>7, <3>2, <3>3
  <2>3. StoreOK'
    BY <1>2, <1>7, <2>1 DEF LeaseWrite, LeaseFail, Write, StoreOK
  <2>4. ASSUME fresh' = {} PROVE FreshOK'
    BY <2>4 DEF FreshOK
  <2>5. FreshOK'
    BY <1>6, <1>7, <2>4 DEF LeaseWrite, LeaseFail, Write
  <2>6. ExecutorOK(w)'
    <3>1. pc[w] \notin {"end", "endWrite", "delete"}
      BY <1>1, <1>7 DEF LeaseWrite, LeaseFail, ExecutorOK
    <3>2. hb'[w] \in {"wait", "off"}
      BY <1>1, <1>7 DEF LeaseWrite, LeaseFail, TypeOK
    <3> QED BY <1>1, <1>2, <3>1, <3>2 DEF ExecutorOK, Removing
  <2> QED BY <1>4, <2>2, <2>3, <2>5, <2>6
<1>8. CASE LeaseRetry(w) \/ Tick(w)
  <2>1. TypeOK' /\ StoreOK'
    BY <1>1, <1>8 DEF LeaseRetry, Tick, TypeOK, StoreOK
  <2>2. w \notin fresh
    BY <1>8 DEF LeaseRetry, Tick, FreshOK, FreshBeat
  <2>3. FreshOK'
    BY <1>6, <1>8, <2>2 DEF LeaseRetry, Tick
  <2>4. hb'[w] = "read" /\ hb[w] # "off"
    BY <1>1, <1>8 DEF LeaseRetry, Tick, TypeOK
  <2>5. ExecutorOK(w)'
    BY <1>1, <1>2, <2>4 DEF ExecutorOK, Removing
  <2> QED BY <1>4, <2>1, <2>3, <2>5
<1> QED BY <1>5, <1>7, <1>8 DEF Heartbeat

\* Time passing, and the death of an RP process.
LEMMA EnvironmentIInv ==
  ASSUME IInv, Expire \/ \E i \in Instances : Crash(i)
  PROVE  IInv'
<1> USE DEF IInv, store, frontend, work, beat
<1>1. /\ \A q \in Requests : RequestOK(q)'
      /\ aop' = aop /\ asked' = asked
  <2>1. UNCHANGED <<aop, frontend>>
    BY DEF Expire, Crash
  <2> QED BY <2>1 DEF RequestOK
<1>2. CASE Expire
  <2>1. /\ Good(doc', aop, asked)
        /\ Renewed(doc') = Renewed(doc)
        /\ doc'.leaseOwner = doc.leaseOwner
    BY <1>2, ExpiredLemma DEF Expire, StoreOK
  <2>2. TypeOK' /\ StoreOK'
    BY <1>2, <2>1 DEF Expire, TypeOK, StoreOK, Good
  <2>3. doc' # None
    BY <2>1, ConstantsAssumption DEF Good
  <2>4. FreshOK'
    BY <1>2, <2>1, <2>3 DEF Expire, FreshOK, FreshLoop, FreshBeat, Queued,
                            Leased
  <2>5. \A e \in Executors : ExecutorOK(e)'
    BY <1>1, <1>2, ExecutorFrame DEF Expire, Untouched
  <2> QED BY <1>1, <2>2, <2>4, <2>5
<1>3. ASSUME NEW i \in Instances, Crash(i) PROVE IInv'
  <2>1. TypeOK' /\ StoreOK'
    BY <1>3 DEF Crash, TypeOK, StoreOK
  <2>2. ASSUME NEW e \in Executors, UUID(e) # i PROVE Untouched(e)
    BY <1>3, <2>2 DEF Crash, Untouched
  <2>3. /\ doc' = doc
        /\ fresh' = fresh \ {e \in Executors : UUID(e) = i}
    BY <1>3 DEF Crash
  <2>4. FreshOK'
    BY <2>2, <2>3, FreshFrame DEF Untouched, Executors
  <2>5. ASSUME NEW e \in Executors PROVE ExecutorOK(e)'
    <3>1. CASE UUID(e) # i
      BY <1>1, <2>2, <3>1, ExecutorFrame
    <3>2. CASE UUID(e) = i
      <4>1. pc'[e] = "idle" /\ hb'[e] = "off"
        BY <1>3, <3>2 DEF Crash
      <4> QED BY <4>1 DEF ExecutorOK, Handling, Reporting, Patching
    <3> QED BY <3>1, <3>2
  <2> QED BY <1>1, <2>1, <2>4, <2>5
<1> QED BY <1>2, <1>3
===========================================================================
