-------------------- MODULE ClusterLifecycleInvariant ---------------------
(***************************************************************************)
(* The inductive invariant of ClusterLifecycle, what the operations make   *)
(* of a document, and the steps of the front end.                          *)
(***************************************************************************)
EXTENDS ClusterLifecycle, TLAPS

\* Control points at which an executor holds the document it works on, the
\* outcome of that work, a copy it is going to write.
Handling  == {"work", "patch", "async", "asyncWrite", "stop", "end",
              "endWrite", "delete"}
Reporting == Handling \ {"work", "patch"}
Patching  == {"update", "patch", "endWrite"}

\* The asynchronous operation a copy points at exists.
Linked(d, ops) ==
  d.asyncOperationID # None => ops[d.asyncOperationID] \in AsyncDocs

\* failedProvisioningState and provisioningState agree.
Consistent(d) ==
  /\ d.provisioningState = "Failed" => d.failedProvisioningState # None
  /\ d.failedProvisioningState # None =>
       d.provisioningState \in {"Failed", "Deleting"}

\* The deletion of the document has been asked for.
Sanctioned(d, ids) == d.provisioningState = "Deleting" => d.id \in ids

\* What is true of the stored document and of every copy that a back end
\* may write back.
Good(d, ops, ids) ==
  d \in Docs /\ Linked(d, ops) /\ Consistent(d) /\ Sanctioned(d, ids)

StoreOK == doc # None => Good(doc, aop, asked)

RequestOK(r) ==
  rpc[r] \in {"async", "write"} =>
    /\ rdoc[r] \in Docs
    /\ Linked(rdoc[r], aop)
    /\ Consistent(rdoc[r])

ExecutorOK(e) ==
  /\ pc[e] \in Handling => /\ Good(wdoc[e], aop, asked)
                           /\ wdoc[e].provisioningState \in NonTerminal
  /\ pc[e] \in Reporting => outcome[e] \in Terminal
  /\ pc[e] \in Patching => Good(buf[e], aop, asked)
  /\ pc[e] = "update" => buf[e].provisioningState \in NonTerminal
  /\ pc[e] = "asyncWrite" => /\ abuf[e] \in AsyncDocs
                             /\ wdoc[e].asyncOperationID # None
  /\ pc[e] = "delete" => Removing(e)
  /\ pc[e] \in {"end", "endWrite", "delete"} => hb[e] = "off"
  /\ hb[e] = "write" => Good(hbuf[e], aop, asked)

\* What it means to hold the stored version.
FreshLoop(i) == pc[i] = "update" /\ Queued /\ buf[i] = doc

FreshBeat(w) ==
  hb[w] = "write" /\ Leased(w) /\ Renewed(hbuf[w]) = Renewed(doc)

FreshOK ==
  /\ \A i \in Instances \cap fresh : FreshLoop(i)
  /\ \A w \in Workers \cap fresh : FreshBeat(w)

IInv ==
  /\ TypeOK
  /\ StoreOK
  /\ \A r \in Requests : RequestOK(r)
  /\ \A e \in Executors : ExecutorOK(e)
  /\ FreshOK

---------------------------------------------------------------------------
(***************************************************************************)
(* What the operations make of a document.                                 *)
(***************************************************************************)

\* The values the fields of a new document may have.
LEMMA FieldValues ==
  /\ MaxDequeueCount \in Nat
  /\ 0 \in 0 .. MaxDequeueCount + 1
  /\ None \notin NonTerminal
  BY ConstantsAssumption

\* The document of a first PUT (_putOrPatchOpenShiftCluster, isCreate).
LEMMA NewDocumentLemma ==
  ASSUME NEW r \in Requests, NEW ops
  PROVE  /\ NewDocument(r) \in Docs
         /\ Linked(NewDocument(r), ops)
         /\ Consistent(NewDocument(r))
  BY FieldValues
  DEF NewDocument, Docs, Linked, Consistent, NonTerminal, Terminal

\* An update of a document that is Failed, or has no failed state.
LEMMA ToUpdateLemma ==
  ASSUME NEW d \in Docs, NEW ops, Linked(d, ops), Consistent(d),
         d.provisioningState \in Terminal
  PROVE  /\ ToUpdate(d) \in Docs
         /\ Linked(ToUpdate(d), ops)
         /\ Consistent(ToUpdate(d))
<1>1. ToUpdate(d) \in Docs
  BY FieldValues DEF ToUpdate, Docs, NonTerminal, Terminal
<1>2. /\ ToUpdate(d).asyncOperationID = d.asyncOperationID
      /\ ToUpdate(d).provisioningState = "Updating"
      /\ ToUpdate(d).failedProvisioningState =
           IF d.provisioningState = "Failed"
           THEN None ELSE d.failedProvisioningState
  BY DEF ToUpdate, Docs
<1>3. QED
  BY <1>1, <1>2 DEF Linked, Consistent, Terminal

\* A deletion keeps the failed state of the document.
LEMMA ToDeleteLemma ==
  ASSUME NEW d \in Docs, NEW ops, Linked(d, ops)
  PROVE  /\ ToDelete(d) \in Docs
         /\ Linked(ToDelete(d), ops)
         /\ Consistent(ToDelete(d))
<1>1. ToDelete(d) \in Docs
  BY FieldValues DEF ToDelete, Docs, NonTerminal, Terminal
<1>2. /\ ToDelete(d).asyncOperationID = d.asyncOperationID
      /\ ToDelete(d).provisioningState = "Deleting"
  BY DEF ToDelete, Docs
<1>3. QED
  BY <1>1, <1>2 DEF Linked, Consistent

\* newAsyncOperation returns the id of an operation that exists.
LEMMA PointAtLemma ==
  ASSUME NEW d \in Docs, NEW r \in Requests, NEW ops, ops[r] \in AsyncDocs,
         Consistent(d)
  PROVE  /\ PointAt(d, r) \in Docs
         /\ Linked(PointAt(d, r), ops)
         /\ Consistent(PointAt(d, r))
  BY DEF PointAt, Docs, Linked, Consistent

\* Dequeue changes the lease and the count only.
LEMMA DequeuedLemma ==
  ASSUME NEW d, NEW ops, NEW ids, Good(d, ops, ids), NEW i \in Instances
  PROVE  /\ Good(Dequeued(d, i), ops, ids)
         /\ Dequeued(d, i).provisioningState = d.provisioningState
<1>1. Increment(d.dequeues) \in 0 .. MaxDequeueCount + 1
  BY ConstantsAssumption DEF Good, Docs, Increment
<1>2. QED
  BY <1>1
  DEF Dequeued, Good, Docs, Linked, Consistent, Sanctioned

\* EndLease records the state that failed.
LEMMA EndedLemma ==
  ASSUME NEW d, NEW ops, NEW ids, Good(d, ops, ids),
         NEW op \in NonTerminal, NEW s \in Terminal
  PROVE  Good(Ended(d, op, s), ops, ids)
<1> DEFINE x == Ended(d, op, s)
<1>1. x \in Docs
  <2>1. /\ s \in Terminal \cup NonTerminal
        /\ (IF s = "Failed" THEN op ELSE None) \in NonTerminal \cup {None}
        /\ (IF s = "Succeeded" THEN 0 ELSE d.dequeues) \in
             0 .. MaxDequeueCount + 1
    BY FieldValues DEF Good, Docs
  <2> QED BY <2>1 DEF Ended, Good, Docs
<1>2. /\ x.asyncOperationID = None
      /\ x.provisioningState = s
      /\ x.failedProvisioningState = IF s = "Failed" THEN op ELSE None
  BY DEF Ended, Good, Docs
<1>3. Linked(x, ops) /\ Sanctioned(x, ids)
  BY <1>2 DEF Linked, Sanctioned, Terminal
<1>4. Consistent(x)
  BY <1>2, FieldValues DEF Consistent
<1>5. QED
  BY <1>1, <1>3, <1>4 DEF Good

\* A renewal changes the expiry of the lease only.
LEMMA RenewedLemma ==
  ASSUME NEW d, NEW ops, NEW ids, Good(d, ops, ids)
  PROVE  /\ Good(Renewed(d), ops, ids)
         /\ Renewed(Renewed(d)) = Renewed(d)
  BY DEF Renewed, Good, Docs, Linked, Consistent, Sanctioned

\* The passing of time changes the expiry of the lease only.
LEMMA ExpiredLemma ==
  ASSUME NEW d, NEW ops, NEW ids, Good(d, ops, ids)
  PROVE  LET x == [d EXCEPT !.leaseExpires = "expired"]
         IN  /\ Good(x, ops, ids)
             /\ Renewed(x) = Renewed(d)
             /\ x.leaseOwner = d.leaseOwner
  BY DEF Renewed, Good, Docs, Linked, Consistent, Sanctioned

\* Operations are never forgotten, nor is a deletion that was asked for.
LEMMA GoodStable ==
  ASSUME NEW d, NEW ops, NEW ids, Good(d, ops, ids), NEW ops2, NEW ids2,
         \A r \in Requests : ops[r] \in AsyncDocs => ops2[r] \in AsyncDocs,
         ids \subseteq ids2
  PROVE  Good(d, ops2, ids2)
  BY DEF Good, Docs, Linked, Sanctioned
---------------------------------------------------------------------------
(***************************************************************************)
(* The inductive invariant holds initially and is preserved by every       *)
(* action.                                                                 *)
(***************************************************************************)
\* A step of one executor leaves alone what the others hold.
Untouched(e) ==
  /\ pc'[e] = pc[e]
  /\ wdoc'[e] = wdoc[e]
  /\ buf'[e] = buf[e]
  /\ abuf'[e] = abuf[e]
  /\ outcome'[e] = outcome[e]
  /\ hb'[e] = hb[e]
  /\ hbuf'[e] = hbuf[e]

LEMMA ExecutorFrame ==
  ASSUME NEW e \in Executors, ExecutorOK(e), Untouched(e),
         \A d : Good(d, aop, asked) => Good(d, aop', asked')
  PROVE  ExecutorOK(e)'
  BY DEF ExecutorOK, Untouched, Removing

\* A step that leaves the document alone, and what the holders of the stored
\* version hold.
LEMMA FreshFrame ==
  ASSUME FreshOK, doc' = doc, fresh' \subseteq fresh,
         \A i \in Instances \cap fresh' : pc'[i] = pc[i] /\ buf'[i] = buf[i],
         \A w \in Workers \cap fresh' : hb'[w] = hb[w] /\ hbuf'[w] = hbuf[w]
  PROVE  FreshOK'
<1>1. \A i \in Instances \cap fresh' : FreshLoop(i)'
  BY DEF FreshOK, FreshLoop, Queued
<1>2. \A w \in Workers \cap fresh' : FreshBeat(w)'
  BY DEF FreshOK, FreshBeat, Leased
<1>3. QED BY <1>1, <1>2 DEF FreshOK

LEMMA InitIInv == Init => IInv
  BY ConstantsAssumption
  DEF Init, IInv, TypeOK, StoreOK, RequestOK, ExecutorOK, FreshOK,
      Handling, Reporting, Patching

\* The front end changes nothing the back end holds.
LEMMA RequestIInv ==
  ASSUME IInv, NEW r \in Requests, Request(r)
  PROVE  IInv'
<1> USE DEF IInv, store, work, beat
<1>1. \A e \in Executors : Untouched(e)
  BY DEF Request, PutGet, DeleteGet, NewAsyncOperation, PutCreate,
         PutRetry, RequestUpdate, RequestEnd, Untouched
<1>2. ASSUME UNCHANGED <<store, aop, asked>>
      PROVE  StoreOK' /\ FreshOK' /\ \A e \in Executors : ExecutorOK(e)'
  <2>1. StoreOK' BY <1>2 DEF StoreOK
  <2>2. FreshOK' BY <1>1, <1>2, FreshFrame DEF Executors, Untouched
  <2>3. \A e \in Executors : ExecutorOK(e)' BY <1>1, <1>2, ExecutorFrame
  <2> QED BY <2>1, <2>2, <2>3
<1>3. CASE PutGet(r)
  <2>1. rdoc'[r] \in Docs /\ Linked(rdoc'[r], aop) /\ Consistent(rdoc'[r])
    BY <1>3, NewDocumentLemma, ToUpdateLemma
    DEF PutGet, TypeOK, StoreOK, Good
  <2>2. TypeOK'
    BY <1>3, <2>1 DEF PutGet, TypeOK
  <2>3. ASSUME NEW q \in Requests PROVE RequestOK(q)'
    BY <1>3, <2>1 DEF PutGet, TypeOK, RequestOK
  <2> QED BY <1>2, <1>3, <2>2, <2>3 DEF PutGet
<1>4. CASE DeleteGet(r)
  <2>1. rdoc'[r] \in Docs /\ Linked(rdoc'[r], aop) /\ Consistent(rdoc'[r])
    BY <1>4, ToDeleteLemma DEF DeleteGet, TypeOK, StoreOK, Good
  <2>2. TypeOK'
    BY <1>4, <2>1 DEF DeleteGet, TypeOK
  <2>3. ASSUME NEW q \in Requests PROVE RequestOK(q)'
    BY <1>4, <2>1 DEF DeleteGet, TypeOK, RequestOK
  <2> QED BY <1>2, <1>4, <2>2, <2>3 DEF DeleteGet
<1>5. CASE NewAsyncOperation(r)
  <2>1. rdoc[r] \in Docs /\ Consistent(rdoc[r])
    BY <1>5 DEF NewAsyncOperation, RequestOK
  <2>2. aop'[r] \in AsyncDocs /\ aop' \in [Requests -> AsyncDocs \cup {None}]
    BY <1>5, <2>1 DEF NewAsyncOperation, AsyncDocs, Docs, TypeOK
  <2>3. \A q \in Requests : aop[q] \in AsyncDocs => aop'[q] \in AsyncDocs
    BY <1>5, <2>2 DEF NewAsyncOperation, TypeOK
  <2>4. /\ rdoc'[r] \in Docs
        /\ Linked(rdoc'[r], aop')
        /\ Consistent(rdoc'[r])
    BY <1>5, <2>1, <2>2, PointAtLemma DEF NewAsyncOperation, TypeOK
  <2>5. TypeOK'
    BY <1>5, <2>2, <2>4 DEF NewAsyncOperation, TypeOK
  <2>6. ASSUME NEW q \in Requests PROVE RequestOK(q)'
    BY <1>5, <2>3, <2>4 DEF NewAsyncOperation, TypeOK, RequestOK, Linked, Docs
  <2>7. \A d : Good(d, aop, asked) => Good(d, aop', asked')
    BY <1>5, <2>3, GoodStable DEF NewAsyncOperation
  <2>8. StoreOK'
    BY <1>5, <2>7 DEF NewAsyncOperation, StoreOK
  <2>9. FreshOK'
    BY <1>1, <1>5, FreshFrame DEF NewAsyncOperation, Executors, Untouched
  <2>10. \A e \in Executors : ExecutorOK(e)'
    BY <1>1, <2>7, ExecutorFrame
  <2> QED BY <2>5, <2>6, <2>8, <2>9, <2>10
<1>6. CASE PutCreate(r)
  <2>1. Good(rdoc[r], aop, asked)
    BY <1>6 DEF PutCreate, RequestOK, Good, Sanctioned
  <2>2. TypeOK'
    BY <1>6, <2>1 DEF PutCreate, TypeOK, Write, Replied, Good
  <2>3. ASSUME NEW q \in Requests PROVE RequestOK(q)'
    BY <1>6 DEF PutCreate, TypeOK, RequestOK, Replied
  <2>4. StoreOK' /\ FreshOK'
    BY <1>6, <2>1 DEF PutCreate, Write, StoreOK, FreshOK
  <2>5. \A e \in Executors : ExecutorOK(e)'
    BY <1>1, <1>6, ExecutorFrame DEF PutCreate
  <2> QED BY <2>2, <2>3, <2>4, <2>5
<1>7. CASE RequestUpdate(r)
  <2>1. /\ Good(rdoc[r], aop, asked')
        /\ asked \subseteq asked'
        /\ asked' \subseteq Requests
    BY <1>7 DEF RequestUpdate, RequestOK, Good, Sanctioned, Docs, TypeOK
  <2>2. TypeOK'
    BY <1>7, <2>1 DEF RequestUpdate, TypeOK, Write, Replied, Good
  <2>3. ASSUME NEW q \in Requests PROVE RequestOK(q)'
    BY <1>7 DEF RequestUpdate, TypeOK, RequestOK, Replied
  <2>4. \A d : Good(d, aop, asked) => Good(d, aop', asked')
    BY <1>7, <2>1, GoodStable DEF RequestUpdate
  <2>5. StoreOK' /\ FreshOK'
    BY <1>7, <2>1 DEF RequestUpdate, Write, StoreOK, FreshOK
  <2>6. \A e \in Executors : ExecutorOK(e)'
    BY <1>1, <2>4, ExecutorFrame
  <2> QED BY <2>2, <2>3, <2>5, <2>6
<1>8. CASE RequestEnd(r)
  <2>1. TypeOK' /\ \A q \in Requests : RequestOK(q)'
    BY <1>8 DEF RequestEnd, TypeOK, RequestOK
  <2> QED BY <1>2, <1>8, <2>1 DEF RequestEnd
<1>9. CASE PutRetry(r)
  <2>1. TypeOK' /\ \A q \in Requests : RequestOK(q)'
    BY <1>9 DEF PutRetry, TypeOK, RequestOK
  <2> QED BY <1>2, <1>9, <2>1 DEF PutRetry
<1> QED BY <1>3, <1>4, <1>5, <1>6, <1>7, <1>8, <1>9 DEF Request
===========================================================================
