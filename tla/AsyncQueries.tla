--------------------------- MODULE AsyncQueries ---------------------------
(***************************************************************************)
(* A client that polls the operations it has been given the ids of, beside *)
(* the cluster's life of ClusterLifecycle.  Both queries, of the status    *)
(* and of the result of an operation, read two documents, first that of    *)
(* the operation and then that of the cluster, and anything may happen     *)
(* between the reads.                                                      *)
(***************************************************************************)
EXTENDS ClusterOperations

VARIABLES
  qpc,      \* "idle", or "status" or "result" between the reads of a query
  qop,      \* the operation of the current or else of the last query
  qdoc,     \* the copy of its document the current query has read
  answer    \* the answer of the last query: "running", the initial
            \* provisioningState or 202; "NoContent", 204; or an outcome,
            \* that of the status or of the cluster the result shows

query == <<qpc, qop, qdoc, answer>>
qvars == <<vars, query>>

QInit ==
  /\ Init
  /\ qpc = "idle"
  /\ qop = None
  /\ qdoc = None
  /\ answer = None

\* The first read.  Location and Azure-AsyncOperation are in the reply that
\* accepts the request, so a client polls no other operation.
ReadOperation(r) ==
  /\ qpc = "idle"
  /\ rpc[r] = "accepted"
  /\ qpc' \in {"status", "result"}
  /\ qop' = r
  /\ qdoc' = aop[r]
  /\ answer' = None

Reply(a) ==
  /\ qpc' = "idle"
  /\ qdoc' = None
  /\ answer' = a
  /\ UNCHANGED qop

\* Mutant: the status is that of the operation's document at any time.
ReadCluster_NoMask ==
  \/ /\ qpc = "status"
     /\ Reply(IF qdoc.provisioningState \in NonTerminal
              THEN "running" ELSE qdoc.provisioningState)
  \/ /\ qpc = "result"
     /\ Reply(IF ~Visible(qop) THEN "running"
              ELSE IF qdoc.openShiftCluster = None THEN "NoContent"
              ELSE qdoc.openShiftCluster)

\* The second read, and the answer.
ReadCluster ==
  \/ /\ qpc = "status"
     /\ Reply(IF ~Visible(qop) \/ qdoc.provisioningState \in NonTerminal
              THEN "running" ELSE qdoc.provisioningState)
  \/ /\ qpc = "result"
     /\ Reply(IF ~Visible(qop) THEN "running"
              ELSE IF qdoc.openShiftCluster = None THEN "NoContent"
              ELSE qdoc.openShiftCluster)

\* Either read fails: the client gets a 500 and knows nothing new.
QueryFail ==
  /\ DBErrors
  /\ qpc # "idle"
  /\ Reply(None)

Query == \/ \E r \in Requests : ReadOperation(r)
         \/ ReadCluster
         \/ QueryFail

QNext == \/ Next /\ UNCHANGED query
         \/ Query /\ UNCHANGED vars

QSpec == QInit /\ [][QNext]_qvars

---------------------------------------------------------------------------
(* Properties. *)

\* asyncoperationsstatus_get.go:44, asyncoperationresult_get.go:46: "don't
\* give away the final operation status until it's committed to the
\* database".  When a client has been told of an outcome, or that there is
\* no content, the operation has ended: the document no longer points at it,
\* and never does again.
AnsweredOnceEnded ==
  answer \in Terminal \cup {"NoContent"} => Visible(qop)

\* The same comment, of the outcome itself: what either query has answered
\* is the status that the operation has from then on, whatever happened
\* between the two reads.  This needs that nobody reports two outcomes of one
\* operation: the query may have read the first, and seen the document when
\* the second was committed.
AnswerStands ==
  answer \in Terminal => Status(qop) = answer
===========================================================================
