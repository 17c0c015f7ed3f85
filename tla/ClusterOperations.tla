------------------------- MODULE ClusterOperations -------------------------
(***************************************************************************)
(* ClusterLifecycle implements Operations, as long as heartbeats are       *)
(* timely and clients send one mutating request at a time.  An operation   *)
(* is under way while the document points at it, which is when the queries *)
(* of its status hide what its own document says.                          *)
(***************************************************************************)
EXTENDS ClusterLifecycle

\* The state of the cluster.
State == IF doc = None THEN "absent" ELSE doc.provisioningState

\* What a status query answers.  An operation that no document has pointed
\* at, for which nobody has been given an answer yet, still has its first
\* state.
Status(r) ==
  IF ~Visible(r) THEN "running"
  ELSE IF aop[r] = None \/ aop[r].provisioningState \in NonTerminal THEN "none"
  ELSE aop[r].provisioningState

Promise == INSTANCE Operations WITH
  Ops <- Requests, state <- State, status <- [r \in Requests |-> Status(r)]

\* The RP keeps the promise of Operations: operations do not overlap, each
\* ends once, with the outcome the cluster's document has, and its answer
\* does not change afterwards.
ImplementsOperations == Promise!Spec

===========================================================================
