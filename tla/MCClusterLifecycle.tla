------------------------ MODULE MCClusterLifecycle ------------------------
(***************************************************************************)
(* Small instances of ClusterLifecycle for TLC.                            *)
(***************************************************************************)
EXTENDS ClusterLifecycle, TLC

CONSTANTS i1, i2, w1, w2, r1, r2, r3

\* Two worker slots in one RP process, or one in each of two.
OneProcess   == (w1 :> i1) @@ (w2 :> i1)
TwoProcesses == (w1 :> i1) @@ (w2 :> i2)

\* Requests are interchangeable; so are the worker slots of one process.
SymmetryRequests == Permutations(Requests)
SymmetryOne      == SymmetryRequests \cup Permutations(Workers)

\* So are two processes, each with its worker slot.
SymmetryTwo ==
  SymmetryRequests \cup {(i1 :> i2) @@ (i2 :> i1) @@ (w1 :> w2) @@ (w2 :> w1)}

\* A later start: request r1 has created the cluster, everything is at rest.
Created ==
  /\ doc = [NewDocument(r1) EXCEPT !.provisioningState = "Succeeded"]
  /\ fresh = {}
  /\ aop = [r \in Requests |->
       IF r # r1 THEN None
       ELSE [provisioningState |-> "Succeeded", error |-> FALSE,
             openShiftCluster |-> "Succeeded"]]
  /\ rpc = [r \in Requests |-> IF r = r1 THEN "accepted" ELSE "idle"]
  /\ rdoc = [r \in Requests |-> None]
  /\ up = Instances
  /\ pc = [e \in Executors |-> "idle"]
  /\ wdoc = [e \in Executors |-> None]
  /\ buf = [e \in Executors |-> None]
  /\ abuf = [e \in Executors |-> None]
  /\ outcome = [e \in Executors |-> None]
  /\ hb = [e \in Executors |-> "off"]
  /\ hbuf = [e \in Executors |-> None]
  /\ cancelled = [e \in Executors |-> FALSE]
  /\ asked = {}

SpecCreated == Created /\ [][Next]_vars

SymmetryCreated ==
  Permutations(Requests \ {r1}) \cup {(i1 :> i2) @@ (i2 :> i1) @@ (w1 :> w2) @@ (w2 :> w1)}
===========================================================================
