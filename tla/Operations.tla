---------------------------- MODULE Operations ----------------------------
(***************************************************************************)
(* What the RP promises a client: the long-running operations on a         *)
(* cluster follow one another, each ends once, and what it reports from    *)
(* then on is what became of the cluster.                                  *)
(***************************************************************************)
CONSTANT Ops

VARIABLES
  state,    \* the cluster: "absent" or a provisioningState
  status    \* what each operation reports: "none", "running" or an outcome

vars == <<state, status>>

Outcomes == {"Succeeded", "Failed"}

Init ==
  /\ state = "absent"
  /\ status = [o \in Ops |-> "none"]

\* PUT creates the cluster, PUT or PATCH updates and DELETE deletes it.
Start(o) ==
  /\ status[o] = "none"
  /\ \/ state = "absent" /\ state' = "Creating"
     \/ state \in Outcomes /\ state' \in {"Updating", "Deleting"}
  /\ status' = [status EXCEPT ![o] = "running"]

End(o) ==
  /\ status[o] = "running"
  /\ \E s \in Outcomes :
       /\ status' = [status EXCEPT ![o] = s]
       /\ state' = IF state = "Deleting" /\ s = "Succeeded"
                    THEN "absent" ELSE s

Next == \E o \in Ops : Start(o) \/ End(o)

Spec == Init /\ [][Next]_vars
===========================================================================
