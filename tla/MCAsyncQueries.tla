-------------------------- MODULE MCAsyncQueries --------------------------
(***************************************************************************)
(* Small instances of AsyncQueries for TLC.                                *)
(***************************************************************************)
EXTENDS MCClusterLifecycle, AsyncQueries

VARIABLE polling   \* whether there is a client that polls

\* Beside a client that polls one request fewer is sent.
PollNext ==
  \/ /\ Next
     /\ polling => \E r \in Requests : rpc'[r] = "idle"
     /\ UNCHANGED <<query, polling>>
  \/ polling /\ Query /\ UNCHANGED <<vars, polling>>

PollInit == QInit /\ polling \in BOOLEAN

PollSpec == PollInit /\ [][PollNext]_<<qvars, polling>>
===========================================================================
