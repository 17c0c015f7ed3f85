----------------------------- MODULE MCProgress -----------------------------
(***************************************************************************)
(* That operations and sweeps end, for TLC: ClusterLifecycle with two RP   *)
(* processes, and Subscriptions with a sweep over two clusters.  The two   *)
(* share nothing here, and in a behaviour only one of them moves; the      *)
(* other rests in its initial state, in which no action is enabled that    *)
(* fairness would demand.                                                  *)
(***************************************************************************)
EXTENDS MCClusterLifecycle

CONSTANTS p1, p2, c1, c2

VARIABLES
  part,   \* "lifecycle" or "sweep"
  s_sub, s_fresh, s_ppc, s_pdoc, s_clusters, s_creating, s_up, s_pc, s_buf, s_todo, s_cbuf, s_fin,
  s_hb, s_hbuf, s_cancelled, s_enqueued

Sweep == INSTANCE Subscriptions WITH
  Puts <- {p1, p2}, Bodies <- {"Registered", "Deleted"}, Clusters <- {c1, c2},
  Instances <- {i1}, Workers <- {w1}, InstanceOf <- w1 :> i1, MaxDequeueCount <- 1, LeaseTicks <- 1,
  DBErrors <- TRUE, SerialPuts <- TRUE, TimelyHeartbeats <- FALSE, LateCreates <- FALSE,
  sub <- s_sub, fresh <- s_fresh, ppc <- s_ppc, pdoc <- s_pdoc, clusters <- s_clusters,
  creating <- s_creating, up <- s_up, pc <- s_pc, buf <- s_buf, todo <- s_todo, cbuf <- s_cbuf,
  fin <- s_fin, hb <- s_hb, hbuf <- s_hbuf, cancelled <- s_cancelled, enqueued <- s_enqueued

sweepVars == <<s_sub, s_fresh, s_ppc, s_pdoc, s_clusters, s_creating, s_up, s_pc, s_buf, s_todo, s_cbuf,
               s_fin, s_hb, s_hbuf, s_cancelled, s_enqueued>>
allVars == <<vars, sweepVars, part>>

ProgressInit ==
  /\ part \in {"lifecycle", "sweep"}
  /\ Init /\ Sweep!Init

ProgressNext ==
  \/ part = "lifecycle" /\ Next /\ UNCHANGED <<sweepVars, part>>
  \/ part = "sweep" /\ Sweep!Next /\ UNCHANGED <<vars, part>>

ProgressSpec ==
  /\ ProgressInit /\ [][ProgressNext]_allVars
  /\ Fairness /\ Sweep!Fairness /\ Sweep!Calm

---------------------------------------------------------------------------
\* The sweep of a deleted subscription ends (Subscriptions).
SweepCompletes == Sweep!SweepCompletes
===========================================================================
