----------------------------- MODULE MCPlans -----------------------------
(***************************************************************************)
(* That installations, deletions and deployments come to an end, for TLC:  *)
(* Installation with two workers, and Deployments with two control plane   *)
(* machines and two RP processes.  The two share no state, so in a         *)
(* behaviour only one of them moves.                                       *)
(***************************************************************************)
EXTENDS MCInstallation, Deployments

VARIABLE part   \* "installation" or "deployment"

planVars == <<vars, deployVars, part>>

MCTwoSubnets == <<"master", "worker">>
MCMasters == {"0", "1"}

\* A resource group whose installation has failed, and where nothing moves.
DeployRests ==
  /\ group = "cluster" /\ exists = Given
  /\ at = 1 /\ deployment = "none" /\ waiting = FALSE /\ ended = TRUE
  /\ failures = MaxFailures /\ refused = {}
  /\ start = [p \in Procs |-> 1]

PlansInit ==
  /\ part \in {"installation", "deployment"}
  /\ MCInit
  /\ IF part = "deployment" THEN works[w2] = c2 /\ DeployInit ELSE DeployRests

\* A step of one of the two, while the other rests.
InstallationMoves(A) == part = "installation" /\ A /\ UNCHANGED <<deployVars, part>>
DeploymentMoves(A) == part = "deployment" /\ A /\ UNCHANGED <<vars, part>>

PlansNext == InstallationMoves(Next) \/ DeploymentMoves(DeployNext)

\* Fairness and DeployFairness, of the one that moves.
PlansFairness ==
  /\ \A c \in Clusters : WF_planVars(InstallationMoves(DeploymentEnds(c)))
  /\ \A w \in Workers :
       /\ WF_planVars(InstallationMoves(Dequeue(w) /\ lease[works[w]] = None))
       /\ WF_planVars(InstallationMoves(Work(w)))
       /\ WF_planVars(InstallationMoves(Fail(w) /\ ~Holds(w)))
  /\ WF_planVars(DeploymentMoves(SubmitDeployment))
  /\ WF_planVars(DeploymentMoves(CreateSome))
  /\ WF_planVars(DeploymentMoves(CompleteDeployment))
  /\ WF_planVars(DeploymentMoves(PutBlob))
  /\ WF_planVars(DeploymentMoves(DeleteAndWait))
  /\ \A p \in Procs :
       WF_planVars(DeploymentMoves(StartStep(p))) /\ WF_planVars(DeploymentMoves(Exit(p)))

PlansSpec == PlansInit /\ [][PlansNext]_planVars /\ PlansFairness
===========================================================================
