SPECIFICATION PlansSpec
CONSTANTS
  c1 = c1
  c2 = c2
  w1 = w1
  w2 = w2
  Clusters = {c1, c2}
  Workers = {w1, w2}
  Subnets <- MCTwoSubnets
  None = None
  MaxCreates = 1
  MaxFaults = 1
  MaxEvents = 2
  Masters <- MCMasters
  Visibility = "Public"
  Procs = {p1, p2}
  MaxFailures = 1
CHECK_DEADLOCK FALSE
INVARIANT OrderSuffices
INVARIANT InstalledWithoutBootstrap
PROPERTY OperationEnds
PROPERTY EveryProcessServes
PROPERTY PlanEnds
