SPECIFICATION Spec
CONSTANTS
  None = None
  i1 = i1
  i2 = i2
  w1 = w1
  w2 = w2
  Puts = {p1}
  Bodies = {"Registered", "Deleted"}
  Clusters = {c1, c2}
  Instances = {i1}
  Workers = {w1, w2}
  InstanceOf <- OneProcess
  MaxDequeueCount = 2
  LeaseTicks = 2
  DBErrors = FALSE
  SerialPuts = TRUE
  TimelyHeartbeats = TRUE
  LateCreates = FALSE
CHECK_DEADLOCK FALSE
SYMMETRY SymmetryOne
PROPERTY PickedUpOnlyIfHeartbeatFails
