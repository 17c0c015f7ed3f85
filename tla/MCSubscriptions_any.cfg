SPECIFICATION SpecRegistered
CONSTANTS
  None = None
  i1 = i1
  i2 = i2
  w1 = w1
  w2 = w2
  Puts = {p1, p2}
  Bodies = {"Registered", "Deleted"}
  Clusters = {c1}
  Instances = {i1, i2}
  Workers = {w1, w2}
  InstanceOf <- TwoProcesses
  MaxDequeueCount = 1
  LeaseTicks = 1
  DBErrors = FALSE
  SerialPuts = TRUE
  TimelyHeartbeats = FALSE
  LateCreates = FALSE
CHECK_DEADLOCK FALSE
SYMMETRY SymmetryTwo
PROPERTY DeletedIsFinal
PROPERTY DoneMeansSwept
