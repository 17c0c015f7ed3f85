SPECIFICATION ProgressSpec
CONSTANTS
  None = None
  i1 = i1
  i2 = i2
  w1 = w1
  w2 = w2
  r1 = r1
  r2 = r2
  r3 = r3
  p1 = p1
  p2 = p2
  c1 = c1
  c2 = c2
  Requests = {r1, r2}
  Instances = {i1, i2}
  Workers = {w1, w2}
  InstanceOf <- TwoProcesses
  MaxDequeueCount = 1
  DBErrors = FALSE
  SerialRequests = TRUE
  TimelyHeartbeats = TRUE
CHECK_DEADLOCK FALSE
PROPERTY Progress
PROPERTY OperationsComplete
PROPERTY SweepCompletes
