SPECIFICATION PollSpec
CONSTANTS
  None = None
  i1 = i1
  i2 = i2
  w1 = w1
  w2 = w2
  r1 = r1
  r2 = r2
  r3 = r3
  Requests = {r1, r2, r3}
  Instances = {i1, i2}
  Workers = {w1, w2}
  InstanceOf <- TwoProcesses
  MaxDequeueCount = 1
  DBErrors = TRUE
  SerialRequests = TRUE
  TimelyHeartbeats = TRUE
CHECK_DEADLOCK FALSE
SYMMETRY SymmetryTwo
INVARIANT OneWorker
PROPERTY ImplementsOperations
INVARIANT AnsweredOnceEnded
