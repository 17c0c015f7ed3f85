SPECIFICATION Spec
CONSTANTS
  None = None
  i1 = i1
  i2 = i2
  w1 = w1
  w2 = w2
  r1 = r1
  r2 = r2
  r3 = r3
  Requests = {r1, r2, r3}
  Instances = {i1}
  Workers = {w1, w2}
  InstanceOf <- OneProcess
  MaxDequeueCount = 1
  DBErrors = FALSE
  SerialRequests = FALSE
  TimelyHeartbeats = FALSE
CHECK_DEADLOCK FALSE
SYMMETRY SymmetryOne
PROPERTY AcceptedOnlyIfTerminal
