SPECIFICATION MCSpec
CONSTANTS
  c1 = c1
  c2 = c2
  w1 = w1
  w2 = w2
  Clusters = {c1, c2}
  Workers = {w1, w2}
  Subnets <- MCSubnets
  None = None
  MaxCreates = 2
  MaxFaults = 2
  MaxEvents = 3
INVARIANT  PhasesLeaveTheirWork SucceededUsable 
PROPERTY DomainKept
CHECK_DEADLOCK FALSE
