SPECIFICATION PartsSpec
CONSTANTS
  MaxWorkers = 2
  Goroutines = {k1, k2, k3, k4}
  Requests = {q1, q2}
  NumberOfProbes = 2
  GraceTime = 4
  ShutdownTime = 13
  StopTime = 18
  ReadTimeout = 2
  WriteTimeout = 12
  Certs = {c1, c2}
  MaxAge = 2
  Inputs <- MCInputs
  None = None
  NDocs = 4
  Others = {2}
  MaxRetries = 2
  NSets = 3
  Counts = {0, 1, 3}
  Steps = 2
  MaxEdits = 1
  Nil = Nil
  Copiers = {p1, p2}
  Nodes <- MCNodes
  Minimum <- MCMinimum
  Nightly = "r3"
  Tags <- MCTags
  NoImage = NoImage
CHECK_DEADLOCK FALSE
INVARIANT WorkersBounded
INVARIANT StopsTakingWork
 
INVARIANT ExitsInTime
INVARIANT WithdrawnBounded
INVARIANT StoredConsistent
INVARIANT ReadThenWrite
INVARIANT ListExact
INVARIANT Balanced
INVARIANT UpdatedWhenDone
INVARIANT MirroredOrError
PROPERTY WakesUp
PROPERTY Stops
PROPERTY ReadyAgain
 
 
PROPERTY MirrorEnds
