SPECIFICATION Spec
CONSTANTS
  r1 = r1
  r2 = r2
  Procs <- MCRequests
  Requests <- MCRequests
  Mixes <- MCMixes
  None = None
  NoConn = NoConn
  MaxConnections = 0
  MaxAttempt = 2
  MaxFaults = 1
INVARIANT TypeOK
INVARIANT StopsItsOwn
INVARIANT NothingForgotten
INVARIANT RunOnce
INVARIANT AnswersAreTrue
CHECK_DEADLOCK FALSE
PROPERTY StopEnds
PROPERTY RequestsServed
