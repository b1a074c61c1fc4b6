CONSTANTS
  MaxCtx = 3
  MaxTime = 1
  MaxDelay = 2
  Deadlines = {1, 4}
  Handles = {a1}
  Null = Null
  Objects = {o1}
  MaxClock = 4
  MaxStarts = 2
  Delays = {0, 1, 4}
  LongestDelay = 3
  MaxReads = 2
SPECIFICATION RuntimeSpec
CHECK_DEADLOCK FALSE
INVARIANTS
  TreeConsistent
  DeadlineExact
  StopIsFinal
  FiresWhenDue
  RequestReleased
PROPERTIES
  CauseInherited
  CancellationArrives
  CancelledReturns
