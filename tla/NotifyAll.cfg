SPECIFICATION FairSpec
CONSTANTS
  p1 = p1
  p2 = p2
  p3 = p3
  Procs = {p1, p2, p3}
  QLen = 2
  MaxOpen = 2
  MaxCalls = 3
INVARIANTS
  FullQueueIsNotified
  LeaksOnlyWhileDown
PROPERTIES
  NotifyReturns
