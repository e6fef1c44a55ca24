SPECIFICATION Spec
CONSTANTS
  p1 = p1
  p2 = p2
  k1 = k1
  k2 = k2
  NoQueue = NoQueue
  Procs = {p1, p2}
  Failing = {p2}
  Order <- MCOrder
  QCap = 2
  MaxQueues = 4
  MaxExits = 2
INVARIANTS
  CrossingNeedsFailedInit
  OpenedIsSized
CHECK_DEADLOCK FALSE
