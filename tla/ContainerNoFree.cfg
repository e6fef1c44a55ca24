SPECIFICATION Spec
CONSTANTS
  p1 = p1
  p2 = p2
  p3 = p3
  r1 = r1
  r2 = r2
  r3 = r3
  NoReq = NoReq
  Requests = {r1, r2}
  Procs = {p1, p2}
  SvcOf <- MCSvcOf
  CmdOf <- MCCmdOf
  SerialsOf <- MCSerialsOf2
  RetsOf <- MCRetsOf
  HandlerNum = 1
  MaxPid = 2
  QCap = 2
  ClientsAskAgain = FALSE
  MayCrash = FALSE
INVARIANTS
  ResponseFindsHandler
CHECK_DEADLOCK FALSE
