SPECIFICATION FairSpec
CONSTANTS
  p1 = p1
  p2 = p2
  p3 = p3
  r1 = r1
  r2 = r2
  r3 = r3
  NoReq = NoReq
  Requests = {r1, r3}
  Procs = {p1, p2}
  SvcOf <- MCSvcOf
  CmdOf <- MCCmdOf
  SerialsOf <- MCNoSerials
  RetsOf <- MCRetsOf
  HandlerNum = 1
  MaxPid = 2
  QCap = 1
  ClientsAskAgain = FALSE
  MayCrash = FALSE
PROPERTIES
  SuspendedIsResumed
