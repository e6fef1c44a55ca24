SPECIFICATION Spec
CONSTANTS
  p1 = p1
  p2 = p2
  p3 = p3
  r1 = r1
  r2 = r2
  r3 = r3
  NoReq = NoReq
  Requests = {r1, r2, r3}
  Procs = {p1, p2, p3}
  SvcOf <- MCSvcOf
  CmdOf <- MCCmdOf
  SerialsOf <- MCSerialsOf
  RetsOf <- MCRetsOf
  HandlerNum = 2
  MaxPid = 4
  QCap = 2
  ClientsAskAgain = FALSE
  MayCrash = TRUE
INVARIANTS
  TypeOK
  HandlersPartition
  ResponseFindsHandler
  ResumesOwnRequest
  OneNestedCall
  AnsweredOnce
  AnswerIsComplete
PROPERTIES
  ImplementsService
CHECK_DEADLOCK FALSE
