SPECIFICATION Spec
CONSTANTS
  c1 = c1
  c2 = c2
  c3 = c3
  ip1 = ip1
  ip2 = ip2
  p1 = p1
  p2 = p2
  q1 = q1
  q2 = q2
  SvrFd = SvrFd
  NoConn = NoConn
  NoAddr = NoAddr
  Conns = {c1, c2}
  Fds = {f1}
  Ips = {ip1, ip2}
  Ports = {p1, p2}
  AddrOf <- MCAddrOf
  Cmds = {q1, q2}
  CmdOf <- MCCmdOf
  QCap = 2
  MaxSegments = 1
  ClientsMayClose = TRUE
  ReadMayFail = FALSE
  NetIoMayCrash = FALSE
  ContainersMayCrash = FALSE
INVARIANTS
  OwnResponse
