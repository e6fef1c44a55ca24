SPECIFICATION Spec
CONSTANTS
  c1 = c1
  c2 = c2
  c3 = c3
  ip1 = ip1
  ip2 = ip2
  p1 = p1
  p2 = p2
  q1 = q1
  q2 = q2
  SvrFd = SvrFd
  NoConn = NoConn
  NoAddr = NoAddr
  Conns = {c1, c2}
  Fds = {f1, f2}
  Ips = {ip1, ip2}
  Ports = {p1, p2}
  AddrOf <- MCAddrOf
  Cmds = {q1, q2}
  CmdOf <- MCCmdOf
  QCap = 1
  MaxSegments = 2
  ClientsMayClose = TRUE
  ReadMayFail = TRUE
  NetIoMayCrash = TRUE
  ContainersMayCrash = TRUE
INVARIANTS
  ArmedOnlyWhenAnswered
  EventsAreCurrent
  NoMissedEdge
