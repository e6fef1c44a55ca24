------------------------------- MODULE NetIo -------------------------------
(***************************************************************************)
(* The netio process: one thread running CReactor::RunEventLoop over an    *)
(* edge-triggered epoll instance, with CTcpNetHandler for the sockets and  *)
(* CNetIOUserEventHandler for the responses coming back from the           *)
(* containers on the "back" message queue.                                 *)
(*                                                                         *)
(* A round of the loop is Wait (epoll_wait), then Fire (OnEventFire: at    *)
(* most one response), then one handler per harvested event.  Clients and  *)
(* containers take steps between any two of these.                         *)
(*                                                                         *)
(* A request and its answer are identified with the connection the request *)
(* came from, so that "whose answer is in this buffer" can be asked.       *)
(***************************************************************************)
EXTENDS Naturals, Sequences, FiniteSets

CONSTANTS Conns,              \* client connections, each opened at most once
          Fds,                \* descriptors accept() may return
          SvrFd,              \* the listening descriptor, m_iSvrFd
          NoConn,             \* "no connection"
          Ips, Ports,         \* what client addresses are made of
          NoAddr,             \* the address of a slot never used
          AddrOf,             \* the address each connection comes from
          Cmds,               \* commands, that is request queues
          CmdOf,              \* the command each connection asks for
          QCap,               \* messages a queue holds before msgsnd fails
          MaxSegments,        \* separate writes a request is sent in
          ClientsMayClose,    \* may a client give up before its answer?
          ReadMayFail,        \* may read() on a readable socket fail?
          ContainersMayCrash, \* may a container die holding a request?
          NetIoMayCrash       \* may netio itself die and be started again?

\* sockaddr_in of a client; the family is AF_INET throughout.
Addrs == [ip : Ips, port : Ports]

ASSUME NetIoAssumption ==
  /\ SvrFd \notin Fds
  /\ NoConn \notin Conns
  /\ NoAddr \notin Addrs
  /\ AddrOf \in [Conns -> Addrs]
  /\ CmdOf \in [Conns -> Cmds]
  /\ QCap \in Nat \ {0}
  /\ MaxSegments \in Nat \ {0}
  /\ ClientsMayClose \in BOOLEAN
  /\ ReadMayFail \in BOOLEAN
  /\ ContainersMayCrash \in BOOLEAN
  /\ NetIoMayCrash \in BOOLEAN

VARIABLES
  \* the network and the clients
  link,     \* link[c]: "new", "backlog", "open" or "closed"
  backlog,  \* connections waiting to be accepted, oldest first
  sent,     \* sent[c]: segments the client has written
  rx,       \* rx[c]: segments in the receive buffer, not read yet
  fin,      \* fin[c]: the client has closed its end
  got,      \* got[c]: the connection whose answer c's client was sent
  \* descriptors and epoll, in the kernel
  fdConn,   \* fdConn[f]: the connection f stands for, or NoConn
  reg,      \* reg[f]: "none", or the mask registered: "in" or "out"
  edge,     \* edge[f]: f is on the epoll ready list
  lsnEdge,  \* the listening descriptor is on the ready list
  \* the reactor
  slot,     \* m_arrTcpSock[f]: event flag and client address
  watch,    \* m_vecFds, the descriptors the reactor believes it watches
  msgBuf,   \* m_arrMsg[f]: whose answer is in f's send buffer
  batch,    \* m_arrEpollEvents: harvested events not processed yet
  pc,       \* "wait", "fire", "events" or "accept"
  \* the message queues and the containers
  reqQ,     \* reqQ[q]: requests for the containers of command q
  serving,  \* requests the containers are working on
  backQ     \* responses on their way to netio

clientVars == <<link, backlog, sent, rx, fin, got>>
kernelVars == <<fdConn, reg, edge, lsnEdge>>
reactorVars == <<slot, watch, msgBuf, batch, pc>>
queueVars == <<reqQ, serving, backQ>>
vars == <<clientVars, kernelVars, reactorVars, queueVars>>

-----------------------------------------------------------------------------
Flags == {"NONE_FLAG", "TCP_SERVER_READ", "TCP_SERVER_SEND"}

\* stTcpSockItem of an accepted socket.  Its fd field is f itself unless
\* Reset has zeroed it together with the flag.
SockItem == [flag : Flags, addr : Addrs \cup {NoAddr}]

\* CCmd as netio fills it in: where the answer must go, and whose it is.
Msg == [fd : Fds, addr : Addrs, conn : Conns]

ListenEvent == [fd |-> SvrFd, conn |-> NoConn, hup |-> FALSE]
Event == [fd : Fds, conn : Conns, hup : BOOLEAN] \cup {ListenEvent}

Elems(s) == {s[i] : i \in DOMAIN s}

Init ==
  /\ link = [c \in Conns |-> "new"]
  /\ backlog = <<>>
  /\ sent = [c \in Conns |-> 0]
  /\ rx = [c \in Conns |-> 0]
  /\ fin = [c \in Conns |-> FALSE]
  /\ got = [c \in Conns |-> NoConn]
  /\ fdConn = [f \in Fds |-> NoConn]
  /\ reg = [f \in Fds |-> "none"]
  /\ edge = [f \in Fds |-> FALSE]
  /\ lsnEdge = FALSE
  /\ slot = [f \in Fds |-> [flag |-> "NONE_FLAG", addr |-> NoAddr]]
  /\ watch = {}
  /\ msgBuf = [f \in Fds |-> NoConn]
  /\ batch = {}
  /\ pc = "wait"
  /\ reqQ = [q \in Cmds |-> <<>>]
  /\ serving = {}
  /\ backQ = <<>>

-----------------------------------------------------------------------------
(* The clients (tcpCmd): connect, write one request, read one answer, or   *)
(* give up after the receive timeout and close.                            *)

\* The kernel puts c in the backlog and the listening socket becomes ready.
Connect(c) ==
  /\ link[c] = "new"
  /\ link' = [link EXCEPT ![c] = "backlog"]
  /\ backlog' = Append(backlog, c)
  /\ lsnEdge' = TRUE
  /\ UNCHANGED <<sent, rx, fin, got, fdConn, reg, edge, reactorVars, queueVars>>

\* Arriving data is an edge for the descriptors registered for EPOLLIN.
Send(c) ==
  /\ link[c] \in {"backlog", "open"}
  /\ ~fin[c]
  /\ sent[c] < MaxSegments
  /\ sent' = [sent EXCEPT ![c] = @ + 1]
  /\ rx' = [rx EXCEPT ![c] = @ + 1]
  /\ edge' = [f \in Fds |-> edge[f] \/ (fdConn[f] = c /\ reg[f] = "in")]
  /\ UNCHANGED <<link, backlog, fin, got, fdConn, reg, lsnEdge,
                 reactorVars, queueVars>>

\* The FIN is an edge whatever the mask, EPOLLRDHUP being in both.
Close(c) ==
  /\ ClientsMayClose
  /\ link[c] \in {"backlog", "open"}
  /\ ~fin[c]
  /\ fin' = [fin EXCEPT ![c] = TRUE]
  /\ edge' = [f \in Fds |-> edge[f] \/ (fdConn[f] = c /\ reg[f] # "none")]
  /\ UNCHANGED <<link, backlog, sent, rx, got, fdConn, reg, lsnEdge,
                 reactorVars, queueVars>>

-----------------------------------------------------------------------------
(* CReactor's watch list and epoll.                                        *)

\* What epoll_wait finds when it polls f again before reporting it.
Ready(f) ==
  /\ reg[f] # "none"
  /\ reg[f] = "out" \/ rx[fdConn[f]] > 0 \/ fin[fdConn[f]]

\* The end of AddToWatchList: EPOLL_CTL_MOD when the descriptor is in
\* m_vecFds, else EPOLL_CTL_ADD.  Either fails when the kernel's table does
\* not agree; either queues f at once when it is ready for the mask.
EpollCtl(f, mask, c) ==
  LET known == IF f \in watch THEN reg[f] # "none"
                              ELSE reg[f] = "none" /\ c # NoConn
  IN  IF known
      THEN /\ reg' = [reg EXCEPT ![f] = mask]
           /\ edge' = [edge EXCEPT ![f] = \/ @
                                          \/ mask = "out"
                                          \/ rx[c] > 0
                                          \/ fin[c]]
           /\ watch' = watch \cup {f}
      ELSE UNCHANGED <<reg, edge, watch>>

\* Mutant: the socket check compares no ports, only that the slot is used.
SameClientAnyAddress(f, addr) == slot[f].flag # "NONE_FLAG"

\* Mutant: the caller passes the table's own entry (the commented-out call of
\* OnEventFire), which is refused for a descriptor already watched.
SameClientOwnEntry(f, addr) == slot[f].flag # "NONE_FLAG" /\ f \notin watch

\* The socket check of AddToWatchList for a caller's own item: the slot is
\* in use and the ports agree.  The IPs are compared as inet_ntoa's texts, and
\* its second call overwrites the text of the first: they are always equal.
SameClient(f, addr) ==
  /\ slot[f].flag # "NONE_FLAG"
  /\ slot[f].addr.port = addr.port

\* AddToWatchList(fd, TCP_SERVER_READ, &m_arrTcpSock[fd]) after the slot was
\* filled: the check on the table's own entry only passes for a descriptor
\* that is not in m_vecFds.
WatchForRead(f, c) ==
  IF f \notin watch THEN EpollCtl(f, "in", c)
                    ELSE UNCHANGED <<reg, edge, watch>>

\* AddToWatchList(fd, TCP_SERVER_SEND, &stSock): skip unless the socket
\* check passes, else overwrite the slot and ask for EPOLLOUT.
WatchForSend(f, addr) ==
  IF SameClient(f, addr)
  THEN /\ slot' = [slot EXCEPT ![f] = [flag |-> "TCP_SERVER_SEND",
                                       addr |-> addr]]
       /\ EpollCtl(f, "out", fdConn[f])
  ELSE UNCHANGED <<slot, reg, edge, watch>>

\* CheckEvents: epoll_wait takes the whole ready list (at most 100 entries,
\* more than Fds holds here) and reports what is still ready.
Wait ==
  /\ pc = "wait"
  /\ batch' = {[fd |-> f, conn |-> fdConn[f], hup |-> fin[fdConn[f]]] :
                 f \in {g \in Fds : edge[g] /\ Ready(g)}}
              \cup (IF lsnEdge /\ backlog # <<>> THEN {ListenEvent} ELSE {})
  /\ edge' = [f \in Fds |-> FALSE]
  /\ lsnEdge' = FALSE
  /\ pc' = "fire"
  /\ UNCHANGED <<clientVars, fdConn, reg, slot, watch, msgBuf, queueVars>>

\* Mutant: the answer is written at once when the socket is still the same,
\* without waiting for EPOLLOUT, and the descriptor closed as DoSend does.
OnEventFireSends ==
  IF backQ = <<>> \/ ~SameClient(Head(backQ).fd, Head(backQ).addr)
  THEN /\ backQ' = IF backQ = <<>> THEN backQ ELSE Tail(backQ)
       /\ UNCHANGED <<kernelVars, slot, watch, msgBuf>>
  ELSE LET f == Head(backQ).fd
       IN  /\ backQ' = Tail(backQ)
           /\ slot' = [slot EXCEPT ![f].flag = "NONE_FLAG"]
           /\ watch' = watch \ {f}
           /\ reg' = [reg EXCEPT ![f] = "none"]
           /\ edge' = [edge EXCEPT ![f] = FALSE]
           /\ fdConn' = [fdConn EXCEPT ![f] = NoConn]
           /\ UNCHANGED <<lsnEdge, msgBuf>>

\* ProcessEvent calls OnEventFire before it looks at the events: at most one
\* response is taken; its text goes to the send buffer of the descriptor it
\* names, then the watch list decides whether the socket is still the same.
OnEventFire ==
  IF backQ = <<>>
  THEN UNCHANGED <<kernelVars, slot, watch, msgBuf, backQ>>
  ELSE LET m == Head(backQ)
       IN  /\ backQ' = Tail(backQ)
           /\ msgBuf' = [msgBuf EXCEPT ![m.fd] = m.conn]
           /\ WatchForSend(m.fd, m.addr)
           /\ UNCHANGED <<fdConn, lsnEdge>>

\* Mutant: responses are only looked at in a round with socket events.
FireOnlyWithEvents ==
  /\ pc = "fire"
  /\ IF batch = {} THEN UNCHANGED <<kernelVars, slot, watch, msgBuf, backQ>>
                   ELSE OnEventFire
  /\ pc' = "events"
  /\ UNCHANGED <<clientVars, batch, reqQ, serving>>

Fire ==
  /\ pc = "fire"
  /\ OnEventFire
  /\ pc' = "events"
  /\ UNCHANGED <<clientVars, batch, reqQ, serving>>

\* Mutant: a handler's error makes ProcessEvent return with events unread.
EndRoundEarly ==
  /\ pc = "events"
  /\ batch' = {}
  /\ pc' = "wait"
  /\ UNCHANGED <<clientVars, kernelVars, slot, watch, msgBuf, queueVars>>

\* All events processed: m_iEpollSucc = 0, back to epoll_wait.
EndRound ==
  /\ pc = "events"
  /\ batch = {}
  /\ pc' = "wait"
  /\ UNCHANGED <<clientVars, kernelVars, slot, watch, msgBuf, batch, queueVars>>

-----------------------------------------------------------------------------
(* CTcpNetHandler.  The order of the events in m_arrEpollEvents is the     *)
(* kernel's; here any event of the batch may be next.  An event whose slot *)
(* has neither flag would be dropped by the code ("else" of ProcessEvent); *)
(* EventsAreCurrent states that there is none.                             *)

\* close(): the kernel forgets the descriptor and its epoll registration.
CloseFd(f) ==
  /\ link' = [link EXCEPT ![fdConn[f]] = "closed"]
  /\ rx' = [rx EXCEPT ![fdConn[f]] = 0]
  /\ fdConn' = [fdConn EXCEPT ![f] = NoConn]
  /\ reg' = [reg EXCEPT ![f] = "none"]
  /\ edge' = [edge EXCEPT ![f] = FALSE]
  /\ UNCHANGED <<backlog, sent, fin, lsnEdge>>

\* Mutant: the descriptor is closed but stays in m_vecFds.
RemoveFromWatchListForgotten(f) == watch' = watch

\* RemoveFromWatchList returns early when EPOLL_CTL_DEL fails.
RemoveFromWatchList(f) ==
  watch' = IF reg[f] = "none" THEN watch ELSE watch \ {f}

\* DoClose: reset the slot (its address stays), unwatch, close.
DoClose(f) ==
  /\ slot' = [slot EXCEPT ![f].flag = "NONE_FLAG"]
  /\ RemoveFromWatchList(f)
  /\ CloseFd(f)

\* EPOLLRDHUP wins over everything else the event says.
CloseEvent(e) ==
  /\ pc = "events"
  /\ e.hup
  /\ slot[e.fd].flag # "NONE_FLAG"
  /\ DoClose(e.fd)
  /\ batch' = batch \ {e}
  /\ UNCHANGED <<got, msgBuf, pc, queueVars>>

\* DoConn accepts until EAGAIN; the loop is the pc value "accept".
AcceptEvent(e) ==
  /\ pc = "events"
  /\ e = ListenEvent
  /\ batch' = batch \ {e}
  /\ pc' = "accept"
  /\ UNCHANGED <<clientVars, kernelVars, slot, watch, msgBuf, queueVars>>

AcceptOne(f) ==
  /\ pc = "accept"
  /\ backlog # <<>>
  /\ fdConn[f] = NoConn
  /\ LET c == Head(backlog)
     IN  /\ backlog' = Tail(backlog)
         /\ link' = [link EXCEPT ![c] = "open"]
         /\ fdConn' = [fdConn EXCEPT ![f] = c]
         /\ slot' = [slot EXCEPT ![f] = [flag |-> "TCP_SERVER_READ",
                                         addr |-> AddrOf[c]]]
         /\ WatchForRead(f, c)
  /\ UNCHANGED <<sent, rx, fin, got, lsnEdge, msgBuf, batch, pc, queueVars>>

\* Mutant: DoConn accepts as for a level-triggered epoll, and may return
\* with connections left in the backlog.
AcceptEndEarly ==
  /\ pc = "accept"
  /\ pc' = "events"
  /\ UNCHANGED <<clientVars, kernelVars, slot, watch, msgBuf, batch, queueVars>>

\* EAGAIN, or EMFILE: both return, the second with connections left behind.
AcceptEnd ==
  /\ pc = "accept"
  /\ backlog = <<>> \/ \A f \in Fds : fdConn[f] # NoConn
  /\ pc' = "events"
  /\ UNCHANGED <<clientVars, kernelVars, slot, watch, msgBuf, batch, queueVars>>

\* Mutant: a full queue takes one more.
PutMsgUnbounded(q, m) == Append(q, m)

\* Mutant: a queue refuses a message while it has room for one more.
PutMsgOneLess(q, m) == IF Len(q) + 1 < QCap THEN Append(q, m) ELSE q

\* PutMsg is IPC_NOWAIT: a full queue refuses the message.
PutMsg(q, m) == IF Len(q) < QCap THEN Append(q, m) ELSE q

\* Mutant: DoRecv asks for EPOLLOUT itself instead of leaving that to the
\* arrival of the response.
DoRecvArms(f) ==
  LET c == fdConn[f]
      m == [fd |-> f, addr |-> slot[f].addr, conn |-> c]
  IN  /\ rx[c] > 0
      /\ rx' = [rx EXCEPT ![c] = 0]
      /\ reqQ' = [reqQ EXCEPT ![CmdOf[c]] = PutMsg(@, m)]
      /\ slot' = [slot EXCEPT ![f].flag = "TCP_SERVER_SEND"]
      /\ reg' = [reg EXCEPT ![f] = "out"]
      /\ edge' = [edge EXCEPT ![f] = TRUE]
      /\ UNCHANGED <<link, backlog, sent, fin, fdConn, lsnEdge, watch>>

\* Mutant: the slot stays in READ after the request was queued.
DoRecvStaysInRead(f) ==
  LET c == fdConn[f]
      m == [fd |-> f, addr |-> slot[f].addr, conn |-> c]
  IN  /\ rx[c] > 0
      /\ rx' = [rx EXCEPT ![c] = 0]
      /\ reqQ' = [reqQ EXCEPT ![CmdOf[c]] = PutMsg(@, m)]
      /\ UNCHANGED <<link, backlog, sent, fin, slot, kernelVars, watch>>

\* DoRecv: one read takes what has arrived; the request goes to the queue of
\* its command (a refusal is only printed) and the slot turns to SEND while
\* the descriptor stays registered for EPOLLIN.
DoRecv(f) ==
  LET c == fdConn[f]
      m == [fd |-> f, addr |-> slot[f].addr, conn |-> c]
  IN  /\ rx[c] > 0
      /\ rx' = [rx EXCEPT ![c] = 0]
      /\ reqQ' = [reqQ EXCEPT ![CmdOf[c]] = PutMsg(@, m)]
      /\ slot' = [slot EXCEPT ![f].flag = "TCP_SERVER_SEND"]
      /\ UNCHANGED <<link, backlog, sent, fin, kernelVars, watch>>

\* DoRecv when read() gives 0 or -1: the descriptor is closed and nothing
\* else is done, neither to the slot nor to m_vecFds.
DoRecvFailed(f) ==
  /\ ReadMayFail \/ rx[fdConn[f]] = 0
  /\ CloseFd(f)
  /\ UNCHANGED <<slot, watch, reqQ>>

ReadEvent(e) ==
  /\ pc = "events"
  /\ e # ListenEvent
  /\ ~e.hup
  /\ slot[e.fd].flag = "TCP_SERVER_READ"
  /\ DoRecv(e.fd) \/ DoRecvFailed(e.fd)
  /\ batch' = batch \ {e}
  /\ UNCHANGED <<got, msgBuf, pc, serving, backQ>>

\* DoSend writes whatever is in the descriptor's buffer, then closes.
SendEvent(e) ==
  /\ pc = "events"
  /\ e # ListenEvent
  /\ ~e.hup
  /\ slot[e.fd].flag = "TCP_SERVER_SEND"
  /\ got' = [got EXCEPT ![fdConn[e.fd]] = msgBuf[e.fd]]
  /\ DoClose(e.fd)
  /\ batch' = batch \ {e}
  /\ UNCHANGED <<msgBuf, pc, queueVars>>

-----------------------------------------------------------------------------
(* The containers, as netio sees them: a request is taken from its queue,  *)
(* served for as long as it takes, and answered on the back queue, where   *)
(* the response is lost when the queue is full.                            *)

ContainerTake(q) ==
  /\ reqQ[q] # <<>>
  /\ serving' = serving \cup {Head(reqQ[q])}
  /\ reqQ' = [reqQ EXCEPT ![q] = Tail(@)]
  /\ UNCHANGED <<clientVars, kernelVars, reactorVars, backQ>>

ContainerAnswer(m) ==
  /\ serving' = serving \ {m}
  /\ backQ' = PutMsg(backQ, m)
  /\ UNCHANGED <<clientVars, kernelVars, reactorVars, reqQ>>

ContainerCrash(m) ==
  /\ ContainersMayCrash
  /\ serving' = serving \ {m}
  /\ UNCHANGED <<clientVars, kernelVars, reactorVars, reqQ, backQ>>

-----------------------------------------------------------------------------
(* The death of netio.  The kernel closes its descriptors, and with them   *)
(* every connection; the new process starts with empty tables.  The queues *)
(* are the kernel's and keep requests, and responses that name descriptors *)
(* of the former process.                                                  *)

Restart ==
  /\ NetIoMayCrash
  /\ link' = [c \in Conns |-> IF link[c] = "new" THEN "new" ELSE "closed"]
  /\ backlog' = <<>>
  /\ rx' = [c \in Conns |-> 0]
  /\ fdConn' = [f \in Fds |-> NoConn]
  /\ reg' = [f \in Fds |-> "none"]
  /\ edge' = [f \in Fds |-> FALSE]
  /\ lsnEdge' = FALSE
  /\ slot' = [f \in Fds |-> [flag |-> "NONE_FLAG", addr |-> NoAddr]]
  /\ watch' = {}
  /\ msgBuf' = [f \in Fds |-> NoConn]
  /\ batch' = {}
  /\ pc' = "wait"
  /\ UNCHANGED <<sent, fin, got, queueVars>>

-----------------------------------------------------------------------------
ClientNext == \E c \in Conns : Connect(c) \/ Send(c) \/ Close(c)

ReactorNext ==
  \/ Wait
  \/ Fire
  \/ EndRound
  \/ \E f \in Fds : AcceptOne(f)
  \/ AcceptEnd
  \/ \E e \in batch : \/ CloseEvent(e)
                      \/ AcceptEvent(e)
                      \/ ReadEvent(e)
                      \/ SendEvent(e)

ContainerNext ==
  \/ \E q \in Cmds : ContainerTake(q)
  \/ \E m \in serving : ContainerAnswer(m) \/ ContainerCrash(m)

Next == ClientNext \/ ReactorNext \/ ContainerNext \/ Restart

Spec == Init /\ [][Next]_vars

\* The reactor's thread always runs, and so do the containers of each queue.
\* Clients owe nothing: not to write, not to wait.
Fairness ==
  /\ WF_vars(ReactorNext)
  /\ \A q \in Cmds : WF_vars(ContainerTake(q))
  /\ WF_vars(\E m \in serving : ContainerAnswer(m))

FairSpec == Spec /\ Fairness

-----------------------------------------------------------------------------
(* Properties.                                                             *)

\* Every variable has its type, and no queue exceeds its capacity (PutMsg).
TypeOK ==
  /\ link \in [Conns -> {"new", "backlog", "open", "closed"}]
  /\ backlog \in Seq(Conns)
  /\ sent \in [Conns -> 0..MaxSegments]
  /\ rx \in [Conns -> 0..MaxSegments]
  /\ fin \in [Conns -> BOOLEAN]
  /\ got \in [Conns -> Conns \cup {NoConn}]
  /\ fdConn \in [Fds -> Conns \cup {NoConn}]
  /\ reg \in [Fds -> {"none", "in", "out"}]
  /\ edge \in [Fds -> BOOLEAN]
  /\ lsnEdge \in BOOLEAN
  /\ slot \in [Fds -> SockItem]
  /\ watch \in SUBSET Fds
  /\ msgBuf \in [Fds -> Conns \cup {NoConn}]
  /\ batch \in SUBSET Event
  /\ pc \in {"wait", "fire", "events", "accept"}
  /\ reqQ \in [Cmds -> Seq(Msg)]
  /\ \A q \in Cmds : Len(reqQ[q]) <= QCap
  /\ serving \in SUBSET Msg
  /\ backQ \in Seq(Msg)
  /\ Len(backQ) <= QCap

\* The messages between DoRecv's PutMsg and OnEventFire's GetMsg.
InFlight ==
  (UNION {Elems(reqQ[q]) : q \in Cmds}) \cup serving \cup Elems(backQ)

\* DoSend writes to a client the answer to that client's own request, though
\* descriptors, slots and buffers are reused by connection after connection.
OwnResponse == \A c \in Conns : got[c] \in {c, NoConn}

SamePort(c, d) == AddrOf[c].port = AddrOf[d].port

\* A descriptor waits for EPOLLOUT only when the response to the request of
\* the connection now on it has come back.  AddToWatchList's socket check lets
\* through one other response, the late one of a client that is gone and used
\* the same port, from whatever IP.
ArmedOnlyWhenAnswered ==
  \A f \in Fds : reg[f] = "out" =>
    /\ fdConn[f] # NoConn
    /\ slot[f].flag = "TCP_SERVER_SEND"
    /\ \/ \A m \in InFlight : m.conn # fdConn[f]
       \/ \E d \in Conns \ {fdConn[f]} :
            link[d] = "closed" /\ SamePort(d, fdConn[f])

\* The four tables that describe a descriptor agree: open in the kernel,
\* registered with epoll, listed in m_vecFds, and its slot in use, by a client
\* of the connection's port.  The exception is a descriptor DoRecv closed on a
\* failed read: its slot stays in use, it stays in m_vecFds, and epoll does not
\* watch it, whoever is accepted on it.
Agree(f) ==
  /\ (fdConn[f] = NoConn) <=> (reg[f] = "none")
  /\ (fdConn[f] = NoConn) <=> (f \notin watch)
  /\ (fdConn[f] = NoConn) <=> (slot[f].flag = "NONE_FLAG")

Forgotten(f) ==
  /\ ReadMayFail
  /\ reg[f] = "none"
  /\ f \in watch
  /\ slot[f].flag # "NONE_FLAG"

TablesAgree ==
  \A f \in Fds :
    /\ Agree(f) \/ Forgotten(f)
    /\ fdConn[f] # NoConn => slot[f].addr.port = AddrOf[fdConn[f]].port

\* The comment of AddToWatchList, that it checks the client's data for
\* consistency: a slot holds the address of the client on its descriptor.
SlotNamesClient ==
  \A f \in Fds : fdConn[f] # NoConn => slot[f].addr = AddrOf[fdConn[f]]

\* The comment of AddToWatchList: a closed descriptor's flag is invalid.
ClosedSlotsReset ==
  \A f \in Fds : fdConn[f] = NoConn => slot[f].flag = "NONE_FLAG"

\* An event still pending in m_arrEpollEvents is about the connection that
\* was on the descriptor when it was harvested, and that one's slot is in
\* use: neither OnEventFire, which runs in between, nor an earlier event of
\* the batch closes or replaces it.
EventsAreCurrent ==
  \A e \in batch \ {ListenEvent} :
    /\ fdConn[e.fd] = e.conn
    /\ slot[e.fd].flag # "NONE_FLAG"
    /\ e.hup => fin[e.conn]

\* Nothing an edge-triggered epoll said once is forgotten: unread input on a
\* slot waiting to read, a closed peer, or an armed answer always has its
\* edge on the ready list or its event in the batch.
NoMissedEdge ==
  \A f \in Fds : Ready(f) => edge[f] \/ \E e \in batch : e.fd = f

\* As long as accept() finds a descriptor, no connection is left in the
\* backlog without an event that leads to DoConn.
BacklogNotified ==
  backlog # <<>> => lsnEdge \/ ListenEvent \in batch \/ pc = "accept"

\* OnEventFire never discards the answer of a client that is still there:
\* if the descriptor still belongs to the connection the response answers,
\* the step arms it with that answer in its buffer.
AnswerReachesOwner ==
  [][backQ # <<>> /\ backQ' = Tail(backQ) =>
       LET m == Head(backQ)
       IN  fdConn[m.fd] = m.conn =>
             reg'[m.fd] = "out" /\ edge'[m.fd] /\ msgBuf'[m.fd] = m.conn
    ]_vars

\* The client on f has not been asked for its request yet, or its request or
\* answer is between the queues, or the answer is armed: since nothing is read
\* from a slot in SEND, a client for whom none of this holds is never answered.
StillServed(f) ==
  slot[f].flag = "TCP_SERVER_SEND" =>
    reg[f] = "out" \/ \E m \in InFlight : m.conn = fdConn[f]

\* With queues as long as there are clients and containers that live, DoRecv
\* and OnEventFire lose no client: whoever is open is still served.
AnswerOnItsWay == \A f \in Fds : fdConn[f] # NoConn => StillServed(f)

\* What may lose the client on f: its request finds its queue full, or its
\* request leaves a container and no answer arrives on the back queue.
RequestRefused(f) ==
  /\ slot[f].flag = "TCP_SERVER_READ"
  /\ Len(reqQ[CmdOf[fdConn[f]]]) = QCap
  /\ reqQ' = reqQ

AnswerRefused(f) ==
  /\ \E m \in serving \ serving' : m.conn = fdConn[f]
  /\ backQ' = backQ
  /\ Len(backQ) = QCap \/ ContainersMayCrash

\* A client that epoll watches, is still served and stays on its descriptor is
\* only lost by one of these two: not by descriptors reused, responses to clients gone, or
\* the requests, answers and deaths of others.
LostOnlyWhenRefused ==
  [][\A f \in Fds :
       /\ fdConn[f] # NoConn
       /\ fdConn'[f] = fdConn[f]
       /\ reg[f] # "none"
       /\ StillServed(f)
       => StillServed(f)' \/ RequestRefused(f) \/ AnswerRefused(f)]_vars

\* Seen from netio, the requests live as Service says: DoRecv asks for each
\* connection once, the queues keep their order, and each answer is taken by
\* OnEventFire once, with descriptors reused, clients and netio gone or not.
Asking ==
  {c \in Conns : \/ link[c] \in {"new", "backlog"}
                 \/ \E f \in Fds : /\ fdConn[f] = c
                                    /\ slot[f].flag = "TCP_SERVER_READ"}

ConnsOf(q) == [i \in DOMAIN q |-> q[i].conn]

AbstractService == INSTANCE Service WITH
  Requests <- Conns,
  idle <- Asking,
  queue <- [q \in Cmds |-> ConnsOf(reqQ[q])],
  working <- {m.conn : m \in serving},
  answers <- ConnsOf(backQ)

ImplementsService == AbstractService!Spec

\* Whatever the interleaving, a client that has written its request gets its
\* connection ended by the server: by the answer, or because it gave up.
EveryRequestEnds ==
  \A c \in Conns : sent[c] > 0 ~> link[c] = "closed"

=============================================================================
