---------------------------- MODULE NetIoProofs ----------------------------
(***************************************************************************)
(* Theorems about the netio process (NetIo), for any number of             *)
(* connections, descriptors and commands, any addresses and any queue      *)
(* capacity; what may lose a client; and that NetIo implements Service.    *)
(***************************************************************************)
EXTENDS NetIo, FiniteSetTheorems, SequenceTheorems, TLAPS

-----------------------------------------------------------------------------
(* Queues.                                                                 *)

\* PutMsg (msgsnd with IPC_NOWAIT) keeps a queue's type and capacity.
LEMMA PutMsgType ==
  ASSUME NEW S, NEW q \in Seq(S), NEW m \in S, Len(q) <= QCap
  PROVE  PutMsg(q, m) \in Seq(S) /\ Len(PutMsg(q, m)) <= QCap
BY NetIoAssumption DEF PutMsg

\* Taking the head of a nonempty queue (msgrcv) leaves a shorter queue.
LEMMA TailType ==
  ASSUME NEW S, NEW q \in Seq(S), q # <<>>
  PROVE  /\ Head(q) \in S
         /\ Tail(q) \in Seq(S)
         /\ Len(Tail(q)) = Len(q) - 1
         /\ Len(q) \in Nat \ {0}
OBVIOUS

-----------------------------------------------------------------------------
(* Type correctness.  TypeOK is not inductive alone: an event carries the  *)
(* connection of its descriptor, so it needs that only open descriptors    *)
(* are registered; a request carries the slot's address, so it needs that  *)
(* the slot of an open descriptor is in use; and a handler acts on the     *)
(* descriptor's connection, so the events must still be current.  The      *)
(* bound on rx comes from the one on sent.                                 *)

\* The descriptor is open, its slot in use for the connection's port, and for
\* its address until its request has been read.
OpenSlots ==
  \A f \in Fds :
    /\ reg[f] # "none" => fdConn[f] # NoConn
    /\ fdConn[f] # NoConn =>
         /\ slot[f].flag # "NONE_FLAG"
         /\ slot[f].addr.port = AddrOf[fdConn[f]].port
         /\ slot[f].flag = "TCP_SERVER_READ" => slot[f].addr = AddrOf[fdConn[f]]

\* epoll_wait reports a descriptor once.
OneEventPerFd ==
  \A d, e \in batch : d.fd = e.fd => d = e

\* Nothing is received that was not sent.
RxBounded == \A c \in Conns : rx[c] <= sent[c]

TypeInv == TypeOK /\ OpenSlots /\ OneEventPerFd /\ EventsAreCurrent /\ RxBounded

LEMMA TypeInvInit == Init => TypeInv
<1> SUFFICES ASSUME Init PROVE TypeInv
  OBVIOUS
<1> USE NetIoAssumption DEF Init
<1>1. TypeOK
  <2>1. slot \in [Fds -> SockItem]
    BY DEF SockItem, Flags
  <2>2. reqQ \in [Cmds -> Seq(Msg)] /\ \A q \in Cmds : Len(reqQ[q]) <= QCap
    OBVIOUS
  <2>3. backQ \in Seq(Msg) /\ Len(backQ) <= QCap /\ backlog \in Seq(Conns)
    OBVIOUS
  <2>4. /\ sent \in [Conns -> 0..MaxSegments]
        /\ rx \in [Conns -> 0..MaxSegments]
    OBVIOUS
  <2>5. /\ fin \in [Conns -> BOOLEAN]
        /\ edge \in [Fds -> BOOLEAN]
        /\ lsnEdge \in BOOLEAN
    OBVIOUS
  <2>6. /\ link \in [Conns -> {"new", "backlog", "open", "closed"}]
        /\ got \in [Conns -> Conns \cup {NoConn}]
        /\ fdConn \in [Fds -> Conns \cup {NoConn}]
        /\ reg \in [Fds -> {"none", "in", "out"}]
        /\ msgBuf \in [Fds -> Conns \cup {NoConn}]
    OBVIOUS
  <2> QED BY <2>1, <2>2, <2>3, <2>4, <2>5, <2>6 DEF TypeOK
<1>2. OpenSlots /\ OneEventPerFd /\ EventsAreCurrent /\ RxBounded
  BY DEF OpenSlots, OneEventPerFd, EventsAreCurrent, RxBounded
<1> QED BY <1>1, <1>2 DEF TypeInv

\* EpollCtl keeps the types, touches f alone, and registers only what was
\* registered before or is open.
LEMMA EpollCtlType ==
  ASSUME TypeOK, NEW f \in Fds, NEW mask \in {"in", "out"},
         NEW c \in Conns \cup {NoConn}, EpollCtl(f, mask, c)
  PROVE  /\ reg' \in [Fds -> {"none", "in", "out"}]
         /\ edge' \in [Fds -> BOOLEAN]
         /\ watch' \in SUBSET Fds
         /\ \A g \in Fds \ {f} : reg'[g] = reg[g] /\ edge'[g] = edge[g]
         /\ reg'[f] \in {reg[f], mask}
         /\ reg'[f] # "none" => reg[f] # "none" \/ c # NoConn
BY ZenonT(60) DEF EpollCtl, TypeOK

\* The same for the two ways AddToWatchList is called.
LEMMA WatchForReadType ==
  ASSUME TypeOK, NEW f \in Fds, NEW c \in Conns, WatchForRead(f, c)
  PROVE  /\ reg' \in [Fds -> {"none", "in", "out"}]
         /\ edge' \in [Fds -> BOOLEAN]
         /\ watch' \in SUBSET Fds
         /\ \A g \in Fds \ {f} : reg'[g] = reg[g] /\ edge'[g] = edge[g]
         /\ reg'[f] \in {reg[f], "in"}
<1>1. CASE f \notin watch
  BY <1>1, EpollCtlType DEF WatchForRead
<1>2. CASE f \in watch
  BY <1>2 DEF WatchForRead, TypeOK
<1> QED BY <1>1, <1>2

LEMMA WatchForSendType ==
  ASSUME TypeOK, NEW f \in Fds, NEW a \in Addrs, WatchForSend(f, a)
  PROVE  /\ slot' \in [Fds -> SockItem]
         /\ reg' \in [Fds -> {"none", "in", "out"}]
         /\ edge' \in [Fds -> BOOLEAN]
         /\ watch' \in SUBSET Fds
         /\ \A g \in Fds \ {f} :
              reg'[g] = reg[g] /\ edge'[g] = edge[g] /\ slot'[g] = slot[g]
         /\ reg'[f] \in {reg[f], "out"}
         /\ reg'[f] # "none" => reg[f] # "none" \/ fdConn[f] # NoConn
         /\ slot'[f].addr.port = slot[f].addr.port
         /\ slot'[f] = slot[f] \/ slot'[f].flag = "TCP_SERVER_SEND"
<1>1. CASE SameClient(f, a)
  <2>1. EpollCtl(f, "out", fdConn[f]) /\ fdConn[f] \in Conns \cup {NoConn}
    BY <1>1 DEF WatchForSend, TypeOK
  <2>2. slot' = [slot EXCEPT ![f] = [flag |-> "TCP_SERVER_SEND", addr |-> a]]
    BY <1>1 DEF WatchForSend
  <2>3. slot' \in [Fds -> SockItem]
    BY <2>2 DEF TypeOK, SockItem, Flags
  <2>4. \A g \in Fds \ {f} : slot'[g] = slot[g]
    BY <2>2 DEF TypeOK
  <2>5. /\ slot'[f].addr.port = slot[f].addr.port
        /\ slot'[f].flag = "TCP_SERVER_SEND"
    BY <1>1, <2>2 DEF SameClient, TypeOK
  <2> QED BY <2>1, <2>3, <2>4, <2>5, EpollCtlType
<1>2. CASE ~SameClient(f, a)
  BY <1>2 DEF WatchForSend, TypeOK
<1> QED BY <1>1, <1>2

\* close() and DoClose keep the types and forget the descriptor's connection.
LEMMA CloseFdType ==
  ASSUME TypeOK, NEW f \in Fds, fdConn[f] \in Conns, CloseFd(f)
  PROVE  /\ link' \in [Conns -> {"new", "backlog", "open", "closed"}]
         /\ rx' \in [Conns -> 0..MaxSegments]
         /\ fdConn' \in [Fds -> Conns \cup {NoConn}]
         /\ reg' \in [Fds -> {"none", "in", "out"}]
         /\ edge' \in [Fds -> BOOLEAN]
         /\ UNCHANGED <<backlog, sent, fin, lsnEdge>>
         /\ \A g \in Fds \ {f} : fdConn'[g] = fdConn[g] /\ reg'[g] = reg[g]
         /\ fdConn'[f] = NoConn /\ reg'[f] = "none"
BY NetIoAssumption DEF CloseFd, TypeOK

LEMMA DoCloseType ==
  ASSUME TypeOK, NEW f \in Fds, fdConn[f] \in Conns, DoClose(f)
  PROVE  /\ slot' \in [Fds -> SockItem]
         /\ watch' \in SUBSET Fds
         /\ \A g \in Fds \ {f} : slot'[g] = slot[g]
         /\ CloseFd(f)
<1>1. slot' = [slot EXCEPT ![f].flag = "NONE_FLAG"]
  BY DEF DoClose
<1>2. slot[f] \in SockItem
  BY DEF TypeOK
<1>3. slot' \in [Fds -> SockItem]
  BY <1>1, <1>2 DEF TypeOK, SockItem, Flags
<1> QED BY <1>1, <1>3 DEF DoClose, RemoveFromWatchList, TypeOK

-----------------------------------------------------------------------------
(* Every step preserves TypeInv: one lemma per actor.                      *)

LEMMA TypeInvClient == TypeInv /\ ClientNext => TypeInv'
<1> SUFFICES ASSUME TypeInv, NEW c \in Conns, Connect(c) \/ Send(c) \/ Close(c)
             PROVE  TypeInv'
  BY DEF ClientNext
<1> USE DEF reactorVars, queueVars
<1>1. CASE Connect(c)
  <2>1. TypeOK'
    BY <1>1 DEF Connect, TypeInv, TypeOK
  <2>2. (OpenSlots /\ OneEventPerFd /\ EventsAreCurrent /\ RxBounded)'
    BY <1>1 DEF Connect, TypeInv, OpenSlots, OneEventPerFd, EventsAreCurrent, RxBounded
  <2> QED BY <2>1, <2>2 DEF TypeInv
<1>2. CASE Send(c)
  <2>1. TypeOK'
    <3>1. sent' \in [Conns -> 0..MaxSegments] /\ rx' \in [Conns -> 0..MaxSegments]
      BY <1>2, NetIoAssumption DEF Send, TypeInv, TypeOK, RxBounded
    <3>2. edge' \in [Fds -> BOOLEAN]
      BY <1>2 DEF Send, TypeInv, TypeOK
    <3> QED BY <1>2, <3>1, <3>2 DEF Send, TypeInv, TypeOK
  <2>2. (OpenSlots /\ OneEventPerFd /\ EventsAreCurrent /\ RxBounded)'
    <3>1. (OpenSlots /\ OneEventPerFd /\ EventsAreCurrent)'
      BY <1>2 DEF Send, TypeInv, OpenSlots, OneEventPerFd, EventsAreCurrent
    <3>2. RxBounded'
      BY <1>2, NetIoAssumption DEF Send, TypeInv, TypeOK, RxBounded
    <3> QED BY <3>1, <3>2
  <2> QED BY <2>1, <2>2 DEF TypeInv
<1>3. CASE Close(c)
  <2>1. TypeOK'
    BY <1>3 DEF Close, TypeInv, TypeOK
  <2>2. (OpenSlots /\ OneEventPerFd /\ RxBounded)'
    BY <1>3 DEF Close, TypeInv, OpenSlots, OneEventPerFd, RxBounded
  <2>3. EventsAreCurrent'
    <3>1. \A d \in Conns : fin[d] => fin'[d]
      BY <1>3 DEF Close, TypeInv, TypeOK
    <3>2. \A e \in batch \ {ListenEvent} : e.conn \in Conns
      BY DEF TypeInv, TypeOK, Event
    <3> QED BY <1>3, <3>1, <3>2 DEF Close, TypeInv, EventsAreCurrent
  <2> QED BY <2>1, <2>2, <2>3 DEF TypeInv
<1> QED BY <1>1, <1>2, <1>3

LEMMA TypeInvContainer == TypeInv /\ ContainerNext => TypeInv'
<1> SUFFICES ASSUME TypeInv, ContainerNext PROVE TypeInv'
  OBVIOUS
<1> USE DEF clientVars, kernelVars, reactorVars
<1>0. TypeOK
  BY DEF TypeInv
<1>1. ASSUME NEW q \in Cmds, ContainerTake(q)
      PROVE  TypeInv'
  <2> DEFINE old == reqQ[q]
  <2>1. old \in Seq(Msg) /\ Len(old) <= QCap /\ old # <<>>
    BY <1>0, <1>1 DEF TypeOK, ContainerTake
  <2>2. Head(old) \in Msg /\ Tail(old) \in Seq(Msg) /\ Len(Tail(old)) <= QCap
    <3> HIDE DEF old
    <3> QED BY <2>1, TailType, NetIoAssumption
  <2>3. reqQ' = [reqQ EXCEPT ![q] = Tail(old)] /\ serving' = serving \cup {Head(old)}
    BY <1>1 DEF ContainerTake
  <2>4. TypeOK'
    <3> HIDE DEF old
    <3>1. reqQ' \in [Cmds -> Seq(Msg)] /\ \A r \in Cmds : Len(reqQ'[r]) <= QCap
      BY <1>0, <2>2, <2>3 DEF TypeOK
    <3>2. serving' \in SUBSET Msg
      BY <1>0, <2>2, <2>3 DEF TypeOK
    <3> QED BY <1>0, <1>1, <3>1, <3>2 DEF TypeOK, ContainerTake
  <2>5. (OpenSlots /\ OneEventPerFd /\ EventsAreCurrent /\ RxBounded)'
    BY <1>1 DEF ContainerTake, TypeInv, OpenSlots, OneEventPerFd, EventsAreCurrent, RxBounded
  <2> QED BY <2>4, <2>5 DEF TypeInv
<1>2. ASSUME NEW m \in serving, ContainerAnswer(m) \/ ContainerCrash(m)
      PROVE  TypeInv'
  <2>1. backQ' \in Seq(Msg) /\ Len(backQ') <= QCap
    BY <1>0, <1>2, PutMsgType DEF TypeOK, ContainerAnswer, ContainerCrash
  <2>2. TypeOK'
    BY <1>0, <1>2, <2>1 DEF TypeOK, ContainerAnswer, ContainerCrash
  <2>3. (OpenSlots /\ OneEventPerFd /\ EventsAreCurrent /\ RxBounded)'
    BY <1>2 DEF ContainerAnswer, ContainerCrash, TypeInv, OpenSlots,
                OneEventPerFd, EventsAreCurrent, RxBounded
  <2> QED BY <2>2, <2>3 DEF TypeInv
<1> QED BY <1>1, <1>2 DEF ContainerNext

LEMMA TypeInvLoop ==
  TypeInv /\ (Wait \/ Fire \/ EndRound \/ AcceptEnd) => TypeInv'
<1> SUFFICES ASSUME TypeInv, Wait \/ Fire \/ EndRound \/ AcceptEnd PROVE TypeInv'
  OBVIOUS
<1> USE DEF clientVars, kernelVars, queueVars
<1>0. TypeOK
  BY DEF TypeInv
<1>1. CASE Wait
  <2>1. \A e \in batch' : \/ e = ListenEvent
                         \/ \E f \in Fds : /\ Ready(f)
                                           /\ e = [fd |-> f, conn |-> fdConn[f],
                                                   hup |-> fin[fdConn[f]]]
    BY <1>1 DEF Wait
  <2>2. \A f \in Fds : Ready(f) => /\ fdConn[f] \in Conns
                                   /\ fin[fdConn[f]] \in BOOLEAN
                                   /\ slot[f].flag # "NONE_FLAG"
    BY <1>0 DEF TypeInv, OpenSlots, TypeOK, Ready
  <2>3. batch' \in SUBSET Event
    BY <2>1, <2>2 DEF Event
  <2>4. edge' \in [Fds -> BOOLEAN]
    BY <1>1 DEF Wait
  <2>5. TypeOK'
    BY <1>0, <1>1, <2>3, <2>4 DEF Wait, TypeOK
  <2>6. OpenSlots' /\ RxBounded'
    BY <1>1 DEF Wait, TypeInv, OpenSlots, RxBounded
  <2>7. OneEventPerFd'
    <3> SUFFICES ASSUME NEW d \in batch', NEW e \in batch', d.fd = e.fd
                 PROVE  d = e
      BY DEF OneEventPerFd
    <3>1. \A b \in batch' : \/ b = ListenEvent /\ b.fd \notin Fds
                          \/ /\ b.fd \in Fds
                             /\ b = [fd |-> b.fd, conn |-> fdConn[b.fd],
                                     hup |-> fin[fdConn[b.fd]]]
      BY <2>1, NetIoAssumption DEF ListenEvent
    <3> QED BY <3>1
  <2>8. EventsAreCurrent'
    BY <1>1, <2>1, <2>2 DEF Wait, EventsAreCurrent
  <2> QED BY <2>5, <2>6, <2>7, <2>8 DEF TypeInv
<1>2. CASE Fire
  <2>1. CASE backQ = <<>>
    <3>1. TypeOK'
      BY <1>0, <1>2, <2>1 DEF Fire, OnEventFire, TypeOK
    <3>2. (OpenSlots /\ OneEventPerFd /\ EventsAreCurrent /\ RxBounded)'
      BY <1>2, <2>1 DEF Fire, OnEventFire, TypeInv, OpenSlots, OneEventPerFd,
                        EventsAreCurrent, RxBounded
    <3> QED BY <3>1, <3>2 DEF TypeInv
  <2>2. CASE backQ # <<>>
    <3> DEFINE m == Head(backQ)
    <3>1. /\ m \in Msg
          /\ backQ' = Tail(backQ)
          /\ backQ' \in Seq(Msg) /\ Len(backQ') <= QCap
      <4>1. backQ' = Tail(backQ)
        BY <1>2, <2>2 DEF Fire, OnEventFire
      <4> QED BY <1>0, <2>2, <4>1, TailType, NetIoAssumption DEF TypeOK
    <3>2. /\ WatchForSend(m.fd, m.addr)
          /\ msgBuf' = [msgBuf EXCEPT ![m.fd] = m.conn]
          /\ UNCHANGED <<clientVars, fdConn, lsnEdge, batch, reqQ, serving>>
          /\ pc' = "events"
      BY <1>2, <2>2 DEF Fire, OnEventFire
    <3>3. m.fd \in Fds /\ m.addr \in Addrs /\ m.conn \in Conns
      BY <3>1 DEF Msg
    <3> HIDE DEF m
    <3>4. /\ slot' \in [Fds -> SockItem]
          /\ reg' \in [Fds -> {"none", "in", "out"}]
          /\ edge' \in [Fds -> BOOLEAN]
          /\ watch' \in SUBSET Fds
      BY <1>0, <3>2, <3>3, WatchForSendType
    <3>5. \A f \in Fds : /\ reg'[f] # "none" => reg[f] # "none" \/ fdConn[f] # NoConn
                         /\ slot'[f].addr.port = slot[f].addr.port
                         /\ slot'[f] = slot[f] \/ slot'[f].flag = "TCP_SERVER_SEND"
      BY <1>0, <3>2, <3>3, WatchForSendType
    <3>6. msgBuf' \in [Fds -> Conns \cup {NoConn}]
      BY <1>0, <3>2, <3>3 DEF TypeOK
    <3>7. TypeOK'
      BY <1>0, <3>1, <3>2, <3>4, <3>6 DEF TypeOK
    <3>8. OpenSlots'
      BY <3>2, <3>5 DEF TypeInv, OpenSlots
    <3>9. OneEventPerFd' /\ RxBounded'
      BY <3>2 DEF TypeInv, OneEventPerFd, RxBounded
    <3>10. EventsAreCurrent'
      <4>1. \A e \in batch \ {ListenEvent} : e.fd \in Fds
        BY <1>0 DEF TypeOK, Event
      <4> QED BY <3>2, <3>5, <4>1 DEF TypeInv, EventsAreCurrent
    <3> QED BY <3>7, <3>8, <3>9, <3>10 DEF TypeInv
  <2> QED BY <2>1, <2>2
<1>3. CASE EndRound \/ AcceptEnd
  <2>1. TypeOK'
    BY <1>0, <1>3 DEF EndRound, AcceptEnd, TypeOK
  <2>2. (OpenSlots /\ OneEventPerFd /\ EventsAreCurrent /\ RxBounded)'
    BY <1>3 DEF EndRound, AcceptEnd, TypeInv, OpenSlots, OneEventPerFd,
                EventsAreCurrent, RxBounded
  <2> QED BY <2>1, <2>2 DEF TypeInv
<1> QED BY <1>1, <1>2, <1>3

\* An event that is not the listening descriptor's is about an open
\* connection, and nothing else in the batch is about that descriptor.
LEMMA EventFacts ==
  ASSUME TypeInv, NEW e \in batch, e # ListenEvent
  PROVE  /\ e.fd \in Fds
         /\ e.conn \in Conns
         /\ e.hup \in BOOLEAN
         /\ fdConn[e.fd] = e.conn
         /\ slot[e.fd].flag # "NONE_FLAG"
         /\ slot[e.fd].flag = "TCP_SERVER_READ" => slot[e.fd].addr = AddrOf[e.conn]
         /\ \A d \in batch \ {e} : d.fd # e.fd
<1>1. e.fd \in Fds /\ e.conn \in Conns /\ e.hup \in BOOLEAN
  BY DEF TypeInv, TypeOK, Event
<1>2. fdConn[e.fd] = e.conn /\ slot[e.fd].flag # "NONE_FLAG"
  BY DEF TypeInv, EventsAreCurrent
<1>3. slot[e.fd].flag = "TCP_SERVER_READ" => slot[e.fd].addr = AddrOf[e.conn]
  BY <1>1, <1>2, NetIoAssumption DEF TypeInv, OpenSlots
<1>4. \A d \in batch \ {e} : d.fd # e.fd
  BY DEF TypeInv, OneEventPerFd
<1> QED BY <1>1, <1>2, <1>3, <1>4

\* When an event's descriptor is closed and the event consumed, what TypeInv
\* says of the other descriptors and events still holds.
LEMMA CloseKeepsTables ==
  ASSUME TypeInv, NEW e \in batch, e # ListenEvent, CloseFd(e.fd),
         slot' \in [Fds -> SockItem],
         \A g \in Fds \ {e.fd} : slot'[g] = slot[g],
         batch' = batch \ {e}
  PROVE  OpenSlots' /\ OneEventPerFd' /\ EventsAreCurrent' /\ RxBounded'
<1> DEFINE f == e.fd
<1>0. TypeOK
  BY DEF TypeInv
<1>1. f \in Fds /\ fdConn[f] \in Conns
  BY EventFacts
<1>2. /\ \A g \in Fds \ {f} : fdConn'[g] = fdConn[g] /\ reg'[g] = reg[g]
      /\ fdConn'[f] = NoConn /\ reg'[f] = "none"
      /\ UNCHANGED <<sent, fin>>
  BY <1>0, <1>1, CloseFdType
<1>3. OpenSlots'
  BY <1>2 DEF TypeInv, OpenSlots
<1>4. OneEventPerFd'
  BY DEF TypeInv, OneEventPerFd
<1>5. EventsAreCurrent'
  <2>1. \A d \in batch' \ {ListenEvent} : d \in batch /\ d.fd \in Fds \ {f}
    BY <1>0, EventFacts DEF TypeOK, Event
  <2> QED BY <1>2, <2>1 DEF TypeInv, EventsAreCurrent
<1>6. RxBounded'
  BY <1>0, <1>1, <1>2 DEF CloseFd, TypeInv, TypeOK, RxBounded
<1> QED BY <1>3, <1>4, <1>5, <1>6

LEMMA TypeInvEvent ==
  ASSUME TypeInv, NEW e \in batch,
         CloseEvent(e) \/ AcceptEvent(e) \/ ReadEvent(e) \/ SendEvent(e)
  PROVE  TypeInv'
<1> DEFINE f == e.fd
<1>0. TypeOK
  BY DEF TypeInv
<1>1. CASE AcceptEvent(e)
  <2> USE <1>1 DEF AcceptEvent, clientVars, kernelVars, queueVars
  <2>1. TypeOK'
    BY <1>0 DEF TypeOK
  <2>2. (OpenSlots /\ OneEventPerFd /\ EventsAreCurrent /\ RxBounded)'
    BY DEF TypeInv, OpenSlots, OneEventPerFd, EventsAreCurrent, RxBounded
  <2> QED BY <2>1, <2>2 DEF TypeInv
<1>2. CASE CloseEvent(e) \/ SendEvent(e)
  <2>1. e # ListenEvent
    BY <1>2 DEF CloseEvent, SendEvent, ListenEvent
  <2>2. DoClose(f) /\ batch' = batch \ {e} /\ UNCHANGED <<msgBuf, pc, queueVars>>
    BY <1>2 DEF CloseEvent, SendEvent
  <2>3. f \in Fds /\ fdConn[f] \in Conns
    BY <2>1, EventFacts
  <2>4. got' \in [Conns -> Conns \cup {NoConn}]
    BY <1>0, <1>2, <2>3 DEF CloseEvent, SendEvent, TypeOK
  <2>5. /\ slot' \in [Fds -> SockItem]
        /\ watch' \in SUBSET Fds
        /\ \A g \in Fds \ {f} : slot'[g] = slot[g]
        /\ CloseFd(f)
    BY <1>0, <2>2, <2>3, DoCloseType
  <2>6. TypeOK'
    BY <1>0, <2>2, <2>3, <2>4, <2>5, CloseFdType DEF TypeOK, queueVars
  <2>7. (OpenSlots /\ OneEventPerFd /\ EventsAreCurrent /\ RxBounded)'
    BY <2>1, <2>2, <2>5, CloseKeepsTables
  <2> QED BY <2>6, <2>7 DEF TypeInv
<1>3. CASE ReadEvent(e)
  <2>1. /\ e # ListenEvent /\ batch' = batch \ {e}
        /\ UNCHANGED <<got, msgBuf, pc, serving, backQ>>
    BY <1>3 DEF ReadEvent
  <2>2. f \in Fds /\ fdConn[f] \in Conns /\ slot[f].addr = AddrOf[fdConn[f]]
    BY <1>3, <2>1, EventFacts DEF ReadEvent
  <2>3. CASE DoRecv(f)
    <3> DEFINE c == fdConn[f]
               m == [fd |-> f, addr |-> slot[f].addr, conn |-> c]
    <3>1. m \in Msg /\ CmdOf[c] \in Cmds
      BY <2>2, NetIoAssumption DEF Msg
    <3>2. /\ rx' = [rx EXCEPT ![c] = 0]
          /\ reqQ' = [reqQ EXCEPT ![CmdOf[c]] = PutMsg(reqQ[CmdOf[c]], m)]
          /\ slot' = [slot EXCEPT ![f].flag = "TCP_SERVER_SEND"]
          /\ UNCHANGED <<link, backlog, sent, fin, kernelVars, watch>>
      BY <2>3 DEF DoRecv
    <3>3. reqQ' \in [Cmds -> Seq(Msg)] /\ \A q \in Cmds : Len(reqQ'[q]) <= QCap
      <4> HIDE DEF m
      <4>1. /\ PutMsg(reqQ[CmdOf[c]], m) \in Seq(Msg)
            /\ Len(PutMsg(reqQ[CmdOf[c]], m)) <= QCap
        BY <1>0, <3>1, PutMsgType DEF TypeOK
      <4> QED BY <1>0, <3>1, <3>2, <4>1 DEF TypeOK
    <3>4. /\ slot' \in [Fds -> SockItem]
          /\ \A g \in Fds : /\ slot'[g].addr = slot[g].addr
                            /\ slot'[g].flag \in {slot[g].flag, "TCP_SERVER_SEND"}
      BY <1>0, <2>2, <3>2, ZenonT(60) DEF TypeOK, SockItem, Flags
    <3>5. rx' \in [Conns -> 0..MaxSegments]
      BY <1>0, <2>2, <3>2, NetIoAssumption DEF TypeOK
    <3>6. TypeOK'
      BY <1>0, <2>1, <3>2, <3>3, <3>4, <3>5 DEF TypeOK, kernelVars
    <3>7. OpenSlots' /\ OneEventPerFd'
      BY <2>1, <3>2, <3>4 DEF TypeInv, OpenSlots, OneEventPerFd, kernelVars
    <3>8. EventsAreCurrent'
      <4>1. \A d \in batch \ {ListenEvent} : d.fd \in Fds
        BY <1>0 DEF TypeOK, Event
      <4> QED BY <2>1, <3>2, <3>4, <4>1 DEF TypeInv, EventsAreCurrent, kernelVars
    <3>9. RxBounded'
      BY <1>0, <2>2, <3>2, NetIoAssumption DEF TypeInv, TypeOK, RxBounded
    <3> QED BY <3>6, <3>7, <3>8, <3>9 DEF TypeInv
  <2>4. CASE DoRecvFailed(f)
    <3>1. CloseFd(f) /\ UNCHANGED <<slot, watch, reqQ>>
      BY <2>4 DEF DoRecvFailed
    <3>2. TypeOK'
      BY <1>0, <2>1, <2>2, <3>1, CloseFdType DEF TypeOK
    <3>3. (OpenSlots /\ OneEventPerFd /\ EventsAreCurrent /\ RxBounded)'
      BY <1>0, <2>1, <3>1, CloseKeepsTables DEF TypeOK
    <3> QED BY <3>2, <3>3 DEF TypeInv
  <2> QED BY <1>3, <2>3, <2>4 DEF ReadEvent
<1> QED BY <1>1, <1>2, <1>3

LEMMA TypeInvAccept ==
  ASSUME TypeInv, NEW f \in Fds, AcceptOne(f)
  PROVE  TypeInv'
<1> DEFINE c == Head(backlog)
<1>0. TypeOK
  BY DEF TypeInv
<1>1. /\ backlog # <<>> /\ fdConn[f] = NoConn
      /\ backlog' = Tail(backlog)
      /\ link' = [link EXCEPT ![c] = "open"]
      /\ fdConn' = [fdConn EXCEPT ![f] = c]
      /\ slot' = [slot EXCEPT ![f] = [flag |-> "TCP_SERVER_READ", addr |-> AddrOf[c]]]
      /\ WatchForRead(f, c)
      /\ UNCHANGED <<sent, rx, fin, got, lsnEdge, msgBuf, batch, pc, queueVars>>
  BY DEF AcceptOne
<1>2. c \in Conns /\ backlog' \in Seq(Conns)
  BY <1>0, <1>1, TailType DEF TypeOK
<1> HIDE DEF c
<1>3. /\ reg' \in [Fds -> {"none", "in", "out"}]
      /\ edge' \in [Fds -> BOOLEAN]
      /\ watch' \in SUBSET Fds
      /\ \A g \in Fds \ {f} : reg'[g] = reg[g]
  BY <1>0, <1>1, <1>2, WatchForReadType
<1>4. slot' \in [Fds -> SockItem]
  BY <1>0, <1>1, <1>2, NetIoAssumption DEF TypeOK, SockItem, Flags
<1>5. TypeOK'
  BY <1>0, <1>1, <1>2, <1>3, <1>4 DEF TypeOK, queueVars
<1>6. /\ \A g \in Fds \ {f} : fdConn'[g] = fdConn[g] /\ slot'[g] = slot[g]
      /\ fdConn'[f] = c
      /\ slot'[f].flag # "NONE_FLAG" /\ slot'[f].addr = AddrOf[c]
  BY <1>0, <1>1 DEF TypeOK
<1>7. OpenSlots'
  BY <1>2, <1>3, <1>6, NetIoAssumption DEF TypeInv, OpenSlots
<1>8. OneEventPerFd' /\ RxBounded'
  BY <1>1 DEF TypeInv, OneEventPerFd, RxBounded
<1>9. EventsAreCurrent'
  <2>1. \A e \in batch \ {ListenEvent} : e.fd \in Fds \ {f}
    BY <1>1, EventFacts, NetIoAssumption
  <2> QED BY <1>1, <1>6, <2>1 DEF TypeInv, EventsAreCurrent
<1> QED BY <1>5, <1>7, <1>8, <1>9 DEF TypeInv

\* The death of netio leaves nothing of its tables, and all of the queues.
LEMMA RestartFacts ==
  ASSUME TypeOK, Restart
  PROVE  /\ TypeOK'
         /\ \A f \in Fds : /\ fdConn'[f] = NoConn
                           /\ reg'[f] = "none"
                           /\ slot'[f].flag = "NONE_FLAG"
                           /\ ~edge'[f]
         /\ \A c \in Conns : /\ rx'[c] = 0
                             /\ link'[c] \in {"new", "closed"}
                             /\ link'[c] = "new" => link[c] = "new"
         /\ backlog' = <<>>
         /\ watch' = {}
         /\ batch' = {}
         /\ UNCHANGED <<sent, fin, got, reqQ, serving, backQ>>
         /\ InFlight' = InFlight
<1> USE DEF Restart, queueVars
<1>1. link' \in [Conns -> {"new", "backlog", "open", "closed"}]
  OBVIOUS
<1>2. /\ backlog' \in Seq(Conns)
      /\ watch' \in SUBSET Fds
      /\ batch' \in SUBSET Event
      /\ pc' \in {"wait", "fire", "events", "accept"}
  OBVIOUS
<1>3. /\ rx' \in [Conns -> 0..MaxSegments]
      /\ fdConn' \in [Fds -> Conns \cup {NoConn}]
      /\ reg' \in [Fds -> {"none", "in", "out"}]
      /\ msgBuf' \in [Fds -> Conns \cup {NoConn}]
  BY NetIoAssumption
<1>4. edge' \in [Fds -> BOOLEAN] /\ lsnEdge' \in BOOLEAN
  OBVIOUS
<1>5. slot' \in [Fds -> SockItem]
  BY DEF SockItem, Flags
<1>6. TypeOK'
  BY <1>1, <1>2, <1>3, <1>4, <1>5 DEF TypeOK
<1>7. InFlight' = InFlight
  BY DEF InFlight
<1>8. \A f \in Fds : /\ fdConn'[f] = NoConn
                    /\ reg'[f] = "none"
                    /\ slot'[f].flag = "NONE_FLAG"
  OBVIOUS
<1>9. \A f \in Fds : ~edge'[f]
  BY Zenon
<1>10. \A c \in Conns : /\ rx'[c] = 0
                       /\ link'[c] \in {"new", "closed"}
                       /\ link'[c] = "new" => link[c] = "new"
  OBVIOUS
<1> QED BY <1>6, <1>7, <1>8, <1>9, <1>10

LEMMA TypeInvRestart == TypeInv /\ Restart => TypeInv'
<1> SUFFICES ASSUME TypeInv, Restart PROVE TypeInv'
  OBVIOUS
<1>1. OpenSlots' /\ OneEventPerFd' /\ EventsAreCurrent'
  BY RestartFacts DEF TypeInv, OpenSlots, OneEventPerFd, EventsAreCurrent
<1>2. RxBounded'
  <2>1. \A c \in Conns : rx'[c] = 0 /\ sent'[c] \in Nat
    BY RestartFacts, NetIoAssumption DEF TypeInv, TypeOK
  <2> QED BY <2>1 DEF RxBounded
<1> QED BY <1>1, <1>2, RestartFacts DEF TypeInv

LEMMA TypeInvNext == TypeInv /\ [Next]_vars => TypeInv'
<1> SUFFICES ASSUME TypeInv, [Next]_vars PROVE TypeInv'
  OBVIOUS
<1>1. CASE ClientNext
  BY <1>1, TypeInvClient
<1>2. CASE ContainerNext
  BY <1>2, TypeInvContainer
<1>3. CASE ReactorNext
  BY <1>3, TypeInvLoop, TypeInvAccept, TypeInvEvent DEF ReactorNext
<1>4. CASE UNCHANGED vars
  BY <1>4 DEF vars, clientVars, kernelVars, reactorVars, queueVars, TypeInv,
              TypeOK, OpenSlots, OneEventPerFd, EventsAreCurrent, RxBounded
<1> QED BY <1>1, <1>2, <1>3, <1>4, TypeInvRestart DEF Next

\* The type invariant, with the queues' capacity.
THEOREM TypeCorrect == Spec => []TypeOK
<1>1. TypeInv => TypeOK
  BY DEF TypeInv
<1> QED BY <1>1, TypeInvInit, TypeInvNext, PTL DEF Spec

\* Whatever arrives or closes while a batch is processed, and whatever
\* OnEventFire does before it, no event is handled for a descriptor that has
\* been closed or given to another connection since epoll_wait.
THEOREM EventsStayCurrent == Spec => []EventsAreCurrent
<1>1. TypeInv => EventsAreCurrent
  BY DEF TypeInv
<1> QED BY <1>1, TypeInvInit, TypeInvNext, PTL DEF Spec

-----------------------------------------------------------------------------
(* Messages.  A request is in one place at a time between DoRecv and       *)
(* OnEventFire, and as long as its connection is open that connection's    *)
(* slot says SEND, so that nothing more is read from it.                   *)

\* No two messages of a queue come from the same connection.
Distinct(s) == \A i, j \in DOMAIN s : s[i].conn = s[j].conn => i = j

MsgUnique ==
  /\ \A q \in Cmds : Distinct(reqQ[q])
  /\ Distinct(backQ)
  /\ \A m, n \in serving : m.conn = n.conn => m = n
  /\ \A q \in Cmds : \A m \in Elems(reqQ[q]) : CmdOf[m.conn] = q
  /\ \A q \in Cmds : \A m \in Elems(reqQ[q]) :
       \A n \in serving \cup Elems(backQ) : m.conn # n.conn
  /\ \A m \in serving : \A n \in Elems(backQ) : m.conn # n.conn

\* A connection is open on one descriptor, or waits once in the backlog.
ConnInv ==
  /\ \A f \in Fds : fdConn[f] # NoConn => link[fdConn[f]] = "open"
  /\ \A f, g \in Fds : fdConn[f] = fdConn[g] /\ fdConn[f] # NoConn => f = g
  /\ \A i \in DOMAIN backlog : link[backlog[i]] = "backlog"
  /\ \A i, j \in DOMAIN backlog : backlog[i] = backlog[j] => i = j

\* Where a message comes from: its connection was accepted on its descriptor
\* and, if still open, waits there for the answer.
FlightInv ==
  \A m \in InFlight :
    /\ link[m.conn] \in {"open", "closed"}
    /\ fdConn[m.fd] = m.conn \/ link[m.conn] = "closed"
    /\ m.addr = AddrOf[m.conn]
    /\ \A f \in Fds : fdConn[f] = m.conn =>
         f = m.fd /\ slot[f].flag = "TCP_SERVER_SEND"

MsgInv == TypeInv /\ MsgUnique /\ ConnInv /\ FlightInv

\* The elements of a queue after msgrcv took its head.
LEMMA TailElems ==
  ASSUME NEW S, NEW q \in Seq(S), q # <<>>
  PROVE  /\ Head(q) \in Elems(q)
         /\ Elems(Tail(q)) \subseteq Elems(q)
BY DEF Elems

LEMMA TailDistinct ==
  ASSUME NEW S, NEW q \in Seq(S), q # <<>>, Distinct(q)
  PROVE  /\ Distinct(Tail(q))
         /\ \A m \in Elems(Tail(q)) : m.conn # Head(q).conn
BY DEF Elems, Distinct

\* The elements of a queue after msgsnd.
LEMMA PutMsgElems ==
  ASSUME NEW S, NEW q \in Seq(S), NEW m \in S
  PROVE  Elems(PutMsg(q, m)) \subseteq Elems(q) \cup {m}
BY DEF Elems, PutMsg

LEMMA PutMsgDistinct ==
  ASSUME NEW S, NEW q \in Seq(S), NEW m \in S, Distinct(q),
         \A n \in Elems(q) : n.conn # m.conn
  PROVE  Distinct(PutMsg(q, m))
BY DEF Elems, PutMsg, Distinct

\* Every message is one of the type Msg.
LEMMA ElemsType ==
  ASSUME NEW S, NEW q \in Seq(S)
  PROVE  Elems(q) \subseteq S
BY DEF Elems

LEMMA InFlightType == TypeOK => InFlight \subseteq Msg
<1> SUFFICES ASSUME TypeOK, NEW m \in InFlight PROVE m \in Msg
  OBVIOUS
<1>1. \A q \in Cmds : Elems(reqQ[q]) \subseteq Msg
  BY ElemsType DEF TypeOK
<1>2. Elems(backQ) \subseteq Msg
  BY ElemsType DEF TypeOK
<1> QED BY <1>1, <1>2 DEF InFlight, TypeOK

LEMMA MsgInvInit == Init => MsgInv
<1> SUFFICES ASSUME Init PROVE MsgInv
  OBVIOUS
<1>1. TypeInv
  BY TypeInvInit
<1>2. MsgUnique /\ FlightInv
  BY DEF Init, MsgUnique, FlightInv, InFlight, Elems, Distinct
<1>3. ConnInv
  BY DEF Init, ConnInv
<1> QED BY <1>1, <1>2, <1>3 DEF MsgInv

\* Steps that move no message and leave connections and slots alone.
LEMMA MsgInvFrame ==
  ASSUME MsgInv, TypeInv',
         UNCHANGED <<link, backlog, fdConn, slot, queueVars>>
  PROVE  MsgInv'
BY DEF queueVars, MsgInv, MsgUnique, ConnInv, FlightInv, InFlight

LEMMA MsgInvClient == MsgInv /\ ClientNext => MsgInv'
<1> SUFFICES ASSUME MsgInv, NEW c \in Conns, Connect(c) \/ Send(c) \/ Close(c)
             PROVE  MsgInv'
  BY DEF ClientNext
<1>0. TypeInv' /\ TypeOK
  BY TypeInvClient DEF ClientNext, MsgInv, TypeInv
<1>1. CASE Connect(c)
  <2> USE <1>1 DEF Connect, reactorVars, queueVars
  <2>1. MsgUnique'
    BY DEF MsgInv, MsgUnique
  <2>2. /\ \A d \in Conns \ {c} : link'[d] = link[d]
        /\ link[c] = "new" /\ link'[c] = "backlog"
        /\ backlog' = Append(backlog, c) /\ backlog \in Seq(Conns)
        /\ fdConn' = fdConn /\ fdConn \in [Fds -> Conns \cup {NoConn}]
    BY <1>0 DEF TypeOK
  <2>3. ConnInv'
    <3>1. \A f \in Fds : fdConn[f] # NoConn => fdConn[f] \in Conns \ {c}
      BY <2>2 DEF MsgInv, ConnInv
    <3>2. \A i \in DOMAIN backlog : backlog[i] \in Conns \ {c}
      BY <2>2 DEF MsgInv, ConnInv
    <3>3. \A i \in DOMAIN backlog' :
            \/ i \in DOMAIN backlog /\ backlog'[i] = backlog[i]
            \/ i = Len(backlog) + 1 /\ backlog'[i] = c
      BY <2>2
    <3>4. \A i \in DOMAIN backlog' : link'[backlog'[i]] = "backlog"
      BY <2>2, <3>2, <3>3 DEF MsgInv, ConnInv
    <3>5. \A i, j \in DOMAIN backlog' : backlog'[i] = backlog'[j] => i = j
      BY <3>2, <3>3 DEF MsgInv, ConnInv
    <3> QED BY <2>2, <3>1, <3>4, <3>5 DEF MsgInv, ConnInv
  <2>4. FlightInv'
    <3>1. InFlight' = InFlight /\ \A m \in InFlight : m.conn \in Conns
      BY <1>0, InFlightType DEF InFlight, Msg
    <3> QED BY <2>2, <3>1 DEF MsgInv, FlightInv
  <2> QED BY <1>0, <2>1, <2>3, <2>4 DEF MsgInv
<1>2. CASE Send(c) \/ Close(c)
  BY <1>0, <1>2, MsgInvFrame DEF Send, Close, reactorVars, queueVars
<1> QED BY <1>1, <1>2

\* Steps that only take messages away, or move them, and close connections
\* or turn slots to SEND, keep FlightInv.
LEMMA FlightShrinks ==
  ASSUME TypeOK, FlightInv, InFlight' \subseteq InFlight,
         \A c \in Conns : link'[c] \in {link[c], "closed"},
         \A f \in Fds : \/ /\ fdConn'[f] = NoConn
                           /\ fdConn[f] \in Conns => link'[fdConn[f]] = "closed"
                        \/ /\ fdConn'[f] = fdConn[f]
                           /\ slot[f].flag = "TCP_SERVER_SEND"
                                => slot'[f].flag = "TCP_SERVER_SEND"
  PROVE  FlightInv'
<1>1. \A m \in InFlight : m.conn \in Conns /\ m.conn # NoConn /\ m.fd \in Fds
  BY InFlightType, NetIoAssumption DEF Msg
<1> QED BY <1>1 DEF FlightInv

\* The containers move messages from queue to queue and make none.
LEMMA ContainerShrinks ==
  ASSUME TypeOK, ContainerNext
  PROVE  InFlight' \subseteq InFlight
<1>1. ASSUME NEW q \in Cmds, ContainerTake(q)
      PROVE  InFlight' \subseteq InFlight
  <2> DEFINE m == Head(reqQ[q])
  <2>1. /\ reqQ[q] \in Seq(Msg) /\ reqQ[q] # <<>>
        /\ reqQ' = [reqQ EXCEPT ![q] = Tail(reqQ[q])]
        /\ serving' = serving \cup {m} /\ backQ' = backQ
    BY <1>1 DEF ContainerTake, TypeOK
  <2>2. m \in Elems(reqQ[q]) /\ Elems(Tail(reqQ[q])) \subseteq Elems(reqQ[q])
    BY <2>1, TailElems
  <2> HIDE DEF m
  <2>3. \A r \in Cmds : Elems(reqQ'[r]) \subseteq Elems(reqQ[r])
    BY <2>1, <2>2 DEF TypeOK
  <2> QED BY <2>1, <2>2, <2>3 DEF InFlight
<1>2. ASSUME NEW m \in serving, ContainerAnswer(m) \/ ContainerCrash(m)
      PROVE  InFlight' \subseteq InFlight
  <2>1. /\ serving' = serving \ {m} /\ reqQ' = reqQ
        /\ backQ' \in {backQ, PutMsg(backQ, m)}
    BY <1>2 DEF ContainerAnswer, ContainerCrash
  <2>2. Elems(backQ') \subseteq Elems(backQ) \cup {m}
    BY <2>1, PutMsgElems DEF TypeOK
  <2> QED BY <2>1, <2>2 DEF InFlight
<1> QED BY <1>1, <1>2 DEF ContainerNext

LEMMA MsgInvContainer == MsgInv /\ ContainerNext => MsgInv'
<1> SUFFICES ASSUME MsgInv, ContainerNext PROVE MsgInv'
  OBVIOUS
<1>0. TypeInv' /\ TypeOK
  BY TypeInvContainer DEF MsgInv, TypeInv
<1> USE DEF clientVars, kernelVars, reactorVars
<1>1. ASSUME NEW q \in Cmds, ContainerTake(q)
      PROVE  MsgInv'
  <2> DEFINE m == Head(reqQ[q])
  <2>1. /\ reqQ[q] \in Seq(Msg) /\ reqQ[q] # <<>>
        /\ reqQ' = [reqQ EXCEPT ![q] = Tail(reqQ[q])]
        /\ serving' = serving \cup {m}
        /\ UNCHANGED <<link, backlog, fdConn, slot, backQ>>
    BY <1>0, <1>1 DEF ContainerTake, TypeOK
  <2>2. /\ m \in Elems(reqQ[q]) /\ m \in Msg
        /\ Elems(Tail(reqQ[q])) \subseteq Elems(reqQ[q])
        /\ Distinct(Tail(reqQ[q]))
        /\ \A n \in Elems(Tail(reqQ[q])) : n.conn # m.conn
    <3>1. Distinct(reqQ[q])
      BY DEF MsgInv, MsgUnique
    <3> QED BY <2>1, <3>1, TailElems, TailDistinct, TailType
  <2> HIDE DEF m
  <2>3. \A r \in Cmds : reqQ'[r] = IF r = q THEN Tail(reqQ[q]) ELSE reqQ[r]
    BY <1>0, <2>1 DEF TypeOK
  <2>4. \A r \in Cmds : Elems(reqQ'[r]) \subseteq Elems(reqQ[r])
    BY <2>2, <2>3
  <2>5. \A r \in Cmds : \A n \in Elems(reqQ'[r]) : n.conn # m.conn
    <3> SUFFICES ASSUME NEW r \in Cmds, NEW n \in Elems(reqQ'[r])
                 PROVE  n.conn # m.conn
      OBVIOUS
    <3>1. CASE r = q
      BY <2>2, <2>3, <3>1
    <3>2. CASE r # q
      BY <2>2, <2>4, <3>2 DEF MsgInv, MsgUnique
    <3> QED BY <3>1, <3>2
  <2>6. MsgUnique'
    <3>1. \A r \in Cmds : Distinct(reqQ'[r])
      BY <2>2, <2>3 DEF MsgInv, MsgUnique
    <3>2. \A n \in serving \cup Elems(backQ) : n.conn # m.conn
      BY <2>2 DEF MsgInv, MsgUnique
    <3>3. \A r \in Cmds : \A n \in Elems(reqQ'[r]) :
            \A o \in serving' \cup Elems(backQ') : n.conn # o.conn
      <4> SUFFICES ASSUME NEW r \in Cmds, NEW n \in Elems(reqQ'[r]),
                          NEW o \in serving' \cup Elems(backQ')
                   PROVE  n.conn # o.conn
        OBVIOUS
      <4>1. CASE o = m
        BY <2>5, <4>1
      <4>2. CASE o # m
        <5>1. o \in serving \cup Elems(backQ) /\ n \in Elems(reqQ[r])
          BY <2>1, <2>4, <4>2
        <5> QED BY <5>1 DEF MsgInv, MsgUnique
      <4> QED BY <4>1, <4>2
    <3>4. /\ Distinct(backQ')
          /\ \A n, o \in serving' : n.conn = o.conn => n = o
          /\ \A r \in Cmds : \A n \in Elems(reqQ'[r]) : CmdOf[n.conn] = r
          /\ \A n \in serving' : \A o \in Elems(backQ') : n.conn # o.conn
      BY <2>1, <2>4, <3>2 DEF MsgInv, MsgUnique
    <3> QED BY <3>1, <3>3, <3>4 DEF MsgUnique
  <2>7. ConnInv'
    BY <2>1 DEF MsgInv, ConnInv
  <2>8. FlightInv'
    BY <1>0, <2>1, ContainerShrinks, FlightShrinks DEF MsgInv
  <2> QED BY <1>0, <2>6, <2>7, <2>8 DEF MsgInv
<1>2. ASSUME NEW m \in serving, ContainerAnswer(m) \/ ContainerCrash(m)
      PROVE  MsgInv'
  <2>1. /\ serving' = serving \ {m}
        /\ backQ' \in {backQ, PutMsg(backQ, m)}
        /\ UNCHANGED <<link, backlog, fdConn, slot, reqQ>>
    BY <1>2 DEF ContainerAnswer, ContainerCrash
  <2>2. m \in Msg /\ backQ \in Seq(Msg) /\ Distinct(backQ)
    BY <1>0 DEF TypeOK, MsgInv, MsgUnique
  <2>3. \A n \in Elems(backQ) : n.conn # m.conn
    BY DEF MsgInv, MsgUnique
  <2>4. Distinct(backQ') /\ Elems(backQ') \subseteq Elems(backQ) \cup {m}
    BY <2>1, <2>2, <2>3, PutMsgDistinct, PutMsgElems
  <2>5. MsgUnique'
    <3>1. \A n \in serving' : n.conn # m.conn
      BY <2>1 DEF MsgInv, MsgUnique
    <3>2. \A q \in Cmds : \A n \in Elems(reqQ[q]) : n.conn # m.conn
      BY DEF MsgInv, MsgUnique
    <3> QED BY <2>1, <2>4, <3>1, <3>2 DEF MsgInv, MsgUnique
  <2>6. ConnInv'
    BY <2>1 DEF MsgInv, ConnInv
  <2>7. FlightInv'
    BY <1>0, <2>1, ContainerShrinks, FlightShrinks DEF MsgInv
  <2> QED BY <1>0, <2>5, <2>6, <2>7 DEF MsgInv
<1> QED BY <1>1, <1>2 DEF ContainerNext

LEMMA MsgInvLoop ==
  MsgInv /\ (Wait \/ Fire \/ EndRound \/ AcceptEnd) => MsgInv'
<1> SUFFICES ASSUME MsgInv, Wait \/ Fire \/ EndRound \/ AcceptEnd PROVE MsgInv'
  OBVIOUS
<1> USE DEF clientVars, kernelVars, queueVars
<1>0. TypeInv' /\ TypeOK
  BY TypeInvLoop DEF MsgInv, TypeInv
<1>1. CASE Wait \/ EndRound \/ AcceptEnd
  BY <1>0, <1>1, MsgInvFrame DEF Wait, EndRound, AcceptEnd
<1>2. CASE Fire /\ backQ = <<>>
  BY <1>0, <1>2, MsgInvFrame DEF Fire, OnEventFire
<1>3. CASE Fire /\ backQ # <<>>
  <2> DEFINE m == Head(backQ)
  <2>1. /\ backQ' = Tail(backQ) /\ backQ \in Seq(Msg)
        /\ WatchForSend(m.fd, m.addr)
        /\ UNCHANGED <<link, backlog, fdConn, reqQ, serving>>
    BY <1>0, <1>3 DEF Fire, OnEventFire, TypeOK
  <2>2. Distinct(backQ') /\ Elems(backQ') \subseteq Elems(backQ)
    BY <1>3, <2>1, TailElems, TailDistinct DEF MsgInv, MsgUnique
  <2>3. MsgUnique'
    BY <2>1, <2>2 DEF MsgInv, MsgUnique
  <2>4. ConnInv'
    BY <2>1 DEF MsgInv, ConnInv
  <2>5. \A f \in Fds : slot[f].flag = "TCP_SERVER_SEND"
                         => slot'[f].flag = "TCP_SERVER_SEND"
    <3> HIDE DEF m
    <3>1. CASE slot' = [slot EXCEPT ![m.fd] = [flag |-> "TCP_SERVER_SEND",
                                               addr |-> m.addr]]
      BY <1>0, <3>1 DEF TypeOK
    <3> QED BY <2>1, <3>1 DEF WatchForSend
  <2>6. FlightInv'
    <3>1. InFlight' \subseteq InFlight
      BY <2>1, <2>2 DEF InFlight
    <3> QED BY <1>0, <2>1, <2>5, <3>1, FlightShrinks DEF MsgInv
  <2> QED BY <1>0, <2>3, <2>4, <2>6 DEF MsgInv
<1> QED BY <1>1, <1>2, <1>3

\* Closing a descriptor ends its connection's claim to it, and no other's.
LEMMA MsgInvCloseFd ==
  ASSUME MsgInv, TypeInv', NEW f \in Fds, fdConn[f] \in Conns, CloseFd(f),
         \A g \in Fds \ {f} : slot'[g] = slot[g],
         UNCHANGED queueVars
  PROVE  MsgInv'
<1>0. TypeOK
  BY DEF MsgInv, TypeInv
<1>1. /\ \A g \in Fds \ {f} : fdConn'[g] = fdConn[g]
      /\ fdConn'[f] = NoConn
      /\ backlog' = backlog
      /\ link' = [link EXCEPT ![fdConn[f]] = "closed"]
  BY <1>0, CloseFdType DEF CloseFd
<1>2. MsgUnique'
  BY DEF MsgInv, MsgUnique, queueVars
<1>3. ConnInv'
  <2>1. link[fdConn[f]] = "open"
    BY NetIoAssumption DEF MsgInv, ConnInv
  <2>2. \A i \in DOMAIN backlog : backlog[i] # fdConn[f] /\ backlog[i] \in Conns
    BY <1>0, <2>1 DEF MsgInv, ConnInv, TypeOK
  <2>3. \A i \in DOMAIN backlog' : link'[backlog'[i]] = "backlog"
    BY <1>0, <1>1, <2>2 DEF MsgInv, ConnInv, TypeOK
  <2>4. \A g \in Fds \ {f} : fdConn[g] # NoConn =>
                               fdConn[g] \in Conns /\ fdConn[g] # fdConn[f]
    BY <1>0 DEF MsgInv, ConnInv, TypeOK
  <2>5. \A g \in Fds : fdConn'[g] # NoConn => link'[fdConn'[g]] = "open"
    BY <1>0, <1>1, <2>4, ZenonT(60) DEF MsgInv, ConnInv, TypeOK
  <2>6. \A g, h \in Fds : fdConn'[g] = fdConn'[h] /\ fdConn'[g] # NoConn => g = h
    BY <1>1 DEF MsgInv, ConnInv
  <2> QED BY <1>1, <2>3, <2>5, <2>6 DEF MsgInv, ConnInv
<1>4. FlightInv'
  <2>1. InFlight' = InFlight
    BY DEF InFlight, queueVars
  <2>2. /\ \A c \in Conns : link'[c] \in {link[c], "closed"}
        /\ link'[fdConn[f]] = "closed"
    BY <1>0, <1>1 DEF TypeOK
  <2> QED BY <1>0, <1>1, <2>1, <2>2, FlightShrinks DEF MsgInv
<1> QED BY <1>2, <1>3, <1>4 DEF MsgInv

LEMMA MsgInvEvent ==
  ASSUME MsgInv, NEW e \in batch,
         CloseEvent(e) \/ AcceptEvent(e) \/ ReadEvent(e) \/ SendEvent(e)
  PROVE  MsgInv'
<1> DEFINE f == e.fd
           c == fdConn[f]
           q == CmdOf[c]
           m == [fd |-> f, addr |-> slot[f].addr, conn |-> c]
<1>0. TypeInv' /\ TypeInv /\ TypeOK
  BY TypeInvEvent DEF MsgInv, TypeInv
<1>1. CASE AcceptEvent(e)
  BY <1>0, <1>1, MsgInvFrame DEF AcceptEvent, clientVars, kernelVars
<1>2. e # ListenEvent =>
        /\ f \in Fds /\ c \in Conns
        /\ slot[f].flag = "TCP_SERVER_READ" => slot[f].addr = AddrOf[c]
  BY <1>0, EventFacts
<1>3. CASE CloseEvent(e) \/ SendEvent(e)
  <2>1. e # ListenEvent /\ DoClose(f) /\ UNCHANGED queueVars
    BY <1>3 DEF CloseEvent, SendEvent, ListenEvent
  <2>2. CloseFd(f) /\ \A g \in Fds \ {f} : slot'[g] = slot[g]
    BY <1>0, <1>2, <2>1, DoCloseType
  <2> QED BY <1>0, <1>2, <2>1, <2>2, MsgInvCloseFd
<1>4. CASE ReadEvent(e) /\ DoRecvFailed(f)
  <2>1. e # ListenEvent /\ CloseFd(f) /\ UNCHANGED queueVars /\ slot' = slot
    BY <1>4 DEF ReadEvent, DoRecvFailed, queueVars
  <2> QED BY <1>0, <1>2, <2>1, MsgInvCloseFd
<1>5. CASE ReadEvent(e) /\ DoRecv(f)
  <2>1. /\ f \in Fds /\ c \in Conns /\ slot[f].addr = AddrOf[c]
        /\ slot[f].flag = "TCP_SERVER_READ"
        /\ m \in Msg /\ q \in Cmds
    BY <1>2, <1>5, NetIoAssumption DEF ReadEvent, Msg
  <2>2. /\ reqQ' = [reqQ EXCEPT ![q] = PutMsg(reqQ[q], m)]
        /\ slot' = [slot EXCEPT ![f].flag = "TCP_SERVER_SEND"]
        /\ UNCHANGED <<link, backlog, fdConn, serving, backQ>>
    BY <1>5 DEF ReadEvent, DoRecv, kernelVars
  <2>3. link[c] = "open" /\ \A g \in Fds : fdConn[g] = c => g = f
    BY <2>1, NetIoAssumption DEF MsgInv, ConnInv
  <2>4. \A n \in InFlight : n.conn # c
    BY <2>1 DEF MsgInv, FlightInv
  <2>5. m.conn = c /\ m.fd = f /\ m.addr = AddrOf[c] /\ fdConn[f] = c
    BY <2>1
  <2>6. reqQ[q] \in Seq(Msg) /\ Distinct(reqQ[q])
    BY <1>0, <2>1 DEF TypeOK, MsgInv, MsgUnique
  <2>7. slot'[f].flag = "TCP_SERVER_SEND" /\ \A g \in Fds \ {f} : slot'[g] = slot[g]
    BY <1>0, <2>1, <2>2 DEF TypeOK, SockItem
  <2> HIDE DEF m, c, q, f
  <2>8. /\ \A n \in Elems(reqQ[q]) : n.conn # m.conn
        /\ Distinct(PutMsg(reqQ[q], m))
        /\ Elems(PutMsg(reqQ[q], m)) \subseteq Elems(reqQ[q]) \cup {m}
    <3>1. \A n \in Elems(reqQ[q]) : n.conn # m.conn
      BY <2>1, <2>4, <2>5 DEF InFlight
    <3> QED BY <2>1, <2>6, <3>1, PutMsgDistinct, PutMsgElems
  <2>9. \A r \in Cmds : reqQ'[r] = IF r = q THEN PutMsg(reqQ[q], m) ELSE reqQ[r]
    BY <1>0, <2>2 DEF TypeOK
  <2>10. \A r \in Cmds : \A n \in Elems(reqQ'[r]) :
           n \in Elems(reqQ[r]) \/ (r = q /\ n = m)
    BY <2>8, <2>9
  <2>11. InFlight' \subseteq InFlight \cup {m}
    BY <2>2, <2>10 DEF InFlight
  <2>12. MsgUnique'
    <3>1. \A r \in Cmds : Distinct(reqQ'[r])
      BY <2>8, <2>9 DEF MsgInv, MsgUnique
    <3>2. \A r \in Cmds : \A n \in Elems(reqQ'[r]) : CmdOf[n.conn] = r
      <4>1. CmdOf[m.conn] = q
        BY <2>5 DEF q
      <4> QED BY <2>10, <4>1 DEF MsgInv, MsgUnique
    <3>3. \A r \in Cmds : \A n \in Elems(reqQ'[r]) :
            \A o \in serving' \cup Elems(backQ') : n.conn # o.conn
      <4> SUFFICES ASSUME NEW r \in Cmds, NEW n \in Elems(reqQ'[r]),
                          NEW o \in serving \cup Elems(backQ)
                   PROVE  n.conn # o.conn
        BY <2>2
      <4>1. CASE n = m
        BY <2>4, <2>5, <4>1 DEF InFlight
      <4>2. CASE n # m
        BY <2>10, <4>2 DEF MsgInv, MsgUnique
      <4> QED BY <4>1, <4>2
    <3> QED BY <2>2, <3>1, <3>2, <3>3 DEF MsgInv, MsgUnique
  <2>13. ConnInv'
    BY <2>2 DEF MsgInv, ConnInv
  <2>14. FlightInv'
    <3> SUFFICES ASSUME NEW n \in InFlight'
                 PROVE  /\ link[n.conn] \in {"open", "closed"}
                        /\ fdConn[n.fd] = n.conn \/ link[n.conn] = "closed"
                        /\ n.addr = AddrOf[n.conn]
                        /\ \A g \in Fds : fdConn[g] = n.conn =>
                             g = n.fd /\ slot'[g].flag = "TCP_SERVER_SEND"
      BY <2>2 DEF FlightInv
    <3>1. CASE n = m
      BY <2>3, <2>5, <2>7, <3>1
    <3>2. CASE n \in InFlight
      BY <2>7, <3>2 DEF MsgInv, FlightInv
    <3> QED BY <2>11, <3>1, <3>2
  <2> QED BY <1>0, <2>12, <2>13, <2>14 DEF MsgInv
<1> QED BY <1>1, <1>3, <1>4, <1>5 DEF ReadEvent

LEMMA MsgInvAccept ==
  ASSUME MsgInv, NEW f \in Fds, AcceptOne(f)
  PROVE  MsgInv'
<1> DEFINE c == Head(backlog)
<1>0. TypeInv' /\ TypeOK
  BY TypeInvAccept DEF MsgInv, TypeInv
<1>1. /\ backlog # <<>> /\ fdConn[f] = NoConn
      /\ backlog' = Tail(backlog)
      /\ link' = [link EXCEPT ![c] = "open"]
      /\ fdConn' = [fdConn EXCEPT ![f] = c]
      /\ slot' = [slot EXCEPT ![f] = [flag |-> "TCP_SERVER_READ", addr |-> AddrOf[c]]]
      /\ UNCHANGED queueVars
  BY DEF AcceptOne
<1>2. backlog \in Seq(Conns) /\ c \in Conns /\ c # NoConn /\ c = backlog[1]
      /\ 1 \in DOMAIN backlog
  BY <1>0, <1>1, NetIoAssumption DEF TypeOK
<1>3. \A i \in DOMAIN backlog' : /\ i + 1 \in DOMAIN backlog
                                 /\ backlog'[i] = backlog[i + 1]
                                 /\ i \in Nat /\ i + 1 # 1
  BY <1>1, <1>2
<1> HIDE DEF c
<1>4. link[c] = "backlog"
  BY <1>2 DEF MsgInv, ConnInv
<1>5. \A g \in Fds \ {f} : fdConn'[g] = fdConn[g] /\ slot'[g] = slot[g]
  BY <1>1
<1>6. fdConn'[f] = c /\ link'[c] = "open" /\ \A d \in Conns \ {c} : link'[d] = link[d]
  BY <1>0, <1>1, <1>2 DEF TypeOK
<1>7. \A g \in Fds : fdConn[g] # NoConn => fdConn[g] \in Conns \ {c}
  BY <1>0, <1>4 DEF MsgInv, ConnInv, TypeOK
<1>8. MsgUnique'
  BY <1>1 DEF MsgInv, MsgUnique, queueVars
<1>9. ConnInv'
  <2>1. \A g \in Fds : fdConn'[g] # NoConn => link'[fdConn'[g]] = "open"
    BY <1>5, <1>6, <1>7 DEF MsgInv, ConnInv
  <2>2. \A g, h \in Fds : fdConn'[g] = fdConn'[h] /\ fdConn'[g] # NoConn => g = h
    BY <1>5, <1>6, <1>7 DEF MsgInv, ConnInv
  <2>3. \A i \in DOMAIN backlog' : backlog'[i] \in Conns \ {c}
    BY <1>2, <1>3 DEF MsgInv, ConnInv
  <2>4. \A i \in DOMAIN backlog' : link'[backlog'[i]] = "backlog"
    BY <1>3, <1>6, <2>3 DEF MsgInv, ConnInv
  <2>5. \A i, j \in DOMAIN backlog' : backlog'[i] = backlog'[j] => i = j
    <3> SUFFICES ASSUME NEW i \in DOMAIN backlog', NEW j \in DOMAIN backlog',
                        backlog'[i] = backlog'[j]
                 PROVE  i = j
      OBVIOUS
    <3>1. i + 1 = j + 1
      BY <1>3 DEF MsgInv, ConnInv
    <3> QED BY <1>3, <3>1
  <2> QED BY <2>1, <2>2, <2>4, <2>5 DEF ConnInv
<1>10. FlightInv'
  <2>1. \A n \in InFlight : n.conn \in Conns \ {c} /\ n.fd \in Fds /\ n.conn # NoConn
    BY <1>0, <1>4, InFlightType, NetIoAssumption DEF MsgInv, FlightInv, Msg
  <2>2. InFlight' = InFlight
    BY <1>1 DEF InFlight, queueVars
  <2> QED BY <1>1, <1>5, <1>6, <2>1, <2>2 DEF MsgInv, FlightInv
<1> QED BY <1>0, <1>8, <1>9, <1>10 DEF MsgInv

\* A message keeps saying the truth about its connection, which is closed.
LEMMA MsgInvRestart == MsgInv /\ Restart => MsgInv'
<1> SUFFICES ASSUME MsgInv, Restart PROVE MsgInv'
  OBVIOUS
<1>1. TypeInv' /\ TypeOK
  BY TypeInvRestart DEF MsgInv, TypeInv
<1>2. MsgUnique'
  BY <1>1, RestartFacts DEF MsgInv, MsgUnique
<1>3. ConnInv'
  BY <1>1, RestartFacts, NetIoAssumption DEF MsgInv, ConnInv
<1>4. FlightInv'
  BY <1>1, RestartFacts, InFlightType, NetIoAssumption
     DEF MsgInv, FlightInv, Msg
<1> QED BY <1>1, <1>2, <1>3, <1>4 DEF MsgInv

LEMMA MsgInvNext == MsgInv /\ [Next]_vars => MsgInv'
<1> SUFFICES ASSUME MsgInv, [Next]_vars PROVE MsgInv'
  OBVIOUS
<1>1. CASE ClientNext
  BY <1>1, MsgInvClient
<1>2. CASE ContainerNext
  BY <1>2, MsgInvContainer
<1>3. CASE ReactorNext
  BY <1>3, MsgInvLoop, MsgInvAccept, MsgInvEvent DEF ReactorNext
<1>4. CASE UNCHANGED vars
  <2>1. TypeInv'
    BY <1>4, TypeInvNext DEF MsgInv
  <2> QED BY <1>4, <2>1, MsgInvFrame DEF vars, clientVars, kernelVars, reactorVars
<1> QED BY <1>1, <1>2, <1>3, <1>4, MsgInvRestart DEF Next

-----------------------------------------------------------------------------
(* The socket check of AddToWatchList.  The comparison with the slot's port *)
(* tells the response's connection from the one now on the descriptor,     *)
(* unless both came from the same port.                                    *)

\* A descriptor registered for EPOLLOUT is open and its slot says SEND.
OutMeansSend ==
  \A f \in Fds : reg[f] = "out" => /\ fdConn[f] # NoConn
                                   /\ slot[f].flag = "TCP_SERVER_SEND"

\* What AddToWatchList does to the descriptor's registration.
LEMMA WatchForSendMask ==
  ASSUME TypeOK, NEW f \in Fds, NEW a \in Addrs, WatchForSend(f, a)
  PROVE  \/ reg' = reg
         \/ /\ SameClient(f, a)
            /\ reg' = [reg EXCEPT ![f] = "out"]
            /\ slot' = [slot EXCEPT ![f] = [flag |-> "TCP_SERVER_SEND", addr |-> a]]
            /\ reg[f] # "none" \/ fdConn[f] # NoConn
BY DEF WatchForSend, EpollCtl, TypeOK

\* The slot after AddToWatchList: as it was, or SEND.
LEMMA WatchForSendSlot ==
  ASSUME TypeOK, NEW f \in Fds, NEW a \in Addrs, WatchForSend(f, a)
  PROVE  \A g \in Fds : slot'[g] = slot[g] \/ slot'[g].flag = "TCP_SERVER_SEND"
<1>1. CASE slot' = [slot EXCEPT ![f] = [flag |-> "TCP_SERVER_SEND", addr |-> a]]
  BY <1>1 DEF TypeOK
<1> QED BY <1>1 DEF WatchForSend

\* Every step keeps OutMeansSend; only OnEventFire sets the mask "out".
LEMMA OutMeansSendNext ==
  ASSUME MsgInv, OutMeansSend, [Next]_vars
  PROVE  OutMeansSend'
<1>0. TypeInv /\ TypeOK
  BY DEF MsgInv, TypeInv
<1>1. CASE UNCHANGED <<reg, fdConn, slot>>
  BY <1>1 DEF OutMeansSend
<1>2. CASE Fire /\ backQ # <<>>
  <2> DEFINE m == Head(backQ)
  <2>1. /\ WatchForSend(m.fd, m.addr)
        /\ UNCHANGED fdConn
        /\ m \in Msg
    BY <1>0, <1>2, TailType DEF Fire, OnEventFire, TypeOK
  <2>2. m.fd \in Fds /\ m.addr \in Addrs
    BY <2>1 DEF Msg
  <2> HIDE DEF m
  <2>3. \A g \in Fds : slot'[g] = slot[g] \/ slot'[g].flag = "TCP_SERVER_SEND"
    BY <1>0, <2>1, <2>2, WatchForSendSlot
  <2>4. CASE reg' = reg
    BY <2>1, <2>3, <2>4 DEF OutMeansSend
  <2>5. CASE /\ reg' = [reg EXCEPT ![m.fd] = "out"]
             /\ slot' = [slot EXCEPT ![m.fd] = [flag |-> "TCP_SERVER_SEND",
                                                addr |-> m.addr]]
             /\ reg[m.fd] # "none" \/ fdConn[m.fd] # NoConn
    <3>1. fdConn[m.fd] # NoConn
      BY <1>0, <2>2, <2>5 DEF TypeInv, OpenSlots
    <3> QED BY <1>0, <2>1, <2>2, <2>3, <2>5, <3>1 DEF OutMeansSend, TypeOK
  <2> QED BY <1>0, <2>1, <2>2, <2>4, <2>5, WatchForSendMask
<1>3. ASSUME NEW f \in Fds, AcceptOne(f)
      PROVE  OutMeansSend'
  <2>1. /\ fdConn[f] = NoConn /\ reg[f] # "out"
        /\ \A g \in Fds \ {f} : fdConn'[g] = fdConn[g] /\ slot'[g] = slot[g]
    BY <1>0, <1>3 DEF AcceptOne, TypeInv, OpenSlots
  <2>2. Head(backlog) \in Conns /\ WatchForRead(f, Head(backlog))
    BY <1>0, <1>3, TailType DEF AcceptOne, TypeOK
  <2>3. reg'[f] # "out" /\ \A g \in Fds \ {f} : reg'[g] = reg[g]
    BY <1>0, <2>1, <2>2, WatchForReadType
  <2> QED BY <2>1, <2>3 DEF OutMeansSend
<1>4. ASSUME NEW e \in batch, e # ListenEvent, CloseFd(e.fd),
             \A g \in Fds \ {e.fd} : slot'[g] = slot[g]
      PROVE  OutMeansSend'
  <2>1. e.fd \in Fds /\ fdConn[e.fd] \in Conns
    BY <1>0, <1>4, EventFacts
  <2>2. /\ \A g \in Fds \ {e.fd} : fdConn'[g] = fdConn[g] /\ reg'[g] = reg[g]
        /\ reg'[e.fd] = "none"
    BY <1>0, <1>4, <2>1, CloseFdType
  <2> QED BY <1>4, <2>2 DEF OutMeansSend
<1>5. ASSUME NEW e \in batch, CloseEvent(e) \/ SendEvent(e)
      PROVE  OutMeansSend'
  <2>1. e # ListenEvent /\ DoClose(e.fd)
    BY <1>5 DEF CloseEvent, SendEvent, ListenEvent
  <2>2. e.fd \in Fds /\ fdConn[e.fd] \in Conns
    BY <1>0, <2>1, EventFacts
  <2> QED BY <1>0, <1>4, <2>1, <2>2, DoCloseType
<1>6. ASSUME NEW e \in batch, ReadEvent(e)
      PROVE  OutMeansSend'
  <2>1. CASE DoRecv(e.fd)
    <3>1. UNCHANGED <<reg, fdConn>> /\ slot' = [slot EXCEPT ![e.fd].flag = "TCP_SERVER_SEND"]
      BY <2>1 DEF DoRecv, kernelVars
    <3>2. \A g \in Fds : slot'[g] = slot[g] \/ slot'[g].flag = "TCP_SERVER_SEND"
      BY <1>0, <3>1 DEF TypeOK, SockItem
    <3> QED BY <3>1, <3>2 DEF OutMeansSend
  <2>2. CASE DoRecvFailed(e.fd)
    BY <1>4, <1>6, <2>2 DEF ReadEvent, DoRecvFailed
  <2> QED BY <1>6, <2>1, <2>2 DEF ReadEvent
<1> USE DEF clientVars, kernelVars, reactorVars, queueVars
<1>7. CASE ClientNext \/ ContainerNext \/ UNCHANGED vars
  BY <1>1, <1>7 DEF ClientNext, Connect, Send, Close, ContainerNext,
                    ContainerTake, ContainerAnswer, ContainerCrash, vars
<1>8. CASE Wait \/ EndRound \/ AcceptEnd \/ (Fire /\ backQ = <<>>)
  BY <1>1, <1>8 DEF Wait, EndRound, AcceptEnd, Fire, OnEventFire
<1>9. ASSUME NEW e \in batch, AcceptEvent(e)
      PROVE  OutMeansSend'
  BY <1>1, <1>9 DEF AcceptEvent
<1>10. CASE Restart
  BY <1>0, <1>10, RestartFacts DEF OutMeansSend
<1> QED BY <1>2, <1>3, <1>5, <1>6, <1>7, <1>8, <1>9, <1>10 DEF Next, ReactorNext

ArmedInv == MsgInv /\ OutMeansSend /\ ArmedOnlyWhenAnswered

\* A connection that is closed stays so.
LEMMA ClosedStays ==
  ASSUME MsgInv, [Next]_vars, NEW d \in Conns, link[d] = "closed"
  PROVE  link'[d] = "closed"
<1>0. TypeOK /\ ConnInv
  BY DEF MsgInv, TypeInv
<1>1. ASSUME NEW c, link[c] # "closed", NEW l, link' = [link EXCEPT ![c] = l]
      PROVE  link'[d] = "closed"
  BY <1>0, <1>1 DEF TypeOK
<1>2. ASSUME NEW f, CloseFd(f)
      PROVE  link'[d] = "closed"
  BY <1>0, <1>2 DEF CloseFd, TypeOK
<1>3. ASSUME NEW f \in Fds, AcceptOne(f)
      PROVE  link'[d] = "closed"
  <2>1. link[Head(backlog)] = "backlog"
    BY <1>0, <1>3 DEF AcceptOne, ConnInv, TypeOK
  <2> QED BY <1>1, <1>3, <2>1 DEF AcceptOne
<1>4. ASSUME NEW c \in Conns, Connect(c) \/ Send(c) \/ Close(c)
      PROVE  link'[d] = "closed"
  BY <1>1, <1>4 DEF Connect, Send, Close
<1>5. ASSUME NEW e \in batch,
             CloseEvent(e) \/ AcceptEvent(e) \/ ReadEvent(e) \/ SendEvent(e)
      PROVE  link'[d] = "closed"
  BY <1>2, <1>5 DEF CloseEvent, AcceptEvent, ReadEvent, SendEvent, DoClose, DoRecv,
                    DoRecvFailed, clientVars
<1>6. CASE ContainerNext \/ Wait \/ Fire \/ EndRound \/ AcceptEnd \/ UNCHANGED vars
  BY <1>6 DEF ContainerNext, ContainerTake, ContainerAnswer, ContainerCrash, Wait, Fire,
              EndRound, AcceptEnd, clientVars, vars
<1>7. CASE Restart
  BY <1>7 DEF Restart
<1> QED BY <1>3, <1>4, <1>5, <1>6, <1>7 DEF Next, ClientNext, ReactorNext

\* Steps that add no message and arm no descriptor keep the descriptors that
\* are armed answered.
LEMMA ArmedFrame ==
  ASSUME ArmedInv, OutMeansSend', InFlight' \subseteq InFlight,
         \A d \in Conns : link[d] = "closed" => link'[d] = "closed",
         \A f \in Fds : reg'[f] = "out" => reg[f] = "out" /\ fdConn'[f] = fdConn[f]
  PROVE  ArmedOnlyWhenAnswered'
BY DEF ArmedInv, ArmedOnlyWhenAnswered, OutMeansSend

LEMMA ArmedNext ==
  ASSUME ArmedInv, [Next]_vars
  PROVE  ArmedInv'
<1>0. MsgInv /\ TypeInv /\ TypeOK /\ OutMeansSend /\ MsgInv' /\ TypeOK'
  BY MsgInvNext DEF ArmedInv, MsgInv, TypeInv
<1>1. /\ OutMeansSend'
      /\ \A d \in Conns : link[d] = "closed" => link'[d] = "closed"
  BY <1>0, OutMeansSendNext, ClosedStays
<1> SUFFICES ArmedOnlyWhenAnswered'
  BY <1>0, <1>1 DEF ArmedInv
<1>2. CASE Fire /\ backQ # <<>>
  <2> DEFINE m == Head(backQ)
  <2>1. /\ WatchForSend(m.fd, m.addr)
        /\ backQ \in Seq(Msg) /\ backQ' = Tail(backQ)
        /\ UNCHANGED <<fdConn, reqQ, serving>>
        /\ m \in Msg
    BY <1>0, <1>2, TailType DEF Fire, OnEventFire, TypeOK
  <2>2. /\ m \in Elems(backQ) /\ Elems(backQ') \subseteq Elems(backQ)
        /\ \A n \in Elems(backQ') : n.conn # m.conn
    BY <1>0, <1>2, <2>1, TailElems, TailDistinct DEF MsgInv, MsgUnique
  <2>3. m.fd \in Fds /\ m.addr \in Addrs /\ m.conn \in Conns
    BY <2>1 DEF Msg
  <2> HIDE DEF m
  <2>4. InFlight' \subseteq InFlight /\ m \in InFlight
    BY <2>1, <2>2 DEF InFlight
  <2>5. \A n \in InFlight' : n.conn # m.conn
    BY <1>0, <2>1, <2>2 DEF InFlight, MsgInv, MsgUnique
  <2>6. CASE reg' = reg
    BY <1>1, <2>1, <2>4, <2>6, ArmedFrame
  <2>7. CASE /\ SameClient(m.fd, m.addr)
             /\ reg' = [reg EXCEPT ![m.fd] = "out"]
             /\ reg[m.fd] # "none" \/ fdConn[m.fd] # NoConn
    <3>1. /\ fdConn[m.fd] \in Conns
          /\ slot[m.fd].addr.port = AddrOf[fdConn[m.fd]].port
      <4>1. fdConn[m.fd] # NoConn
        BY <1>0, <2>3, <2>7 DEF TypeInv, OpenSlots
      <4>2. fdConn[m.fd] \in Conns
        BY <1>0, <2>3, <4>1 DEF TypeOK
      <4> QED BY <1>0, <2>3, <4>1, <4>2 DEF TypeInv, OpenSlots
    <3>2. /\ m.addr = AddrOf[m.conn]
          /\ fdConn[m.fd] = m.conn \/ link[m.conn] = "closed"
      BY <1>0, <2>4 DEF MsgInv, FlightInv
    <3>3. SamePort(m.conn, fdConn[m.fd])
      BY <2>7, <3>1, <3>2 DEF SameClient, SamePort
    <3>4. /\ \A f \in Fds \ {m.fd} : reg'[f] = reg[f]
          /\ link'[m.conn] = "closed" \/ fdConn[m.fd] = m.conn
      BY <1>0, <1>1, <2>3, <2>7, <3>2 DEF TypeOK
    <3>5. \/ \A n \in InFlight' : n.conn # fdConn[m.fd]
          \/ /\ m.conn \in Conns \ {fdConn[m.fd]}
             /\ link'[m.conn] = "closed"
             /\ SamePort(m.conn, fdConn[m.fd])
      BY <2>3, <2>5, <3>3, <3>4
    <3>6. \A f \in Fds \ {m.fd} : reg'[f] = "out" =>
            \/ \A n \in InFlight' : n.conn # fdConn[f]
            \/ \E d \in Conns \ {fdConn[f]} :
                 link'[d] = "closed" /\ SamePort(d, fdConn[f])
      BY <1>1, <2>4, <3>4 DEF ArmedInv, ArmedOnlyWhenAnswered
    <3>7. \A f \in Fds : reg'[f] = "out" =>
            \/ \A n \in InFlight' : n.conn # fdConn[f]
            \/ \E d \in Conns \ {fdConn[f]} :
                 link'[d] = "closed" /\ SamePort(d, fdConn[f])
      BY <3>5, <3>6
    <3> QED BY <1>1, <2>1, <3>7 DEF ArmedOnlyWhenAnswered, OutMeansSend, SamePort
  <2> QED BY <1>0, <2>1, <2>3, <2>6, <2>7, WatchForSendMask
<1>3. ASSUME NEW f \in Fds, AcceptOne(f)
      PROVE  ArmedOnlyWhenAnswered'
  <2>1. /\ fdConn[f] = NoConn /\ reg[f] # "out"
        /\ \A g \in Fds \ {f} : fdConn'[g] = fdConn[g]
        /\ UNCHANGED queueVars
    BY <1>0, <1>3 DEF AcceptOne, TypeInv, OpenSlots
  <2>2. Head(backlog) \in Conns /\ WatchForRead(f, Head(backlog))
    BY <1>0, <1>3, TailType DEF AcceptOne, TypeOK
  <2>3. reg'[f] # "out" /\ \A g \in Fds \ {f} : reg'[g] = reg[g]
    BY <1>0, <2>1, <2>2, WatchForReadType
  <2>4. InFlight' = InFlight
    BY <2>1 DEF InFlight, queueVars
  <2> QED BY <1>1, <2>1, <2>3, <2>4, ArmedFrame
<1>4. ASSUME NEW e \in batch, e # ListenEvent, CloseFd(e.fd), UNCHANGED queueVars
      PROVE  ArmedOnlyWhenAnswered'
  <2>1. e.fd \in Fds /\ fdConn[e.fd] \in Conns
    BY <1>0, <1>4, EventFacts
  <2>2. /\ \A g \in Fds \ {e.fd} : fdConn'[g] = fdConn[g] /\ reg'[g] = reg[g]
        /\ reg'[e.fd] = "none"
    BY <1>0, <1>4, <2>1, CloseFdType
  <2>3. InFlight' = InFlight
    BY <1>4 DEF InFlight, queueVars
  <2> QED BY <1>1, <2>2, <2>3, ArmedFrame
<1>5. ASSUME NEW e \in batch, CloseEvent(e) \/ SendEvent(e)
      PROVE  ArmedOnlyWhenAnswered'
  BY <1>4, <1>5 DEF CloseEvent, SendEvent, ListenEvent, DoClose
<1>6. ASSUME NEW e \in batch, ReadEvent(e), DoRecv(e.fd)
      PROVE  ArmedOnlyWhenAnswered'
  <2> DEFINE f == e.fd
             c == fdConn[f]
             q == CmdOf[c]
             m == [fd |-> f, addr |-> slot[f].addr, conn |-> c]
  <2>1. /\ UNCHANGED <<reg, fdConn, serving, backQ>>
        /\ reqQ' = [reqQ EXCEPT ![q] = PutMsg(reqQ[q], m)]
        /\ slot[f].flag = "TCP_SERVER_READ"
    BY <1>6 DEF DoRecv, kernelVars, ReadEvent
  <2>2. f \in Fds /\ c \in Conns /\ q \in Cmds /\ m \in Msg
    <3>1. f \in Fds /\ c \in Conns /\ slot[f].addr = AddrOf[c]
      BY <1>0, <1>6, <2>1, EventFacts DEF ReadEvent
    <3> QED BY <3>1, NetIoAssumption DEF Msg
  <2>3. m.conn = c
    OBVIOUS
  <2>4. \A g \in Fds : fdConn[g] = c => reg[g] # "out"
    BY <1>0, <2>1, <2>2, NetIoAssumption DEF MsgInv, ConnInv, OutMeansSend
  <2> HIDE DEF m, q, c, f
  <2>5. Elems(PutMsg(reqQ[q], m)) \subseteq Elems(reqQ[q]) \cup {m}
    BY <1>0, <2>2, PutMsgElems DEF TypeOK
  <2>6. InFlight' \subseteq InFlight \cup {m}
    <3>1. \A r \in Cmds : reqQ'[r] = IF r = q THEN PutMsg(reqQ[q], m) ELSE reqQ[r]
      BY <1>0, <2>1 DEF TypeOK
    <3>2. \A r \in Cmds : Elems(reqQ'[r]) \subseteq InFlight \cup {m}
      BY <2>2, <2>5, <3>1 DEF InFlight
    <3> QED BY <2>1, <3>2 DEF InFlight
  <2>7. \A g \in Fds : reg[g] = "out" =>
          \/ \A n \in InFlight' : n.conn # fdConn[g]
          \/ \E d \in Conns \ {fdConn[g]} :
               link'[d] = "closed" /\ SamePort(d, fdConn[g])
    BY <1>1, <2>3, <2>4, <2>6 DEF ArmedInv, ArmedOnlyWhenAnswered
  <2> QED BY <1>1, <2>1, <2>7 DEF ArmedOnlyWhenAnswered, OutMeansSend, SamePort
<1>7. ASSUME NEW e \in batch, ReadEvent(e), DoRecvFailed(e.fd)
      PROVE  ArmedOnlyWhenAnswered'
  BY <1>4, <1>7 DEF ReadEvent, DoRecvFailed, queueVars
<1>8. CASE ContainerNext
  <2>1. UNCHANGED <<reg, fdConn>>
    BY <1>8 DEF ContainerNext, ContainerTake, ContainerAnswer, ContainerCrash,
                kernelVars
  <2>2. InFlight' \subseteq InFlight
    BY <1>0, <1>8, ContainerShrinks
  <2> QED BY <1>1, <2>1, <2>2, ArmedFrame
<1>9. CASE UNCHANGED <<reg, fdConn, queueVars>>
  <2>1. InFlight' = InFlight
    BY <1>9 DEF InFlight, queueVars
  <2> QED BY <1>1, <1>9, <2>1, ArmedFrame
<1> USE DEF clientVars, kernelVars, reactorVars, queueVars
<1>10. CASE ClientNext \/ UNCHANGED vars
  BY <1>9, <1>10 DEF ClientNext, Connect, Send, Close, vars
<1>11. CASE Wait \/ EndRound \/ AcceptEnd \/ (Fire /\ backQ = <<>>)
  BY <1>9, <1>11 DEF Wait, EndRound, AcceptEnd, Fire, OnEventFire
<1>12. ASSUME NEW e \in batch, AcceptEvent(e)
      PROVE  ArmedOnlyWhenAnswered'
  BY <1>9, <1>12 DEF AcceptEvent
<1>13. CASE Restart
  BY <1>0, <1>13, RestartFacts DEF ArmedOnlyWhenAnswered
<1> QED BY <1>2, <1>3, <1>5, <1>6, <1>7, <1>8, <1>10, <1>11, <1>12, <1>13
        DEF Next, ReactorNext, ReadEvent

\* A descriptor is armed for EPOLLOUT only by the response to the request of
\* the connection now on it, whatever descriptors are reused and whoever else's
\* responses come back late, or by that of a client gone before from the same
\* port: AddToWatchList compares no more than the ports.
THEOREM ArmedAnswered == Spec => []ArmedOnlyWhenAnswered
<1>1. Init => ArmedInv
  <2>1. Init => OutMeansSend /\ ArmedOnlyWhenAnswered
    BY DEF Init, OutMeansSend, ArmedOnlyWhenAnswered
  <2> QED BY <2>1, MsgInvInit DEF ArmedInv
<1>2. ArmedInv /\ [Next]_vars => ArmedInv'
  BY ArmedNext
<1>3. ArmedInv => ArmedOnlyWhenAnswered
  BY DEF ArmedInv
<1> QED BY <1>1, <1>2, <1>3, PTL DEF Spec

-----------------------------------------------------------------------------
(* Whose answer is written.  When clients wait for their answers and send  *)
(* a request in one write, a descriptor keeps its connection until DoSend  *)
(* has written the answer, so that the buffer OnEventFire overwrites is    *)
(* always the addressee's.                                                 *)

\* A request in flight still has its connection on its descriptor, which
\* waits for no EPOLLOUT yet.
FlightOpen ==
  \A m \in InFlight : fdConn[m.fd] = m.conn /\ reg[m.fd] # "out"

\* The buffer of an armed descriptor holds its own connection's answer.
BufferOwned ==
  \A f \in Fds : reg[f] = "out" => msgBuf[f] = fdConn[f]

\* Behind a slot that says SEND, nothing is or will be left to read.
RequestRead ==
  \A f \in Fds :
    fdConn[f] # NoConn /\ slot[f].flag = "TCP_SERVER_SEND" =>
      rx[fdConn[f]] = 0 /\ sent[fdConn[f]] = 1

\* A pending event is no hang-up, and DoSend's are about armed descriptors.
SendEventsArmed ==
  \A e \in batch \ {ListenEvent} :
    /\ ~e.hup
    /\ slot[e.fd].flag = "TCP_SERVER_SEND" => reg[e.fd] = "out"

NoneLeaves == \A c \in Conns : fin[c] = FALSE

OwnInv ==
  /\ MsgInv
  /\ OutMeansSend
  /\ FlightOpen
  /\ BufferOwned
  /\ RequestRead
  /\ SendEventsArmed
  /\ NoneLeaves
  /\ OwnResponse

LEMMA OwnInit == Init => OwnInv
<1> SUFFICES ASSUME Init PROVE OwnInv
  OBVIOUS
<1>1. /\ OutMeansSend /\ FlightOpen /\ BufferOwned /\ RequestRead
      /\ SendEventsArmed /\ NoneLeaves /\ OwnResponse
  BY DEF Init, OutMeansSend, FlightOpen, InFlight, Elems, BufferOwned,
         RequestRead, SendEventsArmed, NoneLeaves, OwnResponse
<1> QED BY <1>1, MsgInvInit DEF OwnInv

\* Steps that change only what OwnInv does not look at, or fewer messages.
LEMMA OwnFrame ==
  ASSUME OwnInv, MsgInv', OutMeansSend', InFlight' \subseteq InFlight,
         UNCHANGED <<rx, sent, fin, got, fdConn, reg, slot, msgBuf>>,
         batch' \subseteq batch
  PROVE  OwnInv'
BY DEF OwnInv, FlightOpen, BufferOwned, RequestRead, SendEventsArmed,
       NoneLeaves, OwnResponse

LEMMA OwnClient ==
  ASSUME ~ClientsMayClose, MaxSegments = 1, OwnInv, MsgInv', OutMeansSend',
         ClientNext
  PROVE  OwnInv'
<1> PICK c \in Conns : Connect(c) \/ Send(c) \/ Close(c)
  BY DEF ClientNext
<1>0. TypeOK
  BY DEF OwnInv, MsgInv, TypeInv
<1>1. CASE Connect(c)
  <2>1. InFlight' = InFlight
    BY <1>1 DEF Connect, queueVars, InFlight
  <2> QED BY <1>1, <2>1, OwnFrame DEF Connect, reactorVars
<1>2. CASE Send(c)
  <2>1. /\ UNCHANGED <<fin, got, fdConn, reg, reactorVars, queueVars>>
        /\ sent[c] < 1
        /\ \A d \in Conns \ {c} : sent'[d] = sent[d] /\ rx'[d] = rx[d]
    BY <1>0, <1>2 DEF Send, TypeOK
  <2>2. RequestRead'
    <3>1. \A f \in Fds : fdConn[f] # NoConn /\ slot[f].flag = "TCP_SERVER_SEND"
                           => fdConn[f] \in Conns \ {c}
      BY <1>0, <2>1 DEF OwnInv, RequestRead, TypeOK
    <3> QED BY <2>1, <3>1 DEF OwnInv, RequestRead, reactorVars
  <2>3. FlightOpen'
    BY <2>1 DEF OwnInv, FlightOpen, InFlight, queueVars
  <2> QED BY <2>1, <2>2, <2>3 DEF OwnInv, BufferOwned, SendEventsArmed,
                                  NoneLeaves, OwnResponse, reactorVars
<1>3. CASE Close(c)
  BY <1>3 DEF Close
<1> QED BY <1>1, <1>2, <1>3

LEMMA OwnFire ==
  ASSUME OwnInv, MsgInv', OutMeansSend', Fire, backQ # <<>>
  PROVE  OwnInv'
<1> DEFINE m == Head(backQ)
<1>0. MsgInv /\ TypeOK
  BY DEF OwnInv, MsgInv, TypeInv
<1>1. /\ backQ \in Seq(Msg) /\ backQ' = Tail(backQ)
      /\ WatchForSend(m.fd, m.addr)
      /\ msgBuf' = [msgBuf EXCEPT ![m.fd] = m.conn]
      /\ UNCHANGED <<rx, sent, fin, got, fdConn, batch, reqQ, serving>>
      /\ m \in Msg
  BY <1>0, TailType DEF Fire, OnEventFire, clientVars, TypeOK
<1>2. /\ m \in Elems(backQ) /\ Elems(backQ') \subseteq Elems(backQ)
      /\ \A n \in Elems(backQ') : n.conn # m.conn
  BY <1>0, <1>1, TailElems, TailDistinct DEF MsgInv, MsgUnique
<1>3. m.fd \in Fds /\ m.addr \in Addrs /\ m.conn \in Conns
  BY <1>1 DEF Msg
<1> HIDE DEF m
<1>4. InFlight' \subseteq InFlight /\ m \in InFlight
  BY <1>1, <1>2 DEF InFlight
<1>5. \A n \in InFlight' : n.conn # m.conn
  BY <1>0, <1>1, <1>2 DEF InFlight, MsgInv, MsgUnique
<1>6. fdConn[m.fd] = m.conn /\ slot[m.fd].flag = "TCP_SERVER_SEND"
  BY <1>0, <1>3, <1>4 DEF OwnInv, FlightOpen, MsgInv, FlightInv
<1>7. \A f \in Fds : reg'[f] = reg[f] \/ (f = m.fd /\ reg'[f] = "out")
  BY <1>0, <1>1, <1>3, WatchForSendType
<1>8. \A f \in Fds : /\ slot'[f].flag = "TCP_SERVER_SEND"
                          => slot[f].flag = "TCP_SERVER_SEND"
                     /\ msgBuf'[f] = IF f = m.fd THEN m.conn ELSE msgBuf[f]
  <2>1. \A f \in Fds \ {m.fd} : slot'[f] = slot[f]
    BY <1>0, <1>1, <1>3, WatchForSendType
  <2> QED BY <1>0, <1>1, <1>6, <2>1 DEF TypeOK
<1>9. FlightOpen'
  <2> SUFFICES ASSUME NEW n \in InFlight'
               PROVE  fdConn[n.fd] = n.conn /\ reg'[n.fd] # "out"
    BY <1>1 DEF FlightOpen
  <2>1. n \in InFlight /\ n.fd \in Fds
    BY <1>0, <1>4, InFlightType DEF Msg
  <2>2. fdConn[n.fd] = n.conn /\ reg[n.fd] # "out"
    BY <2>1 DEF OwnInv, FlightOpen
  <2>3. n.fd # m.fd
    BY <1>5, <1>6, <2>2
  <2> QED BY <1>7, <2>1, <2>2, <2>3
<1>10. BufferOwned'
  BY <1>1, <1>6, <1>7, <1>8 DEF OwnInv, BufferOwned
<1>11. RequestRead'
  BY <1>1, <1>8 DEF OwnInv, RequestRead
<1>12. SendEventsArmed'
  <2>1. \A e \in batch \ {ListenEvent} : e.fd \in Fds
    BY <1>0 DEF TypeOK, Event
  <2> QED BY <1>1, <1>7, <1>8, <2>1 DEF OwnInv, SendEventsArmed
<1>13. NoneLeaves' /\ OwnResponse'
  BY <1>1 DEF OwnInv, NoneLeaves, OwnResponse
<1> QED BY <1>9, <1>10, <1>11, <1>12, <1>13 DEF OwnInv

LEMMA OwnAccept ==
  ASSUME OwnInv, MsgInv', OutMeansSend', NEW f \in Fds, AcceptOne(f)
  PROVE  OwnInv'
<1>0. MsgInv /\ TypeInv /\ TypeOK
  BY DEF OwnInv, MsgInv, TypeInv
<1>1. /\ fdConn[f] = NoConn /\ reg[f] # "out"
      /\ \A g \in Fds \ {f} : fdConn'[g] = fdConn[g] /\ slot'[g] = slot[g]
      /\ slot'[f].flag = "TCP_SERVER_READ"
      /\ UNCHANGED <<rx, sent, fin, got, msgBuf, batch, queueVars>>
  BY <1>0 DEF AcceptOne, TypeInv, TypeOK, OpenSlots
<1>2. Head(backlog) \in Conns /\ WatchForRead(f, Head(backlog))
  BY <1>0, TailType DEF AcceptOne, TypeOK
<1>3. reg'[f] # "out" /\ \A g \in Fds \ {f} : reg'[g] = reg[g]
  BY <1>0, <1>1, <1>2, WatchForReadType
<1>4. FlightOpen'
  <2>1. \A m \in InFlight : m.fd \in Fds \ {f}
    <3>1. \A m \in InFlight : m.fd \in Fds /\ m.conn \in Conns
      BY <1>0, InFlightType DEF Msg
    <3> QED BY <1>1, <3>1, NetIoAssumption DEF OwnInv, FlightOpen
  <2>2. InFlight' = InFlight
    BY <1>1 DEF InFlight, queueVars
  <2> QED BY <1>1, <1>3, <2>1, <2>2 DEF OwnInv, FlightOpen
<1>5. BufferOwned' /\ RequestRead'
  BY <1>1, <1>3 DEF OwnInv, BufferOwned, RequestRead
<1>6. SendEventsArmed'
  <2>1. \A e \in batch \ {ListenEvent} : e.fd \in Fds \ {f}
    BY <1>0, <1>1, EventFacts, NetIoAssumption
  <2> QED BY <1>1, <1>3, <2>1 DEF OwnInv, SendEventsArmed
<1>7. NoneLeaves' /\ OwnResponse'
  BY <1>1 DEF OwnInv, NoneLeaves, OwnResponse
<1> QED BY <1>4, <1>5, <1>6, <1>7 DEF OwnInv

\* Closing a descriptor with no request in flight: DoSend after its answer,
\* or a read() that fails.
LEMMA OwnCloseFd ==
  ASSUME OwnInv, MsgInv', OutMeansSend', OwnResponse',
         NEW e \in batch, e # ListenEvent, CloseFd(e.fd),
         \A m \in InFlight : m.fd # e.fd,
         \A g \in Fds \ {e.fd} : slot'[g] = slot[g],
         batch' = batch \ {e},
         UNCHANGED <<msgBuf, queueVars>>
  PROVE  OwnInv'
<1> DEFINE f == e.fd
<1>0. MsgInv /\ TypeInv /\ TypeOK
  BY DEF OwnInv, MsgInv, TypeInv
<1>1. f \in Fds /\ fdConn[f] \in Conns /\ \A d \in batch' : d.fd # f
  BY <1>0, EventFacts
<1>2. /\ \A g \in Fds \ {f} : fdConn'[g] = fdConn[g] /\ reg'[g] = reg[g]
      /\ fdConn'[f] = NoConn /\ reg'[f] = "none"
      /\ UNCHANGED <<sent, fin>>
      /\ rx' = [rx EXCEPT ![fdConn[f]] = 0]
  BY <1>0, <1>1, CloseFdType DEF CloseFd
<1>3. FlightOpen'
  <2>1. \A m \in InFlight : m.fd \in Fds \ {f}
    BY <1>0, InFlightType DEF Msg
  <2>2. InFlight' = InFlight
    BY DEF InFlight, queueVars
  <2> QED BY <1>2, <2>1, <2>2 DEF OwnInv, FlightOpen
<1>4. BufferOwned'
  BY <1>2 DEF OwnInv, BufferOwned
<1>5. RequestRead'
  <2>1. \A c \in Conns : rx'[c] \in {rx[c], 0}
    BY <1>0, <1>2 DEF TypeOK
  <2>2. \A g \in Fds : fdConn'[g] # NoConn => g # f /\ fdConn[g] \in Conns
    BY <1>0, <1>2 DEF TypeOK
  <2> QED BY <1>2, <2>1, <2>2 DEF OwnInv, RequestRead
<1>6. SendEventsArmed'
  <2>1. \A d \in batch' \ {ListenEvent} : d \in batch /\ d.fd \in Fds \ {f}
    BY <1>0, <1>1 DEF TypeOK, Event
  <2> QED BY <1>2, <2>1 DEF OwnInv, SendEventsArmed
<1>7. NoneLeaves'
  BY <1>2 DEF OwnInv, NoneLeaves
<1> QED BY <1>3, <1>4, <1>5, <1>6, <1>7 DEF OwnInv

LEMMA OwnEvent ==
  ASSUME MaxSegments = 1, OwnInv, MsgInv', OutMeansSend', NEW e \in batch,
         CloseEvent(e) \/ ReadEvent(e) \/ SendEvent(e)
  PROVE  OwnInv'
<1> DEFINE f == e.fd
           c == fdConn[f]
<1>0. MsgInv /\ TypeInv /\ TypeOK
  BY DEF OwnInv, MsgInv, TypeInv
<1>1. e # ListenEvent /\ batch' = batch \ {e}
  BY DEF CloseEvent, ReadEvent, SendEvent, ListenEvent
<1>2. f \in Fds /\ c \in Conns /\ ~e.hup /\ \A d \in batch' : d.fd # f
  BY <1>0, <1>1, EventFacts DEF OwnInv, SendEventsArmed
<1>3. CASE SendEvent(e)
  <2>1. /\ slot[f].flag = "TCP_SERVER_SEND" /\ DoClose(f)
        /\ got' = [got EXCEPT ![c] = msgBuf[f]]
        /\ UNCHANGED <<msgBuf, queueVars>>
    BY <1>3 DEF SendEvent
  <2>2. reg[f] = "out" /\ msgBuf[f] = c
    BY <1>1, <1>2, <2>1 DEF OwnInv, SendEventsArmed, BufferOwned
  <2>3. OwnResponse'
    BY <1>0, <1>2, <2>1, <2>2 DEF OwnInv, OwnResponse, TypeOK
  <2>4. \A m \in InFlight : m.fd # f
    BY <2>2 DEF OwnInv, FlightOpen
  <2>5. CloseFd(f) /\ \A g \in Fds \ {f} : slot'[g] = slot[g]
    BY <1>0, <1>2, <2>1, DoCloseType
  <2> QED BY <1>1, <2>1, <2>3, <2>4, <2>5, OwnCloseFd
<1>4. CASE ReadEvent(e) /\ DoRecvFailed(f)
  <2>1. /\ slot[f].flag = "TCP_SERVER_READ" /\ CloseFd(f) /\ slot' = slot
        /\ UNCHANGED <<got, msgBuf, queueVars>>
    BY <1>4 DEF ReadEvent, DoRecvFailed, queueVars
  <2>2. OwnResponse'
    BY <2>1 DEF OwnInv, OwnResponse
  <2>3. \A m \in InFlight : m.fd # f
    <3>1. \A m \in InFlight : fdConn[m.fd] = m.conn /\ m.fd \in Fds
      BY <1>0, InFlightType DEF OwnInv, FlightOpen, Msg
    <3>2. \A m \in InFlight : slot[m.fd].flag = "TCP_SERVER_SEND"
      BY <1>0, <3>1 DEF MsgInv, FlightInv
    <3> QED BY <2>1, <3>2
  <2> QED BY <1>1, <2>1, <2>2, <2>3, OwnCloseFd
<1>5. CASE ReadEvent(e) /\ DoRecv(f)
  <2> DEFINE q == CmdOf[c]
             m == [fd |-> f, addr |-> slot[f].addr, conn |-> c]
  <2>1. /\ slot[f].flag = "TCP_SERVER_READ" /\ rx[c] > 0
        /\ rx' = [rx EXCEPT ![c] = 0]
        /\ reqQ' = [reqQ EXCEPT ![q] = PutMsg(reqQ[q], m)]
        /\ slot' = [slot EXCEPT ![f].flag = "TCP_SERVER_SEND"]
        /\ UNCHANGED <<sent, fin, fdConn, reg, got, msgBuf, serving, backQ>>
    BY <1>5 DEF ReadEvent, DoRecv, kernelVars
  <2>2. /\ q \in Cmds /\ m \in Msg /\ m.fd = f /\ m.conn = c
    <3>1. slot[f].addr = AddrOf[c]
      BY <1>0, <1>1, <2>1, EventFacts
    <3> QED BY <1>2, <3>1, NetIoAssumption DEF Msg
  <2>3. rx'[c] = 0 /\ sent[c] = 1
    <3> HIDE DEF c
    <3>1. rx[c] \in 0..1 /\ sent[c] \in 0..1 /\ rx[c] <= sent[c]
      BY <1>0, <1>2 DEF TypeInv, TypeOK, RxBounded
    <3>2. rx'[c] = 0
      BY <1>0, <1>2, <2>1 DEF TypeOK
    <3> QED BY <2>1, <3>1, <3>2
  <2>4. reg[f] # "out"
    BY <1>2, <2>1 DEF OwnInv, OutMeansSend
  <2>5. InFlight' \subseteq InFlight \cup {m}
    <3> HIDE DEF m, q
    <3>1. Elems(PutMsg(reqQ[q], m)) \subseteq Elems(reqQ[q]) \cup {m}
      BY <1>0, <2>2, PutMsgElems DEF TypeOK
    <3>2. \A r \in Cmds : reqQ'[r] = IF r = q THEN PutMsg(reqQ[q], m) ELSE reqQ[r]
      BY <1>0, <2>1 DEF TypeOK
    <3>3. \A r \in Cmds : Elems(reqQ'[r]) \subseteq InFlight \cup {m}
      BY <2>2, <3>1, <3>2 DEF InFlight
    <3> QED BY <2>1, <3>3 DEF InFlight
  <2>6. /\ \A g \in Fds \ {f} : slot'[g] = slot[g]
        /\ \A d \in Conns : rx'[d] \in {rx[d], 0}
    BY <1>0, <2>1 DEF TypeOK
  <2>7. FlightOpen'
    <3> HIDE DEF m
    <3> QED BY <2>1, <2>2, <2>4, <2>5 DEF OwnInv, FlightOpen
  <2>8. BufferOwned'
    BY <2>1 DEF OwnInv, BufferOwned
  <2>9. RequestRead'
    <3>1. \A g \in Fds : fdConn[g] # NoConn => fdConn[g] \in Conns
      BY <1>0 DEF TypeOK
    <3> QED BY <2>1, <2>3, <2>6, <3>1 DEF OwnInv, RequestRead
  <2>10. SendEventsArmed'
    <3>1. \A d \in batch' \ {ListenEvent} : d \in batch /\ d.fd \in Fds \ {f}
      BY <1>0, <1>1, <1>2 DEF TypeOK, Event
    <3> QED BY <2>1, <2>6, <3>1 DEF OwnInv, SendEventsArmed
  <2>11. NoneLeaves' /\ OwnResponse'
    BY <2>1 DEF OwnInv, NoneLeaves, OwnResponse
  <2> QED BY <2>7, <2>8, <2>9, <2>10, <2>11 DEF OwnInv
<1> QED BY <1>2, <1>3, <1>4, <1>5 DEF ReadEvent, CloseEvent

LEMMA OwnWait ==
  ASSUME OwnInv, MsgInv', OutMeansSend', Wait
  PROVE  OwnInv'
<1>0. TypeInv /\ TypeOK
  BY DEF OwnInv, MsgInv, TypeInv
<1>1. UNCHANGED <<rx, sent, fin, got, fdConn, reg, slot, msgBuf, queueVars>>
  BY DEF Wait, clientVars
<1>2. SendEventsArmed'
  <2> SUFFICES ASSUME NEW e \in batch', e # ListenEvent
               PROVE  /\ ~e.hup
                      /\ slot[e.fd].flag = "TCP_SERVER_SEND" => reg[e.fd] = "out"
    BY <1>1 DEF SendEventsArmed
  <2>1. PICK f \in Fds : /\ Ready(f)
                         /\ e = [fd |-> f, conn |-> fdConn[f], hup |-> fin[fdConn[f]]]
    BY DEF Wait
  <2>2. fdConn[f] \in Conns /\ fdConn[f] # NoConn
    BY <1>0, <2>1, NetIoAssumption DEF Ready, TypeInv, OpenSlots, TypeOK
  <2>3. fin[fdConn[f]] = FALSE
    BY <2>2 DEF OwnInv, NoneLeaves
  <2>4. slot[f].flag = "TCP_SERVER_SEND" => reg[f] = "out"
    BY <2>1, <2>2, <2>3 DEF Ready, OwnInv, RequestRead
  <2> QED BY <2>1, <2>3, <2>4
<1>3. FlightOpen'
  BY <1>1 DEF OwnInv, FlightOpen, InFlight, queueVars
<1> QED BY <1>1, <1>2, <1>3 DEF OwnInv, BufferOwned, RequestRead, NoneLeaves,
                                OwnResponse

LEMMA OwnNext ==
  ASSUME ~ClientsMayClose, ~NetIoMayCrash, MaxSegments = 1, OwnInv, [Next]_vars
  PROVE  OwnInv'
<1>0. MsgInv' /\ OutMeansSend' /\ TypeOK
  BY MsgInvNext, OutMeansSendNext DEF OwnInv, MsgInv, TypeInv
<1>1. CASE ClientNext
  BY <1>0, <1>1, OwnClient
<1>2. CASE ContainerNext
  <2>1. UNCHANGED <<rx, sent, fin, got, fdConn, reg, slot, msgBuf, batch>>
    BY <1>2 DEF ContainerNext, ContainerTake, ContainerAnswer, ContainerCrash,
                clientVars, kernelVars, reactorVars
  <2> QED BY <1>0, <1>2, <2>1, ContainerShrinks, OwnFrame
<1>3. CASE UNCHANGED <<clientVars, kernelVars, slot, msgBuf, queueVars>>
           /\ batch' \subseteq batch
  <2>1. InFlight' = InFlight
    BY <1>3 DEF InFlight, queueVars
  <2> QED BY <1>0, <1>3, <2>1, OwnFrame DEF clientVars, kernelVars
<1>4. CASE EndRound \/ AcceptEnd \/ UNCHANGED vars
  BY <1>3, <1>4 DEF EndRound, AcceptEnd, vars, reactorVars
<1>5. CASE Fire /\ backQ = <<>>
  BY <1>3, <1>5 DEF Fire, OnEventFire, queueVars
<1>6. ASSUME NEW e \in batch, AcceptEvent(e)
      PROVE  OwnInv'
  BY <1>3, <1>6 DEF AcceptEvent
<1> QED BY <1>0, <1>1, <1>2, <1>4, <1>5, <1>6, OwnFire, OwnAccept, OwnEvent, OwnWait
        DEF Next, ReactorNext, Restart

\* DoSend writes to every client the answer to its own request and no other,
\* however descriptors are reused, when no client leaves before its answer
\* and each request arrives in one piece.  Without the first assumption the
\* code does not guarantee it: the run NetIoStale shows a late answer
\* overwriting the buffer of the descriptor's next connection.
THEOREM OwnAnswers ==
  ASSUME ~ClientsMayClose, ~NetIoMayCrash, MaxSegments = 1
  PROVE  Spec => []OwnResponse
<1>1. OwnInv /\ [Next]_vars => OwnInv'
  BY OwnNext
<1>2. OwnInv => OwnResponse
  BY DEF OwnInv
<1> QED BY <1>1, <1>2, OwnInit, PTL DEF Spec

-----------------------------------------------------------------------------
(* The tables.  Every close that goes through DoClose keeps m_vecFds, the  *)
(* slots and epoll in step; the one of DoRecv's failed read leaves a       *)
(* descriptor that epoll watches no more.  A descriptor that epoll watches *)
(* is in all the tables, so that AddToWatchList's EPOLL_CTL_MOD succeeds.  *)

\* DoRecv is only called with something to read.
ReadEventsFull ==
  \A e \in batch \ {ListenEvent} :
    ~e.hup /\ slot[e.fd].flag = "TCP_SERVER_READ" => rx[e.conn] > 0

\* epoll still watches the descriptor of a pending event, and that of a client
\* that waits for its answer.
EventsWatched == \A e \in batch \ {ListenEvent} : reg[e.fd] # "none"

FlightWatched == \A m \in InFlight : fdConn[m.fd] = m.conn => reg[m.fd] # "none"

TabInv ==
  /\ MsgInv
  /\ OutMeansSend
  /\ TablesAgree
  /\ ReadEventsFull
  /\ EventsWatched
  /\ FlightWatched

LEMMA TabInit == Init => TabInv
<1> SUFFICES ASSUME Init PROVE TabInv
  OBVIOUS
<1>1. OutMeansSend /\ TablesAgree /\ ReadEventsFull /\ EventsWatched
  BY DEF Init, OutMeansSend, TablesAgree, Agree, ReadEventsFull, EventsWatched
<1>2. FlightWatched
  BY DEF Init, FlightWatched, InFlight, Elems
<1> QED BY <1>1, <1>2, MsgInvInit DEF TabInv

\* Steps that leave the tables alone and take nothing from a socket.
LEMMA TabFrame ==
  ASSUME TabInv, MsgInv', OutMeansSend', InFlight' \subseteq InFlight,
         UNCHANGED <<fdConn, reg, slot, watch>>,
         \A c \in Conns : rx[c] > 0 => rx'[c] > 0,
         batch' \subseteq batch
  PROVE  TabInv'
<1>1. \A e \in batch \ {ListenEvent} : e.conn \in Conns
  BY EventFacts DEF TabInv, MsgInv
<1>2. TablesAgree'
  BY DEF TabInv, TablesAgree, Agree, Forgotten
<1> QED BY <1>1, <1>2 DEF TabInv, ReadEventsFull, EventsWatched, FlightWatched

\* A descriptor that epoll watches is in all the tables.
LEMMA WatchedAgree ==
  ASSUME TablesAgree, NEW f \in Fds, reg[f] # "none"
  PROVE  f \in watch /\ fdConn[f] # NoConn /\ slot[f].flag # "NONE_FLAG"
BY DEF TablesAgree, Agree, Forgotten

\* OnEventFire with a response whose socket check passes, for a descriptor
\* that epoll watches: EPOLL_CTL_MOD arms it.
LEMMA ArmsWatched ==
  ASSUME TypeOK, TablesAgree, NEW f \in Fds, NEW a \in Addrs,
         WatchForSend(f, a), SameClient(f, a), reg[f] # "none"
  PROVE  /\ reg' = [reg EXCEPT ![f] = "out"]
         /\ edge'[f] = TRUE
         /\ watch' = watch
         /\ slot' = [slot EXCEPT ![f] = [flag |-> "TCP_SERVER_SEND", addr |-> a]]
         /\ fdConn[f] # NoConn
<1>1. f \in watch /\ fdConn[f] # NoConn
  BY WatchedAgree
<1>2. /\ reg' = [reg EXCEPT ![f] = "out"]
      /\ edge' = [edge EXCEPT ![f] = TRUE]
      /\ watch' = watch \cup {f}
  BY <1>1 DEF WatchForSend, EpollCtl
<1> QED BY <1>1, <1>2 DEF WatchForSend, TypeOK

\* The same for a descriptor it does not watch: only one that a failed read
\* left behind has a slot to pass the check, and EPOLL_CTL_MOD fails.
LEMMA ArmsForgotten ==
  ASSUME TypeOK, TablesAgree, NEW f \in Fds, NEW a \in Addrs,
         WatchForSend(f, a), SameClient(f, a), reg[f] = "none"
  PROVE  /\ UNCHANGED <<reg, edge, watch>>
         /\ slot' = [slot EXCEPT ![f] = [flag |-> "TCP_SERVER_SEND", addr |-> a]]
         /\ Forgotten(f)
<1>1. Forgotten(f)
  BY DEF TablesAgree, Agree, SameClient
<1> QED BY <1>1 DEF WatchForSend, EpollCtl, Forgotten

LEMMA TabFire ==
  ASSUME TabInv, MsgInv', OutMeansSend', Fire, backQ # <<>>
  PROVE  TabInv'
<1> DEFINE m == Head(backQ)
<1>0. TypeInv /\ TypeOK /\ TablesAgree
  BY DEF TabInv, MsgInv, TypeInv
<1>1. /\ WatchForSend(m.fd, m.addr)
      /\ UNCHANGED <<rx, fdConn, batch, reqQ, serving>>
      /\ backQ' = Tail(backQ) /\ backQ \in Seq(Msg)
      /\ m \in Msg
  BY <1>0, TailType DEF Fire, OnEventFire, clientVars, TypeOK
<1>2. m.fd \in Fds /\ m.addr \in Addrs
  BY <1>1 DEF Msg
<1> HIDE DEF m
<1>3. InFlight' \subseteq InFlight
  BY <1>1, TailElems DEF InFlight
<1>4. CASE ~SameClient(m.fd, m.addr)
  <2>1. UNCHANGED <<reg, slot, watch>>
    BY <1>1, <1>4 DEF WatchForSend
  <2> QED BY <1>1, <1>3, <2>1, TabFrame
<1>5. CASE SameClient(m.fd, m.addr)
  <2>1. /\ watch' = watch
        /\ slot' = [slot EXCEPT ![m.fd] = [flag |-> "TCP_SERVER_SEND", addr |-> m.addr]]
        /\ \/ reg[m.fd] # "none" /\ reg' = [reg EXCEPT ![m.fd] = "out"]
           \/ Forgotten(m.fd) /\ reg' = reg
    BY <1>0, <1>1, <1>2, <1>5, ArmsWatched, ArmsForgotten
  <2>2. /\ slot'[m.fd].flag = "TCP_SERVER_SEND"
        /\ slot'[m.fd].addr.port = slot[m.fd].addr.port
        /\ \A g \in Fds \ {m.fd} : reg'[g] = reg[g] /\ slot'[g] = slot[g]
        /\ \A g \in Fds : reg[g] # "none" => reg'[g] # "none"
    BY <1>0, <1>2, <1>5, <2>1 DEF TypeOK, SameClient
  <2>3. \A g \in Fds : g = m.fd => Agree(g)' \/ Forgotten(g)'
    <3> SUFFICES ASSUME NEW g \in Fds, g = m.fd
                 PROVE  Agree(g)' \/ Forgotten(g)'
      OBVIOUS
    <3>1. CASE reg[g] # "none"
      <4>1. g \in watch /\ fdConn[g] # NoConn
        BY <1>0, <3>1, WatchedAgree
      <4>2. reg'[g] # "none" /\ g \in watch' /\ fdConn'[g] # NoConn
            /\ slot'[g].flag # "NONE_FLAG"
        BY <1>1, <2>1, <2>2, <3>1, <4>1
      <4> QED BY <4>2 DEF Agree
    <3>2. CASE Forgotten(g) /\ reg' = reg
      <4>1. slot'[g].flag # "NONE_FLAG"
        BY <2>2
      <4> QED BY <1>1, <2>1, <3>2, <4>1 DEF Forgotten
    <3> QED BY <2>1, <3>1, <3>2
  <2>4. \A g \in Fds \ {m.fd} : Agree(g)' \/ Forgotten(g)'
    BY <1>0, <1>1, <2>1, <2>2 DEF TablesAgree, Agree, Forgotten
  <2>5. TablesAgree'
    <3>1. \A g \in Fds : slot'[g].addr.port = slot[g].addr.port
      <4> SUFFICES ASSUME NEW g \in Fds
                   PROVE  slot'[g].addr.port = slot[g].addr.port
        OBVIOUS
      <4>1. CASE g = m.fd
        BY <2>2, <4>1
      <4>2. CASE g # m.fd
        BY <2>2, <4>2
      <4> QED BY <4>1, <4>2
    <3>2. \A g \in Fds : fdConn'[g] # NoConn => slot'[g].addr.port = AddrOf[fdConn'[g]].port
      BY <1>0, <1>1, <3>1 DEF TablesAgree
    <3>3. \A g \in Fds : Agree(g)' \/ Forgotten(g)'
      BY <2>3, <2>4
    <3> QED BY <3>2, <3>3 DEF TablesAgree
  <2>6. ReadEventsFull' /\ EventsWatched'
    <3>1. \A e \in batch \ {ListenEvent} : e.fd \in Fds
      BY <1>0, EventFacts
    <3> QED BY <1>1, <2>2, <3>1 DEF TabInv, ReadEventsFull, EventsWatched
  <2>7. FlightWatched'
    <3>1. \A n \in InFlight : n.fd \in Fds
      BY <1>0, InFlightType DEF Msg
    <3> QED BY <1>1, <1>3, <2>2, <3>1 DEF TabInv, FlightWatched
  <2> QED BY <2>5, <2>6, <2>7 DEF TabInv
<1> QED BY <1>4, <1>5

LEMMA TabAccept ==
  ASSUME TabInv, MsgInv', OutMeansSend', NEW f \in Fds, AcceptOne(f)
  PROVE  TabInv'
<1> DEFINE c == Head(backlog)
<1>0. TypeInv /\ TypeOK /\ TablesAgree
  BY DEF TabInv, MsgInv, TypeInv
<1>1. /\ fdConn[f] = NoConn
      /\ fdConn' = [fdConn EXCEPT ![f] = c]
      /\ slot' = [slot EXCEPT ![f] = [flag |-> "TCP_SERVER_READ", addr |-> AddrOf[c]]]
      /\ WatchForRead(f, c)
      /\ UNCHANGED <<rx, batch, queueVars>>
  BY DEF AcceptOne
<1>2. c \in Conns /\ c # NoConn /\ link[c] = "backlog"
  BY <1>0, TailType, NetIoAssumption DEF AcceptOne, TypeOK, TabInv, MsgInv, ConnInv
<1> HIDE DEF c
<1>3. \/ /\ f \notin watch /\ reg' = [reg EXCEPT ![f] = "in"]
         /\ watch' = watch \cup {f}
      \/ /\ f \in watch /\ ReadMayFail /\ reg[f] = "none"
         /\ UNCHANGED <<reg, watch>>
  <2>1. \/ f \notin watch /\ reg[f] = "none"
        \/ Forgotten(f)
    BY <1>0, <1>1 DEF TablesAgree, Agree
  <2> QED BY <1>1, <1>2, <2>1 DEF WatchForRead, EpollCtl, Forgotten
<1>4. /\ fdConn'[f] = c
      /\ slot'[f].flag = "TCP_SERVER_READ" /\ slot'[f].addr = AddrOf[c]
      /\ \A g \in Fds \ {f} : /\ fdConn'[g] = fdConn[g]
                              /\ reg'[g] = reg[g]
                              /\ slot'[g] = slot[g]
                              /\ g \in watch' <=> g \in watch
  BY <1>0, <1>1, <1>3 DEF TypeOK
<1>5. TablesAgree'
  <2>1. Agree(f)' \/ Forgotten(f)'
    <3>1. CASE f \notin watch
      <4>1. reg'[f] = "in" /\ f \in watch'
        BY <1>0, <1>3, <3>1 DEF TypeOK
      <4> QED BY <1>2, <1>4, <4>1 DEF Agree
    <3>2. CASE f \in watch
      BY <1>3, <1>4, <3>2 DEF Forgotten
    <3> QED BY <3>1, <3>2
  <2>2. \A g \in Fds \ {f} : Agree(g)' \/ Forgotten(g)'
    BY <1>0, <1>4 DEF TablesAgree, Agree, Forgotten
  <2>3. \A g \in Fds : fdConn'[g] # NoConn => slot'[g].addr.port = AddrOf[fdConn'[g]].port
    BY <1>0, <1>4 DEF TablesAgree
  <2> QED BY <2>1, <2>2, <2>3 DEF TablesAgree
<1>6. ReadEventsFull' /\ EventsWatched'
  <2>1. \A e \in batch \ {ListenEvent} : e.fd \in Fds \ {f}
    BY <1>0, <1>1, EventFacts, NetIoAssumption
  <2> QED BY <1>1, <1>4, <2>1 DEF TabInv, ReadEventsFull, EventsWatched
<1>7. FlightWatched'
  <2>1. InFlight' = InFlight
    BY <1>1 DEF InFlight, queueVars
  <2>2. \A n \in InFlight : n.fd \in Fds /\ n.conn # c
    BY <1>0, <1>2, InFlightType DEF TabInv, MsgInv, FlightInv, Msg
  <2> QED BY <1>4, <2>1, <2>2 DEF TabInv, FlightWatched
<1> QED BY <1>5, <1>6, <1>7 DEF TabInv

\* Closing the descriptor of an event: what TabInv says of the others holds
\* still.
LEMMA TabCloseFd ==
  ASSUME TabInv, MsgInv', OutMeansSend', NEW e \in batch, e # ListenEvent,
         CloseFd(e.fd), batch' = batch \ {e}, UNCHANGED queueVars,
         \A g \in Fds \ {e.fd} : slot'[g] = slot[g],
         \A g \in Fds \ {e.fd} : g \in watch' <=> g \in watch,
         Agree(e.fd)' \/ Forgotten(e.fd)'
  PROVE  TabInv'
<1> DEFINE f == e.fd
           c == fdConn[f]
<1>0. TypeInv /\ TypeOK /\ TablesAgree
  BY DEF TabInv, MsgInv, TypeInv
<1>1. f \in Fds /\ c \in Conns /\ e.conn = c
  BY <1>0, EventFacts
<1>2. /\ \A g \in Fds \ {f} : fdConn'[g] = fdConn[g] /\ reg'[g] = reg[g]
      /\ fdConn'[f] = NoConn /\ reg'[f] = "none"
      /\ \A d \in Conns \ {c} : rx'[d] = rx[d]
  BY <1>0, <1>1, CloseFdType DEF CloseFd, TypeOK
\* The events left are about other descriptors and other connections.
<1>3. \A d \in batch' \ {ListenEvent} :
        d \in batch /\ d.fd \in Fds \ {f} /\ d.conn \in Conns \ {c}
  <2> SUFFICES ASSUME NEW d \in batch' \ {ListenEvent}
               PROVE  d \in batch /\ d.fd \in Fds \ {f} /\ d.conn \in Conns \ {c}
    OBVIOUS
  <2>1. /\ d \in batch /\ d.fd \in Fds \ {f}
        /\ d.conn \in Conns /\ fdConn[d.fd] = d.conn
    BY <1>0, EventFacts
  <2>2. d.conn # c
    BY <1>1, <2>1, NetIoAssumption DEF TabInv, MsgInv, ConnInv
  <2> QED BY <2>1, <2>2
<1> HIDE DEF c
<1>4. TablesAgree'
  <2>1. \A g \in Fds \ {f} : Agree(g)' \/ Forgotten(g)'
    BY <1>0, <1>2 DEF TablesAgree, Agree, Forgotten
  <2>2. \A g \in Fds : fdConn'[g] # NoConn => slot'[g].addr.port = AddrOf[fdConn'[g]].port
    BY <1>0, <1>2 DEF TablesAgree
  <2> QED BY <2>1, <2>2 DEF TablesAgree
<1>5. ReadEventsFull' /\ EventsWatched'
  BY <1>2, <1>3 DEF TabInv, ReadEventsFull, EventsWatched
<1>6. FlightWatched'
  <2>1. InFlight' = InFlight
    BY DEF InFlight, queueVars
  <2>2. \A n \in InFlight : n.fd \in Fds /\ n.conn # NoConn
    BY <1>0, InFlightType, NetIoAssumption DEF Msg
  <2> QED BY <1>2, <2>1, <2>2 DEF TabInv, FlightWatched
<1> QED BY <1>4, <1>5, <1>6 DEF TabInv

LEMMA TabEvent ==
  ASSUME TabInv, MsgInv', OutMeansSend', NEW e \in batch,
         CloseEvent(e) \/ ReadEvent(e) \/ SendEvent(e)
  PROVE  TabInv'
<1> DEFINE f == e.fd
           c == fdConn[f]
<1>0. TypeInv /\ TypeOK /\ TablesAgree
  BY DEF TabInv, MsgInv, TypeInv
<1>1. e # ListenEvent /\ batch' = batch \ {e}
  BY DEF CloseEvent, ReadEvent, SendEvent, ListenEvent
<1>2. /\ f \in Fds /\ c \in Conns /\ e.conn = c
      /\ f \in watch /\ reg[f] # "none"
  <2>1. f \in Fds /\ c \in Conns /\ e.conn = c /\ reg[f] # "none"
    BY <1>0, <1>1, EventFacts DEF TabInv, EventsWatched
  <2> QED BY <1>0, <2>1, WatchedAgree
<1>3. CASE CloseEvent(e) \/ SendEvent(e)
  <2>1. DoClose(f) /\ UNCHANGED queueVars
    BY <1>3 DEF CloseEvent, SendEvent
  <2>2. CloseFd(f) /\ \A g \in Fds \ {f} : slot'[g] = slot[g]
    BY <1>0, <1>2, <2>1, DoCloseType
  <2>3. fdConn'[f] = NoConn /\ reg'[f] = "none"
    BY <1>0, <1>2, <2>2, CloseFdType
  <2>4. watch' = watch \ {f}
    BY <1>2, <2>1 DEF DoClose, RemoveFromWatchList
  <2>5. slot'[f].flag = "NONE_FLAG"
    BY <1>0, <1>2, <2>1 DEF DoClose, TypeOK, SockItem
  <2>6. Agree(f)'
    BY <2>3, <2>4, <2>5 DEF Agree
  <2> QED BY <1>1, <2>1, <2>2, <2>4, <2>6, TabCloseFd
<1>4. CASE ReadEvent(e) /\ DoRecvFailed(f)
  <2>1. CloseFd(f) /\ UNCHANGED <<slot, watch, queueVars>>
    BY <1>4 DEF ReadEvent, DoRecvFailed, queueVars
  <2>2. fdConn'[f] = NoConn /\ reg'[f] = "none"
    BY <1>0, <1>2, <2>1, CloseFdType
  <2>3. ReadMayFail
    <3>1. rx[c] > 0
      BY <1>1, <1>2, <1>4 DEF ReadEvent, TabInv, ReadEventsFull
    <3>2. rx[c] # 0
      BY <3>1
    <3> QED BY <1>4, <3>2 DEF DoRecvFailed
  <2>4. slot[f].flag = "TCP_SERVER_READ"
    BY <1>4 DEF ReadEvent
  <2>5. Forgotten(f)'
    BY <1>2, <2>1, <2>2, <2>3, <2>4 DEF Forgotten
  <2> QED BY <1>1, <2>1, <2>5, TabCloseFd
<1>5. CASE ReadEvent(e) /\ DoRecv(f)
  <2> DEFINE q == CmdOf[c]
             m == [fd |-> f, addr |-> slot[f].addr, conn |-> c]
  <2>1. /\ rx' = [rx EXCEPT ![c] = 0]
        /\ slot' = [slot EXCEPT ![f].flag = "TCP_SERVER_SEND"]
        /\ reqQ' = [reqQ EXCEPT ![q] = PutMsg(reqQ[q], m)]
        /\ UNCHANGED <<fdConn, reg, watch, serving, backQ>>
    BY <1>5 DEF ReadEvent, DoRecv, kernelVars
  <2>2. /\ slot'[f].flag = "TCP_SERVER_SEND" /\ slot'[f].addr = slot[f].addr
        /\ \A g \in Fds \ {f} : slot'[g] = slot[g]
    BY <1>0, <1>2, <2>1 DEF TypeOK, SockItem
  <2>3. TablesAgree'
    <3>1. fdConn[f] # NoConn
      BY <1>2, NetIoAssumption
    <3>2. Agree(f)'
      BY <1>2, <2>1, <2>2, <3>1 DEF Agree
    <3>3. \A g \in Fds \ {f} : Agree(g)' \/ Forgotten(g)'
      BY <1>0, <2>1, <2>2 DEF TablesAgree, Agree, Forgotten
    <3>4. \A g \in Fds : fdConn'[g] # NoConn => slot'[g].addr.port = AddrOf[fdConn'[g]].port
      BY <1>0, <2>1, <2>2 DEF TablesAgree
    <3> QED BY <3>2, <3>3, <3>4 DEF TablesAgree
  <2>4. \A d \in Conns \ {c} : rx'[d] = rx[d]
    BY <1>0, <2>1 DEF TypeOK
  <2>5. ReadEventsFull' /\ EventsWatched'
    <3>1. \A d \in batch' \ {ListenEvent} :
            d \in batch /\ d.fd \in Fds \ {f} /\ d.conn \in Conns /\ fdConn[d.fd] = d.conn
      BY <1>0, <1>1, EventFacts
    <3>2. \A d \in batch' \ {ListenEvent} : d.conn # c
      BY <1>2, <3>1, NetIoAssumption DEF TabInv, MsgInv, ConnInv
    <3> QED BY <2>1, <2>2, <2>4, <3>1, <3>2 DEF TabInv, ReadEventsFull, EventsWatched
  <2>6. FlightWatched'
    <3>1. m \in Msg /\ m.fd = f /\ q \in Cmds
      <4>1. slot[f].addr = AddrOf[c]
        BY <1>0, <1>1, <1>2, <1>5, EventFacts DEF ReadEvent
      <4> QED BY <1>2, <4>1, NetIoAssumption DEF Msg
    <3> HIDE DEF m, q
    <3>2. Elems(PutMsg(reqQ[q], m)) \subseteq Elems(reqQ[q]) \cup {m}
      BY <1>0, <3>1, PutMsgElems DEF TypeOK
    <3>3. \A r \in Cmds : reqQ'[r] = IF r = q THEN PutMsg(reqQ[q], m) ELSE reqQ[r]
      BY <1>0, <2>1 DEF TypeOK
    <3>4. \A r \in Cmds : Elems(reqQ'[r]) \subseteq InFlight \cup {m}
      BY <3>1, <3>2, <3>3 DEF InFlight
    <3>5. InFlight' \subseteq InFlight \cup {m}
      BY <2>1, <3>4 DEF InFlight
    <3> QED BY <1>2, <2>1, <3>1, <3>5 DEF TabInv, FlightWatched
  <2> QED BY <2>3, <2>5, <2>6 DEF TabInv
<1> QED BY <1>3, <1>4, <1>5 DEF ReadEvent

LEMMA TabWait ==
  ASSUME TabInv, MsgInv', OutMeansSend', Wait
  PROVE  TabInv'
<1>0. TypeInv /\ TypeOK
  BY DEF TabInv, MsgInv, TypeInv
<1>1. UNCHANGED <<rx, fin, fdConn, reg, slot, watch>>
  BY DEF Wait, clientVars
<1>2. ReadEventsFull'
  <2> SUFFICES ASSUME NEW e \in batch', e # ListenEvent, ~e.hup,
                      slot[e.fd].flag = "TCP_SERVER_READ"
               PROVE  rx[e.conn] > 0
    BY <1>1 DEF ReadEventsFull
  <2>1. PICK f \in Fds : /\ Ready(f)
                         /\ e = [fd |-> f, conn |-> fdConn[f], hup |-> fin[fdConn[f]]]
    BY DEF Wait
  <2>2. reg[f] # "out" /\ fin[fdConn[f]] = FALSE
    <3>1. fdConn[f] \in Conns
      BY <1>0, <2>1 DEF Ready, TypeInv, OpenSlots, TypeOK
    <3> QED BY <1>0, <2>1, <3>1 DEF TabInv, OutMeansSend, TypeOK
  <2> QED BY <2>1, <2>2 DEF Ready
<1>3. TablesAgree' /\ EventsWatched' /\ FlightWatched'
  <2>1. \A e \in batch' \ {ListenEvent} : reg[e.fd] # "none"
    BY DEF Wait, Ready
  <2>2. InFlight' = InFlight
    BY DEF Wait, queueVars, InFlight
  <2> QED BY <1>1, <2>1, <2>2
          DEF TabInv, TablesAgree, Agree, Forgotten, EventsWatched, FlightWatched
<1> QED BY <1>2, <1>3 DEF TabInv

LEMMA TabNext ==
  ASSUME TabInv, [Next]_vars
  PROVE  TabInv'
<1>0. MsgInv' /\ OutMeansSend' /\ TypeOK
  BY MsgInvNext, OutMeansSendNext DEF TabInv, MsgInv, TypeInv
<1>1. CASE ClientNext
  <2>1. UNCHANGED <<fdConn, reg, slot, watch, batch>>
    BY <1>1 DEF ClientNext, Connect, Send, Close, reactorVars
  <2>2. \A c \in Conns : rx[c] > 0 => rx'[c] > 0
    <3>1. rx' = rx \/ \E d \in Conns : rx' = [rx EXCEPT ![d] = rx[d] + 1]
      BY <1>1 DEF ClientNext, Connect, Send, Close
    <3>2. \A c \in Conns : rx'[c] \in {rx[c], rx[c] + 1}
      BY <1>0, <3>1 DEF TypeOK
    <3>3. \A c \in Conns : rx[c] \in Nat
      BY <1>0, NetIoAssumption DEF TypeOK
    <3> QED BY <3>2, <3>3
  <2>3. InFlight' = InFlight
    BY <1>1 DEF ClientNext, Connect, Send, Close, queueVars, InFlight
  <2> QED BY <1>0, <2>1, <2>2, <2>3, TabFrame
<1>2. CASE /\ UNCHANGED <<rx, fdConn, reg, slot, watch>>
           /\ batch' \subseteq batch
           /\ InFlight' \subseteq InFlight
  BY <1>0, <1>2, TabFrame
<1> USE DEF clientVars, kernelVars, reactorVars
<1>3. CASE ContainerNext
  <2>1. InFlight' \subseteq InFlight
    BY <1>0, <1>3, ContainerShrinks
  <2> QED BY <1>2, <1>3, <2>1 DEF ContainerNext, ContainerTake, ContainerAnswer,
                                  ContainerCrash
<1>4. CASE EndRound \/ AcceptEnd \/ UNCHANGED vars \/ (Fire /\ backQ = <<>>)
  <2>1. InFlight' = InFlight
    BY <1>4 DEF EndRound, AcceptEnd, vars, Fire, OnEventFire, queueVars, InFlight
  <2> QED BY <1>2, <1>4, <2>1 DEF EndRound, AcceptEnd, vars, Fire, OnEventFire
<1>5. ASSUME NEW e \in batch, AcceptEvent(e)
      PROVE  TabInv'
  <2>1. InFlight' = InFlight
    BY <1>5 DEF AcceptEvent, queueVars, InFlight
  <2> QED BY <1>2, <1>5, <2>1 DEF AcceptEvent
<1> HIDE DEF clientVars, kernelVars, reactorVars
<1>6. CASE Restart
  <2>1. /\ \A f \in Fds : fdConn'[f] = NoConn /\ reg'[f] = "none" /\ slot'[f].flag = "NONE_FLAG"
        /\ batch' = {} /\ watch' = {}
    BY <1>0, <1>6, RestartFacts DEF Restart
  <2>2. TablesAgree' /\ ReadEventsFull' /\ EventsWatched'
    BY <2>1 DEF TablesAgree, Agree, ReadEventsFull, EventsWatched
  <2>3. FlightWatched'
    <3>1. InFlight \subseteq Msg
      BY <1>0, InFlightType DEF MsgInv, TypeInv
    <3>2. InFlight' = InFlight
      BY <1>0, <1>6, RestartFacts DEF Restart, queueVars, InFlight
    <3>3. \A m \in InFlight' : m.fd \in Fds /\ m.conn # NoConn
      BY <3>1, <3>2, NetIoAssumption DEF Msg
    <3> QED BY <2>1, <3>3 DEF FlightWatched
  <2> QED BY <1>0, <2>2, <2>3 DEF TabInv
<1> QED BY <1>0, <1>1, <1>3, <1>4, <1>5, <1>6, TabFire, TabAccept, TabEvent, TabWait
        DEF Next, ReactorNext

\* The kernel's descriptors, epoll's registrations, m_vecFds and the slots
\* always agree, whatever closes and reopens, but for the descriptors DoRecv
\* closed on a failed read, which are in m_vecFds and not in epoll.
THEOREM TablesStayInStep == Spec => []TablesAgree
<1>1. TabInv /\ [Next]_vars => TabInv'
  BY TabNext
<1>2. TabInv => TablesAgree
  BY DEF TabInv
<1> QED BY <1>1, <1>2, TabInit, PTL DEF Spec

\* A queue that lost its head is not the queue it was, nor one that was put
\* a message.
LEMMA TailDiffers ==
  ASSUME NEW S, NEW q \in Seq(S), q # <<>>
  PROVE  Tail(q) # q /\ \A m \in S : Tail(q) # PutMsg(q, m)
<1>1. Len(Tail(q)) = Len(q) - 1 /\ Len(q) \in Nat
  BY TailType
<1>2. \A m \in S : Len(Append(q, m)) = Len(q) + 1
  OBVIOUS
<1>3. Tail(q) # q /\ \A m \in S : Tail(q) # Append(q, m)
  <2>1. \A n \in Nat : n - 1 # n /\ n - 1 # n + 1
    OBVIOUS
  <2> QED BY <1>1, <1>2, <2>1
<1> QED BY <1>3 DEF PutMsg

LEMMA AnswerStep ==
  ASSUME TabInv, [Next]_vars, backQ # <<>>, backQ' = Tail(backQ),
         fdConn[Head(backQ).fd] = Head(backQ).conn
  PROVE  /\ reg'[Head(backQ).fd] = "out"
         /\ edge'[Head(backQ).fd] = TRUE
         /\ msgBuf'[Head(backQ).fd] = Head(backQ).conn
<1> DEFINE m == Head(backQ)
<1>0. TypeInv /\ TypeOK /\ TablesAgree /\ OneEventPerFd
  BY DEF TabInv, MsgInv, TypeInv
<1>1. backQ \in Seq(Msg) /\ m \in Msg
  BY <1>0, TailType DEF TypeOK
<1>2. backQ' # backQ /\ \A n \in Msg : backQ' # PutMsg(backQ, n)
  BY <1>1, TailDiffers
<1>3. Fire
  <2>1. ~ContainerNext
    BY <1>0, <1>2 DEF ContainerNext, ContainerTake, ContainerAnswer,
                      ContainerCrash, TypeOK
  <2>2. ~ClientNext /\ ~UNCHANGED vars
    BY <1>2 DEF ClientNext, Connect, Send, Close, queueVars, vars
  <2>3. ~Restart
    BY <1>2 DEF Restart, queueVars
  <2> QED BY <1>2, <2>1, <2>2, <2>3 DEF Next, ReactorNext, Wait, EndRound, AcceptOne,
                                  AcceptEnd, CloseEvent, AcceptEvent, ReadEvent,
                                  SendEvent, queueVars
<1>4. WatchForSend(m.fd, m.addr) /\ msgBuf' = [msgBuf EXCEPT ![m.fd] = m.conn]
  BY <1>3 DEF Fire, OnEventFire
<1>5. m.fd \in Fds /\ m.addr \in Addrs /\ m.conn \in Conns
  BY <1>1 DEF Msg
<1>6. m.addr = AddrOf[m.conn] /\ fdConn[m.fd] # NoConn /\ reg[m.fd] # "none"
  <2>1. m \in InFlight
    BY <1>1, TailElems DEF InFlight
  <2> QED BY <1>5, <2>1, NetIoAssumption DEF TabInv, MsgInv, FlightInv, FlightWatched
<1>7. SameClient(m.fd, m.addr)
  BY <1>0, <1>5, <1>6, WatchedAgree DEF TablesAgree, SameClient
<1> HIDE DEF m
<1>8. reg'[m.fd] = "out" /\ edge'[m.fd] = TRUE
  <2>1. reg' = [reg EXCEPT ![m.fd] = "out"] /\ edge'[m.fd] = TRUE
    BY <1>0, <1>4, <1>5, <1>6, <1>7, ArmsWatched
  <2> QED BY <1>0, <1>5, <2>1 DEF TypeOK
<1>9. msgBuf'[m.fd] = m.conn
  BY <1>0, <1>4, <1>5 DEF TypeOK
<1> QED BY <1>8, <1>9 DEF m

\* OnEventFire never discards the answer of a connection that is still on
\* its descriptor: it is put in the descriptor's buffer and EPOLLOUT armed.
THEOREM AnswersReachOwners == Spec => AnswerReachesOwner
<1>1. TabInv /\ [Next]_vars => TabInv'
  BY TabNext
<1>2. TabInv /\ [Next]_vars =>
        [backQ # <<>> /\ backQ' = Tail(backQ) =>
           LET m == Head(backQ)
           IN  fdConn[m.fd] = m.conn =>
                 reg'[m.fd] = "out" /\ edge'[m.fd] /\ msgBuf'[m.fd] = m.conn
        ]_vars
  BY AnswerStep
<1> QED BY <1>1, <1>2, TabInit, PTL DEF Spec, AnswerReachesOwner

-----------------------------------------------------------------------------
(* Lost clients.  A client is open, unanswered and forgotten when its slot *)
(* is in SEND, EPOLLOUT is not armed and no message is about it.  Queues   *)
(* that refuse a message and containers that die are the only causes; and  *)
(* since there is one message at most of each connection, queues as long   *)
(* as there are connections refuse none.                                   *)

\* The elements a queue keeps when msgsnd succeeds, and when msgrcv does.
LEMMA PutMsgKeeps ==
  ASSUME NEW S, NEW q \in Seq(S), NEW m \in S
  PROVE  /\ Elems(q) \subseteq Elems(PutMsg(q, m))
         /\ Len(q) < QCap => m \in Elems(PutMsg(q, m))
<1>1. CASE Len(q) < QCap
  <2>1. PutMsg(q, m) = Append(q, m)
    BY <1>1 DEF PutMsg
  <2>2. /\ DOMAIN Append(q, m) = 1..(Len(q) + 1)
        /\ Append(q, m)[Len(q) + 1] = m
        /\ \A i \in 1..Len(q) : Append(q, m)[i] = q[i]
        /\ DOMAIN q = 1..Len(q) /\ Len(q) \in Nat
    OBVIOUS
  <2>3. 1..Len(q) \subseteq 1..(Len(q) + 1) /\ Len(q) + 1 \in 1..(Len(q) + 1)
    BY <2>2
  <2> HIDE DEF Elems
  <2>4. Elems(q) \subseteq Elems(Append(q, m)) /\ m \in Elems(Append(q, m))
    BY <2>2, <2>3 DEF Elems
  <2> QED BY <2>1, <2>4
<1>2. CASE ~(Len(q) < QCap)
  BY <1>2 DEF PutMsg
<1> QED BY <1>1, <1>2

LEMMA TailKeeps ==
  ASSUME NEW S, NEW q \in Seq(S), q # <<>>
  PROVE  Elems(q) \subseteq Elems(Tail(q)) \cup {Head(q)}
<1> SUFFICES ASSUME NEW i \in DOMAIN q, i # 1
             PROVE  q[i] \in Elems(Tail(q))
  BY DEF Elems
<1>1. i - 1 \in DOMAIN Tail(q) /\ Tail(q)[i - 1] = q[i]
  OBVIOUS
<1> QED BY <1>1 DEF Elems

\* A descriptor that stays with its connection stays armed, and its slot
\* does not leave SEND.
LEMMA ArmedStays ==
  ASSUME TypeInv, [Next]_vars, NEW f \in Fds,
         fdConn[f] # NoConn, fdConn'[f] = fdConn[f], reg[f] = "out"
  PROVE  reg'[f] = "out"
<1>0. TypeOK
  BY DEF TypeInv
<1>1. CASE UNCHANGED reg
  BY <1>1
<1>2. CASE Fire
  <2>1. CASE backQ = <<>>
    BY <1>1, <1>2, <2>1 DEF Fire, OnEventFire, kernelVars
  <2>2. CASE backQ # <<>>
    <3> DEFINE m == Head(backQ)
    <3>1. m \in Msg /\ WatchForSend(m.fd, m.addr)
      BY <1>0, <1>2, <2>2, TailType DEF Fire, OnEventFire, TypeOK
    <3>2. m.fd \in Fds
      BY <3>1 DEF Msg
    <3> HIDE DEF m
    <3>3. reg' = reg \/ reg' = [reg EXCEPT ![m.fd] = "out"]
      BY <3>1 DEF WatchForSend, EpollCtl
    <3> QED BY <1>0, <3>2, <3>3 DEF TypeOK
  <2> QED BY <2>1, <2>2
<1>3. ASSUME NEW g \in Fds, AcceptOne(g)
      PROVE  reg'[f] = "out"
  <2>1. g # f
    BY <1>3 DEF AcceptOne
  <2>2. reg' = reg \/ reg' = [reg EXCEPT ![g] = "in"]
    BY <1>3 DEF AcceptOne, WatchForRead, EpollCtl
  <2> QED BY <1>0, <2>1, <2>2 DEF TypeOK
<1>4. ASSUME NEW g \in Fds, CloseFd(g)
      PROVE  reg'[f] = "out"
  <2>1. g # f
    BY <1>0, <1>4 DEF CloseFd, TypeOK
  <2> QED BY <1>0, <1>4, <2>1 DEF CloseFd, TypeOK
<1>5. ASSUME NEW e \in batch, CloseEvent(e) \/ ReadEvent(e) \/ SendEvent(e)
      PROVE  reg'[f] = "out"
  <2>1. e # ListenEvent
    BY <1>5 DEF CloseEvent, ReadEvent, SendEvent, ListenEvent
  <2>2. e.fd \in Fds
    BY <2>1, EventFacts
  <2>3. CloseFd(e.fd) \/ UNCHANGED reg
    BY <1>5 DEF CloseEvent, ReadEvent, SendEvent, DoClose, DoRecv,
                DoRecvFailed, kernelVars
  <2> QED BY <1>1, <1>4, <2>2, <2>3
<1>6. CASE Restart
  BY <1>0, <1>6, RestartFacts
<1>7. CASE Wait \/ EndRound \/ AcceptEnd \/ ContainerNext \/ ClientNext \/ UNCHANGED vars
  BY <1>1, <1>7 DEF Wait, EndRound, AcceptEnd, ContainerNext, ContainerTake,
     ContainerAnswer, ContainerCrash, ClientNext, Connect, Send, Close,
     kernelVars, vars
<1>8. ASSUME NEW e \in batch, AcceptEvent(e)
      PROVE  reg'[f] = "out"
  BY <1>1, <1>8 DEF AcceptEvent, kernelVars
<1> QED BY <1>2, <1>3, <1>5, <1>6, <1>7, <1>8 DEF Next, ReactorNext

\* The ways a message leaves the queues: OnEventFire takes it, or it leaves
\* its container and does not reach the back queue.
LEMMA FlightLoses ==
  ASSUME TypeInv, [Next]_vars, NEW m \in InFlight, m \notin InFlight'
  PROVE  \/ backQ # <<>> /\ backQ' = Tail(backQ) /\ m = Head(backQ)
         \/ /\ m \in serving \ serving'
            /\ backQ' = backQ
            /\ Len(backQ) = QCap \/ ContainersMayCrash
<1>0. TypeOK
  BY DEF TypeInv
<1>1. ~UNCHANGED queueVars
  BY DEF InFlight, queueVars
<1>2. CASE ClientNext \/ Restart \/ UNCHANGED vars
  BY <1>1, <1>2 DEF ClientNext, Connect, Send, Close, Restart, vars
<1>3. CASE Wait \/ EndRound \/ AcceptEnd \/ \E f \in Fds : AcceptOne(f)
  BY <1>1, <1>3 DEF Wait, EndRound, AcceptEnd, AcceptOne
<1>4. CASE Fire
  <2>1. backQ # <<>> /\ backQ' = Tail(backQ) /\ UNCHANGED <<reqQ, serving>>
    BY <1>1, <1>4 DEF Fire, OnEventFire, queueVars
  <2>2. Elems(backQ) \subseteq Elems(backQ') \cup {Head(backQ)}
    BY <1>0, <2>1, TailKeeps DEF TypeOK
  <2> QED BY <2>1, <2>2 DEF InFlight
<1>5. ASSUME NEW e \in batch, ReadEvent(e)
      PROVE  FALSE
  <2> DEFINE f == e.fd
             q == CmdOf[fdConn[f]]
             n == [fd |-> f, addr |-> slot[f].addr, conn |-> fdConn[f]]
  <2>1. DoRecv(f)
    BY <1>1, <1>5 DEF ReadEvent, DoRecvFailed, queueVars
  <2>2. /\ reqQ' = [reqQ EXCEPT ![q] = PutMsg(reqQ[q], n)]
        /\ UNCHANGED <<serving, backQ>>
    BY <1>5, <2>1 DEF ReadEvent, DoRecv
  <2>3. q \in Cmds /\ n \in Msg /\ reqQ[q] \in Seq(Msg)
    <3>1. /\ f \in Fds /\ fdConn[f] \in Conns
          /\ slot[f].addr = AddrOf[fdConn[f]]
      BY <1>5, EventFacts DEF ReadEvent
    <3> QED BY <1>0, <3>1, NetIoAssumption DEF Msg, TypeOK
  <2> HIDE DEF f, q, n
  <2>4. Elems(reqQ[q]) \subseteq Elems(PutMsg(reqQ[q], n))
    BY <2>3, PutMsgKeeps
  <2>5. \A r \in Cmds : Elems(reqQ[r]) \subseteq Elems(reqQ'[r])
    <3>1. \A r \in Cmds : reqQ'[r] = IF r = q THEN PutMsg(reqQ[q], n) ELSE reqQ[r]
      BY <1>0, <2>2 DEF TypeOK
    <3> QED BY <2>4, <3>1
  <2> QED BY <2>2, <2>5 DEF InFlight
<1>6. ASSUME NEW e \in batch, CloseEvent(e) \/ AcceptEvent(e) \/ SendEvent(e)
      PROVE  FALSE
  BY <1>1, <1>6 DEF CloseEvent, AcceptEvent, SendEvent
<1>7. ASSUME NEW q \in Cmds, ContainerTake(q)
      PROVE  FALSE
  <2>1. /\ reqQ[q] \in Seq(Msg) /\ reqQ[q] # <<>>
        /\ reqQ' = [reqQ EXCEPT ![q] = Tail(reqQ[q])]
        /\ serving' = serving \cup {Head(reqQ[q])} /\ backQ' = backQ
    BY <1>0, <1>7 DEF ContainerTake, TypeOK
  <2>2. Elems(reqQ[q]) \subseteq Elems(Tail(reqQ[q])) \cup {Head(reqQ[q])}
    BY <2>1, TailKeeps
  <2>3. \A r \in Cmds : Elems(reqQ[r]) \subseteq Elems(reqQ'[r]) \cup serving'
    <3>1. \A r \in Cmds : reqQ'[r] = IF r = q THEN Tail(reqQ[q]) ELSE reqQ[r]
      BY <1>0, <2>1 DEF TypeOK
    <3> QED BY <2>1, <2>2, <3>1
  <2> QED BY <2>1, <2>3 DEF InFlight
<1>8. ASSUME NEW n \in serving, ContainerAnswer(n)
      PROVE  /\ m \in serving \ serving'
             /\ backQ' = backQ
             /\ Len(backQ) = QCap
  <2>1. /\ serving' = serving \ {n} /\ backQ' = PutMsg(backQ, n)
        /\ reqQ' = reqQ
        /\ n \in Msg /\ backQ \in Seq(Msg) /\ Len(backQ) <= QCap
    BY <1>0, <1>8 DEF ContainerAnswer, TypeOK
  <2>2. /\ Elems(backQ) \subseteq Elems(backQ')
        /\ Len(backQ) < QCap => n \in Elems(backQ')
    BY <2>1, PutMsgKeeps
  <2>3. m = n /\ ~(Len(backQ) < QCap)
    BY <2>1, <2>2 DEF InFlight
  <2>4. Len(backQ) = QCap
    BY <2>1, <2>3, NetIoAssumption
  <2> QED BY <2>1, <2>3, <2>4 DEF PutMsg
<1>9. ASSUME NEW n \in serving, ContainerCrash(n)
      PROVE  m \in serving \ serving' /\ backQ' = backQ /\ ContainersMayCrash
  BY <1>9 DEF ContainerCrash, InFlight
<1> QED BY <1>2, <1>3, <1>4, <1>5, <1>6, <1>7, <1>8, <1>9
        DEF Next, ReactorNext, ContainerNext

\* How the slot of a connection that stays turns to SEND: DoRecv read its
\* request, or OnEventFire armed it.
LEMMA TurnsToSend ==
  ASSUME TabInv, [Next]_vars, NEW f \in Fds,
         fdConn[f] # NoConn, fdConn'[f] = fdConn[f], reg[f] # "none",
         slot[f].flag # "TCP_SERVER_SEND", slot'[f].flag = "TCP_SERVER_SEND"
  PROVE  reg'[f] = "out" \/ (slot[f].flag = "TCP_SERVER_READ" /\ DoRecv(f))
<1>0. TypeInv /\ TypeOK /\ TablesAgree
  BY DEF TabInv, MsgInv, TypeInv
<1>1. slot' # slot
  OBVIOUS
<1>2. CASE Fire
  <2> DEFINE m == Head(backQ)
  <2>1. backQ # <<>> /\ WatchForSend(m.fd, m.addr) /\ SameClient(m.fd, m.addr)
    BY <1>1, <1>2 DEF Fire, OnEventFire, WatchForSend
  <2>2. m \in Msg
    BY <1>0, <2>1, TailType DEF TypeOK
  <2>3. m.fd \in Fds /\ m.addr \in Addrs
    BY <2>2 DEF Msg
  <2> HIDE DEF m
  <2>4. m.fd = f
    BY <1>0, <2>1, <2>3 DEF WatchForSend, TypeOK
  <2>5. reg' = [reg EXCEPT ![m.fd] = "out"]
    BY <1>0, <2>1, <2>3, <2>4, ArmsWatched
  <2> QED BY <1>0, <2>4, <2>5 DEF TypeOK
<1>3. ASSUME NEW g \in Fds, AcceptOne(g)
      PROVE  FALSE
  BY <1>0, <1>3 DEF AcceptOne, TypeOK
<1>4. ASSUME NEW e \in batch, CloseEvent(e) \/ ReadEvent(e) \/ SendEvent(e)
      PROVE  slot[f].flag = "TCP_SERVER_READ" /\ DoRecv(f)
  <2>1. e # ListenEvent
    BY <1>4 DEF CloseEvent, ReadEvent, SendEvent, ListenEvent
  <2>2. e.fd \in Fds
    BY <1>0, <2>1, EventFacts
  <2>3. ~DoClose(e.fd)
    <3>1. DoClose(e.fd) => fdConn'[e.fd] = NoConn /\ \A g \in Fds \ {e.fd} : slot'[g] = slot[g]
      BY <1>0, <2>2 DEF DoClose, CloseFd, TypeOK
    <3> QED BY <3>1
  <2>4. ReadEvent(e) /\ DoRecv(e.fd)
    BY <1>1, <1>4, <2>3 DEF CloseEvent, SendEvent, ReadEvent, DoRecvFailed
  <2>5. e.fd = f
    BY <1>0, <2>2, <2>4 DEF DoRecv, TypeOK
  <2> QED BY <2>4, <2>5 DEF ReadEvent
<1>5. CASE Restart
  BY <1>0, <1>5, RestartFacts
<1>6. CASE Wait \/ EndRound \/ AcceptEnd \/ ContainerNext \/ ClientNext \/ UNCHANGED vars
  BY <1>1, <1>6 DEF Wait, EndRound, AcceptEnd, ContainerNext, ContainerTake,
     ContainerAnswer, ContainerCrash, ClientNext, Connect, Send, Close,
     reactorVars, vars
<1>7. ASSUME NEW e \in batch, AcceptEvent(e)
      PROVE  FALSE
  BY <1>1, <1>7 DEF AcceptEvent
<1> QED BY <1>2, <1>3, <1>4, <1>5, <1>6, <1>7 DEF Next, ReactorNext

\* DoRecv brings the request of its connection on its way, or the queue of
\* its command is full.
LEMMA RecvQueues ==
  ASSUME TypeInv, NEW f \in Fds, fdConn[f] # NoConn,
         slot[f].flag = "TCP_SERVER_READ", DoRecv(f)
  PROVE  \/ \E m \in InFlight' : m.conn = fdConn[f]
         \/ Len(reqQ[CmdOf[fdConn[f]]]) = QCap /\ reqQ' = reqQ
<1> DEFINE q == CmdOf[fdConn[f]]
           n == [fd |-> f, addr |-> slot[f].addr, conn |-> fdConn[f]]
<1>0. TypeOK
  BY DEF TypeInv
<1>1. reqQ' = [reqQ EXCEPT ![q] = PutMsg(reqQ[q], n)] /\ n.conn = fdConn[f]
  BY DEF DoRecv
<1>2. q \in Cmds /\ n \in Msg /\ reqQ[q] \in Seq(Msg) /\ Len(reqQ[q]) <= QCap
  <2>1. fdConn[f] \in Conns /\ slot[f].addr = AddrOf[fdConn[f]]
    BY <1>0 DEF TypeInv, OpenSlots, TypeOK
  <2> QED BY <1>0, <2>1, NetIoAssumption DEF Msg, TypeOK
<1> HIDE DEF n
<1>3. CASE Len(reqQ[q]) < QCap
  <2>1. reqQ'[q] = PutMsg(reqQ[q], n)
    BY <1>0, <1>1, <1>2 DEF TypeOK
  <2>2. n \in Elems(reqQ'[q])
    BY <1>2, <1>3, <2>1, PutMsgKeeps
  <2> QED BY <1>1, <1>2, <2>2 DEF InFlight
<1>4. CASE ~(Len(reqQ[q]) < QCap)
  <2>1. Len(reqQ[q]) = QCap
    BY <1>2, <1>4, NetIoAssumption
  <2>2. reqQ' = reqQ
    BY <1>0, <1>1, <1>2, <1>4 DEF PutMsg, TypeOK
  <2> QED BY <2>1, <2>2
<1> QED BY <1>3, <1>4

LEMMA ServedStep ==
  ASSUME TabInv, [Next]_vars, NEW f \in Fds,
         fdConn[f] # NoConn, fdConn'[f] = fdConn[f], reg[f] # "none",
         StillServed(f)
  PROVE  StillServed(f)' \/ RequestRefused(f) \/ AnswerRefused(f)
<1> SUFFICES ASSUME slot'[f].flag = "TCP_SERVER_SEND", reg'[f] # "out",
                    \A m \in InFlight' : m.conn # fdConn[f]
             PROVE  RequestRefused(f) \/ AnswerRefused(f)
  BY DEF StillServed
<1>0. TypeInv
  BY DEF TabInv, MsgInv
<1>1. CASE slot[f].flag = "TCP_SERVER_SEND"
  <2>1. reg[f] # "out"
    BY <1>0, ArmedStays
  <2>2. PICK m \in InFlight : m.conn = fdConn[f]
    BY <1>1, <2>1 DEF StillServed
  <2>3. m \notin InFlight'
    BY <2>2
  <2>4. ~(backQ # <<>> /\ backQ' = Tail(backQ) /\ m = Head(backQ))
    <3>1. m.fd = f
      BY <2>2 DEF TabInv, MsgInv, FlightInv
    <3> QED BY <2>2, <3>1, AnswerStep
  <2>5. /\ m \in serving \ serving'
        /\ backQ' = backQ
        /\ Len(backQ) = QCap \/ ContainersMayCrash
    BY <1>0, <2>3, <2>4, FlightLoses
  <2> QED BY <2>2, <2>5 DEF AnswerRefused
<1>2. CASE slot[f].flag # "TCP_SERVER_SEND"
  <2>1. slot[f].flag = "TCP_SERVER_READ" /\ DoRecv(f)
    BY <1>2, TurnsToSend
  <2> QED BY <1>0, <2>1, RecvQueues DEF RequestRefused
<1> QED BY <1>1, <1>2

\* A client that stays on a descriptor epoll watches is lost to a queue that is
\* full, or to a container that dies, and to nothing else.
THEOREM LostToFullQueues == Spec => LostOnlyWhenRefused
<1>1. TabInv /\ [Next]_vars => TabInv'
  BY TabNext
<1>2. TabInv /\ [Next]_vars =>
        [\A f \in Fds :
           /\ fdConn[f] # NoConn
           /\ fdConn'[f] = fdConn[f]
           /\ reg[f] # "none"
           /\ StillServed(f)
           => StillServed(f)' \/ RequestRefused(f) \/ AnswerRefused(f)]_vars
  BY ServedStep
<1> QED BY <1>1, <1>2, TabInit, PTL DEF Spec, LostOnlyWhenRefused

\* A queue in which a connection has no message has room for one, since each
\* of the others has one at most.
LEMMA RoomForOne ==
  ASSUME IsFiniteSet(Conns), NEW q \in Seq(Msg), Distinct(q), NEW c \in Conns,
         \A m \in Elems(q) : m.conn # c
  PROVE  Len(q) < Cardinality(Conns)
<1> DEFINE h == [i \in 1..Len(q) |-> q[i].conn]
<1>1. /\ Len(q) \in Nat
      /\ DOMAIN q = 1..Len(q)
      /\ \A i \in 1..Len(q) : q[i] \in Msg
  OBVIOUS
<1>2. \A i \in 1..Len(q) : q[i].conn \in Conns \ {c}
  BY <1>1 DEF Elems, Msg
<1>3. \A i, j \in 1..Len(q) : q[i].conn = q[j].conn => i = j
  BY <1>1 DEF Distinct
<1>4. h \in Injection(1..Len(q), Conns \ {c})
  BY <1>2, <1>3 DEF Injection, IsInjective
<1>5. /\ IsFiniteSet(Conns \ {c})
      /\ Cardinality(Conns \ {c}) = Cardinality(Conns) - 1
  BY FS_RemoveElement
<1>6. Cardinality(1..Len(q)) <= Cardinality(Conns \ {c})
  BY <1>4, <1>5, FS_Injection
<1>7. Cardinality(1..Len(q)) = Len(q)
  BY <1>1, FS_Interval
<1>8. Cardinality(Conns) \in Nat
  BY FS_CardinalityType
<1> QED BY <1>1, <1>5, <1>6, <1>7, <1>8

\* Then no step refuses the request of a connection, nor its answer.
LEMMA NoneRefused ==
  ASSUME ~ContainersMayCrash, IsFiniteSet(Conns), Cardinality(Conns) <= QCap,
         TabInv, NEW f \in Fds, fdConn[f] # NoConn
  PROVE  ~RequestRefused(f) /\ ~AnswerRefused(f)
<1> DEFINE c == fdConn[f]
<1>1. TypeOK /\ MsgUnique /\ FlightInv
  BY DEF TabInv, MsgInv, TypeInv
<1>2. c \in Conns /\ CmdOf[c] \in Cmds
  BY <1>1, NetIoAssumption DEF TypeOK
<1>3. Cardinality(Conns) \in Nat /\ QCap \in Nat
  BY FS_CardinalityType, NetIoAssumption
<1>4. ASSUME RequestRefused(f)
      PROVE  FALSE
  <2>1. \A m \in InFlight : m.conn # c
    BY <1>1, <1>4 DEF RequestRefused, FlightInv
  <2>2. /\ reqQ[CmdOf[c]] \in Seq(Msg)
        /\ Distinct(reqQ[CmdOf[c]])
        /\ \A m \in Elems(reqQ[CmdOf[c]]) : m.conn # c
    BY <1>1, <1>2, <2>1 DEF TypeOK, MsgUnique, InFlight
  <2> HIDE DEF c
  <2>3. Len(reqQ[CmdOf[c]]) < Cardinality(Conns)
    BY <1>2, <2>2, RoomForOne
  <2> QED BY <1>3, <1>4, <2>3 DEF RequestRefused, c
<1>5. ASSUME AnswerRefused(f)
      PROVE  FALSE
  <2>1. PICK n \in serving : n.conn = c
    BY <1>5 DEF AnswerRefused
  <2>2. /\ backQ \in Seq(Msg)
        /\ Distinct(backQ)
        /\ \A m \in Elems(backQ) : m.conn # c
    BY <1>1, <2>1 DEF TypeOK, MsgUnique
  <2> HIDE DEF c
  <2>3. Len(backQ) < Cardinality(Conns)
    BY <1>2, <2>2, RoomForOne
  <2> QED BY <1>3, <1>5, <2>3 DEF AnswerRefused
<1> QED BY <1>4, <1>5

\* A connection just accepted has not been read from.
LEMMA AcceptedReads ==
  ASSUME TypeInv, [Next]_vars, NEW f \in Fds,
         fdConn'[f] # NoConn, fdConn'[f] # fdConn[f]
  PROVE  slot'[f].flag = "TCP_SERVER_READ"
<1>0. TypeOK
  BY DEF TypeInv
<1>1. ASSUME NEW g, CloseFd(g)
      PROVE  FALSE
  BY <1>0, <1>1 DEF CloseFd, TypeOK
<1>2. \A g : ~DoClose(g) /\ ~DoRecvFailed(g)
  BY <1>1 DEF DoClose, DoRecvFailed
<1>3. fdConn' # fdConn
  OBVIOUS
<1>4. ~ClientNext /\ ~ContainerNext /\ ~UNCHANGED vars
  BY <1>3 DEF ClientNext, Connect, Send, Close, ContainerNext, ContainerTake,
     ContainerAnswer, ContainerCrash, kernelVars, vars
<1>5. ~Restart
  BY <1>0, RestartFacts
<1>6. ~Wait /\ ~Fire /\ ~EndRound /\ ~AcceptEnd
  BY <1>3 DEF Wait, Fire, OnEventFire, EndRound, AcceptEnd, kernelVars
<1>7. \A e \in batch :
        ~CloseEvent(e) /\ ~AcceptEvent(e) /\ ~ReadEvent(e) /\ ~SendEvent(e)
  BY <1>2, <1>3 DEF CloseEvent, AcceptEvent, ReadEvent, SendEvent, DoRecv,
     kernelVars
<1>8. PICK g \in Fds : AcceptOne(g)
  BY <1>4, <1>5, <1>6, <1>7 DEF Next, ReactorNext
<1>9. g = f
  BY <1>0, <1>8 DEF AcceptOne, TypeOK
<1> QED BY <1>0, <1>8, <1>9 DEF AcceptOne, TypeOK

\* Where a queue holds a message of each client, containers live and reads
\* succeed, no open client is forgotten: what EveryRequestEnds needs of every
\* state, with clients that leave and a netio that restarts.
THEOREM AnswersComing ==
  ASSUME ~ReadMayFail, ~ContainersMayCrash,
         IsFiniteSet(Conns), Cardinality(Conns) <= QCap
  PROVE  Spec => []AnswerOnItsWay
<1> DEFINE IInv == TabInv /\ AnswerOnItsWay
<1>1. Init => IInv
  BY TabInit DEF Init, AnswerOnItsWay
<1>2. IInv /\ [Next]_vars => IInv'
  <2> SUFFICES ASSUME TabInv, AnswerOnItsWay, [Next]_vars
               PROVE  TabInv' /\ AnswerOnItsWay'
    OBVIOUS
  <2>1. TabInv'
    BY TabNext
  <2>2. ASSUME NEW f \in Fds, fdConn'[f] # NoConn
        PROVE  StillServed(f)'
    <3>1. CASE fdConn'[f] = fdConn[f]
      <4>1. StillServed(f)
        BY <2>2, <3>1 DEF AnswerOnItsWay
      <4>2. ~RequestRefused(f) /\ ~AnswerRefused(f)
        BY <2>2, <3>1, NoneRefused
      <4>3. reg[f] # "none"
        BY <2>2, <3>1 DEF TabInv, TablesAgree, Agree, Forgotten
      <4> QED BY <2>2, <3>1, <4>1, <4>2, <4>3, ServedStep
    <3>2. CASE fdConn'[f] # fdConn[f]
      <4>1. slot'[f].flag = "TCP_SERVER_READ"
        BY <2>2, <3>2, AcceptedReads DEF TabInv, MsgInv
      <4> QED BY <4>1 DEF StillServed
    <3> QED BY <3>1, <3>2
  <2> QED BY <2>1, <2>2 DEF AnswerOnItsWay
<1>3. IInv => AnswerOnItsWay
  OBVIOUS
<1> QED BY <1>1, <1>2, <1>3, PTL DEF Spec

-----------------------------------------------------------------------------
(* Edges: nothing an edge-triggered epoll told once is forgotten.          *)

\* Between two rounds no event is pending.
BatchDone == pc = "wait" => batch = {}

\* An event's descriptor is registered, and a client that closed after the
\* event was harvested has left a new edge.
LateCloseSeen ==
  \A e \in batch \ {ListenEvent} :
    /\ reg[e.fd] # "none"
    /\ fin[e.conn] /\ ~e.hup => edge[e.fd]

EdgeInv ==
  MsgInv /\ OutMeansSend /\ BatchDone /\ LateCloseSeen /\ NoMissedEdge

LEMMA EdgeInit == Init => EdgeInv
<1> SUFFICES ASSUME Init PROVE EdgeInv
  OBVIOUS
<1>1. BatchDone /\ LateCloseSeen /\ NoMissedEdge /\ OutMeansSend
  BY DEF Init, BatchDone, LateCloseSeen, NoMissedEdge, OutMeansSend, Ready
<1> QED BY <1>1, MsgInvInit DEF EdgeInv

\* The connection of an event, and what Ready says, by descriptor.
LEMMA EdgeFacts ==
  ASSUME EdgeInv
  PROVE  /\ TypeInv /\ TypeOK
         /\ \A f \in Fds : reg[f] # "none" => fdConn[f] \in Conns
         /\ \A e \in batch \ {ListenEvent} :
              e.fd \in Fds /\ e.conn \in Conns /\ fdConn[e.fd] = e.conn
         /\ ListenEvent.fd \notin Fds
<1>1. TypeInv /\ TypeOK
  BY DEF EdgeInv, MsgInv, TypeInv
<1>2. \A f \in Fds : reg[f] # "none" => fdConn[f] \in Conns
  BY <1>1 DEF TypeInv, OpenSlots, TypeOK
<1>3. \A e \in batch \ {ListenEvent} :
        e.fd \in Fds /\ e.conn \in Conns /\ fdConn[e.fd] = e.conn
  BY <1>1, EventFacts
<1>4. ListenEvent.fd \notin Fds
  BY NetIoAssumption DEF ListenEvent
<1> QED BY <1>1, <1>2, <1>3, <1>4

\* Steps that leave the descriptors, what has arrived on them, and the
\* events alone.
LEMMA EdgeFrame ==
  ASSUME EdgeInv, UNCHANGED <<rx, fin, fdConn, reg, edge>>,
         batch' = batch \/ batch' = batch \ {ListenEvent},
         pc' = "wait" => batch' = {}
  PROVE  BatchDone' /\ LateCloseSeen' /\ NoMissedEdge'
<1>1. \A f \in Fds : Ready(f)' <=> Ready(f)
  BY DEF Ready
<1>2. \A e \in batch : e.fd \in Fds => e \in batch'
  BY EdgeFacts
<1>3. NoMissedEdge'
  BY <1>1, <1>2 DEF EdgeInv, NoMissedEdge
<1>4. LateCloseSeen'
  BY DEF EdgeInv, LateCloseSeen
<1> QED BY <1>3, <1>4 DEF BatchDone

LEMMA EdgeClient ==
  ASSUME EdgeInv, ClientNext
  PROVE  BatchDone' /\ LateCloseSeen' /\ NoMissedEdge'
<1> USE DEF reactorVars, queueVars
<1>1. TypeOK
  BY EdgeFacts
<1>2. ASSUME NEW c \in Conns, Connect(c)
      PROVE  BatchDone' /\ LateCloseSeen' /\ NoMissedEdge'
  BY <1>2, EdgeFrame DEF Connect, EdgeInv, BatchDone
<1>3. ASSUME NEW c \in Conns, Send(c)
      PROVE  BatchDone' /\ LateCloseSeen' /\ NoMissedEdge'
  <2>1. /\ \A f \in Fds :
             edge'[f] = (edge[f] \/ (fdConn[f] = c /\ reg[f] = "in"))
        /\ \A d \in Conns : d # c => rx'[d] = rx[d]
        /\ UNCHANGED <<fin, fdConn, reg, batch, pc>>
    BY <1>1, <1>3 DEF Send, TypeOK
  <2>2. ASSUME NEW f \in Fds, Ready(f)'
        PROVE  Ready(f) \/ (fdConn[f] = c /\ reg[f] = "in")
    <3>1. reg[f] \in {"none", "in", "out"}
      BY <1>1 DEF TypeOK
    <3>2. reg[f] # "none" /\ fdConn[f] \in Conns /\ fdConn'[f] = fdConn[f]
      BY <2>1, <2>2, EdgeFacts DEF Ready
    <3> QED BY <2>1, <2>2, <3>1, <3>2 DEF Ready
  <2>3. NoMissedEdge'
    BY <2>1, <2>2 DEF EdgeInv, NoMissedEdge
  <2>4. LateCloseSeen'
    BY <2>1, EdgeFacts DEF EdgeInv, LateCloseSeen
  <2> QED BY <2>1, <2>3, <2>4 DEF EdgeInv, BatchDone
<1>4. ASSUME NEW c \in Conns, Close(c)
      PROVE  BatchDone' /\ LateCloseSeen' /\ NoMissedEdge'
  <2>1. /\ \A f \in Fds :
             edge'[f] = (edge[f] \/ (fdConn[f] = c /\ reg[f] # "none"))
        /\ \A d \in Conns : d # c => fin'[d] = fin[d]
        /\ UNCHANGED <<rx, fdConn, reg, batch, pc>>
    BY <1>1, <1>4 DEF Close, TypeOK
  <2>2. \A f \in Fds : Ready(f)' =>
          Ready(f) \/ (fdConn[f] = c /\ reg[f] # "none")
    BY <2>1, EdgeFacts DEF Ready
  <2>3. NoMissedEdge'
    BY <2>1, <2>2 DEF EdgeInv, NoMissedEdge
  <2>4. ASSUME NEW e \in batch \ {ListenEvent}
        PROVE  /\ reg[e.fd] # "none"
               /\ fin'[e.conn] /\ ~e.hup => edge'[e.fd]
    <3>1. e.fd \in Fds /\ e.conn \in Conns /\ fdConn[e.fd] = e.conn
      BY EdgeFacts
    <3>2. /\ reg[e.fd] # "none"
          /\ fin[e.conn] /\ ~e.hup => edge[e.fd]
      BY DEF EdgeInv, LateCloseSeen
    <3> QED BY <2>1, <3>1, <3>2
  <2>5. LateCloseSeen'
    BY <2>1, <2>4 DEF LateCloseSeen
  <2> QED BY <2>1, <2>3, <2>5 DEF EdgeInv, BatchDone
<1> QED BY <1>2, <1>3, <1>4 DEF ClientNext

\* epoll_wait turns every edge that still stands for something into an event.
LEMMA EdgeWait ==
  ASSUME EdgeInv, Wait
  PROVE  BatchDone' /\ LateCloseSeen' /\ NoMissedEdge'
<1> USE DEF Wait, clientVars, queueVars
<1>1. batch = {}
  BY DEF EdgeInv, BatchDone
<1>2. \A e \in batch' \ {ListenEvent} :
        \E f \in Fds : /\ Ready(f)
                       /\ e = [fd |-> f, conn |-> fdConn[f],
                               hup |-> fin[fdConn[f]]]
  OBVIOUS
<1>3. LateCloseSeen'
  BY <1>2 DEF LateCloseSeen, Ready
<1>4. ASSUME NEW f \in Fds, Ready(f)
      PROVE  \E e \in batch' : e.fd = f
  <2>1. edge[f]
    BY <1>1, <1>4 DEF EdgeInv, NoMissedEdge
  <2>2. [fd |-> f, conn |-> fdConn[f], hup |-> fin[fdConn[f]]] \in batch'
    BY <1>4, <2>1
  <2> QED BY <2>2
<1>5. NoMissedEdge'
  <2>1. \A f \in Fds : Ready(f)' <=> Ready(f)
    BY DEF Ready
  <2> QED BY <1>4, <2>1 DEF NoMissedEdge
<1> QED BY <1>3, <1>5 DEF BatchDone

\* OnEventFire arms a descriptor with its edge, for an empty send buffer is
\* ready at once.
LEMMA EdgeFire ==
  ASSUME EdgeInv, Fire
  PROVE  BatchDone' /\ LateCloseSeen' /\ NoMissedEdge'
<1> USE DEF Fire, clientVars
<1>1. TypeOK
  BY EdgeFacts
<1>2. CASE backQ = <<>>
  BY <1>2, EdgeFrame DEF OnEventFire, kernelVars
<1>3. CASE backQ # <<>>
  <2> DEFINE m == Head(backQ)
  <2>1. WatchForSend(m.fd, m.addr) /\ UNCHANGED fdConn /\ m.fd \in Fds
    <3>1. m \in Msg
      BY <1>1, <1>3, TailType DEF TypeOK
    <3> QED BY <1>3, <3>1 DEF OnEventFire, Msg
  <2> HIDE DEF m
  <2>2. \/ UNCHANGED <<reg, edge>>
        \/ /\ reg' = [reg EXCEPT ![m.fd] = "out"]
           /\ edge' = [edge EXCEPT ![m.fd] = TRUE]
    <3>1. CASE UNCHANGED <<reg, edge>>
      BY <3>1
    <3>2. CASE SameClient(m.fd, m.addr) /\ EpollCtl(m.fd, "out", fdConn[m.fd])
      BY <2>1, <3>2 DEF EpollCtl
    <3> QED BY <2>1, <3>1, <3>2 DEF WatchForSend
  <2>3. \A f \in Fds : /\ edge[f] => edge'[f]
                       /\ reg[f] # "none" => reg'[f] # "none"
                       /\ reg'[f] = reg[f] \/ edge'[f]
    BY <1>1, <2>1, <2>2 DEF TypeOK
  <2>4. \A f \in Fds : Ready(f)' => Ready(f) \/ edge'[f]
    BY <2>1, <2>3 DEF Ready
  <2>5. NoMissedEdge'
    BY <2>3, <2>4 DEF EdgeInv, NoMissedEdge
  <2>6. LateCloseSeen'
    BY <2>3, EdgeFacts DEF EdgeInv, LateCloseSeen
  <2> QED BY <2>5, <2>6 DEF BatchDone
<1> QED BY <1>2, <1>3

\* A descriptor that accept() returns is new to epoll, which looks at it when
\* it is added.
LEMMA EdgeAccept ==
  ASSUME EdgeInv, NEW f \in Fds, AcceptOne(f)
  PROVE  BatchDone' /\ LateCloseSeen' /\ NoMissedEdge'
<1> DEFINE c == Head(backlog)
<1>1. TypeOK
  BY EdgeFacts
<1>2. c \in Conns /\ WatchForRead(f, c) /\ fdConn[f] = NoConn
      /\ fdConn' = [fdConn EXCEPT ![f] = c]
      /\ UNCHANGED <<rx, fin, batch, pc>>
  BY <1>1, TailType DEF AcceptOne, TypeOK
<1> HIDE DEF c
<1>3. reg[f] = "none"
  BY <1>2, EdgeFacts, NetIoAssumption
<1>4. /\ \A g \in Fds \ {f} : /\ reg'[g] = reg[g] /\ edge'[g] = edge[g]
                              /\ fdConn'[g] = fdConn[g]
      /\ fdConn'[f] = c
      /\ reg'[f] \in {reg[f], "in"}
  BY <1>1, <1>2, WatchForReadType DEF TypeOK
<1>5. reg'[f] = "none" \/ edge'[f] \/ ~(rx[c] > 0 \/ fin[c])
  BY <1>1, <1>2, <1>3 DEF WatchForRead, EpollCtl, TypeOK
<1>6. Ready(f)' => edge'[f]
  BY <1>2, <1>3, <1>4, <1>5 DEF Ready
<1>7. \A g \in Fds \ {f} : Ready(g)' => Ready(g)
  BY <1>2, <1>4 DEF Ready
<1>8. NoMissedEdge'
  BY <1>2, <1>4, <1>6, <1>7 DEF EdgeInv, NoMissedEdge
<1>9. LateCloseSeen'
  <2>1. \A e \in batch \ {ListenEvent} : e.fd \in Fds \ {f}
    BY <1>2, EdgeFacts, NetIoAssumption
  <2> QED BY <1>2, <1>4, <2>1 DEF EdgeInv, LateCloseSeen
<1> QED BY <1>2, <1>8, <1>9 DEF EdgeInv, BatchDone

\* A closed descriptor is not ready; the others keep their edges and events.
LEMMA EdgeCloseFd ==
  ASSUME EdgeInv, NEW e \in batch, e # ListenEvent, CloseFd(e.fd),
         batch' = batch \ {e}, pc = "events", pc' = pc
  PROVE  BatchDone' /\ LateCloseSeen' /\ NoMissedEdge'
<1>1. TypeOK /\ TypeInv /\ e.fd \in Fds /\ fdConn[e.fd] \in Conns
  BY EdgeFacts
<1>2. /\ \A g \in Fds \ {e.fd} : /\ fdConn'[g] = fdConn[g] /\ reg'[g] = reg[g]
                                 /\ edge'[g] = edge[g]
      /\ reg'[e.fd] = "none"
      /\ \A d \in Conns : rx'[d] = rx[d] \/ rx'[d] = 0
      /\ fin' = fin
  BY <1>1 DEF CloseFd, TypeOK
<1>3. \A g \in Fds \ {e.fd} : Ready(g)' => Ready(g)
  BY <1>2, EdgeFacts DEF Ready
<1>4. ~Ready(e.fd)'
  BY <1>2 DEF Ready
<1>5. NoMissedEdge'
  BY <1>2, <1>3, <1>4 DEF EdgeInv, NoMissedEdge
<1>6. LateCloseSeen'
  <2>1. \A d \in batch' \ {ListenEvent} : d.fd \in Fds \ {e.fd}
    BY <1>1, EventFacts
  <2> QED BY <1>2, <2>1 DEF EdgeInv, LateCloseSeen
<1> QED BY <1>5, <1>6 DEF BatchDone

LEMMA EdgeEvent ==
  ASSUME EdgeInv, NEW e \in batch,
         CloseEvent(e) \/ AcceptEvent(e) \/ ReadEvent(e) \/ SendEvent(e)
  PROVE  BatchDone' /\ LateCloseSeen' /\ NoMissedEdge'
<1>1. CASE AcceptEvent(e)
  BY <1>1, EdgeFrame DEF AcceptEvent, clientVars, kernelVars
<1>2. CASE CloseEvent(e) \/ SendEvent(e)
  <2>1. e # ListenEvent /\ CloseFd(e.fd) /\ batch' = batch \ {e}
        /\ pc = "events" /\ pc' = pc
    BY <1>2 DEF CloseEvent, SendEvent, ListenEvent, DoClose
  <2> QED BY <2>1, EdgeCloseFd
<1>3. CASE ReadEvent(e)
  <2>1. e # ListenEvent /\ batch' = batch \ {e} /\ ~e.hup
        /\ slot[e.fd].flag = "TCP_SERVER_READ"
        /\ pc = "events" /\ pc' = pc
    BY <1>3 DEF ReadEvent
  <2>2. CASE DoRecv(e.fd)
    <3>1. TypeOK /\ TypeInv /\ e.fd \in Fds /\ e.conn \in Conns
          /\ fdConn[e.fd] = e.conn
      BY <2>1, EdgeFacts
    <3>2. rx' = [rx EXCEPT ![e.conn] = 0]
          /\ UNCHANGED <<fin, fdConn, reg, edge, lsnEdge>>
      BY <2>2, <3>1 DEF DoRecv, kernelVars
    <3>3. reg[e.fd] # "out"
      BY <2>1, <3>1 DEF EdgeInv, OutMeansSend
    <3>4. Ready(e.fd)' => edge'[e.fd]
      BY <2>1, <3>1, <3>2, <3>3 DEF Ready, TypeOK, EdgeInv, LateCloseSeen
    <3>5. \A g \in Fds : Ready(g)' => Ready(g)
      BY <3>1, <3>2, EdgeFacts DEF Ready, TypeOK
    <3>6. NoMissedEdge'
      BY <2>1, <3>2, <3>4, <3>5 DEF EdgeInv, NoMissedEdge
    <3>7. LateCloseSeen'
      BY <2>1, <3>2 DEF EdgeInv, LateCloseSeen
    <3> QED BY <2>1, <3>6, <3>7 DEF BatchDone
  <2>3. CASE DoRecvFailed(e.fd)
    BY <2>1, <2>3, EdgeCloseFd DEF DoRecvFailed
  <2> QED BY <1>3, <2>2, <2>3 DEF ReadEvent
<1> QED BY <1>1, <1>2, <1>3

LEMMA EdgeNext == EdgeInv /\ [Next]_vars => EdgeInv'
<1> SUFFICES ASSUME EdgeInv, [Next]_vars
             PROVE  BatchDone' /\ LateCloseSeen' /\ NoMissedEdge'
  BY MsgInvNext, OutMeansSendNext DEF EdgeInv
<1>1. CASE ClientNext
  BY <1>1, EdgeClient
<1>2. CASE ReactorNext
  <2>1. CASE EndRound \/ AcceptEnd
    BY <2>1, EdgeFrame DEF EndRound, AcceptEnd, clientVars, kernelVars
  <2> QED BY <1>2, <2>1, EdgeWait, EdgeFire, EdgeAccept, EdgeEvent
          DEF ReactorNext
<1>3. CASE ContainerNext \/ UNCHANGED vars
  BY <1>3, EdgeFrame
  DEF ContainerNext, ContainerTake, ContainerAnswer, ContainerCrash, vars,
      clientVars, kernelVars, reactorVars, EdgeInv, BatchDone
<1>4. CASE Restart
  <2>1. batch' = {} /\ \A f \in Fds : reg'[f] = "none"
    BY <1>4, EdgeFacts, RestartFacts
  <2> QED BY <2>1 DEF BatchDone, LateCloseSeen, NoMissedEdge, Ready
<1> QED BY <1>1, <1>2, <1>3, <1>4 DEF Next

\* Nothing an edge-triggered epoll said once is forgotten: unread input, a
\* peer that closed or an armed answer always has an edge or an event left.
THEOREM EdgesAreKept == Spec => []NoMissedEdge
<1>1. EdgeInv => NoMissedEdge
  BY DEF EdgeInv
<1> QED BY EdgeInit, EdgeNext, <1>1, PTL DEF Spec

-----------------------------------------------------------------------------
(* The connections waiting for accept.                                     *)

\* accept() always finds a descriptor: there are no more clients than
\* descriptors.  Without this DoConn may leave connections behind.
EnoughFds ==
  /\ IsFiniteSet(Fds)
  /\ IsFiniteSet(Conns)
  /\ Cardinality(Conns) <= Cardinality(Fds)

\* With every descriptor taken nobody is left in the backlog: each of the
\* descriptors holds a connection of its own, so all connections are open.
LEMMA AllTaken ==
  ASSUME EnoughFds, MsgInv, \A f \in Fds : fdConn[f] # NoConn
  PROVE  backlog = <<>>
<1>1. fdConn \in [Fds -> Conns] /\ backlog \in Seq(Conns)
  BY DEF MsgInv, TypeInv, TypeOK
<1>2. fdConn \in Injection(Fds, Conns)
  BY <1>1 DEF Injection, IsInjective, MsgInv, ConnInv
<1>3. Cardinality(Fds) \in Nat /\ Cardinality(Conns) \in Nat
  BY FS_CardinalityType DEF EnoughFds
<1>4. Cardinality(Fds) <= Cardinality(Conns)
      /\ (Cardinality(Fds) = Cardinality(Conns)
            <=> fdConn \in Surjection(Fds, Conns))
  BY <1>2, FS_Injection DEF EnoughFds
<1>5. Cardinality(Fds) = Cardinality(Conns)
  BY <1>3, <1>4 DEF EnoughFds
<1>6. \A c \in Conns : \E f \in Fds : fdConn[f] = c
  BY <1>4, <1>5 DEF Surjection
<1>7. \A c \in Conns : link[c] = "open"
  BY <1>1, <1>6 DEF MsgInv, ConnInv
<1>8. backlog # <<>> => 1 \in DOMAIN backlog /\ backlog[1] \in Conns
  BY <1>1
<1>9. \A i \in DOMAIN backlog : link[backlog[i]] = "backlog"
  BY DEF MsgInv, ConnInv
<1> QED BY <1>7, <1>8, <1>9

LEMMA BacklogNext ==
  ASSUME EnoughFds
  PROVE  MsgInv /\ BatchDone /\ BacklogNotified /\ [Next]_vars
           => BacklogNotified'
<1> SUFFICES ASSUME MsgInv, BatchDone, BacklogNotified, [Next]_vars
             PROVE  BacklogNotified'
  OBVIOUS
<1> USE DEF BacklogNotified
<1>1. CASE ClientNext
  BY <1>1 DEF ClientNext, Connect, Send, Close, reactorVars
<1>2. CASE Wait
  BY <1>2 DEF Wait, BatchDone, clientVars
<1>3. CASE Fire
  BY <1>3 DEF Fire, OnEventFire, clientVars, kernelVars
<1>4. CASE EndRound
  BY <1>4 DEF EndRound, clientVars, kernelVars
<1>5. ASSUME NEW f \in Fds, AcceptOne(f)
      PROVE  BacklogNotified'
  BY <1>5 DEF AcceptOne
<1>6. CASE AcceptEnd
  BY <1>6, AllTaken DEF AcceptEnd, clientVars
<1>7. ASSUME NEW e \in batch,
             CloseEvent(e) \/ AcceptEvent(e) \/ ReadEvent(e) \/ SendEvent(e)
      PROVE  BacklogNotified'
  <2>1. CASE AcceptEvent(e)
    BY <2>1 DEF AcceptEvent
  <2>2. CASE CloseEvent(e) \/ ReadEvent(e) \/ SendEvent(e)
    <3>1. e # ListenEvent /\ pc = "events" /\ pc' = pc /\ batch' = batch \ {e}
      BY <2>2 DEF CloseEvent, ReadEvent, SendEvent, ListenEvent
    <3>2. UNCHANGED <<backlog, lsnEdge>>
      BY <2>2 DEF CloseEvent, ReadEvent, SendEvent, DoClose, CloseFd, DoRecv,
                  DoRecvFailed, kernelVars
    <3> QED BY <3>1, <3>2
  <2> QED BY <1>7, <2>1, <2>2
<1>8. CASE ContainerNext \/ UNCHANGED vars
  BY <1>8 DEF ContainerNext, ContainerTake, ContainerAnswer, ContainerCrash,
              vars, clientVars, kernelVars, reactorVars
<1>9. CASE Restart
  BY <1>9 DEF Restart
<1> QED BY <1>1, <1>2, <1>3, <1>4, <1>5, <1>6, <1>7, <1>8, <1>9
        DEF Next, ReactorNext

\* DoConn accepts until EAGAIN because the listening socket's edge comes only
\* once: with a descriptor for every client, no connection is left in the
\* backlog without an edge or an event that leads to DoConn.
THEOREM BacklogIsNotified ==
  ASSUME EnoughFds
  PROVE  Spec => []BacklogNotified
<1> DEFINE I == EdgeInv /\ BacklogNotified
<1>1. Init => I
  BY EdgeInit DEF Init, BacklogNotified
<1>2. I /\ [Next]_vars => I'
  <2> SUFFICES ASSUME I, [Next]_vars PROVE I'
    OBVIOUS
  <2>1. EdgeInv'
    BY EdgeNext
  <2>2. BacklogNotified'
    BY BacklogNext DEF EdgeInv
  <2> QED BY <2>1, <2>2
<1>3. I => BacklogNotified
  OBVIOUS
<1> QED BY <1>1, <1>2, <1>3, PTL DEF Spec

-----------------------------------------------------------------------------
(* The connections of a queue of messages.                                 *)

LEMMA ConnsOfType ==
  ASSUME NEW q \in Seq(Msg)
  PROVE  /\ ConnsOf(q) \in Seq(Conns)
         /\ Len(ConnsOf(q)) = Len(q)
         /\ \A i \in 1..Len(q) : ConnsOf(q)[i] = q[i].conn
<1>1. Len(q) \in Nat /\ DOMAIN q = 1..Len(q) /\ \A i \in 1..Len(q) : q[i] \in Msg
  BY LenProperties, ElementOfSeq
<1>2. \A i \in 1..Len(q) : q[i].conn \in Conns
  BY <1>1 DEF Msg
<1>3. ConnsOf(q) = [i \in 1..Len(q) |-> q[i].conn]
  BY <1>1 DEF ConnsOf
<1>4. ConnsOf(q) \in [1..Len(q) -> Conns]
  BY <1>2, <1>3
<1>5. ConnsOf(q) \in Seq(Conns)
  BY <1>1, <1>4, SeqDef
<1>6. Len(ConnsOf(q)) = Len(q)
  <2>1. DOMAIN ConnsOf(q) = 1..Len(q) /\ DOMAIN ConnsOf(q) = 1..Len(ConnsOf(q))
    BY <1>4, <1>5, LenProperties
  <2> QED BY <1>1, <1>5, <2>1, LenProperties
<1> QED BY <1>3, <1>5, <1>6

\* msgrcv: the queue loses its oldest message.
LEMMA ConnsOfTail ==
  ASSUME NEW q \in Seq(Msg), q # <<>>
  PROVE  /\ ConnsOf(q) # <<>>
         /\ ConnsOf(Tail(q)) = Tail(ConnsOf(q))
         /\ Head(ConnsOf(q)) = Head(q).conn
<1> DEFINE c == ConnsOf(q)
<1>1. Tail(q) \in Seq(Msg) /\ Len(q) \in Nat \ {0} /\ Len(Tail(q)) = Len(q) - 1
  BY TailType
<1>2. /\ c \in Seq(Conns)
      /\ Len(c) = Len(q)
      /\ \A i \in 1..Len(q) : c[i] = q[i].conn
  BY ConnsOfType
<1>3. /\ ConnsOf(Tail(q)) \in Seq(Conns)
      /\ Len(ConnsOf(Tail(q))) = Len(q) - 1
      /\ \A i \in 1..(Len(q) - 1) : ConnsOf(Tail(q))[i] = Tail(q)[i].conn
  BY <1>1, ConnsOfType
<1> HIDE DEF c
<1>4. c # <<>>
  BY <1>1, <1>2, EmptySeq
<1>5. Head(c) = Head(q).conn
  BY <1>1, <1>2
<1>6. /\ Tail(c) \in Seq(Conns)
      /\ Len(Tail(c)) = Len(q) - 1
      /\ \A i \in 1..(Len(q) - 1) : Tail(c)[i] = c[i + 1]
  BY <1>2, <1>4, HeadTailProperties
<1>7. \A i \in 1..(Len(q) - 1) : Tail(q)[i] = q[i + 1]
  BY <1>1, HeadTailProperties
<1>8. \A i \in 1..(Len(q) - 1) : ConnsOf(Tail(q))[i] = Tail(c)[i]
  <2> SUFFICES ASSUME NEW i \in 1..(Len(q) - 1)
               PROVE  ConnsOf(Tail(q))[i] = Tail(c)[i]
    OBVIOUS
  <2>1. i + 1 \in 1..Len(q)
    BY <1>1
  <2> QED BY <1>2, <1>3, <1>6, <1>7, <2>1
<1>9. ConnsOf(Tail(q)) = Tail(c)
  BY <1>1, <1>3, <1>6, <1>8, SeqEqual
<1> QED BY <1>4, <1>5, <1>9 DEF c

\* msgsnd: the message is last in the queue, or refused.
LEMMA ConnsOfPut ==
  ASSUME NEW q \in Seq(Msg), NEW m \in Msg
  PROVE  ConnsOf(PutMsg(q, m)) \in {ConnsOf(q), Append(ConnsOf(q), m.conn)}
<1> DEFINE c == ConnsOf(q)
           a == Append(q, m)
<1>1. CASE Len(q) < QCap
  <2>1. PutMsg(q, m) = a
    BY <1>1 DEF PutMsg
  <2>2. /\ a \in Seq(Msg)
        /\ Len(a) = Len(q) + 1
        /\ \A i \in 1..Len(q) : a[i] = q[i]
        /\ a[Len(q) + 1] = m
    BY AppendProperties, LenProperties
  <2>3. /\ c \in Seq(Conns)
        /\ Len(c) = Len(q)
        /\ \A i \in 1..Len(q) : c[i] = q[i].conn
        /\ Len(q) \in Nat
    BY ConnsOfType, LenProperties
  <2> HIDE DEF a, c
  <2>4. /\ ConnsOf(a) \in Seq(Conns)
        /\ Len(ConnsOf(a)) = Len(q) + 1
        /\ \A i \in 1..(Len(q) + 1) : ConnsOf(a)[i] = a[i].conn
    BY <2>2, ConnsOfType
  <2>5. m.conn \in Conns
    BY DEF Msg
  <2>6. /\ Append(c, m.conn) \in Seq(Conns)
        /\ Len(Append(c, m.conn)) = Len(q) + 1
        /\ \A i \in 1..Len(q) : Append(c, m.conn)[i] = c[i]
        /\ Append(c, m.conn)[Len(q) + 1] = m.conn
    BY <2>3, <2>5, AppendProperties
  <2>7. \A i \in 1..(Len(q) + 1) : ConnsOf(a)[i] = Append(c, m.conn)[i]
    <3> SUFFICES ASSUME NEW i \in 1..(Len(q) + 1)
                 PROVE  ConnsOf(a)[i] = Append(c, m.conn)[i]
      OBVIOUS
    <3>1. i = Len(q) + 1 \/ i \in 1..Len(q)
      BY <2>3
    <3> QED BY <2>2, <2>3, <2>4, <2>6, <3>1
  <2>8. ConnsOf(a) = Append(c, m.conn)
    BY <2>4, <2>6, <2>7, SeqEqual
  <2> QED BY <2>1, <2>8 DEF c
<1>2. CASE ~(Len(q) < QCap)
  BY <1>2 DEF PutMsg
<1> QED BY <1>1, <1>2

-----------------------------------------------------------------------------
(* Steps that leave the queues alone make no request, or end some.         *)

LEMMA AbandonStep ==
  ASSUME Asking' \subseteq Asking, UNCHANGED queueVars
  PROVE  AbstractService!Abandon
BY DEF AbstractService!Abandon, queueVars

\* close() of a connection, whatever becomes of the slot.
LEMMA CloseAsksLess ==
  ASSUME MsgInv, NEW f \in Fds, fdConn[f] \in Conns, CloseFd(f),
         \A g \in Fds \ {f} : slot'[g].flag = slot[g].flag
  PROVE  Asking' \subseteq Asking
<1>1. TypeOK
  BY DEF MsgInv, TypeInv
<1>2. /\ \A c \in Conns : link'[c] \in {link[c], "closed"}
      /\ \A g \in Fds \ {f} : fdConn'[g] = fdConn[g]
      /\ fdConn'[f] = NoConn
  BY <1>1 DEF CloseFd, TypeOK
<1> QED BY <1>2, NetIoAssumption DEF Asking

\* A connection accepted is still one that has not asked.
LEMMA AcceptAsks ==
  ASSUME MsgInv, NEW f \in Fds, AcceptOne(f)
  PROVE  Asking' \subseteq Asking
<1> DEFINE c == Head(backlog)
<1>1. TypeOK
  BY DEF MsgInv, TypeInv
<1>2. c \in Conns /\ link[c] = "backlog"
  BY <1>1 DEF MsgInv, ConnInv, AcceptOne, TypeOK
<1>3. /\ link' = [link EXCEPT ![c] = "open"]
      /\ fdConn' = [fdConn EXCEPT ![f] = c]
      /\ \A g \in Fds \ {f} : slot'[g] = slot[g]
  BY <1>1 DEF AcceptOne, TypeOK
<1>4. \A d \in Conns \ {c} : link'[d] = link[d]
  BY <1>1, <1>3 DEF TypeOK
<1>5. /\ \A g \in Fds \ {f} : fdConn'[g] = fdConn[g]
      /\ fdConn'[f] = c
  BY <1>1, <1>3 DEF TypeOK
<1>6. c \in Asking
  BY <1>2 DEF Asking
<1>7. \A d \in Conns \ {c} : d \in Asking' => d \in Asking
  BY <1>3, <1>4, <1>5 DEF Asking
<1>8. Asking' \subseteq Conns
  BY DEF Asking
<1> QED BY <1>6, <1>7, <1>8

\* OnEventFire: a response that passes the socket check turns the slot of one
\* descriptor to SEND, and a client whose request was still to be read there
\* does not ask any more.
LEMMA FireAsks ==
  ASSUME MsgInv, Fire, backQ # <<>>
  PROVE  Asking' \in {Asking} \cup {Asking \ {c} : c \in Asking}
<1> DEFINE m == Head(backQ)
           f == m.fd
           d == fdConn[f]
<1>1. TypeOK
  BY DEF MsgInv, TypeInv
<1>2. f \in Fds /\ m.addr \in Addrs
  <2>1. m \in Msg
    BY <1>1, TailType DEF TypeOK
  <2> QED BY <2>1 DEF Msg
<1>3. WatchForSend(f, m.addr) /\ UNCHANGED <<link, fdConn>>
  BY DEF Fire, OnEventFire, clientVars
<1> HIDE DEF f, m
<1>4. /\ \A g \in Fds \ {f} : slot'[g] = slot[g]
      /\ slot'[f] = slot[f] \/ slot'[f].flag = "TCP_SERVER_SEND"
  BY <1>1, <1>2, <1>3, WatchForSendType
<1>5. Asking \subseteq Conns /\ Asking' \subseteq Conns
  BY DEF Asking
<1>6. \A c \in Conns : c # d => (c \in Asking' <=> c \in Asking)
  BY <1>3, <1>4 DEF Asking
<1>7. d \in Asking' => d \in Asking
  <2>1. \A g \in Fds : slot'[g].flag = "TCP_SERVER_READ" => slot[g].flag = "TCP_SERVER_READ"
    BY <1>2, <1>4
  <2> QED BY <1>3, <2>1 DEF Asking
<1> HIDE DEF d
<1>8. CASE d \in Asking <=> d \in Asking'
  <2>1. Asking' = Asking
    BY <1>5, <1>6, <1>8
  <2> QED BY <2>1
<1>9. CASE d \in Asking /\ d \notin Asking'
  <2>1. Asking' = Asking \ {d}
    BY <1>5, <1>6, <1>9
  <2> QED BY <1>9, <2>1
<1> QED BY <1>7, <1>8, <1>9

-----------------------------------------------------------------------------
(* The steps that move a request.                                          *)

\* DoRecv turns the slot of one connection from READ to SEND, which was the
\* connection's only descriptor, and queues the request.
LEMMA RecvImplementsAsk ==
  ASSUME MsgInv, NEW f \in Fds, fdConn[f] \in Conns,
         slot[f].flag = "TCP_SERVER_READ", DoRecv(f), UNCHANGED <<serving, backQ>>
  PROVE  AbstractService!Ask(fdConn[f])
<1> DEFINE c == fdConn[f]
           k == CmdOf[c]
           m == [fd |-> f, addr |-> slot[f].addr, conn |-> c]
           Q == [q \in Cmds |-> ConnsOf(reqQ[q])]
<1>1. TypeOK /\ OpenSlots
  BY DEF MsgInv, TypeInv
<1>2. c \in Conns /\ k \in Cmds
  BY NetIoAssumption
<1>3. m \in Msg
  BY <1>1, <1>2, NetIoAssumption DEF Msg, OpenSlots
<1>4. /\ reqQ' = [reqQ EXCEPT ![k] = PutMsg(reqQ[k], m)]
      /\ slot' = [slot EXCEPT ![f].flag = "TCP_SERVER_SEND"]
      /\ UNCHANGED <<link, fdConn>>
  BY DEF DoRecv, kernelVars
<1>5. c \in Asking
  BY <1>2 DEF Asking
<1>6. Asking' = Asking \ {c}
  <2>1. /\ \A g \in Fds \ {f} : slot'[g] = slot[g]
        /\ slot'[f].flag = "TCP_SERVER_SEND"
    BY <1>1, <1>4 DEF TypeOK, SockItem
  <2>2. link[c] = "open" /\ \A g \in Fds \ {f} : fdConn[g] # c
    BY <1>2, NetIoAssumption DEF MsgInv, ConnInv
  <2>3. c \notin Asking'
    BY <1>4, <2>1, <2>2 DEF Asking
  <2>4. \A d \in Conns \ {c} : d \in Asking' <=> d \in Asking
    BY <1>4, <2>1 DEF Asking
  <2>5. Asking \subseteq Conns /\ Asking' \subseteq Conns
    BY DEF Asking
  <2> QED BY <2>3, <2>4, <2>5
<1>7. Q' \in {Q, [Q EXCEPT ![k] = Append(@, c)]}
  <2>1. reqQ[k] \in Seq(Msg)
    BY <1>1, <1>2 DEF TypeOK
  <2>2. ConnsOf(PutMsg(reqQ[k], m)) \in {ConnsOf(reqQ[k]), Append(ConnsOf(reqQ[k]), c)}
    BY <1>3, <2>1, ConnsOfPut
  <2>3. \A q \in Cmds :
          reqQ'[q] = IF q = k THEN PutMsg(reqQ[k], m) ELSE reqQ[q]
    BY <1>1, <1>2, <1>4 DEF TypeOK
  <2>4. Q' = [q \in Cmds |-> ConnsOf(reqQ'[q])]
    BY DEF ConnsOf
  <2>5. \A q \in Cmds \ {k} : Q'[q] = Q[q]
    BY <2>3, <2>4
  <2>6. Q'[k] = Q[k] \/ Q'[k] = Append(Q[k], c)
    BY <1>2, <2>2, <2>3, <2>4
  <2> HIDE DEF k, c
  <2>7. CASE Q'[k] = Q[k]
    <3>1. Q' = Q
      BY <2>4, <2>5, <2>7
    <3> QED BY <3>1
  <2>8. CASE Q'[k] = Append(Q[k], c)
    <3>1. Q' = [Q EXCEPT ![k] = Append(@, c)]
      BY <2>4, <2>5, <2>8
    <3> QED BY <3>1
  <2> QED BY <2>6, <2>7, <2>8
<1>8. UNCHANGED <<{n.conn : n \in serving}, ConnsOf(backQ)>>
  BY DEF ConnsOf
<1> QED BY <1>2, <1>5, <1>6, <1>7, <1>8 DEF AbstractService!Ask

\* A container takes the oldest request of its queue.
LEMMA TakeImplementsTake ==
  ASSUME MsgInv, NEW q \in Cmds, ContainerTake(q)
  PROVE  AbstractService!Take(q)
<1> DEFINE Q == [r \in Cmds |-> ConnsOf(reqQ[r])]
           W == {m.conn : m \in serving}
<1>1. reqQ \in [Cmds -> Seq(Msg)] /\ reqQ[q] \in Seq(Msg)
  BY DEF MsgInv, TypeInv, TypeOK
<1>2. /\ reqQ[q] # <<>>
      /\ serving' = serving \cup {Head(reqQ[q])}
      /\ reqQ' = [reqQ EXCEPT ![q] = Tail(@)]
      /\ UNCHANGED <<link, fdConn, slot, backQ>>
  BY DEF ContainerTake, clientVars, kernelVars, reactorVars
<1>3. Q[q] # <<>>
  BY <1>1, <1>2, ConnsOfTail
<1>4. Q' = [Q EXCEPT ![q] = Tail(@)]
  <2>1. Q' = [r \in Cmds |-> ConnsOf(reqQ'[r])]
    BY DEF ConnsOf
  <2>2. \A r \in Cmds : reqQ'[r] = IF r = q THEN Tail(reqQ[q]) ELSE reqQ[r]
    BY <1>1, <1>2
  <2>3. Q'[q] = Tail(Q[q])
    BY <1>1, <1>2, <2>1, <2>2, ConnsOfTail
  <2>4. \A r \in Cmds \ {q} : Q'[r] = Q[r]
    BY <2>1, <2>2
  <2> QED BY <2>1, <2>3, <2>4
<1>5. W' = W \cup {Head(Q[q])}
  <2>1. Head(Q[q]) = Head(reqQ[q]).conn
    BY <1>1, <1>2, ConnsOfTail
  <2> QED BY <1>2, <2>1
<1>6. Asking' = Asking /\ ConnsOf(backQ)' = ConnsOf(backQ)
  BY <1>2 DEF Asking, ConnsOf
<1> QED BY <1>3, <1>4, <1>5, <1>6 DEF AbstractService!Take

\* A container answers: the request is worked on no more, because no other
\* message is about its connection.
LEMMA AnswerImplementsAnswer ==
  ASSUME MsgInv, NEW m \in serving, ContainerAnswer(m)
  PROVE  m.conn \in Conns /\ AbstractService!Answer(m.conn)
<1> DEFINE W == {n.conn : n \in serving}
<1>1. TypeOK /\ m \in Msg /\ backQ \in Seq(Msg)
  BY DEF MsgInv, TypeInv, TypeOK
<1>2. /\ serving' = serving \ {m}
      /\ backQ' = PutMsg(backQ, m)
      /\ UNCHANGED <<link, fdConn, slot, reqQ>>
  BY DEF ContainerAnswer, clientVars, kernelVars, reactorVars
<1>3. m.conn \in W /\ W' = W \ {m.conn}
  BY <1>2 DEF MsgInv, MsgUnique
<1>4. ConnsOf(backQ)' \in {ConnsOf(backQ), Append(ConnsOf(backQ), m.conn)}
  <2>1. ConnsOf(backQ)' = ConnsOf(backQ')
    BY DEF ConnsOf
  <2> QED BY <1>1, <1>2, <2>1, ConnsOfPut
<1>5. Asking' = Asking /\ UNCHANGED [q \in Cmds |-> ConnsOf(reqQ[q])]
  BY <1>2 DEF Asking, ConnsOf
<1> QED BY <1>1, <1>3, <1>4, <1>5 DEF AbstractService!Answer, Msg

\* OnEventFire takes the oldest response, whether it can be sent or not.
LEMMA FireImplementsDeliver ==
  ASSUME MsgInv, Fire, backQ # <<>>
  PROVE  AbstractService!Deliver
<1>1. backQ \in Seq(Msg)
  BY DEF MsgInv, TypeInv, TypeOK
<1>2. backQ' = Tail(backQ) /\ UNCHANGED <<reqQ, serving>>
  BY DEF Fire, OnEventFire
<1>3. ConnsOf(backQ) # <<>> /\ ConnsOf(backQ)' = Tail(ConnsOf(backQ))
  <2>1. ConnsOf(backQ)' = ConnsOf(backQ')
    BY DEF ConnsOf
  <2> QED BY <1>1, <1>2, <2>1, ConnsOfTail
<1>4. UNCHANGED <<[q \in Cmds |-> ConnsOf(reqQ[q])], {m.conn : m \in serving}>>
  BY <1>2 DEF ConnsOf
<1> QED BY <1>3, <1>4, FireAsks DEF AbstractService!Deliver

-----------------------------------------------------------------------------
(* The theorem.                                                            *)

\* An event is handled: a connection asks, or is closed.
LEMMA EventImplements ==
  ASSUME MsgInv, NEW e \in batch,
         CloseEvent(e) \/ AcceptEvent(e) \/ ReadEvent(e) \/ SendEvent(e)
  PROVE  AbstractService!Next
<1>0. TypeInv /\ TypeOK
  BY DEF MsgInv, TypeInv
<1>1. CASE CloseEvent(e) \/ SendEvent(e)
  <2>1. e # ListenEvent /\ DoClose(e.fd) /\ UNCHANGED queueVars
    BY <1>1 DEF CloseEvent, SendEvent, ListenEvent
  <2>2. e.fd \in Fds /\ fdConn[e.fd] \in Conns
    BY <1>0, <2>1, EventFacts
  <2>3. CloseFd(e.fd) /\ \A g \in Fds \ {e.fd} : slot'[g].flag = slot[g].flag
    BY <1>0, <2>1, <2>2 DEF DoClose, TypeOK
  <2> QED BY <2>1, <2>2, <2>3, CloseAsksLess, AbandonStep
          DEF AbstractService!Next
<1>2. CASE AcceptEvent(e)
  <2>1. Asking' = Asking /\ UNCHANGED queueVars
    BY <1>2 DEF AcceptEvent, clientVars, kernelVars, Asking
  <2> QED BY <2>1, AbandonStep DEF AbstractService!Next
<1>3. CASE ReadEvent(e)
  <2>1. e # ListenEvent /\ slot[e.fd].flag = "TCP_SERVER_READ"
        /\ UNCHANGED <<serving, backQ>>
    BY <1>3 DEF ReadEvent
  <2>2. e.fd \in Fds /\ fdConn[e.fd] \in Conns
    BY <1>0, <2>1, EventFacts
  <2>3. CASE DoRecv(e.fd)
    <3>1. AbstractService!Ask(fdConn[e.fd])
      BY <2>1, <2>2, <2>3, RecvImplementsAsk
    <3> QED BY <2>2, <3>1 DEF AbstractService!Next
  <2>4. CASE DoRecvFailed(e.fd)
    <3>1. CloseFd(e.fd) /\ UNCHANGED slot /\ UNCHANGED queueVars
      BY <2>1, <2>4 DEF DoRecvFailed, queueVars
    <3>2. Asking' \subseteq Asking
      BY <2>2, <3>1, CloseAsksLess
    <3> QED BY <3>1, <3>2, AbandonStep DEF AbstractService!Next
  <2> QED BY <1>3, <2>3, <2>4 DEF ReadEvent
<1> QED BY <1>1, <1>2, <1>3

LEMMA ContainerImplements ==
  ASSUME MsgInv, ContainerNext
  PROVE  AbstractService!Next
<1>1. ASSUME NEW q \in Cmds, ContainerTake(q) PROVE AbstractService!Next
  BY <1>1, TakeImplementsTake DEF AbstractService!Next
<1>2. ASSUME NEW m \in serving, ContainerAnswer(m) PROVE AbstractService!Next
  BY <1>2, AnswerImplementsAnswer DEF AbstractService!Next
<1>3. ASSUME NEW m \in serving, ContainerCrash(m) PROVE AbstractService!Next
  <2>1. {n.conn : n \in serving}' \subseteq {n.conn : n \in serving}
    BY <1>3 DEF ContainerCrash
  <2>2. Asking' = Asking
    BY <1>3 DEF ContainerCrash, Asking, clientVars, kernelVars, reactorVars
  <2>3. UNCHANGED <<[q \in Cmds |-> ConnsOf(reqQ[q])], ConnsOf(backQ)>>
    BY <1>3 DEF ContainerCrash, ConnsOf
  <2> QED BY <2>1, <2>2, <2>3 DEF AbstractService!Lose, AbstractService!Next
<1> QED BY <1>1, <1>2, <1>3 DEF ContainerNext

LEMMA NextImplements ==
  ASSUME MsgInv, [Next]_vars
  PROVE  [AbstractService!Next]_(AbstractService!vars)
<1>0. TypeOK
  BY DEF MsgInv, TypeInv
<1>1. CASE ClientNext
  <2>1. UNCHANGED <<fdConn, slot, queueVars>>
    BY <1>1 DEF ClientNext, Connect, Send, Close, reactorVars
  <2>2. \A c \in Conns : link'[c] \in {"new", "backlog"} => link[c] \in {"new", "backlog"}
    BY <1>0, <1>1 DEF ClientNext, Connect, Send, Close, TypeOK
  <2>3. Asking' \subseteq Asking
    BY <2>1, <2>2 DEF Asking
  <2> QED BY <2>1, <2>3, AbandonStep DEF AbstractService!Next
<1>2. CASE Wait \/ EndRound \/ AcceptEnd \/ (Fire /\ backQ = <<>>) \/ UNCHANGED vars
  <2>1. UNCHANGED <<link, fdConn, slot, queueVars>>
    BY <1>2 DEF Wait, EndRound, AcceptEnd, Fire, OnEventFire, clientVars,
                kernelVars, reactorVars, queueVars, vars
  <2>2. Asking' = Asking
    BY <2>1 DEF Asking
  <2> QED BY <2>1, <2>2, AbandonStep DEF AbstractService!Next
<1>3. CASE Fire /\ backQ # <<>>
  BY <1>3, FireImplementsDeliver DEF AbstractService!Next
<1>4. ASSUME NEW f \in Fds, AcceptOne(f) PROVE AbstractService!Next
  <2>1. UNCHANGED queueVars
    BY <1>4 DEF AcceptOne
  <2> QED BY <1>4, <2>1, AcceptAsks, AbandonStep DEF AbstractService!Next
<1>5. CASE Restart
  <2>1. \A c \in Conns : c \in Asking' => c \in Asking
    BY <1>0, <1>5, RestartFacts, NetIoAssumption DEF Asking
  <2>2. Asking' \subseteq Asking
    BY <2>1 DEF Asking
  <2> QED BY <1>5, <2>2, AbandonStep DEF Restart, AbstractService!Next
<1> QED BY <1>1, <1>2, <1>3, <1>4, <1>5, EventImplements, ContainerImplements
        DEF Next, ReactorNext

LEMMA InitImplements == Init => AbstractService!Init
<1> SUFFICES ASSUME Init PROVE AbstractService!Init
  OBVIOUS
<1>1. Asking = Conns
  BY DEF Init, Asking
<1>2. ConnsOf(<<>>) = <<>>
  BY DEF ConnsOf
<1>3. [q \in Cmds |-> ConnsOf(reqQ[q])] = [q \in Cmds |-> <<>>]
  BY <1>2 DEF Init
<1>4. {m.conn : m \in serving} = {} /\ ConnsOf(backQ) = <<>>
  BY <1>2 DEF Init
<1> QED BY <1>1, <1>3, <1>4 DEF AbstractService!Init

\* Netio with all its tables, buffers and events treats requests as Service
\* says, though clients leave, reads fail, containers die, netio dies, and
\* descriptors stand for one connection after another (DoRecv, OnEventFire).
THEOREM NetIoImplementsService == Spec => ImplementsService
<1>1. MsgInv /\ [Next]_vars => MsgInv'
  BY MsgInvNext
<1>2. MsgInv /\ [Next]_vars => [AbstractService!Next]_(AbstractService!vars)
  BY NextImplements
<1> QED BY <1>1, <1>2, MsgInvInit, InitImplements, PTL
        DEF Spec, ImplementsService, AbstractService!Spec

=============================================================================
