-------------------------- MODULE ContainerProofs --------------------------
(***************************************************************************)
(* Proofs about Container, for any requests, processes and services, any   *)
(* number of handlers, process ids and places in the queues.               *)
(***************************************************************************)
EXTENDS Container, SequenceTheorems, FiniteSetTheorems, WellFoundedInduction,
        TLAPS

-----------------------------------------------------------------------------
(* The queues.                                                             *)

\* msgrcv takes one message out and keeps the others, in their order.
LEMMA RemoveAtProperties ==
  ASSUME NEW S, NEW q \in Seq(S), NEW i \in DOMAIN q
  PROVE  /\ RemoveAt(q, i) \in Seq(S)
         /\ Len(RemoveAt(q, i)) = Len(q) - 1
         /\ \A j \in DOMAIN RemoveAt(q, i) :
              /\ j \in Nat
              /\ j < i => j \in DOMAIN q /\ RemoveAt(q, i)[j] = q[j]
              /\ j >= i => j + 1 \in DOMAIN q /\ RemoveAt(q, i)[j] = q[j + 1]
<1> DEFINE a == SubSeq(q, 1, i - 1)
           b == SubSeq(q, i + 1, Len(q))
<1>1. Len(q) \in Nat /\ i \in 1..Len(q) /\ DOMAIN q = 1..Len(q)
      /\ \A j \in 1..Len(q) : q[j] \in S
  BY LenProperties, ElementOfSeq
<1>2. /\ a \in Seq(S) /\ Len(a) = i - 1
      /\ \A j \in 1..(i - 1) : a[j] = q[j]
  <2>1. \A j \in 1..(i - 1) : q[j] \in S
    BY <1>1
  <2>2. /\ a \in Seq(S)
        /\ Len(a) = IF 1 <= i - 1 THEN (i - 1) - 1 + 1 ELSE 0
        /\ \A j \in 1..((i - 1) - 1 + 1) : a[j] = q[1 + j - 1]
    BY <1>1, <2>1, SubSeqProperties
  <2> HIDE DEF a
  <2>3. Len(a) = i - 1
    BY <1>1, <2>2
  <2>4. ASSUME NEW j \in 1..(i - 1)
        PROVE  a[j] = q[j]
    <3>1. j \in 1..((i - 1) - 1 + 1) /\ 1 + j - 1 = j
      BY <1>1
    <3>2. a[j] = q[1 + j - 1]
      BY <2>2, <3>1
    <3> QED BY <3>1, <3>2
  <2> QED BY <2>2, <2>3, <2>4
<1>3. /\ b \in Seq(S) /\ Len(b) = Len(q) - i
      /\ \A j \in 1..(Len(q) - i) : b[j] = q[i + j]
  <2>1. \A j \in (i + 1)..Len(q) : q[j] \in S
    BY <1>1
  <2>2. /\ b \in Seq(S)
        /\ Len(b) = IF i + 1 <= Len(q) THEN Len(q) - (i + 1) + 1 ELSE 0
        /\ \A j \in 1..(Len(q) - (i + 1) + 1) : b[j] = q[(i + 1) + j - 1]
    BY <1>1, <2>1, SubSeqProperties
  <2> HIDE DEF b
  <2>3. Len(b) = Len(q) - i
    BY <1>1, <2>2
  <2>4. ASSUME NEW j \in 1..(Len(q) - i)
        PROVE  b[j] = q[i + j]
    <3>1. j \in 1..(Len(q) - (i + 1) + 1) /\ (i + 1) + j - 1 = i + j
      BY <1>1
    <3>2. b[j] = q[(i + 1) + j - 1]
      BY <2>2, <3>1
    <3> QED BY <3>1, <3>2
  <2> QED BY <2>2, <2>3, <2>4
<1> DEFINE r == RemoveAt(q, i)
<1>4. r = a \o b
  BY DEF RemoveAt
<1> HIDE DEF a, b, r
<1>5. /\ r \in Seq(S)
      /\ Len(r) = Len(a) + Len(b)
      /\ \A j \in 1..(Len(a) + Len(b)) :
           r[j] = IF j <= Len(a) THEN a[j] ELSE b[j - Len(a)]
  BY <1>2, <1>3, <1>4, ConcatProperties
<1>6. Len(r) = Len(q) - 1 /\ DOMAIN r = 1..(Len(q) - 1)
  <2>1. Len(r) = Len(q) - 1
    BY <1>1, <1>2, <1>3, <1>5
  <2> QED BY <1>5, <2>1, LenProperties
<1>7. ASSUME NEW j \in 1..(Len(q) - 1)
      PROVE  /\ j < i => r[j] = q[j]
             /\ j >= i => r[j] = q[j + 1]
  <2>1. CASE j < i
    BY <1>1, <1>2, <1>3, <1>5, <2>1
  <2>2. CASE j >= i
    <3>1. j \in 1..(Len(a) + Len(b)) /\ ~(j <= Len(a))
      BY <1>1, <1>2, <1>3, <2>2
    <3>2. r[j] = b[j - (i - 1)]
      BY <1>2, <1>5, <3>1
    <3>3. j - (i - 1) \in 1..(Len(q) - i) /\ i + (j - (i - 1)) = j + 1
      BY <1>1, <2>2
    <3>4. b[j - (i - 1)] = q[i + (j - (i - 1))]
      BY <1>3, <3>3
    <3> QED BY <1>1, <2>2, <3>2, <3>3, <3>4
  <2> QED BY <1>1, <2>1, <2>2
<1>8. /\ r \in Seq(S)
      /\ Len(r) = Len(q) - 1
      /\ \A j \in DOMAIN r :
           /\ j \in Nat
           /\ j < i => j \in DOMAIN q /\ r[j] = q[j]
           /\ j >= i => j + 1 \in DOMAIN q /\ r[j] = q[j + 1]
  <2>1. ASSUME NEW j \in DOMAIN r
        PROVE  /\ j \in Nat
               /\ j < i => j \in DOMAIN q /\ r[j] = q[j]
               /\ j >= i => j + 1 \in DOMAIN q /\ r[j] = q[j + 1]
    <3>1. j \in 1..(Len(q) - 1)
      BY <1>6
    <3>2. j \in Nat /\ j \in 1..Len(q) /\ j + 1 \in 1..Len(q)
      BY <1>1, <3>1
    <3> QED BY <1>1, <1>7, <3>1, <3>2
  <2> QED BY <1>5, <1>6, <2>1
<1> QED BY <1>8 DEF r

\* msgsnd, which may refuse: the message is last, or the queue is as it was.
LEMMA PutMsgProperties ==
  ASSUME NEW q \in Seq(Msg), Len(q) <= QCap, NEW lType \in Nat, NEW c \in CCmd
  PROVE  /\ PutMsg(q, lType, c) \in Seq(Msg)
         /\ Len(PutMsg(q, lType, c)) <= QCap
         /\ \A j \in DOMAIN PutMsg(q, lType, c) :
              \/ j \in DOMAIN q /\ PutMsg(q, lType, c)[j] = q[j]
              \/ /\ j = Len(q) + 1
                 /\ PutMsg(q, lType, c)[j] = [lType |-> lType, body |-> c]
<1> DEFINE m == [lType |-> lType, body |-> c]
<1>1. m \in Msg
  BY DEF Msg
<1>2. Len(q) \in Nat /\ DOMAIN q = 1..Len(q)
  BY LenProperties
<1>3. CASE Len(q) < QCap
  <2>1. PutMsg(q, lType, c) = Append(q, m)
    BY <1>3 DEF PutMsg
  <2> HIDE DEF m
  <2>2. /\ Append(q, m) \in Seq(Msg)
        /\ Len(Append(q, m)) = Len(q) + 1
        /\ \A j \in 1..Len(q) : Append(q, m)[j] = q[j]
        /\ Append(q, m)[Len(q) + 1] = m
    BY <1>1, AppendProperties
  <2>3. DOMAIN Append(q, m) = 1..(Len(q) + 1)
    BY <2>2, LenProperties
  <2>4. Len(q) + 1 <= QCap
    BY <1>2, <1>3, ContainerAssumption DEF ContainerAssumption
  <2>5. \A j \in 1..(Len(q) + 1) : j \in 1..Len(q) \/ j = Len(q) + 1
    BY <1>2
  <2> QED BY <1>2, <2>1, <2>2, <2>3, <2>4, <2>5 DEF m
<1>4. CASE ~(Len(q) < QCap)
  BY <1>2, <1>4 DEF PutMsg
<1> QED BY <1>3, <1>4

\* The message a receive takes is one of its type.
LEMMA FirstProperties ==
  ASSUME NEW q \in Seq(Msg), NEW lType, Has(q, lType)
  PROVE  /\ First(q, lType) \in DOMAIN q
         /\ q[First(q, lType)].lType = lType
         /\ \A j \in 1..(First(q, lType) - 1) : q[j].lType # lType
<1> DEFINE T == {i \in DOMAIN q : q[i].lType = lType}
<1>1. T \subseteq Nat /\ T # {}
  BY LenProperties DEF Has
<1>2. PICK i \in T : \A j \in T : ~(<<j, i>> \in OpToRel(<, Nat))
  BY <1>1, NatLessThanWellFounded, WFMin, Zenon
<1>3. \A j \in T : ~(j < i)
  BY <1>1, <1>2 DEF OpToRel
<1>4. \A j \in 1..(i - 1) : q[j].lType # lType
  <2> SUFFICES ASSUME NEW j \in 1..(i - 1), q[j].lType = lType PROVE FALSE
    OBVIOUS
  <2>1. j \in DOMAIN q
    BY LenProperties
  <2> QED BY <1>1, <1>3, <2>1
<1>5. \E k \in DOMAIN q : /\ q[k].lType = lType
                          /\ \A j \in 1..(k - 1) : q[j].lType # lType
  BY <1>4
<1> QED BY <1>5 DEF First

\* Dispatch finds a free handler when there is one.
LEMMA FirstHandlerFree ==
  ASSUME NEW p \in Procs, stateless[p] \subseteq Handlers, stateless[p] # {}
  PROVE  FirstHandler(p) \in stateless[p]
<1>1. stateless[p] \subseteq Nat
  BY ContainerAssumption DEF ContainerAssumption, Handlers
<1>2. PICK i \in stateless[p] :
        \A j \in stateless[p] : ~(<<j, i>> \in OpToRel(<, Nat))
  BY <1>1, NatLessThanWellFounded, WFMin, Zenon
<1>3. \A j \in stateless[p] : ~(j < i)
  BY <1>1, <1>2 DEF OpToRel
<1>4. \A j \in stateless[p] : i <= j
  BY <1>1, <1>3
<1> QED BY <1>4 DEF FirstHandler

-----------------------------------------------------------------------------
(* Serial numbers and message types.                                       *)

\* Both can be read back, and no type of a process is REQUEST or RESPONSE.
LEMMA Numbering ==
  ASSUME NEW pd \in Nat, NEW i \in Handlers
  PROVE  /\ SerialNo(pd, i) \in Nat
         /\ PidOfSerial(SerialNo(pd, i)) = pd
         /\ AppType(pd) \in Nat
         /\ pd > 0 => SerialNo(pd, i) # 0 /\ AppType(pd) # REQUEST
  BY ContainerAssumption
  DEF ContainerAssumption, Handlers, SerialNo, PidOfSerial, AppType,
      REQUEST, APP

LEMMA NumberingInjective ==
  ASSUME NEW pd \in Nat, NEW i \in Handlers, NEW pe \in Nat, NEW j \in Handlers
  PROVE  /\ SerialNo(pd, i) = SerialNo(pe, j) => pd = pe /\ i = j
         /\ AppType(pd) = AppType(pe) => pd = pe
  BY ContainerAssumption
  DEF ContainerAssumption, Handlers, SerialNo, AppType, APP

-----------------------------------------------------------------------------
(* Types, the handlers and the process ids.                                *)

\* ProcessMsg has a command exactly while its process is in it.
Hands ==
  \A p \in Procs :
    /\ pc[p] = "busy" => cur[p] \in CCmd
    /\ pc[p] # "busy" => cur[p] = NoCmd

\* A process that is gone has no handlers; svc_test never suspends.
Idle ==
  \A p \in Procs :
    /\ pc[p] = "dead" => stateless[p] = {} /\ stateful[p] = {}
    /\ SvcOf[p] = 1 => stateful[p] = {}

\* Process ids are given out once.
Pids ==
  /\ \A p \in Procs : pid[p] <= lastPid /\ (pc[p] # "dead" => pid[p] > 0)
  /\ \A p, q \in Procs : pid[p] = pid[q] /\ pid[p] > 0 => p = q

Base == TypeOK /\ HandlersPartition /\ Hands /\ Idle /\ Pids

LEMMA NoCmdIsNoCCmd == NoCmd \notin CCmd
<1> SUFFICES ASSUME NoCmd \in CCmd PROVE FALSE
  OBVIOUS
<1>1. DOMAIN NoCmd = {"req", "type", "serial", "cmd", "ret", "data", "origin"}
  BY DEF CCmd
<1>2. DOMAIN NoCmd = {"req", "type", "serial"}
  BY DEF NoCmd
<1>3. "cmd" \in DOMAIN NoCmd /\ "cmd" \notin DOMAIN NoCmd
  BY <1>1, <1>2
<1> QED BY <1>3

LEMMA InitBase == Init => Base
<1> SUFFICES ASSUME Init PROVE Base
  OBVIOUS
<1> USE ContainerAssumption DEF ContainerAssumption, Init
<1>1. <<>> \in Seq(Msg) /\ Len(<<>>) = 0
  BY EmptySeq
<1>2. TypeOK
  BY <1>1 DEF TypeOK
<1>3. HandlersPartition
  BY DEF HandlersPartition
<1>4. Hands /\ Idle /\ Pids
  BY DEF Hands, Idle, Pids
<1> QED BY <1>2, <1>3, <1>4 DEF Base

\* What a message of c under type t makes of queue k.
Put(k, t, c) == queue' = [queue EXCEPT ![k] = PutMsg(@, t, c)]

LEMMA PutTypes ==
  ASSUME TypeOK, NEW k \in 1..2, NEW t \in Nat, NEW c \in CCmd, Put(k, t, c)
  PROVE  queue' \in [1..2 -> Seq(Msg)] /\ \A o \in 1..2 : Len(queue'[o]) <= QCap
<1>1. queue[k] \in Seq(Msg) /\ Len(queue[k]) <= QCap
  BY DEF TypeOK
<1>2. /\ PutMsg(queue[k], t, c) \in Seq(Msg)
      /\ Len(PutMsg(queue[k], t, c)) <= QCap
  BY <1>1, PutMsgProperties
<1> QED BY <1>2 DEF TypeOK, Put

\* What CCmd is made of: the commands that are sent.
LEMMA CmdTypes ==
  /\ \A r \in Requests : \A s, n \in Nat : ClientCmd(r, s, n) \in CCmd
  /\ \A n \in Nat : \A r \in Requests : NestedCmd(n, r) \in CCmd
  /\ \A c \in CCmd : [c EXCEPT !.type = RESPONSE] \in CCmd
  /\ \A c \in CCmd :
       [c EXCEPT !.ret = NO_FREE_SVC_HANDLER, !.data = <<"err">>] \in CCmd
  /\ \A c \in CCmd : /\ [c EXCEPT !.data = <<"r1">>] \in CCmd
                     /\ [c EXCEPT !.data = <<"err">>] \in CCmd
  /\ \A c \in CCmd : \A d \in Seq(Parts) :
       [c EXCEPT !.ret = 0, !.serial = 0, !.data = d] \in CCmd
<1> USE ContainerAssumption
    DEF ContainerAssumption, CCmd, REQUEST, RESPONSE, NO_FREE_SVC_HANDLER
<1>1. <<>> \in Seq(Parts) /\ <<"err">> \in Seq(Parts) /\ <<"r1">> \in Seq(Parts)
  BY DEF Parts
<1>2. \A r \in Requests : \A s, n \in Nat : ClientCmd(r, s, n) \in CCmd
  BY <1>1 DEF ClientCmd
<1>3. \A n \in Nat : \A r \in Requests : NestedCmd(n, r) \in CCmd
  BY <1>1 DEF NestedCmd
<1>4. \A c \in CCmd : [c EXCEPT !.type = RESPONSE] \in CCmd
  OBVIOUS
<1>5. \A c \in CCmd :
        [c EXCEPT !.ret = NO_FREE_SVC_HANDLER, !.data = <<"err">>] \in CCmd
  BY <1>1
<1>6. \A c \in CCmd : /\ [c EXCEPT !.data = <<"r1">>] \in CCmd
                      /\ [c EXCEPT !.data = <<"err">>] \in CCmd
  BY <1>1
<1>7. \A c \in CCmd : \A d \in Seq(Parts) :
        [c EXCEPT !.ret = 0, !.serial = 0, !.data = d] \in CCmd
  OBVIOUS
<1> QED BY <1>2, <1>3, <1>4, <1>5, <1>6, <1>7

LEMMA ReplyTypes ==
  ASSUME TypeOK, NEW c \in CCmd, Reply(c)
  PROVE  /\ queue' \in [1..2 -> Seq(Msg)] /\ backQ' \in Seq(Msg)
         /\ \A k \in 1..2 : Len(queue'[k]) <= QCap
         /\ Len(backQ') <= QCap
<1> DEFINE r == [c EXCEPT !.type = RESPONSE]
<1>1. r \in CCmd
  BY CmdTypes
<1>2. c.cmd \in 1..2 /\ c.serial \in Nat /\ RESPONSE \in Nat
  BY DEF CCmd, RESPONSE
<1>3. CASE c.serial # 0
  <2>1. AppType(PidOfSerial(c.serial)) \in Nat
    BY <1>2 DEF AppType, PidOfSerial, APP
  <2>2. Put(c.cmd, AppType(PidOfSerial(c.serial)), r) /\ backQ' = backQ
    BY <1>3 DEF Reply, Put
  <2> HIDE DEF r
  <2> QED BY <1>1, <1>2, <2>1, <2>2, PutTypes DEF TypeOK
<1>4. CASE c.serial = 0
  <2>1. backQ' = PutMsg(backQ, RESPONSE, r) /\ queue' = queue
    BY <1>4 DEF Reply
  <2> HIDE DEF r
  <2> QED BY <1>1, <1>2, <2>1, PutMsgProperties DEF TypeOK
<1> QED BY <1>3, <1>4

\* What a client writes: some numbers of its own.
LEMMA AskPuts ==
  ASSUME NEW r \in Requests, Ask(r)
  PROVE  \E s \in SerialsOf[r], n \in RetsOf[r] :
           /\ Put(CmdOf[r], REQUEST, ClientCmd(r, s, n))
           /\ ClientCmd(r, s, n) \in CCmd
<1>1. PICK s \in SerialsOf[r], n \in RetsOf[r] :
        Put(CmdOf[r], REQUEST, ClientCmd(r, s, n))
  BY DEF Ask, Put
<1>2. s \in Nat /\ n \in Nat
  BY ContainerAssumption DEF ContainerAssumption
<1> QED BY <1>1, <1>2, CmdTypes

LEMMA BaseAsk ==
  ASSUME Base, NEW r \in Requests, Ask(r)
  PROVE  Base'
<1> USE DEF Base
<1>1. CmdOf[r] \in 1..2 /\ REQUEST \in Nat
  BY ContainerAssumption DEF ContainerAssumption, REQUEST
<1>2. PICK c \in CCmd : Put(CmdOf[r], REQUEST, c)
  BY AskPuts
<1>3. /\ queue' \in [1..2 -> Seq(Msg)]
      /\ \A o \in 1..2 : Len(queue'[o]) <= QCap
  BY <1>1, <1>2, PutTypes
<1>4. client' \in [Requests -> {"idle", "waiting", "answered"}]
  BY DEF TypeOK, Ask
<1>5. UNCHANGED <<backQ, pid, lastPid, pc, cur, stateless, stateful, saved>>
  BY DEF Ask, procVars
<1>6. TypeOK'
  BY <1>3, <1>4, <1>5 DEF TypeOK
<1>7. HandlersPartition' /\ Hands' /\ Idle' /\ Pids'
  BY <1>5 DEF HandlersPartition, Hands, Idle, Pids
<1> QED BY <1>6, <1>7

LEMMA BaseDeliver ==
  ASSUME Base, Deliver
  PROVE  Base'
<1> USE DEF Base
<1>1. backQ \in Seq(Msg) /\ backQ # <<>> /\ Len(backQ) <= QCap
  BY DEF TypeOK, Deliver
<1>2. Tail(backQ) \in Seq(Msg) /\ Len(Tail(backQ)) = Len(backQ) - 1
  BY <1>1, HeadTailProperties
<1>3. Len(backQ) \in Nat /\ QCap \in Nat
  BY <1>1, LenProperties, ContainerAssumption DEF ContainerAssumption
<1>4. Len(backQ') <= QCap /\ backQ' \in Seq(Msg)
  BY <1>1, <1>2, <1>3 DEF Deliver
<1>5. client' \in [Requests -> {"idle", "waiting", "answered"}]
  BY DEF TypeOK, Deliver
<1>6. UNCHANGED <<queue, pid, lastPid, pc, cur, stateless, stateful, saved>>
  BY DEF Deliver, procVars
<1>7. TypeOK'
  BY <1>4, <1>5, <1>6 DEF TypeOK
<1>8. HandlersPartition' /\ Hands' /\ Idle' /\ Pids'
  BY <1>6 DEF HandlersPartition, Hands, Idle, Pids
<1> QED BY <1>7, <1>8

LEMMA BaseStart ==
  ASSUME Base, NEW p \in Procs, Start(p)
  PROVE  Base'
<1> USE DEF Base
<1>1. /\ MaxPid \in Nat /\ lastPid \in 0..MaxPid
      /\ lastPid' = lastPid + 1 /\ lastPid' \in 0..MaxPid
  BY ContainerAssumption DEF ContainerAssumption, TypeOK, Start
<1>2. TypeOK'
  BY <1>1 DEF TypeOK, Start
<1>3. HandlersPartition'
  BY DEF TypeOK, HandlersPartition, Idle, Start
<1>4. Hands' /\ Idle'
  BY DEF TypeOK, Hands, Idle, Start
<1>5. Pids'
  <2>1. \A q \in Procs : pid[q] \in Nat /\ pid[q] <= lastPid
    BY DEF TypeOK, Pids
  <2>2. \A q \in Procs : pid'[q] = IF q = p THEN lastPid + 1 ELSE pid[q]
    BY <1>1 DEF TypeOK, Start
  <2>3. \A q \in Procs : pc'[q] # "dead" => q = p \/ pc[q] # "dead"
    BY DEF TypeOK, Start
  <2>4. \A q \in Procs : pid'[q] <= lastPid'
    BY <1>1, <2>1, <2>2
  <2>5. \A q \in Procs : pc'[q] # "dead" => pid'[q] > 0
    BY <1>1, <2>2, <2>3 DEF Pids
  <2>6. \A q, s \in Procs : pid'[q] = pid'[s] /\ pid'[q] > 0 => q = s
    BY <1>1, <2>1, <2>2 DEF Pids
  <2> QED BY <2>4, <2>5, <2>6 DEF Pids
<1> QED BY <1>2, <1>3, <1>4, <1>5

LEMMA BaseDie ==
  ASSUME Base, NEW p \in Procs, Die(p)
  PROVE  Base'
<1> USE DEF Base
<1>1. TypeOK'
  BY DEF TypeOK, Die
<1>2. HandlersPartition'
  <2>1. ASSUME NEW q \in Procs
        PROVE  /\ stateless'[q] \cap stateful'[q] = {}
               /\ pc'[q] # "dead" => stateless'[q] \cup stateful'[q] = Handlers
               /\ \A i \in Handlers :
                    i \in stateful'[q] <=> saved'[q][i] # NoCmd
    <3>1. CASE q = p
      BY <3>1 DEF TypeOK, Die
    <3>2. CASE q # p
      BY <3>2 DEF TypeOK, Die, HandlersPartition
    <3> QED BY <3>1, <3>2
  <2> QED BY <2>1 DEF HandlersPartition
<1>3. Hands' /\ Idle'
  BY DEF TypeOK, Hands, Idle, Die
<1>4. Pids'
  BY DEF TypeOK, Pids, Die
<1> QED BY <1>1, <1>2, <1>3, <1>4

\* Receiving a message, whatever its type.
LEMMA BaseTake ==
  ASSUME Base, NEW p \in Procs, NEW t, Take(p, t), pc[p] # "dead",
         UNCHANGED <<client, backQ, pid, lastPid, stateless, stateful, saved>>
  PROVE  Base'
<1> USE DEF Base
<1> DEFINE k == SvcOf[p]
           i == First(queue[k], t)
<1>1. k \in 1..2
  BY ContainerAssumption DEF ContainerAssumption
<1>2. queue[k] \in Seq(Msg) /\ Len(queue[k]) <= QCap
  BY <1>1 DEF TypeOK
<1>3. /\ Has(queue[k], t)
      /\ cur' = [cur EXCEPT ![p] = queue[k][i].body]
      /\ queue' = [queue EXCEPT ![k] = RemoveAt(queue[k], i)]
      /\ pc' = [pc EXCEPT ![p] = "busy"]
  BY DEF Take
<1>4. i \in DOMAIN queue[k]
  BY <1>2, <1>3, FirstProperties
<1>5. queue[k][i].body \in CCmd
  <2>1. i \in 1..Len(queue[k])
    BY <1>2, <1>4, LenProperties
  <2>2. queue[k][i] \in Msg
    BY <1>2, <2>1, ElementOfSeq
  <2> QED BY <2>2 DEF Msg
<1>6. /\ RemoveAt(queue[k], i) \in Seq(Msg)
      /\ Len(RemoveAt(queue[k], i)) <= QCap
  <2>1. /\ RemoveAt(queue[k], i) \in Seq(Msg)
        /\ Len(RemoveAt(queue[k], i)) = Len(queue[k]) - 1
    BY <1>2, <1>4, RemoveAtProperties
  <2>2. Len(queue[k]) \in Nat /\ QCap \in Nat
    BY <1>2, LenProperties, ContainerAssumption DEF ContainerAssumption
  <2> QED BY <1>2, <2>1, <2>2
<1> HIDE DEF k, i
<1>7. TypeOK'
  BY <1>1, <1>3, <1>5, <1>6 DEF TypeOK
<1>8. HandlersPartition' /\ Hands' /\ Idle' /\ Pids'
  BY <1>3, <1>5 DEF TypeOK, HandlersPartition, Hands, Idle, Pids
<1> QED BY <1>7, <1>8

\* Going round the polling loop without a message.
LEMMA BaseTurn ==
  ASSUME Base, NEW p \in Procs, NEW next \in {"poll", "pollApp"},
         pc[p] \in {"poll", "pollApp"}, pc' = [pc EXCEPT ![p] = next],
         UNCHANGED <<client, queue, backQ, pid, lastPid, cur,
                     stateless, stateful, saved>>
  PROVE  Base'
  BY DEF Base, TypeOK, HandlersPartition, Hands, Idle, Pids

LEMMA BasePoll ==
  ASSUME Base, NEW p \in Procs, PollRequest(p) \/ PollApp(p)
  PROVE  Base'
<1>1. CASE PollRequest(p)
  <2>1. CASE Take(p, REQUEST)
    BY <1>1, <2>1, BaseTake DEF PollRequest
  <2>2. CASE ~Take(p, REQUEST)
    BY <1>1, <2>2, BaseTurn DEF PollRequest
  <2> QED BY <2>1, <2>2
<1>2. CASE PollApp(p)
  <2>1. CASE Take(p, AppType(pid[p]))
    BY <1>2, <2>1, BaseTake DEF PollApp
  <2>2. CASE ~Take(p, AppType(pid[p]))
    BY <1>2, <2>2, BaseTurn DEF PollApp
  <2> QED BY <2>1, <2>2
<1> QED BY <1>1, <1>2

\* The end of ProcessMsg, once the queues and the maps have their types.
Processed(p) ==
  /\ pc[p] = "busy"
  /\ pc' = [pc EXCEPT ![p] = "poll"]
  /\ cur' = [cur EXCEPT ![p] = NoCmd]
  /\ UNCHANGED <<client, pid, lastPid>>

LEMMA BaseProcessed ==
  ASSUME Base, NEW p \in Procs, Processed(p),
         queue' \in [1..2 -> Seq(Msg)], backQ' \in Seq(Msg),
         \A k \in 1..2 : Len(queue'[k]) <= QCap, Len(backQ') <= QCap,
         stateless' \in [Procs -> SUBSET Handlers],
         stateful' \in [Procs -> SUBSET Handlers],
         saved' \in [Procs -> [Handlers -> CCmd \cup {NoCmd}]],
         SvcOf[p] = 1 => stateful' = stateful,
         \A q \in Procs \ {p} : /\ stateless'[q] = stateless[q]
                                /\ stateful'[q] = stateful[q]
                                /\ saved'[q] = saved[q],
         stateless'[p] \cap stateful'[p] = {},
         stateless'[p] \cup stateful'[p] = Handlers,
         \A i \in Handlers : i \in stateful'[p] <=> saved'[p][i] # NoCmd
  PROVE  Base'
<1> USE DEF Base
<1>1. TypeOK'
  BY DEF TypeOK, Processed
<1>2. HandlersPartition'
  BY DEF TypeOK, HandlersPartition, Processed
<1>3. \A q \in Procs : /\ pc'[q] = IF q = p THEN "poll" ELSE pc[q]
                       /\ cur'[q] = IF q = p THEN NoCmd ELSE cur[q]
                       /\ pid'[q] = pid[q] /\ lastPid' = lastPid
  BY DEF TypeOK, Processed
<1>4. Hands'
  BY <1>3 DEF Hands, Processed
<1>5. Idle'
  BY <1>3 DEF Idle, Processed
<1>6. Pids'
  BY <1>3 DEF Pids, Processed
<1> QED BY <1>1, <1>2, <1>4, <1>5, <1>6

LEMMA BaseProcessSvcTest2 ==
  ASSUME Base, NEW p \in Procs, Processed(p), ProcessSvcTest2(p)
  PROVE  Base'
<1> DEFINE i == FirstHandler(p)
           nested == NestedCmd(SerialNo(pid[p], i), cur[p].origin)
<1>1. cur[p] \in CCmd /\ cur[p] # NoCmd /\ pid[p] \in Nat
  BY NoCmdIsNoCCmd DEF Base, Hands, TypeOK, Processed
<1>2. stateless[p] \subseteq Handlers /\ stateless[p] # {}
  BY DEF Base, TypeOK, ProcessSvcTest2
<1>3. i \in stateless[p] /\ i \in Handlers /\ i \notin stateful[p]
  BY <1>2, FirstHandlerFree DEF Base, HandlersPartition
<1>4. nested \in CCmd
  <2>1. SerialNo(pid[p], i) \in Nat /\ cur[p].origin \in Requests
    BY <1>1, <1>3, Numbering DEF CCmd
  <2> QED BY <2>1, CmdTypes
<1>5. Put(1, REQUEST, nested) /\ backQ' = backQ
  BY DEF ProcessSvcTest2, Put
<1>6. /\ stateless' = [stateless EXCEPT ![p] = stateless[p] \ {i}]
      /\ stateful' = [stateful EXCEPT ![p] = stateful[p] \cup {i}]
      /\ saved' = [saved EXCEPT ![p] = [saved[p] EXCEPT ![i] = cur[p]]]
      /\ SvcOf[p] = 2
  BY DEF ProcessSvcTest2
<1> HIDE DEF i, nested
<1>7. /\ queue' \in [1..2 -> Seq(Msg)]
      /\ \A o \in 1..2 : Len(queue'[o]) <= QCap
  BY <1>4, <1>5, PutTypes DEF Base, REQUEST
<1>8. /\ stateless' \in [Procs -> SUBSET Handlers]
      /\ stateful' \in [Procs -> SUBSET Handlers]
      /\ saved' \in [Procs -> [Handlers -> CCmd \cup {NoCmd}]]
  BY <1>1, <1>3, <1>6 DEF Base, TypeOK
<1>9. \A q \in Procs \ {p} : /\ stateless'[q] = stateless[q]
                             /\ stateful'[q] = stateful[q]
                             /\ saved'[q] = saved[q]
  BY <1>6 DEF Base, TypeOK
<1>10. /\ stateless'[p] = stateless[p] \ {i}
       /\ stateful'[p] = stateful[p] \cup {i}
       /\ saved'[p] = [saved[p] EXCEPT ![i] = cur[p]]
       /\ saved[p] \in [Handlers -> CCmd \cup {NoCmd}]
  BY <1>6 DEF Base, TypeOK
<1>11. /\ stateless[p] \cap stateful[p] = {}
       /\ stateless[p] \cup stateful[p] = Handlers
       /\ \A j \in Handlers : j \in stateful[p] <=> saved[p][j] # NoCmd
  BY DEF Base, HandlersPartition, Processed
<1>12. /\ stateless'[p] \cap stateful'[p] = {}
       /\ stateless'[p] \cup stateful'[p] = Handlers
  BY <1>3, <1>10, <1>11
<1>13. \A j \in Handlers : j \in stateful'[p] <=> saved'[p][j] # NoCmd
  BY <1>1, <1>3, <1>10, <1>11
<1>14. backQ' \in Seq(Msg) /\ Len(backQ') <= QCap
  BY <1>5 DEF Base, TypeOK
<1>15. SvcOf[p] = 1 => stateful' = stateful
  BY <1>6
<1> QED
  BY <1>7, <1>8, <1>9, <1>12, <1>13, <1>14, <1>15, BaseProcessed

\* The answer of a resumed coroutine.
LEMMA ResumedTypes ==
  ASSUME Base, NEW p \in Procs, pc[p] = "busy", NEW i \in stateful[p]
  PROVE  [saved[p][i] EXCEPT !.ret = 0, !.serial = 0,
                             !.data = Append(cur[p].data, "r2")] \in CCmd
<1>1. cur[p] \in CCmd /\ i \in Handlers /\ saved[p][i] \in CCmd
  BY DEF Base, TypeOK, Hands, HandlersPartition
<1>2. cur[p].data \in Seq(Parts) /\ "r2" \in Parts
  BY <1>1 DEF CCmd, Parts
<1>3. Append(cur[p].data, "r2") \in Seq(Parts)
  BY <1>2, AppendProperties
<1> QED BY <1>1, <1>3, CmdTypes

LEMMA BaseProcessResponse ==
  ASSUME Base, NEW p \in Procs, Processed(p), ProcessResponse(p)
  PROVE  Base'
<1>1. PICK i \in stateful[p] :
        /\ Reply([saved[p][i] EXCEPT !.ret = 0, !.serial = 0,
                                     !.data = Append(cur[p].data, "r2")])
        /\ stateful' = [stateful EXCEPT ![p] = stateful[p] \ {i}]
        /\ stateless' = [stateless EXCEPT ![p] = stateless[p] \cup {i}]
        /\ saved' = [saved EXCEPT ![p] = [saved[p] EXCEPT ![i] = NoCmd]]
  BY DEF ProcessResponse
<1>2. i \in Handlers /\ SvcOf[p] # 1 /\ pc[p] = "busy"
  BY DEF Base, TypeOK, Idle, Processed
<1> DEFINE c == [saved[p][i] EXCEPT !.ret = 0, !.serial = 0,
                                    !.data = Append(cur[p].data, "r2")]
<1>3. c \in CCmd
  BY <1>2, ResumedTypes
<1>4. Reply(c)
  BY <1>1
<1> HIDE DEF c
<1>5. /\ queue' \in [1..2 -> Seq(Msg)] /\ backQ' \in Seq(Msg)
      /\ \A k \in 1..2 : Len(queue'[k]) <= QCap
      /\ Len(backQ') <= QCap
  BY <1>3, <1>4, ReplyTypes DEF Base
<1>6. /\ stateful' = [stateful EXCEPT ![p] = stateful[p] \ {i}]
      /\ stateless' = [stateless EXCEPT ![p] = stateless[p] \cup {i}]
      /\ saved' = [saved EXCEPT ![p] = [saved[p] EXCEPT ![i] = NoCmd]]
  BY <1>1
<1>7. /\ stateless' \in [Procs -> SUBSET Handlers]
      /\ stateful' \in [Procs -> SUBSET Handlers]
      /\ saved' \in [Procs -> [Handlers -> CCmd \cup {NoCmd}]]
  BY <1>2, <1>6 DEF Base, TypeOK
<1>8. \A q \in Procs \ {p} : /\ stateless'[q] = stateless[q]
                             /\ stateful'[q] = stateful[q]
                             /\ saved'[q] = saved[q]
  BY <1>6 DEF Base, TypeOK
<1>9. /\ stateless'[p] = stateless[p] \cup {i}
      /\ stateful'[p] = stateful[p] \ {i}
      /\ saved'[p] = [saved[p] EXCEPT ![i] = NoCmd]
      /\ saved[p] \in [Handlers -> CCmd \cup {NoCmd}]
  BY <1>6 DEF Base, TypeOK
<1>10. /\ stateless[p] \cap stateful[p] = {}
       /\ stateless[p] \cup stateful[p] = Handlers
       /\ \A j \in Handlers : j \in stateful[p] <=> saved[p][j] # NoCmd
  BY DEF Base, HandlersPartition, Processed
<1>11. /\ stateless'[p] \cap stateful'[p] = {}
       /\ stateless'[p] \cup stateful'[p] = Handlers
  BY <1>2, <1>9, <1>10
<1>12. \A j \in Handlers : j \in stateful'[p] <=> saved'[p][j] # NoCmd
  BY <1>2, <1>9, <1>10
<1> QED BY <1>2, <1>5, <1>7, <1>8, <1>11, <1>12, BaseProcessed

\* The two outcomes that leave the maps of the dispatcher alone.
Answer(p) ==
  IF stateless[p] = {}
  THEN [cur[p] EXCEPT !.ret = NO_FREE_SVC_HANDLER, !.data = <<"err">>]
  ELSE [cur[p] EXCEPT !.data = IF cur[p].ret = 0 THEN <<"r1">> ELSE <<"err">>]

LEMMA BaseProcessAtOnce ==
  ASSUME Base, NEW p \in Procs, Processed(p),
         ProcessNoFree(p) \/ ProcessSvcTest(p)
  PROVE  Base'
<1>1. Reply(Answer(p)) /\ UNCHANGED <<stateless, stateful, saved>>
  BY DEF ProcessNoFree, ProcessSvcTest, Answer
<1>2. Answer(p) \in CCmd
  BY CmdTypes DEF Base, Hands, Processed, Answer
<1>3. /\ queue' \in [1..2 -> Seq(Msg)] /\ backQ' \in Seq(Msg)
      /\ \A k \in 1..2 : Len(queue'[k]) <= QCap
      /\ Len(backQ') <= QCap
  BY <1>1, <1>2, ReplyTypes DEF Base
<1>4. /\ stateless[p] \cap stateful[p] = {}
      /\ stateless[p] \cup stateful[p] = Handlers
      /\ \A j \in Handlers : j \in stateful[p] <=> saved[p][j] # NoCmd
  BY DEF Base, HandlersPartition, Processed
<1>5. /\ stateless \in [Procs -> SUBSET Handlers]
      /\ stateful \in [Procs -> SUBSET Handlers]
      /\ saved \in [Procs -> [Handlers -> CCmd \cup {NoCmd}]]
  BY DEF Base, TypeOK
<1> QED BY <1>1, <1>3, <1>4, <1>5, BaseProcessed

LEMMA BaseNext == Base /\ [Next]_vars => Base'
<1> SUFFICES ASSUME Base, [Next]_vars PROVE Base'
  OBVIOUS
<1>1. ASSUME NEW r \in Requests, Ask(r) PROVE Base'
  BY <1>1, BaseAsk
<1>2. CASE Deliver
  BY <1>2, BaseDeliver
<1>3. ASSUME NEW p \in Procs, Start(p) PROVE Base'
  BY <1>3, BaseStart
<1>4. ASSUME NEW p \in Procs, Crash(p) \/ DispatchAborts(p) PROVE Base'
  BY <1>4, BaseDie DEF Crash, DispatchAborts
<1>5. ASSUME NEW p \in Procs, PollRequest(p) \/ PollApp(p) PROVE Base'
  BY <1>5, BasePoll
<1>6. ASSUME NEW p \in Procs, ProcessMsg(p) PROVE Base'
  <2>1. Processed(p)
    BY <1>6 DEF ProcessMsg, Processed
  <2> QED
    BY <1>6, <2>1, BaseProcessAtOnce, BaseProcessSvcTest2, BaseProcessResponse
    DEF ProcessMsg
<1>7. CASE UNCHANGED vars
  BY <1>7 DEF vars, Base, TypeOK, HandlersPartition, Hands, Idle, Pids
<1> QED BY <1>1, <1>2, <1>3, <1>4, <1>5, <1>6, <1>7 DEF Next, Loop

\* The container processes are well typed, whatever crashes, restarts and
\* refused messages there are.
THEOREM ContainerTypeCorrect == Spec => []TypeOK
<1>1. Base => TypeOK
  BY DEF Base
<1> QED BY InitBase, BaseNext, <1>1, PTL DEF Spec

\* Between two steps of Dispatch every handler of a live process is in exactly
\* one of its maps, and a command is saved for the suspended ones only.
THEOREM HandlersPartitioned == Spec => []HandlersPartition
<1>1. Base => HandlersPartition
  BY DEF Base
<1> QED BY InitBase, BaseNext, <1>1, PTL DEF Spec

-----------------------------------------------------------------------------
(* Nested calls and their serial numbers.                                  *)

\* The number by which a command is a nested call: a client's own command is
\* none, whatever its client wrote.
CallNo(c) == IF c.req = NoReq THEN c.serial ELSE 0

Serials(q) == {CallNo(q[j].body) : j \in DOMAIN q}

Distinct(q) ==
  \A i, j \in DOMAIN q :
    CallNo(q[i].body) = CallNo(q[j].body) /\ CallNo(q[i].body) # 0 => i = j

\* A nested call is in one place: one message, or the hands of one process.
Alone ==
  /\ \A k \in 1..2 : Distinct(queue[k])
  /\ \A s \in Serials(queue[1]) \cap Serials(queue[2]) : s = 0
  /\ \A k \in 1..2 : \A p \in Procs :
       CallNo(cur[p]) \in Serials(queue[k]) => CallNo(cur[p]) = 0
  /\ \A p, q \in Procs :
       CallNo(cur[p]) = CallNo(cur[q]) /\ CallNo(cur[p]) # 0 => p = q

\* It was made by a handler of svc_test2 in a process that was started, and,
\* as long as that process lives, the handler is suspended for its request.
Known(c) ==
  CallNo(c) # 0 =>
    /\ c.cmd = 2
    /\ \E pd \in 1..lastPid, i \in Handlers : CallNo(c) = SerialNo(pd, i)
Owned(c) ==
  \A p \in Procs : pc[p] # "dead" => \A i \in Handlers :
    CallNo(c) = SerialNo(pid[p], i) =>
      i \in stateful[p] /\ saved[p][i].origin = c.origin

InFlight == {m.body : m \in InQueues} \cup {cur[p] : p \in InHand}
Accounted == \A c \in InFlight : Known(c) /\ Owned(c)

\* A client's command has the serial number its client wrote; with one that is
\* not 0 its result is taken for the reply to a nested call.
Written(k, c) ==
  c.req # NoReq =>
    c.serial \in SerialsOf[c.req] /\ c.cmd = k /\ CmdOf[c.req] = k
Forged(c) == c.req # NoReq /\ c.serial \in SerialsOf[c.req] \ {0}

\* Requests travel as REQUEST, nested ones to svc_test only; replies to nested
\* calls travel to svc_test2 under the type of the process that called, and
\* what is taken for one stays in the queue of svc_test.
Kind(k, m) ==
  \/ /\ m.lType = REQUEST /\ m.body.type # RESPONSE
     /\ Written(k, m.body)
     /\ k = 2 => m.body.serial = 0
  \/ /\ k = 2 /\ m.body.type = RESPONSE /\ CallNo(m.body) # 0
     /\ m.lType = AppType(PidOfSerial(m.body.serial))
  \/ /\ k = 1 /\ m.body.type = RESPONSE /\ Forged(m.body)
     /\ m.lType # REQUEST
QueueKinds == \A k \in 1..2 : \A m \in Elems(queue[k]) : Kind(k, m)

\* So a process of svc_test holds no reply to a nested call, and one of
\* svc_test2 holds client requests and the responses to its own calls.
HandKinds ==
  \A p \in InHand :
    IF cur[p].type = RESPONSE
    THEN \/ /\ SvcOf[p] = 2 /\ CallNo(cur[p]) # 0
            /\ PidOfSerial(cur[p].serial) = pid[p]
         \/ SvcOf[p] = 1 /\ Forged(cur[p])
    ELSE /\ Written(SvcOf[p], cur[p])
         /\ SvcOf[p] = 2 => CallNo(cur[p]) = 0

Calls ==
  NoSerialForSvcTest2 /\ Base /\ Alone /\ Accounted /\ QueueKinds /\ HandKinds

LEMMA QueueElement ==
  ASSUME NEW q \in Seq(Msg), NEW j \in DOMAIN q
  PROVE  q[j] \in Msg /\ q[j].body \in CCmd /\ q[j] \in Elems(q)
<1>1. j \in 1..Len(q)
  BY LenProperties
<1>2. q[j] \in Msg
  BY <1>1, ElementOfSeq
<1> QED BY <1>2 DEF Msg, Elems

\* A message with a serial number no other has may be sent.
LEMMA PutKeepsDistinct ==
  ASSUME NEW q \in Seq(Msg), Len(q) <= QCap, NEW t \in Nat, NEW c \in CCmd,
         Distinct(q), CallNo(c) # 0 => CallNo(c) \notin Serials(q)
  PROVE  /\ Distinct(PutMsg(q, t, c))
         /\ Serials(PutMsg(q, t, c)) \subseteq Serials(q) \cup {CallNo(c)}
         /\ Elems(PutMsg(q, t, c)) \subseteq
              Elems(q) \cup {[lType |-> t, body |-> c]}
<1> DEFINE n == PutMsg(q, t, c)
<1>1. \A j \in DOMAIN n : \/ j \in DOMAIN q /\ n[j] = q[j]
                          \/ j = Len(q) + 1 /\ n[j] = [lType |-> t, body |-> c]
  BY PutMsgProperties
<1> HIDE DEF n
<1>2. \A j \in DOMAIN n : \/ j \in DOMAIN q /\ n[j] = q[j]
                          \/ j = Len(q) + 1 /\ CallNo(n[j].body) = CallNo(c)
  BY <1>1
<1>3. Distinct(n)
  <2> SUFFICES ASSUME NEW i \in DOMAIN n, NEW j \in DOMAIN n,
                      CallNo(n[i].body) = CallNo(n[j].body),
                      CallNo(n[i].body) # 0
               PROVE  i = j
    BY DEF Distinct
  <2> QED BY <1>2 DEF Distinct, Serials
<1>4. Serials(n) \subseteq Serials(q) \cup {CallNo(c)}
  BY <1>2 DEF Serials
<1>5. Elems(n) \subseteq Elems(q) \cup {[lType |-> t, body |-> c]}
  BY <1>1 DEF Elems
<1> QED BY <1>3, <1>4, <1>5 DEF n

\* A message that is received is no longer in the queue.
LEMMA RemoveKeepsDistinct ==
  ASSUME NEW q \in Seq(Msg), NEW i \in DOMAIN q, Distinct(q)
  PROVE  /\ Distinct(RemoveAt(q, i))
         /\ Serials(RemoveAt(q, i)) \subseteq Serials(q)
         /\ Elems(RemoveAt(q, i)) \subseteq Elems(q)
         /\ CallNo(q[i].body) \in Serials(RemoveAt(q, i)) =>
              CallNo(q[i].body) = 0
<1> DEFINE n == RemoveAt(q, i)
           at(j) == IF j < i THEN j ELSE j + 1
<1>1. i \in Nat
  BY LenProperties
<1>2. ASSUME NEW j \in DOMAIN n
      PROVE  /\ j \in Nat /\ at(j) \in DOMAIN q /\ n[j] = q[at(j)]
             /\ at(j) # i
  <2>1. /\ j \in Nat
        /\ j < i => j \in DOMAIN q /\ n[j] = q[j]
        /\ j >= i => j + 1 \in DOMAIN q /\ n[j] = q[j + 1]
    BY RemoveAtProperties
  <2> HIDE DEF n
  <2> QED BY <1>1, <2>1
<1>3. \A j, k \in DOMAIN n : at(j) = at(k) => j = k
  BY <1>1, <1>2
<1> HIDE DEF n, at
<1>4. Distinct(n)
  BY <1>2, <1>3 DEF Distinct
<1>5. Serials(n) \subseteq Serials(q) /\ Elems(n) \subseteq Elems(q)
  BY <1>2 DEF Serials, Elems
<1>6. CallNo(q[i].body) \in Serials(n) => CallNo(q[i].body) = 0
  BY <1>2 DEF Distinct, Serials
<1> QED BY <1>4, <1>5, <1>6 DEF n

LEMMA InitCalls == NoSerialForSvcTest2 /\ Init => Calls
<1> SUFFICES ASSUME NoSerialForSvcTest2, Init PROVE Calls
  OBVIOUS
<1>1. /\ \A k \in 1..2 : queue[k] = <<>>
      /\ DOMAIN <<>> = {}
      /\ \A p \in Procs : cur[p] = NoCmd /\ pc[p] = "dead"
  BY DEF Init
<1>2. /\ \A k \in 1..2 : Serials(queue[k]) = {} /\ Elems(queue[k]) = {}
      /\ \A k \in 1..2 : Distinct(queue[k])
  BY <1>1 DEF Serials, Elems, Distinct
<1>3. InHand = {} /\ InQueues = {} /\ InFlight = {}
  BY <1>1, <1>2 DEF InHand, InQueues, InFlight
<1>4. Alone
  BY <1>1, <1>2 DEF Alone, NoCmd, CallNo
<1>5. Accounted /\ QueueKinds /\ HandKinds
  BY <1>2, <1>3 DEF Accounted, QueueKinds, HandKinds
<1> QED BY <1>4, <1>5, InitBase DEF Calls

\* A reply addressed to a live process is to a nested call of its own, or is
\* none and addressed to a process of svc_test.
LEMMA ReplyNamesCaller ==
  ASSUME Calls, NEW p \in Procs, pc[p] # "dead", NEW c \in RepliesTo(p)
  PROVE  \/ /\ c \in InFlight /\ c.serial = CallNo(c)
            /\ \E i \in Handlers : CallNo(c) = SerialNo(pid[p], i)
         \/ SvcOf[p] = 1 /\ Forged(c)
<1>1. pid[p] \in Nat /\ pid[p] > 0 /\ lastPid \in Nat /\ SvcOf[p] \in 1..2
  BY ContainerAssumption DEF ContainerAssumption, Calls, Base, TypeOK, Pids
<1>2. Accounted /\ QueueKinds /\ HandKinds /\ Hands
  BY DEF Calls, Base
<1>3. \/ /\ c \in InFlight /\ CallNo(c) # 0 /\ c.serial = CallNo(c)
         /\ \/ PidOfSerial(c.serial) = pid[p]
            \/ AppType(PidOfSerial(c.serial)) = AppType(pid[p])
      \/ SvcOf[p] = 1 /\ Forged(c)
  <2>0. CallNo(c) # 0 => c.serial = CallNo(c)
    BY DEF CallNo
  <2>1. CASE c = cur[p] /\ c.type = RESPONSE
    <3>1. p \in InHand
      BY <1>2, <2>1 DEF Hands, NoCmd, RESPONSE, InHand
    <3> QED BY <1>2, <2>0, <2>1, <3>1 DEF HandKinds, InFlight
  <2>2. ASSUME NEW m \in Elems(queue[SvcOf[p]]),
               m.lType = AppType(pid[p]), c = m.body
        PROVE  \/ /\ c \in InFlight /\ CallNo(c) # 0
                  /\ AppType(PidOfSerial(c.serial)) = AppType(pid[p])
               \/ SvcOf[p] = 1 /\ Forged(c)
    <3>1. AppType(pid[p]) # REQUEST
      BY <1>1 DEF AppType, APP, REQUEST
    <3>2. Kind(SvcOf[p], m) /\ m \in InQueues
      BY <1>1, <1>2, <2>2 DEF QueueKinds, InQueues
    <3> QED BY <2>2, <3>1, <3>2 DEF Kind, InFlight
  <2> QED BY <2>0, <2>1, <2>2 DEF RepliesTo
<1>4. CASE ~(SvcOf[p] = 1 /\ Forged(c))
  <2>1. PICK pd \in 1..lastPid, i \in Handlers : CallNo(c) = SerialNo(pd, i)
    BY <1>2, <1>3, <1>4 DEF Accounted, Known
  <2>2. pd \in Nat /\ PidOfSerial(c.serial) = pd
    BY <1>1, <1>3, <1>4, <2>1, Numbering
  <2>3. pd = pid[p]
    BY <1>1, <1>3, <1>4, <2>2 DEF AppType, APP
  <2> QED BY <1>3, <1>4, <2>1, <2>3
<1> QED BY <1>4

LEMMA CallsSafe == Calls => ResponseFindsHandler /\ ResumesOwnRequest
<1> SUFFICES ASSUME Calls PROVE ResponseFindsHandler /\ ResumesOwnRequest
  OBVIOUS
<1>1. ResponseFindsHandler
  <2> SUFFICES ASSUME NEW p \in Procs, pc[p] # "dead", NEW c \in RepliesTo(p)
               PROVE  \/ \E i \in stateful[p] : c.serial = SerialNo(pid[p], i)
                      \/ c.req # NoReq /\ c.serial \in SerialsOf[c.req] \ {0}
    BY DEF ResponseFindsHandler
  <2>1. CASE Forged(c)
    BY <2>1 DEF Forged
  <2>2. CASE ~Forged(c)
    <3>1. c \in InFlight /\ c.serial = CallNo(c)
      BY <2>2, ReplyNamesCaller
    <3>2. PICK i \in Handlers : CallNo(c) = SerialNo(pid[p], i)
      BY <2>2, ReplyNamesCaller
    <3>3. Owned(c)
      BY <3>1 DEF Calls, Accounted
    <3> QED BY <3>1, <3>2, <3>3 DEF Owned
  <2> QED BY <2>1, <2>2
<1>2. ResumesOwnRequest
  <2> SUFFICES ASSUME NEW p \in Procs, NEW c \in RepliesTo(p),
                      NEW i \in stateful[p], c.serial = SerialNo(pid[p], i)
               PROVE  c.origin = saved[p][i].origin
    BY DEF ResumesOwnRequest
  <2>1. pc[p] # "dead" /\ i \in Handlers /\ SvcOf[p] # 1
    BY DEF Calls, Base, TypeOK, Idle
  <2>2. c \in InFlight /\ c.serial = CallNo(c)
    BY <2>1, ReplyNamesCaller
  <2>3. Owned(c)
    BY <2>2 DEF Calls, Accounted
  <2> QED BY <2>1, <2>2, <2>3 DEF Owned
<1> QED BY <1>1, <1>2

LEMMA QueueTypes ==
  ASSUME Calls, NEW k \in 1..2
  PROVE  queue[k] \in Seq(Msg) /\ Len(queue[k]) <= QCap /\ Distinct(queue[k])
  BY DEF Calls, Base, TypeOK, Alone

\* Sending a call that is not in a queue yet.
LEMMA PutCalls ==
  ASSUME Calls, NEW k \in 1..2, NEW t \in Nat, NEW c \in CCmd, Put(k, t, c),
         CallNo(c) # 0 => \A o \in 1..2 : CallNo(c) \notin Serials(queue[o])
  PROVE  /\ \A o \in 1..2 : Distinct(queue'[o])
         /\ \A o \in 1..2 : \A s \in Serials(queue'[o]) :
              s \in Serials(queue[o]) \/ (o = k /\ s = CallNo(c))
         /\ \A o \in 1..2 : \A m \in Elems(queue'[o]) :
              \/ m \in Elems(queue[o])
              \/ o = k /\ m = [lType |-> t, body |-> c]
         /\ \A s \in Serials(queue'[1]) \cap Serials(queue'[2]) : s = 0
<1> DEFINE n == PutMsg(queue[k], t, c)
<1>1. /\ Distinct(n)
      /\ Serials(n) \subseteq Serials(queue[k]) \cup {CallNo(c)}
      /\ Elems(n) \subseteq Elems(queue[k]) \cup {[lType |-> t, body |-> c]}
  BY QueueTypes, PutKeepsDistinct
<1>2. \A o \in 1..2 : queue'[o] = IF o = k THEN n ELSE queue[o]
  BY DEF Put, Calls, Base, TypeOK
<1> HIDE DEF n
<1>3. \A o \in 1..2 : Distinct(queue'[o])
  BY <1>1, <1>2, QueueTypes
<1>4. \A o \in 1..2 : \A s \in Serials(queue'[o]) :
        s \in Serials(queue[o]) \/ (o = k /\ s = CallNo(c))
  BY <1>1, <1>2
<1>5. \A o \in 1..2 : \A m \in Elems(queue'[o]) :
        m \in Elems(queue[o]) \/ (o = k /\ m = [lType |-> t, body |-> c])
  BY <1>1, <1>2
<1>6. \A s \in Serials(queue'[1]) \cap Serials(queue'[2]) : s = 0
  <2>1. \A s \in Serials(queue[1]) \cap Serials(queue[2]) : s = 0
    BY DEF Calls, Alone
  <2> QED BY <1>4, <2>1
<1> QED BY <1>3, <1>4, <1>5, <1>6

LEMMA StillAccounted ==
  ASSUME NEW c, Known(c), Owned(c),
         UNCHANGED <<pid, lastPid, stateful, saved>>,
         \A p \in Procs : pc'[p] # "dead" => pc[p] # "dead"
  PROVE  Known(c)' /\ Owned(c)'
  BY DEF Known, Owned

LEMMA NoCallAccounted ==
  ASSUME NEW c, CallNo(c) = 0, Base'
  PROVE  Known(c)' /\ Owned(c)'
<1>1. Known(c)'
  BY DEF Known
<1>2. ASSUME NEW p \in Procs, pc'[p] # "dead", NEW i \in Handlers
      PROVE  SerialNo(pid'[p], i) # 0
  <2>1. pid'[p] \in Nat /\ pid'[p] > 0
    BY <1>2 DEF Base, TypeOK, Pids
  <2> QED BY <2>1, Numbering
<1>3. Owned(c)'
  BY <1>2 DEF Owned
<1> QED BY <1>1, <1>3

LEMMA CallsAsk ==
  ASSUME Calls, NEW r \in Requests, Ask(r)
  PROVE  Calls'
<1>1. CmdOf[r] \in 1..2 /\ REQUEST \in Nat /\ r # NoReq
  BY ContainerAssumption DEF ContainerAssumption, REQUEST
<1>2. PICK sn \in SerialsOf[r], rn \in RetsOf[r] :
        /\ Put(CmdOf[r], REQUEST, ClientCmd(r, sn, rn))
        /\ ClientCmd(r, sn, rn) \in CCmd
  BY AskPuts
<1> DEFINE c == ClientCmd(r, sn, rn)
<1>3. /\ c \in CCmd /\ CallNo(c) = 0 /\ c.type # RESPONSE
      /\ Written(CmdOf[r], c) /\ (CmdOf[r] = 2 => c.serial = 0)
      /\ Put(CmdOf[r], REQUEST, c)
  BY <1>1, <1>2
     DEF ClientCmd, CallNo, Written, REQUEST, RESPONSE, Calls, NoSerialForSvcTest2
<1> HIDE DEF c
<1>4. /\ \A o \in 1..2 : Distinct(queue'[o])
      /\ \A o \in 1..2 : \A s \in Serials(queue'[o]) :
           s \in Serials(queue[o]) \/ s = 0
      /\ \A o \in 1..2 : \A m \in Elems(queue'[o]) :
           \/ m \in Elems(queue[o])
           \/ o = CmdOf[r] /\ m = [lType |-> REQUEST, body |-> c]
      /\ \A s \in Serials(queue'[1]) \cap Serials(queue'[2]) : s = 0
  BY <1>1, <1>3, PutCalls
<1>5. UNCHANGED <<backQ, pid, lastPid, pc, cur, stateless, stateful, saved>>
  BY DEF Ask, procVars
<1>6. Base'
  BY BaseAsk DEF Calls
<1>7. Alone'
  BY <1>4, <1>5 DEF Calls, Alone
<1>8. QueueKinds'
  BY <1>3, <1>4 DEF Calls, QueueKinds, Kind
<1>9. HandKinds'
  BY <1>5 DEF Calls, HandKinds, InHand
<1>10. Accounted'
  <2>1. \A d \in InFlight' : d \in InFlight \/ d = c
    BY <1>4, <1>5 DEF InFlight, InQueues, InHand
  <2>2. ASSUME NEW d \in InFlight PROVE Known(d)' /\ Owned(d)'
    BY <1>5, StillAccounted DEF Calls, Accounted
  <2>3. PICK d0 : d0 = c
    OBVIOUS
  <2>4. Known(d0)' /\ Owned(d0)'
    BY <1>3, <1>6, <2>3, NoCallAccounted
  <2> QED BY <2>1, <2>2, <2>3, <2>4 DEF Accounted
<1> QED BY <1>6, <1>7, <1>8, <1>9, <1>10 DEF Calls

\* Steps that touch neither the queues nor what the processes hold.
LEMMA CallsElsewhere ==
  ASSUME Calls, Base', UNCHANGED <<queue, cur, pid, lastPid, stateful, saved>>,
         \A p \in Procs : /\ pc'[p] # "dead" => pc[p] # "dead"
                          /\ pc'[p] = "busy" <=> pc[p] = "busy"
  PROVE  Calls'
<1>1. Alone'
  BY DEF Calls, Alone
<1>2. InHand' = InHand /\ InQueues' = InQueues /\ InFlight' = InFlight
  BY DEF InHand, InQueues, InFlight
<1>3. QueueKinds' /\ HandKinds'
  BY <1>2 DEF Calls, QueueKinds, HandKinds
<1>4. Accounted'
  <2>1. ASSUME NEW d \in InFlight PROVE Known(d)' /\ Owned(d)'
    BY StillAccounted DEF Calls, Accounted
  <2> QED BY <1>2, <2>1 DEF Accounted
<1> QED BY <1>1, <1>3, <1>4 DEF Calls

LEMMA CallsDeliver ==
  ASSUME Calls, Deliver
  PROVE  Calls'
<1>1. Base'
  BY BaseDeliver DEF Calls
<1> QED BY <1>1, CallsElsewhere DEF Deliver, procVars

\* A process that starts has a new id, by which nobody has called yet.
LEMMA CallsStart ==
  ASSUME Calls, NEW p \in Procs, Start(p)
  PROVE  Calls'
<1>1. Base'
  BY BaseStart DEF Calls
<1>2. /\ UNCHANGED <<queue, cur, stateful, saved>>
      /\ lastPid \in Nat /\ lastPid' = lastPid + 1
      /\ pid' = [pid EXCEPT ![p] = lastPid + 1]
      /\ pc' = [pc EXCEPT ![p] = "poll"] /\ pc[p] = "dead"
      /\ pid \in [Procs -> 0..MaxPid]
      /\ pc \in [Procs -> {"poll", "pollApp", "busy", "dead"}]
  BY DEF Start, Calls, Base, TypeOK
<1>3. Alone'
  BY <1>2 DEF Calls, Alone
<1>4. InHand' = InHand /\ InQueues' = InQueues /\ InFlight' = InFlight
  BY <1>2 DEF InHand, InQueues, InFlight
<1>5. QueueKinds' /\ HandKinds'
  BY <1>2, <1>4 DEF Calls, QueueKinds, HandKinds, InHand
<1>6. ASSUME NEW d \in InFlight PROVE Known(d)' /\ Owned(d)'
  <2>1. Known(d) /\ Owned(d)
    BY DEF Calls, Accounted
  <2>2. Known(d)'
    BY <1>2, <2>1 DEF Known
  <2>3. ASSUME NEW i \in Handlers PROVE CallNo(d) # SerialNo(lastPid + 1, i)
    <3> SUFFICES ASSUME CallNo(d) = SerialNo(lastPid + 1, i) PROVE FALSE
      OBVIOUS
    <3>1. CallNo(d) # 0
      BY <1>2, Numbering
    <3>2. PICK pd \in 1..lastPid, j \in Handlers : CallNo(d) = SerialNo(pd, j)
      BY <2>1, <3>1 DEF Known
    <3>3. pd \in Nat /\ pd = lastPid + 1
      BY <1>2, <3>2, NumberingInjective
    <3> QED BY <1>2, <3>2, <3>3
  <2>4. Owned(d)'
    BY <1>2, <2>1, <2>3 DEF Owned
  <2> QED BY <2>2, <2>4
<1>7. Accounted'
  BY <1>4, <1>6 DEF Accounted
<1> QED BY <1>1, <1>3, <1>5, <1>7 DEF Calls

\* What a process that dies has called stays on its way and finds nobody.
LEMMA CallsDie ==
  ASSUME Calls, NEW p \in Procs, Die(p)
  PROVE  Calls'
<1>1. Base'
  BY BaseDie DEF Calls
<1>2. /\ UNCHANGED <<queue, pid, lastPid>>
      /\ \A q \in Procs : /\ cur'[q] = IF q = p THEN NoCmd ELSE cur[q]
                          /\ pc'[q] = IF q = p THEN "dead" ELSE pc[q]
                          /\ q # p => stateful'[q] = stateful[q]
                          /\ q # p => saved'[q] = saved[q]
  BY DEF Die, Calls, Base, TypeOK
<1>3. Alone'
  BY <1>2 DEF Calls, Alone, NoCmd, CallNo
<1>4. InHand' = InHand \ {p} /\ InHand \subseteq Procs /\ InQueues' = InQueues
  BY <1>2 DEF InHand, InQueues
<1>5. \A d \in InFlight' : d \in InFlight
  BY <1>2, <1>4 DEF InFlight
<1>6. QueueKinds' /\ HandKinds'
  BY <1>2, <1>4 DEF Calls, QueueKinds, HandKinds
<1>7. ASSUME NEW d \in InFlight PROVE Known(d)' /\ Owned(d)'
  BY <1>2 DEF Calls, Accounted, Known, Owned
<1>8. Accounted'
  BY <1>5, <1>7 DEF Accounted
<1> QED BY <1>1, <1>3, <1>6, <1>8 DEF Calls

\* A received call goes from the queue into the hands of the process.
LEMMA CallsTake ==
  ASSUME Calls, NEW p \in Procs, NEW t \in {REQUEST, AppType(pid[p])},
         Take(p, t), pc[p] \in {"poll", "pollApp"},
         UNCHANGED <<client, backQ, pid, lastPid, stateless, stateful, saved>>
  PROVE  Calls'
<1> DEFINE k == SvcOf[p]
           q == queue[k]
           i == First(q, t)
           c == q[i].body
<1>1. k \in 1..2
  BY ContainerAssumption DEF ContainerAssumption
<1>2. q \in Seq(Msg) /\ Distinct(q)
  BY <1>1, QueueTypes
<1>3. i \in DOMAIN q /\ q[i].lType = t
  BY <1>2, FirstProperties DEF Take
<1>4. q[i] \in Msg /\ c \in CCmd /\ q[i] \in Elems(q) /\ CallNo(c) \in Serials(q)
  BY <1>2, <1>3, QueueElement DEF Serials
<1> DEFINE n == RemoveAt(q, i)
<1>5. /\ Distinct(n)
      /\ Serials(n) \subseteq Serials(q)
      /\ Elems(n) \subseteq Elems(q)
      /\ CallNo(c) \in Serials(n) => CallNo(c) = 0
  BY <1>2, <1>3, RemoveKeepsDistinct
<1>6. /\ cur' = [cur EXCEPT ![p] = c]
      /\ queue' = [queue EXCEPT ![k] = n]
      /\ pc' = [pc EXCEPT ![p] = "busy"]
  BY DEF Take
<1>7. /\ \A o \in 1..2 : queue'[o] = IF o = k THEN n ELSE queue[o]
      /\ \A x \in Procs : /\ cur'[x] = IF x = p THEN c ELSE cur[x]
                          /\ pc'[x] = IF x = p THEN "busy" ELSE pc[x]
  BY <1>6 DEF Calls, Base, TypeOK
<1>8. Kind(k, q[i])
  BY <1>1, <1>4 DEF Calls, QueueKinds
<1>9. q = queue[k]
  OBVIOUS
<1> DEFINE m == q[i]
<1>10. m.body = c /\ m.lType = t /\ m \in Elems(queue[k]) /\ Kind(k, m)
  BY <1>3, <1>4, <1>8
<1> HIDE DEF m, n, c, i, q
<1>11. /\ \A o \in 1..2 : Serials(queue'[o]) \subseteq Serials(queue[o])
       /\ \A o \in 1..2 : Elems(queue'[o]) \subseteq Elems(queue[o])
       /\ \A o \in 1..2 : Distinct(queue'[o])
       /\ \A o \in 1..2 : CallNo(c) \in Serials(queue'[o]) => CallNo(c) = 0
  <2>1. /\ \A s \in Serials(queue[1]) \cap Serials(queue[2]) : s = 0
        /\ \A o \in 1..2 : Distinct(queue[o])
    BY DEF Calls, Alone
  <2>2. CallNo(c) \in Serials(queue[k])
    BY <1>4, <1>9
  <2>3. \A o \in 1..2 : o # k /\ CallNo(c) \in Serials(queue[o]) =>
          CallNo(c) = 0
    BY <1>1, <2>1, <2>2
  <2> QED BY <1>5, <1>7, <1>9, <2>1, <2>3
<1>12. Base'
  BY BaseTake DEF Calls
<1>13. Alone'
  <2>1. \A x \in Procs : CallNo(cur[x]) = CallNo(c) => CallNo(c) = 0
    BY <1>1, <1>4, <1>9 DEF Calls, Alone
  <2> QED BY <1>7, <1>11, <2>1 DEF Calls, Alone
<1>14. QueueKinds'
  <2>1. \A o \in 1..2 : \A x \in Elems(queue'[o]) : Kind(o, x)
    BY <1>11 DEF Calls, QueueKinds
  <2> QED BY <2>1 DEF QueueKinds, Kind
<1>15. HandKinds'
  <2>1. \A x \in Procs \ {p} : x \in InHand' <=> x \in InHand
    BY <1>7 DEF InHand
  <2>2. CASE m.lType = REQUEST
    <3>1. c.type # RESPONSE /\ Written(k, c) /\ (k = 2 => c.serial = 0)
      <4>1. REQUEST # AppType(PidOfSerial(c.serial))
        BY <1>4 DEF CCmd, REQUEST, AppType, PidOfSerial, APP
      <4> QED BY <1>10, <2>2, <4>1 DEF Kind
    <3> QED BY <1>7, <2>1, <3>1 DEF Calls, HandKinds, InHand, CallNo
  <2>3. CASE m.lType # REQUEST
    <3>1. /\ c.type = RESPONSE
          /\ \/ /\ k = 2 /\ CallNo(c) # 0
                /\ AppType(pid[p]) = AppType(PidOfSerial(c.serial))
             \/ k = 1 /\ Forged(c)
      BY <1>10, <2>3 DEF Kind
    <3>2. k = 2 => PidOfSerial(c.serial) = pid[p]
      <4>1. pid[p] \in Nat /\ PidOfSerial(c.serial) \in Nat
        BY <1>4 DEF Calls, Base, TypeOK, CCmd, PidOfSerial
      <4>2. \A a, b \in Nat : AppType(a) = AppType(b) => a = b
        BY DEF AppType, APP
      <4> QED BY <3>1, <4>1, <4>2
    <3> QED BY <1>7, <2>1, <3>1, <3>2 DEF Calls, HandKinds, InHand
  <2> QED BY <2>2, <2>3
<1>16. Accounted'
  <2>1. \A d \in InFlight' : d \in InFlight
    <3>1. \A x \in InHand' : x = p \/ (x \in InHand /\ cur'[x] = cur[x])
      BY <1>7 DEF InHand
    <3>2. \A x \in InQueues' : x \in InQueues
      BY <1>11 DEF InQueues
    <3>3. cur'[p] \in InFlight
      BY <1>1, <1>7, <1>10 DEF InFlight, InQueues
    <3> QED BY <3>1, <3>2, <3>3 DEF InFlight
  <2>2. \A x \in Procs : pc'[x] # "dead" => pc[x] # "dead"
    BY <1>7
  <2>3. ASSUME NEW d \in InFlight PROVE Known(d)' /\ Owned(d)'
    BY <2>2, StillAccounted DEF Calls, Accounted
  <2> QED BY <2>1, <2>3 DEF Accounted
<1> QED BY <1>12, <1>13, <1>14, <1>15, <1>16 DEF Calls

LEMMA CallsPoll ==
  ASSUME Calls, NEW p \in Procs, PollRequest(p) \/ PollApp(p)
  PROVE  Calls'
<1>1. CASE PollRequest(p)
  <2>1. CASE Take(p, REQUEST)
    BY <1>1, <2>1, CallsTake DEF PollRequest
  <2>2. CASE ~Take(p, REQUEST)
    <3>1. Base'
      BY <1>1, BasePoll DEF Calls
    <3> QED BY <1>1, <2>2, <3>1, CallsElsewhere
            DEF PollRequest, Calls, Base, TypeOK
  <2> QED BY <2>1, <2>2
<1>2. CASE PollApp(p)
  <2>1. CASE Take(p, AppType(pid[p]))
    BY <1>2, <2>1, CallsTake DEF PollApp
  <2>2. CASE ~Take(p, AppType(pid[p]))
    <3>1. Base'
      BY <1>2, BasePoll DEF Calls
    <3> QED BY <1>2, <2>2, <3>1, CallsElsewhere
            DEF PollApp, Calls, Base, TypeOK
  <2> QED BY <2>1, <2>2
<1> QED BY <1>1, <1>2

\* ProcessMsg empties the hands of its process.
LEMMA HandsAfter ==
  ASSUME Calls, NEW p \in Procs, Processed(p)
  PROVE  /\ \A x \in Procs : cur'[x] = IF x = p THEN NoCmd ELSE cur[x]
         /\ \A x \in Procs : pc'[x] # "dead" <=> pc[x] # "dead"
         /\ p \in InHand /\ InHand' = InHand \ {p} /\ InHand \subseteq Procs
         /\ cur[p] \in CCmd /\ cur[p] \in InFlight /\ pid[p] \in Nat
         /\ HandKinds'
<1>1. \A x \in Procs : /\ cur'[x] = IF x = p THEN NoCmd ELSE cur[x]
                       /\ pc'[x] = IF x = p THEN "poll" ELSE pc[x]
  BY DEF Processed, Calls, Base, TypeOK
<1>2. p \in InHand /\ InHand' = InHand \ {p} /\ InHand \subseteq Procs
  BY <1>1 DEF InHand, Processed
<1>3. cur[p] \in CCmd /\ cur[p] \in InFlight /\ pid[p] \in Nat
  BY <1>2 DEF InFlight, Processed, Calls, Base, TypeOK, Hands
<1>4. HandKinds'
  BY <1>1, <1>2 DEF HandKinds, Calls, Processed
<1>5. \A x \in Procs : pc'[x] # "dead" <=> pc[x] # "dead"
  BY <1>1 DEF Processed
<1> QED BY <1>1, <1>2, <1>3, <1>4, <1>5

\* A command with a serial number that is answered at once is a nested call,
\* or a client's own request of the first command, and svc_test answers it.
LEMMA WithSerial ==
  ASSUME Calls, NEW p \in Procs, Processed(p), cur[p].type # RESPONSE,
         cur[p].serial # 0
  PROVE  SvcOf[p] = 1 /\ cur[p].cmd = IF cur[p].req = NoReq THEN 2 ELSE 1
<1>1. SvcOf[p] \in 1..2
  BY ContainerAssumption DEF ContainerAssumption
<1>2. /\ Written(SvcOf[p], cur[p])
      /\ SvcOf[p] = 2 => CallNo(cur[p]) = 0
      /\ Known(cur[p])
  BY HandsAfter DEF Calls, HandKinds, Accounted
<1>3. CASE cur[p].req = NoReq
  BY <1>1, <1>2, <1>3 DEF CallNo, Known
<1>4. CASE cur[p].req # NoReq
  <2>1. cur[p].req \in Requests
    BY <1>4, HandsAfter DEF CCmd
  <2>2. SvcOf[p] # 2
    BY <1>2, <1>4, <2>1 DEF Calls, NoSerialForSvcTest2, Written
  <2> QED BY <1>1, <1>2, <1>4, <2>2 DEF Written
<1> QED BY <1>3, <1>4

\* An answer given at once: that to a nested call takes its serial number
\* back to svc_test2, any other leaves for netio.
LEMMA CallsProcessAtOnce ==
  ASSUME Calls, NEW p \in Procs, Processed(p),
         ProcessNoFree(p) \/ ProcessSvcTest(p)
  PROVE  Calls'
<1> DEFINE c == Answer(p)
           r == [c EXCEPT !.type = RESPONSE]
<1>1. Base'
  BY BaseProcessAtOnce DEF Calls
<1>2. Reply(c) /\ UNCHANGED <<stateless, stateful, saved>>
  BY DEF ProcessNoFree, ProcessSvcTest, Answer
<1>3. UNCHANGED <<pid, lastPid>>
  BY DEF Processed
<1>4. c \in CCmd /\ r \in CCmd
  BY HandsAfter, CmdTypes DEF Answer
<1>5. /\ CallNo(r) = CallNo(cur[p]) /\ c.serial = cur[p].serial
      /\ r.serial = cur[p].serial /\ r.req = cur[p].req
      /\ r.origin = cur[p].origin /\ r.cmd = cur[p].cmd /\ c.cmd = cur[p].cmd
      /\ r.type = RESPONSE
  BY HandsAfter DEF Answer, CCmd, CallNo
<1>6. cur[p].type # RESPONSE
  BY DEF ProcessNoFree, ProcessSvcTest
<1>7. Known(cur[p]) /\ Owned(cur[p])
  BY HandsAfter DEF Calls, Accounted
<1>8. CASE cur[p].serial = 0
  <2>1. queue' = queue
    BY <1>2, <1>5, <1>8 DEF Reply
  <2>2. Alone'
    BY <2>1, HandsAfter DEF Calls, Alone, NoCmd, CallNo
  <2>3. QueueKinds'
    BY <2>1 DEF Calls, QueueKinds, Kind
  <2>4. \A d \in InFlight' : d \in InFlight
    BY <2>1, HandsAfter DEF InFlight, InQueues
  <2>5. ASSUME NEW d \in InFlight PROVE Known(d)' /\ Owned(d)'
    BY <1>2, <1>3, HandsAfter, StillAccounted DEF Calls, Accounted
  <2>6. Accounted'
    BY <2>4, <2>5 DEF Accounted
  <2> QED BY <1>1, <2>2, <2>3, <2>6, HandsAfter DEF Calls
<1>9. CASE cur[p].serial # 0
  <2> DEFINE t == AppType(PidOfSerial(c.serial))
  <2>1. PICK k : k = c.cmd
    OBVIOUS
  <2>2. /\ k \in 1..2 /\ t \in Nat /\ t # REQUEST
        /\ t = AppType(PidOfSerial(r.serial))
    <3>1. cur[p].serial \in Nat /\ cur[p].cmd \in 1..2
      BY HandsAfter DEF CCmd
    <3>2. \A x \in Nat : /\ AppType(PidOfSerial(x)) \in Nat
                         /\ AppType(PidOfSerial(x)) # REQUEST
      BY DEF AppType, PidOfSerial, APP, REQUEST
    <3>3. c.serial = r.serial
      BY <1>5
    <3> HIDE DEF c, r
    <3> QED BY <1>5, <2>1, <3>1, <3>2, <3>3
  <2>3. Put(k, t, r)
    BY <1>2, <1>5, <1>9, <2>1 DEF Reply, Put
  <2>4. CallNo(r) # 0 => \A o \in 1..2 : CallNo(r) \notin Serials(queue[o])
    BY <1>5 DEF Calls, Alone
  <2>5. Kind(k, [lType |-> t, body |-> r])
    <3>1. CASE cur[p].req = NoReq
      <4>1. k = 2 /\ CallNo(r) # 0
        BY <1>5, <1>6, <1>9, <2>1, <3>1, WithSerial DEF CallNo
      <4> QED BY <1>5, <2>2, <4>1 DEF Kind
    <3>2. CASE cur[p].req # NoReq
      <4>1. SvcOf[p] = 1 /\ Written(SvcOf[p], cur[p])
        BY <1>6, <1>9, WithSerial, HandsAfter DEF Calls, HandKinds
      <4>2. k = 1 /\ Forged(r)
        BY <1>5, <1>9, <2>1, <3>2, <4>1 DEF Written, Forged
      <4> QED BY <1>5, <2>2, <4>2 DEF Kind
    <3> QED BY <3>1, <3>2
  <2> HIDE DEF t, r, c
  <2>6. /\ \A o \in 1..2 : Distinct(queue'[o])
        /\ \A o \in 1..2 : \A s \in Serials(queue'[o]) :
             s \in Serials(queue[o]) \/ (o = k /\ s = CallNo(r))
        /\ \A o \in 1..2 : \A m \in Elems(queue'[o]) :
             \/ m \in Elems(queue[o])
             \/ o = k /\ m = [lType |-> t, body |-> r]
        /\ \A s \in Serials(queue'[1]) \cap Serials(queue'[2]) : s = 0
    BY <1>4, <2>2, <2>3, <2>4, PutCalls
  <2>7. Alone'
    <3>1. CallNo(r) # 0 => \A x \in Procs \ {p} : CallNo(cur[x]) # CallNo(r)
      BY <1>5 DEF Calls, Alone
    <3>2. CallNo(NoCmd) = 0
      BY DEF CallNo, NoCmd
    <3> QED BY <2>6, <3>1, <3>2, HandsAfter DEF Calls, Alone
  <2>8. QueueKinds'
    <3>1. \A o \in 1..2 : \A m \in Elems(queue'[o]) : Kind(o, m)
      BY <2>5, <2>6 DEF Calls, QueueKinds
    <3> QED BY <3>1 DEF QueueKinds, Kind
  <2>9. PICK d0 : d0 = r
    OBVIOUS
  <2>10. \A d \in InFlight' : d \in InFlight \/ d = d0
    BY <2>6, <2>9, HandsAfter DEF InFlight, InQueues
  <2>11. ASSUME NEW d \in InFlight PROVE Known(d)' /\ Owned(d)'
    BY <1>2, <1>3, HandsAfter, StillAccounted DEF Calls, Accounted
  <2>12. Known(d0) /\ Owned(d0)
    BY <1>5, <1>7, <2>9 DEF Known, Owned
  <2>13. Known(d0)' /\ Owned(d0)'
    BY <1>2, <1>3, <2>12, HandsAfter, StillAccounted
  <2>14. Accounted'
    BY <2>10, <2>11, <2>13 DEF Accounted
  <2> QED BY <1>1, <2>7, <2>8, <2>14, HandsAfter DEF Calls
<1> QED BY <1>8, <1>9

\* A nested call is made under a number that nothing on its way has.
LEMMA CallsProcessSvcTest2 ==
  ASSUME Calls, NEW p \in Procs, Processed(p), ProcessSvcTest2(p)
  PROVE  Calls'
<1> DEFINE h == FirstHandler(p)
           n == NestedCmd(SerialNo(pid[p], h), cur[p].origin)
<1>1. Base'
  BY BaseProcessSvcTest2 DEF Calls
<1>2. h \in stateless[p] /\ h \in Handlers /\ h \notin stateful[p]
  <2>1. stateless[p] \subseteq Handlers /\ stateless[p] # {}
    BY DEF Calls, Base, TypeOK, ProcessSvcTest2
  <2> QED BY <2>1, FirstHandlerFree DEF Calls, Base, HandlersPartition
<1>3. /\ stateful' = [stateful EXCEPT ![p] = stateful[p] \cup {h}]
      /\ saved' = [saved EXCEPT ![p] = [saved[p] EXCEPT ![h] = cur[p]]]
      /\ Put(1, REQUEST, n) /\ UNCHANGED <<pid, lastPid>>
  BY DEF ProcessSvcTest2, Put, Processed
<1>4. /\ SerialNo(pid[p], h) \in Nat /\ SerialNo(pid[p], h) # 0
      /\ pid[p] \in 1..lastPid /\ pc[p] # "dead"
  <2>1. pid[p] \in Nat /\ pid[p] > 0 /\ pid[p] <= lastPid /\ lastPid \in Nat
        /\ pc[p] # "dead"
    BY DEF Calls, Base, TypeOK, Pids, Processed
  <2> QED BY <1>2, <2>1, Numbering
<1>5. n \in CCmd
  <2>1. cur[p].origin \in Requests
    BY HandsAfter DEF CCmd
  <2> QED BY <1>4, <2>1, CmdTypes
<1>6. /\ CallNo(n) = SerialNo(pid[p], h) /\ n.cmd = 2 /\ n.type # RESPONSE
      /\ n.origin = cur[p].origin /\ n.req = NoReq
  BY DEF NestedCmd, RESPONSE, CallNo
<1> HIDE DEF h, n
<1>7. \A d \in InFlight : CallNo(d) # CallNo(n)
  BY <1>2, <1>4, <1>6 DEF Calls, Accounted, Owned
<1>8. \A o \in 1..2 : CallNo(n) \notin Serials(queue[o])
  <2>1. ASSUME NEW o \in 1..2, NEW j \in DOMAIN queue[o]
        PROVE  queue[o][j].body \in InFlight
    BY <2>1 DEF InFlight, InQueues, Elems
  <2> QED BY <1>7, <2>1 DEF Serials
<1>9. \A x \in Procs : CallNo(cur[x]) # CallNo(n)
  <2>1. \A x \in Procs : x \in InHand \/ CallNo(cur[x]) = 0
    BY DEF Calls, Base, Hands, InHand, NoCmd, CallNo
  <2> QED BY <1>4, <1>6, <1>7, <2>1 DEF InFlight
<1>10. /\ \A o \in 1..2 : Distinct(queue'[o])
       /\ \A o \in 1..2 : \A s \in Serials(queue'[o]) :
            s \in Serials(queue[o]) \/ (o = 1 /\ s = CallNo(n))
       /\ \A o \in 1..2 : \A m \in Elems(queue'[o]) :
            \/ m \in Elems(queue[o])
            \/ o = 1 /\ m = [lType |-> REQUEST, body |-> n]
       /\ \A s \in Serials(queue'[1]) \cap Serials(queue'[2]) : s = 0
  BY <1>3, <1>5, <1>8, PutCalls DEF REQUEST
<1>11. Alone'
  BY <1>4, <1>6, <1>9, <1>10, HandsAfter DEF Calls, Alone, NoCmd, CallNo
<1>12. QueueKinds'
  <2>1. \A o \in 1..2 : \A m \in Elems(queue'[o]) : Kind(o, m)
    BY <1>6, <1>10 DEF Calls, QueueKinds, Kind, Written
  <2> QED BY <2>1 DEF QueueKinds, Kind
<1>13. /\ \A x \in Procs : stateful[x] \subseteq stateful'[x]
       /\ h \in stateful'[p] /\ saved'[p][h] = cur[p]
       /\ \A x \in Procs : \A j \in Handlers :
            j \in stateful[x] => saved'[x][j] = saved[x][j]
  BY <1>2, <1>3 DEF Calls, Base, TypeOK
<1>14. ASSUME NEW d \in InFlight PROVE Known(d)' /\ Owned(d)'
  <2>1. Known(d) /\ Owned(d)
    BY DEF Calls, Accounted
  <2> QED BY <1>3, <1>13, <2>1, HandsAfter DEF Known, Owned
<1>15. PICK d0 : d0 = n
  OBVIOUS
<1>16. Known(d0)'
  BY <1>2, <1>3, <1>4, <1>6, <1>15 DEF Known
<1>17. Owned(d0)'
  <2> SUFFICES ASSUME NEW x \in Procs, pc'[x] # "dead", NEW j \in Handlers,
                      CallNo(d0) = SerialNo(pid'[x], j)
               PROVE  j \in stateful'[x] /\ saved'[x][j].origin = d0.origin
    BY DEF Owned
  <2>1. pid[x] \in Nat /\ pid[p] \in Nat /\ pid'[x] = pid[x]
    BY <1>3 DEF Calls, Base, TypeOK
  <2>2. pid[x] = pid[p] /\ j = h
    BY <1>2, <1>6, <1>15, <2>1, NumberingInjective
  <2>3. x = p
    BY <1>4, <2>2 DEF Calls, Base, Pids
  <2> QED BY <1>6, <1>13, <1>15, <2>2, <2>3
<1>18. Accounted'
  <2>1. \A d \in InFlight' : d \in InFlight \/ d = d0
    BY <1>10, <1>15, HandsAfter DEF InFlight, InQueues
  <2> QED BY <1>14, <1>16, <1>17, <2>1 DEF Accounted
<1> QED BY <1>1, <1>11, <1>12, <1>18, HandsAfter DEF Calls

\* The response that resumes a coroutine was the last trace of its call.
LEMMA CallsProcessResponse ==
  ASSUME Calls, NEW p \in Procs, Processed(p), ProcessResponse(p)
  PROVE  Calls'
<1>1. Base'
  BY BaseProcessResponse DEF Calls
<1>2. PICK h \in stateful[p] :
        /\ cur[p].serial = SerialNo(pid[p], h)
        /\ cur[p].type = RESPONSE
        /\ Reply([saved[p][h] EXCEPT !.ret = 0, !.serial = 0,
                                     !.data = Append(cur[p].data, "r2")])
        /\ stateful' = [stateful EXCEPT ![p] = stateful[p] \ {h}]
        /\ saved' = [saved EXCEPT ![p] = [saved[p] EXCEPT ![h] = NoCmd]]
  BY DEF ProcessResponse
<1>3. /\ h \in Handlers /\ pid[p] \in Nat /\ pid[p] > 0
      /\ UNCHANGED <<pid, lastPid>>
  BY DEF Calls, Base, TypeOK, Pids, Processed
<1>4. CallNo(cur[p]) # 0 /\ CallNo(cur[p]) = SerialNo(pid[p], h)
  <2>1. SvcOf[p] # 1
    BY DEF Calls, Base, Idle
  <2>2. CallNo(cur[p]) # 0
    BY <1>2, <2>1, HandsAfter DEF Calls, HandKinds
  <2> QED BY <1>2, <2>2 DEF CallNo
<1>5. queue' = queue
  <2> DEFINE c == [saved[p][h] EXCEPT !.ret = 0, !.serial = 0,
                                      !.data = Append(cur[p].data, "r2")]
  <2>1. saved[p][h] \in CCmd
    BY <1>3 DEF Calls, Base, TypeOK, HandlersPartition
  <2>2. c.serial = 0
    BY <2>1 DEF CCmd
  <2>3. Reply(c)
    BY <1>2
  <2> HIDE DEF c
  <2> QED BY <2>2, <2>3 DEF Reply
<1>6. Alone'
  BY <1>5, HandsAfter DEF Calls, Alone, NoCmd, CallNo
<1>7. QueueKinds'
  BY <1>5 DEF Calls, QueueKinds, Kind
<1>8. \A d \in InFlight' : d \in InFlight /\ CallNo(d) # CallNo(cur[p])
  <2>1. \A o \in 1..2 : CallNo(cur[p]) \notin Serials(queue[o])
    BY <1>4 DEF Calls, Alone
  <2>2. \A m \in InQueues : m.body \in InFlight /\ CallNo(m.body) # CallNo(cur[p])
    BY <2>1 DEF InQueues, InFlight, Elems, Serials
  <2>3. \A x \in InHand \ {p} :
          cur[x] \in InFlight /\ CallNo(cur[x]) # CallNo(cur[p])
    BY <1>4, HandsAfter DEF Calls, Alone, InFlight
  <2> QED BY <1>5, <2>2, <2>3, HandsAfter DEF InFlight, InQueues
<1>9. /\ \A x \in Procs : \A j \in Handlers :
           ~(x = p /\ j = h) =>
             /\ j \in stateful[x] <=> j \in stateful'[x]
             /\ saved'[x][j] = saved[x][j]
  BY <1>2, <1>3 DEF Calls, Base, TypeOK
<1>10. ASSUME NEW d \in InFlight, CallNo(d) # CallNo(cur[p])
       PROVE  Known(d)' /\ Owned(d)'
  <2>1. Known(d) /\ Owned(d)
    BY DEF Calls, Accounted
  <2>2. Known(d)'
    BY <1>3, <2>1 DEF Known
  <2>3. Owned(d)'
    BY <1>2, <1>3, <1>4, <1>9, <1>10, <2>1, HandsAfter DEF Owned
  <2> QED BY <2>2, <2>3
<1>11. Accounted'
  BY <1>8, <1>10 DEF Accounted
<1> QED BY <1>1, <1>6, <1>7, <1>11, HandsAfter DEF Calls

LEMMA CallsNext == Calls /\ [Next]_vars => Calls'
<1> SUFFICES ASSUME Calls, [Next]_vars PROVE Calls'
  OBVIOUS
<1>1. ASSUME NEW r \in Requests, Ask(r) PROVE Calls'
  BY <1>1, CallsAsk
<1>2. CASE Deliver
  BY <1>2, CallsDeliver
<1>3. ASSUME NEW p \in Procs, Start(p) PROVE Calls'
  BY <1>3, CallsStart
<1>4. ASSUME NEW p \in Procs, Crash(p) \/ DispatchAborts(p) PROVE Calls'
  BY <1>4, CallsDie DEF Crash, DispatchAborts
<1>5. ASSUME NEW p \in Procs, PollRequest(p) \/ PollApp(p) PROVE Calls'
  BY <1>5, CallsPoll
<1>6. ASSUME NEW p \in Procs, ProcessMsg(p) PROVE Calls'
  <2>1. Processed(p)
    BY <1>6 DEF ProcessMsg, Processed
  <2> QED
    BY <1>6, <2>1, CallsProcessAtOnce, CallsProcessSvcTest2,
       CallsProcessResponse
    DEF ProcessMsg
<1>7. CASE UNCHANGED vars
  <2>1. Base'
    BY <1>7, BaseNext DEF Calls
  <2> QED BY <1>7, <2>1, CallsElsewhere DEF vars
<1> QED BY <1>1, <1>2, <1>3, <1>4, <1>5, <1>6, <1>7 DEF Next, Loop

\* The assertion in Dispatch: where the clients of the second command write no
\* serial number, a response finds the coroutine it names suspended, whatever
\* crashes and restarts there were, unless it is to a client's own request of
\* the first command and its client wrote the number.
THEOREM RepliesFindHandlers ==
  ASSUME NoSerialForSvcTest2
  PROVE  Spec => []ResponseFindsHandler
BY InitCalls, CallsNext, CallsSafe, PTL DEF Spec

\* A coroutine is resumed by the reply to the request it has saved.
THEOREM RepliesResumeTheirRequests ==
  ASSUME NoSerialForSvcTest2
  PROVE  Spec => []ResumesOwnRequest
BY InitCalls, CallsNext, CallsSafe, PTL DEF Spec

\* A nested call is somewhere: its request or its response.
Called(s) ==
  \/ \E k \in 1..2 : s \in Serials(queue[k])
  \/ \E p \in InHand : CallNo(cur[p]) = s

LEMMA CallsCounted ==
  ASSUME Calls, NEW p \in Procs, pc[p] # "dead", NEW i \in Handlers
  PROVE  /\ NestedCalls(SerialNo(pid[p], i)) <=
              IF i \in stateful[p] THEN 1 ELSE 0
         /\ Called(SerialNo(pid[p], i)) => NestedCalls(SerialNo(pid[p], i)) = 1
<1> DEFINE s == SerialNo(pid[p], i)
           A == {at \in (1..2) \X (1..QCap) :
                   /\ at[2] \in DOMAIN queue[at[1]]
                   /\ IsCall(queue[at[1]][at[2]].body, s)}
           B == {q \in InHand : IsCall(cur[q], s)}
<1>1. s # 0
  <2>1. pid[p] \in Nat /\ pid[p] > 0
    BY DEF Calls, Base, TypeOK, Pids
  <2> QED BY <2>1, Numbering
<1>2. NestedCalls(s) = Cardinality(A) + Cardinality(B)
  BY DEF NestedCalls
<1>3. \A d \in InFlight : CallNo(d) = s => i \in stateful[p]
  BY DEF Calls, Accounted, Owned
<1> HIDE DEF s
<1>0. \A c : IsCall(c, s) <=> CallNo(c) = s
  BY <1>1 DEF IsCall, CallNo
<1>4. Called(s) => A # {} \/ B # {}
  <2>1. ASSUME NEW k \in 1..2, s \in Serials(queue[k])
        PROVE  A # {}
    <3>1. PICK j \in DOMAIN queue[k] : CallNo(queue[k][j].body) = s
      BY <2>1 DEF Serials
    <3>2. j \in 1..QCap
      <4>1. queue[k] \in Seq(Msg) /\ Len(queue[k]) <= QCap /\ QCap \in Nat
        BY QueueTypes, ContainerAssumption DEF ContainerAssumption
      <4>2. j \in 1..Len(queue[k]) /\ Len(queue[k]) \in Nat
        BY <4>1, LenProperties
      <4> QED BY <4>1, <4>2
    <3>3. <<k, j>> \in (1..2) \X (1..QCap)
          /\ <<k, j>>[1] = k /\ <<k, j>>[2] = j
      BY <3>2
    <3>4. <<k, j>> \in A
      BY <1>0, <3>1, <3>3
    <3> QED BY <3>4
  <2>2. ASSUME NEW q \in InHand, CallNo(cur[q]) = s PROVE q \in B
    BY <1>0, <2>2
  <2> QED BY <2>1, <2>2 DEF Called
<1>5. \A a \in A : /\ a[1] \in 1..2 /\ a[2] \in DOMAIN queue[a[1]]
                   /\ CallNo(queue[a[1]][a[2]].body) = s
                   /\ a = <<a[1], a[2]>>
  BY <1>0
<1>6. \A q \in B : q \in InHand /\ q \in Procs /\ CallNo(cur[q]) = s
  BY <1>0 DEF InHand
<1> HIDE DEF A, B
<1>7. \A a \in A : s \in Serials(queue[a[1]]) /\ i \in stateful[p]
  <2> SUFFICES ASSUME NEW a \in A
               PROVE  s \in Serials(queue[a[1]]) /\ i \in stateful[p]
    OBVIOUS
  <2>1. queue[a[1]][a[2]].body \in InFlight
    BY <1>5 DEF InFlight, InQueues, Elems
  <2> QED BY <1>3, <1>5, <2>1 DEF Serials
<1>8. \A q \in B : i \in stateful[p]
  BY <1>3, <1>6 DEF InFlight
<1>9. \A a, b \in A : a = b
  <2> SUFFICES ASSUME NEW a \in A, NEW b \in A PROVE a = b
    OBVIOUS
  <2>1. a[1] = b[1]
    BY <1>1, <1>5, <1>7 DEF Calls, Alone
  <2>2. a[2] = b[2]
    BY <1>1, <1>5, <2>1 DEF Calls, Alone, Distinct
  <2> QED BY <1>5, <2>1, <2>2
<1>10. \A q, r \in B : q = r
  BY <1>1, <1>6 DEF Calls, Alone
<1>11. A = {} \/ B = {}
  BY <1>1, <1>5, <1>6, <1>7 DEF Calls, Alone
<1>12. A = {} \/ \E a : A = {a}
  BY <1>9
<1>13. B = {} \/ \E q : B = {q}
  BY <1>10
<1>14. Cardinality(A) \in {0, 1} /\ (Cardinality(A) = 1 => A # {})
  BY <1>12, FS_EmptySet, FS_Singleton
<1>15. Cardinality(B) \in {0, 1} /\ (Cardinality(B) = 1 => B # {})
  BY <1>13, FS_EmptySet, FS_Singleton
<1>16. i \in stateful[p] \/ (A = {} /\ B = {})
  BY <1>7, <1>8
<1>17. /\ A # {} => Cardinality(A) = 1
       /\ B # {} => Cardinality(B) = 1
  BY <1>12, <1>13, FS_Singleton
<1> QED BY <1>2, <1>11, <1>14, <1>15, <1>16, <1>4, <1>17 DEF s

\* A suspended coroutine has at most one nested call under way, and a handler
\* that is free has none left over from an earlier use.
THEOREM NestedCallsCounted ==
  ASSUME NoSerialForSvcTest2
  PROVE  Spec => []OneNestedCall
<1>1. Calls => OneNestedCall
  BY CallsCounted DEF OneNestedCall
<1> QED BY InitCalls, CallsNext, <1>1, PTL DEF Spec

=============================================================================
