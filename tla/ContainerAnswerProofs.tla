----------------------- MODULE ContainerAnswerProofs -----------------------
(***************************************************************************)
(* Proofs about the answers of the container processes: that they are      *)
(* complete and for the right client, that there is one at most, that the  *)
(* processes with all their coroutines and nested calls implement Service, *)
(* and that none is lost where processes live and queues hold all requests.*)
(***************************************************************************)
EXTENDS ContainerProofs

-----------------------------------------------------------------------------
(* What the commands say.                                                  *)

\* A client's command is for the client it works for, and is where the
\* commands of its service go; a nested call has a serial number and no error,
\* and its response carries svc_test's part.
Worded(k, c) ==
  IF c.req = NoReq
  THEN /\ c.serial # 0 /\ c.ret = 0
       /\ c.type = RESPONSE => c.data = <<"r1">>
  ELSE c.req = c.origin /\ CmdOf[c.origin] = k

Contents ==
  /\ \A k \in 1..2 : \A m \in Elems(queue[k]) : Worded(k, m.body)
  /\ \A p \in InHand : Worded(SvcOf[p], cur[p])
  /\ \A p \in Procs : \A i \in stateful[p] :
       saved[p][i].req = saved[p][i].origin /\ CmdOf[saved[p][i].origin] = 2
  /\ AnswerIsComplete

Answers == Calls /\ Contents

LEMMA PutElems ==
  ASSUME NEW q \in Seq(Msg), Len(q) <= QCap, NEW t \in Nat, NEW c \in CCmd
  PROVE  \A m \in Elems(PutMsg(q, t, c)) :
           m \in Elems(q) \/ m = [lType |-> t, body |-> c]
<1> DEFINE n == PutMsg(q, t, c)
<1>1. \A j \in DOMAIN n : \/ j \in DOMAIN q /\ n[j] = q[j]
                          \/ j = Len(q) + 1 /\ n[j] = [lType |-> t, body |-> c]
  BY PutMsgProperties
<1> HIDE DEF n
<1>2. \A m \in Elems(n) : m \in Elems(q) \/ m = [lType |-> t, body |-> c]
  BY <1>1 DEF Elems
<1> QED BY <1>2 DEF n

LEMMA PutQueueElems ==
  ASSUME TypeOK, NEW k \in 1..2, NEW t \in Nat, NEW c \in CCmd, Put(k, t, c)
  PROVE  \A o \in 1..2 : \A m \in Elems(queue'[o]) :
           m \in Elems(queue[o]) \/ (o = k /\ m = [lType |-> t, body |-> c])
<1>1. queue[k] \in Seq(Msg) /\ Len(queue[k]) <= QCap
  BY DEF TypeOK
<1>2. \A m \in Elems(PutMsg(queue[k], t, c)) :
        m \in Elems(queue[k]) \/ m = [lType |-> t, body |-> c]
  BY <1>1, PutElems
<1>3. \A o \in 1..2 :
        queue'[o] = IF o = k THEN PutMsg(queue[k], t, c) ELSE queue[o]
  BY DEF Put, TypeOK
<1> QED BY <1>2, <1>3

LEMMA InitAnswers == NoSerialForSvcTest2 /\ Init => Answers
<1> SUFFICES ASSUME NoSerialForSvcTest2, Init PROVE Answers
  OBVIOUS
<1>1. /\ \A k \in 1..2 : Elems(queue[k]) = {}
      /\ Elems(backQ) = {}
      /\ InHand = {} /\ \A p \in Procs : stateful[p] = {}
  BY DEF Init, Elems, InHand
<1>2. Contents
  BY <1>1 DEF Contents, AnswerIsComplete
<1> QED BY <1>2, InitCalls DEF Answers

LEMMA ContentsAsk ==
  ASSUME Answers, NEW r \in Requests, Ask(r)
  PROVE  Contents'
<1>1. CmdOf[r] \in 1..2 /\ REQUEST \in Nat /\ r # NoReq
  BY ContainerAssumption DEF ContainerAssumption, REQUEST
<1>2. PICK sn \in SerialsOf[r], rn \in RetsOf[r] :
        /\ Put(CmdOf[r], REQUEST, ClientCmd(r, sn, rn))
        /\ ClientCmd(r, sn, rn) \in CCmd
  BY AskPuts
<1> DEFINE c == ClientCmd(r, sn, rn)
<1>3. Put(CmdOf[r], REQUEST, c) /\ c \in CCmd
  BY <1>2
<1>4. Worded(CmdOf[r], c)
  BY <1>1 DEF ClientCmd, Worded
<1> HIDE DEF c
<1>5. \A o \in 1..2 : \A m \in Elems(queue'[o]) :
        m \in Elems(queue[o]) \/ (o = CmdOf[r] /\ m.body = c)
  BY <1>1, <1>3, PutQueueElems DEF Answers, Calls, Base
<1>6. \A o \in 1..2 : \A m \in Elems(queue'[o]) : Worded(o, m.body)
  BY <1>4, <1>5 DEF Answers, Contents
<1>7. UNCHANGED <<backQ, pid, lastPid, pc, cur, stateless, stateful, saved>>
  BY DEF Ask, procVars
<1> QED BY <1>6, <1>7
        DEF Answers, Contents, Worded, InHand, AnswerIsComplete

LEMMA ContentsDeliver ==
  ASSUME Answers, Deliver
  PROVE  Contents'
<1>1. backQ \in Seq(Msg) /\ backQ # <<>> /\ backQ' = Tail(backQ)
  BY DEF Deliver, Answers, Calls, Base, TypeOK
<1>2. /\ Tail(backQ) \in Seq(Msg) /\ Len(Tail(backQ)) = Len(backQ) - 1
      /\ \A j \in 1..Len(Tail(backQ)) : Tail(backQ)[j] = backQ[j + 1]
  BY <1>1, HeadTailProperties
<1>3. DOMAIN backQ = 1..Len(backQ) /\ Len(backQ) \in Nat
      /\ DOMAIN Tail(backQ) = 1..(Len(backQ) - 1)
  BY <1>1, <1>2, LenProperties
<1>4. \A j \in DOMAIN backQ' :
        j + 1 \in DOMAIN backQ /\ backQ'[j] = backQ[j + 1]
  BY <1>1, <1>2, <1>3
<1>5. Elems(backQ') \subseteq Elems(backQ)
  BY <1>4 DEF Elems
<1>6. UNCHANGED <<queue, pid, lastPid, pc, cur, stateless, stateful, saved>>
  BY DEF Deliver, procVars
<1> QED BY <1>5, <1>6
        DEF Answers, Contents, Worded, InHand, AnswerIsComplete

LEMMA ContentsStart ==
  ASSUME Answers, NEW p \in Procs, Start(p)
  PROVE  Contents'
<1>1. InHand' = InHand /\ UNCHANGED <<queue, backQ, cur, stateful, saved>>
  BY DEF Start, InHand, Answers, Calls, Base, TypeOK
<1> QED BY <1>1 DEF Answers, Contents, Worded, AnswerIsComplete

LEMMA ContentsDie ==
  ASSUME Answers, NEW p \in Procs, Die(p)
  PROVE  Contents'
<1>1. /\ InHand' = InHand \ {p} /\ InHand \subseteq Procs
      /\ UNCHANGED <<queue, backQ>>
      /\ \A q \in Procs : IF q = p THEN stateful'[q] = {}
                          ELSE /\ stateful'[q] = stateful[q]
                               /\ saved'[q] = saved[q] /\ cur'[q] = cur[q]
  BY DEF Die, InHand, Answers, Calls, Base, TypeOK
<1> QED BY <1>1 DEF Answers, Contents, Worded, AnswerIsComplete

LEMMA ContentsTake ==
  ASSUME Answers, NEW p \in Procs, NEW t, Take(p, t), pc[p] # "dead",
         UNCHANGED <<client, backQ, pid, lastPid, stateless, stateful, saved>>
  PROVE  Contents'
<1> DEFINE k == SvcOf[p]
           q == queue[k]
           i == First(q, t)
<1>1. k \in 1..2
  BY ContainerAssumption DEF ContainerAssumption
<1>2. q \in Seq(Msg) /\ Distinct(q)
  BY <1>1, QueueTypes DEF Answers
<1>3. i \in DOMAIN q
  BY <1>2, FirstProperties DEF Take
<1>4. q[i] \in Elems(q) /\ Elems(RemoveAt(q, i)) \subseteq Elems(q)
  BY <1>2, <1>3, QueueElement, RemoveKeepsDistinct
<1>5. /\ \A o \in 1..2 :
           queue'[o] = IF o = k THEN RemoveAt(q, i) ELSE queue[o]
      /\ cur' = [cur EXCEPT ![p] = q[i].body]
      /\ pc' = [pc EXCEPT ![p] = "busy"]
  BY DEF Take, Answers, Calls, Base, TypeOK
<1>6. \A o \in 1..2 : Elems(queue'[o]) \subseteq Elems(queue[o])
  BY <1>4, <1>5
<1>7. Worded(k, q[i].body)
  BY <1>1, <1>4 DEF Answers, Contents
<1> DEFINE c == q[i].body
<1>8. cur' = [cur EXCEPT ![p] = c] /\ Worded(k, c)
  BY <1>5, <1>7
<1> HIDE DEF c, i, q
<1>9. \A x \in InHand' : /\ x \in Procs
                         /\ \/ x = p /\ cur'[x] = c
                            \/ x \in InHand /\ cur'[x] = cur[x]
  BY <1>5, <1>8 DEF InHand, Answers, Calls, Base, TypeOK
<1>10. \A x \in InHand' : Worded(SvcOf[x], cur'[x])
  BY <1>8, <1>9 DEF Answers, Contents
<1> HIDE DEF k
<1> QED BY <1>6, <1>10 DEF Answers, Contents, Worded, AnswerIsComplete

LEMMA ContentsPoll ==
  ASSUME Answers, NEW p \in Procs, PollRequest(p) \/ PollApp(p)
  PROVE  Contents'
<1>1. CASE Take(p, REQUEST) /\ PollRequest(p)
  BY <1>1, ContentsTake DEF PollRequest
<1>2. CASE Take(p, AppType(pid[p])) /\ PollApp(p)
  BY <1>2, ContentsTake DEF PollApp
<1>3. CASE ~(Take(p, REQUEST) /\ PollRequest(p))
           /\ ~(Take(p, AppType(pid[p])) /\ PollApp(p))
  <2>1. /\ UNCHANGED <<queue, backQ, cur, stateful, saved>>
        /\ InHand' = InHand
    BY <1>3 DEF PollRequest, PollApp, InHand, Answers, Calls, Base, TypeOK
  <2> QED BY <2>1 DEF Answers, Contents, Worded, AnswerIsComplete
<1> QED BY <1>1, <1>2, <1>3

\* A message sent back to netio that is complete.
LEMMA PutBack ==
  ASSUME Answers, NEW c \in CCmd, backQ' = PutMsg(backQ, RESPONSE, c),
         c.req = c.origin,
         c.ret = 0 => c.data = IF CmdOf[c.req] = 1 THEN <<"r1">>
                                                   ELSE <<"r1", "r2">>
  PROVE  AnswerIsComplete'
<1>1. backQ \in Seq(Msg) /\ Len(backQ) <= QCap /\ RESPONSE \in Nat
  BY DEF Answers, Calls, Base, TypeOK, RESPONSE
<1>2. \A m \in Elems(backQ') :
        m \in Elems(backQ) \/ m = [lType |-> RESPONSE, body |-> c]
  BY <1>1, PutElems
<1>3. \A m \in Elems(backQ') : m \in Elems(backQ) \/ m.body = c
  BY <1>2
<1> QED BY <1>3 DEF Answers, Contents, AnswerIsComplete

\* svc_test never runs out of handlers.
LEMMA SvcTestIsFree ==
  ASSUME Answers, NEW p \in Procs, pc[p] # "dead", SvcOf[p] = 1
  PROVE  stateless[p] # {}
<1>1. stateless[p] \cup stateful[p] = Handlers /\ stateful[p] = {}
  BY DEF Answers, Calls, Base, HandlersPartition, Idle
<1>2. 0 \in Handlers
  BY ContainerAssumption DEF ContainerAssumption, Handlers
<1> QED BY <1>1, <1>2

LEMMA ContentsProcessAtOnce ==
  ASSUME Answers, NEW p \in Procs, Processed(p),
         ProcessNoFree(p) \/ ProcessSvcTest(p)
  PROVE  Contents'
<1> DEFINE c == Answer(p)
           r == [c EXCEPT !.type = RESPONSE]
<1>1. /\ Reply(c) /\ UNCHANGED <<stateless, stateful, saved>>
      /\ cur[p].type # RESPONSE
      /\ stateless[p] = {} \/ SvcOf[p] = 1
  BY DEF ProcessNoFree, ProcessSvcTest, Answer
<1>2. c \in CCmd /\ r \in CCmd
  BY HandsAfter, CmdTypes DEF Answer, Answers
<1>3. cur[p] \in CCmd /\ p \in InHand
  BY HandsAfter DEF Answers
<1>4. /\ r.serial = cur[p].serial /\ c.serial = cur[p].serial
      /\ r.req = cur[p].req /\ r.origin = cur[p].origin
      /\ r.cmd = cur[p].cmd /\ c.cmd = cur[p].cmd
      /\ r.type = RESPONSE
  BY <1>3 DEF Answer, CCmd
<1>5. IF stateless[p] = {} THEN r.ret = NO_FREE_SVC_HANDLER
      ELSE /\ r.ret = cur[p].ret
           /\ cur[p].ret = 0 => r.data = <<"r1">>
  BY <1>3 DEF Answer, CCmd
<1>6. SvcOf[p] = 1 => stateless[p] # {}
  BY SvcTestIsFree DEF Processed
<1>7. Worded(SvcOf[p], cur[p])
  BY <1>3 DEF Answers, Contents
<1>8. \A x \in InHand' : x \in InHand /\ cur'[x] = cur[x]
  BY HandsAfter DEF Answers
<1>9. CASE cur[p].serial = 0
  <2>1. queue' = queue /\ backQ' = PutMsg(backQ, RESPONSE, r)
    BY <1>1, <1>4, <1>9 DEF Reply
  <2>2. r.req = r.origin /\ CmdOf[r.req] = SvcOf[p]
    BY <1>4, <1>7, <1>9 DEF Worded
  <2>3. r.ret = 0 => r.data = <<"r1">> /\ CmdOf[r.req] = 1
    BY <1>1, <1>5, <2>2 DEF NO_FREE_SVC_HANDLER
  <2> HIDE DEF r, c
  <2>4. AnswerIsComplete'
    BY <1>2, <2>1, <2>2, <2>3, PutBack
  <2> QED BY <1>1, <1>8, <2>1, <2>4 DEF Answers, Contents, Worded
<1>10. CASE cur[p].serial # 0
  <2> DEFINE t == AppType(PidOfSerial(c.serial))
  <2>1. PICK k : k = c.cmd
    OBVIOUS
  <2>2. /\ SvcOf[p] = 1 /\ k \in 1..2
        /\ k = IF cur[p].req = NoReq THEN 2 ELSE 1
    BY <1>1, <1>4, <1>10, <2>1, WithSerial DEF Answers
  <2>3. t \in Nat
    <3>1. c.serial \in Nat
      BY <1>3, <1>4 DEF CCmd
    <3> QED BY <3>1 DEF AppType, PidOfSerial, APP
  <2>4. Put(k, t, r) /\ backQ' = backQ
    BY <1>1, <1>4, <1>10, <2>1 DEF Reply, Put
  <2>5. Worded(k, r)
    BY <1>4, <1>5, <1>6, <1>7, <2>2 DEF Worded
  <2> HIDE DEF t, r, c
  <2>6. \A o \in 1..2 : \A m \in Elems(queue'[o]) :
          m \in Elems(queue[o]) \/ (o = k /\ m.body = r)
    BY <1>2, <2>2, <2>3, <2>4, PutQueueElems DEF Answers, Calls, Base
  <2>7. \A o \in 1..2 : \A m \in Elems(queue'[o]) : Worded(o, m.body)
    BY <2>5, <2>6 DEF Answers, Contents
  <2> QED BY <1>1, <1>8, <2>4, <2>7
          DEF Answers, Contents, Worded, AnswerIsComplete
<1> QED BY <1>9, <1>10

LEMMA ContentsProcessSvcTest2 ==
  ASSUME Answers, NEW p \in Procs, Processed(p), ProcessSvcTest2(p)
  PROVE  Contents'
<1> DEFINE h == FirstHandler(p)
           n == NestedCmd(SerialNo(pid[p], h), cur[p].origin)
<1>1. h \in Handlers
  <2>1. stateless[p] \subseteq Handlers /\ stateless[p] # {}
    BY DEF Answers, Calls, Base, TypeOK, ProcessSvcTest2
  <2> QED BY <2>1, FirstHandlerFree
<1>2. /\ stateful' = [stateful EXCEPT ![p] = stateful[p] \cup {h}]
      /\ saved' = [saved EXCEPT ![p] = [saved[p] EXCEPT ![h] = cur[p]]]
      /\ Put(1, REQUEST, n) /\ backQ' = backQ
      /\ SvcOf[p] = 2 /\ cur[p].type # RESPONSE
  BY DEF ProcessSvcTest2, Put
<1>3. cur[p] \in CCmd /\ p \in InHand
  BY HandsAfter DEF Answers
<1>4. SerialNo(pid[p], h) \in Nat /\ SerialNo(pid[p], h) # 0
  <2>1. pid[p] \in Nat /\ pid[p] > 0
    BY DEF Answers, Calls, Base, TypeOK, Pids, Processed
  <2> QED BY <1>1, <2>1, Numbering
<1>5. n \in CCmd
  <2>1. cur[p].origin \in Requests
    BY <1>3 DEF CCmd
  <2> QED BY <1>4, <2>1, CmdTypes
<1>6. Worded(1, n)
  BY <1>4 DEF NestedCmd, Worded, RESPONSE
<1> HIDE DEF h, n
<1>7. CallNo(cur[p]) = 0 /\ Worded(SvcOf[p], cur[p])
  BY <1>2, <1>3 DEF Answers, Calls, HandKinds, Contents
<1>8. cur[p].req = cur[p].origin /\ CmdOf[cur[p].origin] = 2
  BY <1>2, <1>7 DEF CallNo, Worded
<1>9. \A o \in 1..2 : \A m \in Elems(queue'[o]) :
        m \in Elems(queue[o]) \/ (o = 1 /\ m.body = n)
  BY <1>2, <1>5, PutQueueElems DEF Answers, Calls, Base, REQUEST
<1>10. \A o \in 1..2 : \A m \in Elems(queue'[o]) : Worded(o, m.body)
  BY <1>6, <1>9 DEF Answers, Contents
<1>11. \A x \in InHand' : x \in InHand /\ cur'[x] = cur[x]
  BY HandsAfter DEF Answers
<1>12. \A x \in Procs : \A j \in stateful'[x] :
         \/ x = p /\ j = h /\ saved'[x][j] = cur[p]
         \/ j \in stateful[x] /\ saved'[x][j] = saved[x][j]
  BY <1>1, <1>2 DEF Answers, Calls, Base, TypeOK
<1>13. \A x \in Procs : \A j \in stateful'[x] :
         /\ saved'[x][j].req = saved'[x][j].origin
         /\ CmdOf[saved'[x][j].origin] = 2
  BY <1>8, <1>12 DEF Answers, Contents
<1> QED BY <1>2, <1>10, <1>11, <1>13
        DEF Answers, Contents, Worded, AnswerIsComplete

LEMMA BothParts == Append(<<"r1">>, "r2") = <<"r1", "r2">>
<1> DEFINE P == {"r1", "r2"}
           a == <<"r1">>
           b == Append(a, "r2")
           c == <<"r1", "r2">>
<1>1. a \in Seq(P) /\ Len(a) = 1 /\ a[1] = "r1"
  OBVIOUS
<1>2. b \in Seq(P) /\ Len(b) = 2 /\ b[1] = "r1" /\ b[2] = "r2"
  BY <1>1, AppendProperties
<1>3. c \in Seq(P) /\ Len(c) = 2 /\ c[1] = "r1" /\ c[2] = "r2"
  OBVIOUS
<1> HIDE DEF a, b, c
<1>4. b = c
  BY <1>2, <1>3, SeqEqual
<1> QED BY <1>4 DEF a, b, c

LEMMA ContentsProcessResponse ==
  ASSUME Answers, NEW p \in Procs, Processed(p), ProcessResponse(p)
  PROVE  Contents'
<1>1. PICK h \in stateful[p] :
        /\ cur[p].type = RESPONSE
        /\ Reply([saved[p][h] EXCEPT !.ret = 0, !.serial = 0,
                                     !.data = Append(cur[p].data, "r2")])
        /\ stateful' = [stateful EXCEPT ![p] = stateful[p] \ {h}]
        /\ saved' = [saved EXCEPT ![p] = [saved[p] EXCEPT ![h] = NoCmd]]
  BY DEF ProcessResponse
<1> DEFINE c == [saved[p][h] EXCEPT !.ret = 0, !.serial = 0,
                                    !.data = Append(cur[p].data, "r2")]
           r == [c EXCEPT !.type = RESPONSE]
<1>2. h \in Handlers /\ saved[p][h] \in CCmd /\ p \in InHand
  BY HandsAfter DEF Answers, Calls, Base, TypeOK, HandlersPartition
<1>3. cur[p].data = <<"r1">>
  <2>1. SvcOf[p] # 1
    BY DEF Answers, Calls, Base, Idle
  <2>2. CallNo(cur[p]) # 0 /\ Worded(SvcOf[p], cur[p])
    BY <1>1, <1>2, <2>1 DEF Answers, Calls, HandKinds, Contents
  <2> QED BY <1>1, <2>2 DEF CallNo, Worded
<1>4. c \in CCmd /\ r \in CCmd
  BY ResumedTypes, CmdTypes DEF Answers, Calls, Processed
<1>5. Reply(c)
  BY <1>1
<1>6. /\ c.serial = 0
      /\ r.req = saved[p][h].req /\ r.origin = saved[p][h].origin
      /\ r.data = Append(cur[p].data, "r2")
  BY <1>2 DEF CCmd
<1>7. r.data = <<"r1", "r2">>
  BY <1>3, <1>6, BothParts, Zenon
<1>8. r.req = r.origin /\ CmdOf[r.req] = 2
  BY <1>6 DEF Answers, Contents
<1>9. queue' = queue /\ backQ' = PutMsg(backQ, RESPONSE, r)
  BY <1>5, <1>6 DEF Reply
<1> HIDE DEF r, c
<1>10. AnswerIsComplete'
  BY <1>4, <1>7, <1>8, <1>9, PutBack
<1>11. \A x \in InHand' : x \in InHand /\ cur'[x] = cur[x]
  BY HandsAfter DEF Answers
<1>12. \A x \in Procs : \A j \in stateful'[x] :
         j \in stateful[x] /\ saved'[x][j] = saved[x][j]
  BY <1>1, <1>2 DEF Answers, Calls, Base, TypeOK
<1> QED BY <1>9, <1>10, <1>11, <1>12 DEF Answers, Contents, Worded

LEMMA AnswersNext == Answers /\ [Next]_vars => Answers'
<1> SUFFICES ASSUME Answers, [Next]_vars PROVE Contents'
  BY CallsNext DEF Answers
<1>1. ASSUME NEW r \in Requests, Ask(r) PROVE Contents'
  BY <1>1, ContentsAsk
<1>2. CASE Deliver
  BY <1>2, ContentsDeliver
<1>3. ASSUME NEW p \in Procs, Start(p) PROVE Contents'
  BY <1>3, ContentsStart
<1>4. ASSUME NEW p \in Procs, Crash(p) \/ DispatchAborts(p) PROVE Contents'
  BY <1>4, ContentsDie DEF Crash, DispatchAborts
<1>5. ASSUME NEW p \in Procs, PollRequest(p) \/ PollApp(p) PROVE Contents'
  BY <1>5, ContentsPoll
<1>6. ASSUME NEW p \in Procs, ProcessMsg(p) PROVE Contents'
  <2>1. Processed(p)
    BY <1>6 DEF ProcessMsg, Processed
  <2> QED
    BY <1>6, <2>1, ContentsProcessAtOnce, ContentsProcessSvcTest2,
       ContentsProcessResponse
    DEF ProcessMsg
<1>7. CASE UNCHANGED vars
  BY <1>7 DEF vars, Answers, Contents, Worded, InHand, AnswerIsComplete
<1> QED BY <1>1, <1>2, <1>3, <1>4, <1>5, <1>6, <1>7 DEF Next, Loop

\* What netio is given to send is for the client it was computed for, and a
\* success carries what every service on the way contributed, where the
\* clients of the second command write no serial number.
THEOREM AnswersComplete ==
  ASSUME NoSerialForSvcTest2
  PROVE  Spec => []AnswerIsComplete
<1>1. Answers => AnswerIsComplete
  BY DEF Answers, Contents
<1> QED BY InitAnswers, AnswersNext, <1>1, PTL DEF Spec

-----------------------------------------------------------------------------
(* Where a client request is.                                              *)

In(q, r) == \E j \in DOMAIN q : q[j].body.req = r
Held(c, H, r) == \E p \in H : c[p].req = r
Kept(s, r) == \E p \in Procs : \E i \in Handlers : s[p][i].req = r

Single(q) ==
  \A r \in Requests : \A i, j \in DOMAIN q :
    q[i].body.req = r /\ q[j].body.req = r => i = j

\* In none of the kinds of places a request is twice.
Singles ==
  /\ \A k \in 1..2 : Single(queue[k])
  /\ Single(backQ)
  /\ \A p, q \in InHand :
       cur[p].req \in Requests /\ cur[p].req = cur[q].req => p = q
  /\ \A p, q \in Procs : \A i, j \in Handlers :
       saved[p][i].req \in Requests /\ saved[p][i].req = saved[q][j].req =>
         p = q /\ i = j

\* Nor is it in two of them, and it is in one only while its client waits.
Apart ==
  \A r \in Requests :
    /\ In(queue[1], r) => ~In(queue[2], r)
    /\ \A k \in 1..2 :
         In(queue[k], r) => ~In(backQ, r) /\ ~Held(cur, InHand, r)
    /\ In(backQ, r) => ~Held(cur, InHand, r)
    /\ Kept(saved, r) =>
         /\ ~In(queue[1], r) /\ ~In(queue[2], r) /\ ~In(backQ, r)
         /\ ~Held(cur, InHand, r)
    /\ \/ \E k \in 1..2 : In(queue[k], r)
       \/ In(backQ, r)
       \/ Held(cur, InHand, r)
       \/ Kept(saved, r)
       => client[r] = "waiting"

OnePlace == Base /\ Singles /\ Apart

LEMMA PutSingle ==
  ASSUME NEW q \in Seq(Msg), Len(q) <= QCap, NEW t \in Nat, NEW c \in CCmd,
         Single(q), c.req \in Requests => ~In(q, c.req)
  PROVE  /\ Single(PutMsg(q, t, c))
         /\ \A r \in Requests : In(PutMsg(q, t, c), r) => In(q, r) \/ r = c.req
<1> DEFINE n == PutMsg(q, t, c)
<1>1. \A j \in DOMAIN n : \/ j \in DOMAIN q /\ n[j] = q[j]
                          \/ j = Len(q) + 1 /\ n[j] = [lType |-> t, body |-> c]
  BY PutMsgProperties
<1> HIDE DEF n
<1>2. \A j \in DOMAIN n : \/ j \in DOMAIN q /\ n[j] = q[j]
                          \/ j = Len(q) + 1 /\ n[j].body.req = c.req
  BY <1>1
<1>3. Single(n)
  <2> SUFFICES ASSUME NEW r \in Requests, NEW i \in DOMAIN n, NEW j \in DOMAIN n,
                      n[i].body.req = r, n[j].body.req = r
               PROVE  i = j
    BY DEF Single
  <2> QED BY <1>2 DEF Single, In
<1>4. \A r \in Requests : In(n, r) => In(q, r) \/ r = c.req
  BY <1>2 DEF In
<1> QED BY <1>3, <1>4 DEF n

LEMMA RemoveSingle ==
  ASSUME NEW q \in Seq(Msg), NEW i \in DOMAIN q, Single(q)
  PROVE  /\ Single(RemoveAt(q, i))
         /\ \A r \in Requests : In(RemoveAt(q, i), r) =>
              In(q, r) /\ r # q[i].body.req
<1> DEFINE n == RemoveAt(q, i)
           at(j) == IF j < i THEN j ELSE j + 1
<1>1. i \in Nat
  BY LenProperties
<1>2. ASSUME NEW j \in DOMAIN n
      PROVE  /\ j \in Nat /\ at(j) \in DOMAIN q /\ n[j] = q[at(j)]
             /\ at(j) # i
  <2>1. /\ j \in Nat
        /\ j < i => j \in DOMAIN q /\ n[j] = q[j]
        /\ j >= i => j + 1 \in DOMAIN q /\ n[j] = q[j + 1]
    BY RemoveAtProperties
  <2> HIDE DEF n
  <2> QED BY <1>1, <2>1
<1>3. \A j, k \in DOMAIN n : at(j) = at(k) => j = k
  BY <1>1, <1>2
<1> HIDE DEF n, at
<1>4. Single(n)
  BY <1>2, <1>3 DEF Single
<1>5. \A r \in Requests : In(n, r) => In(q, r) /\ r # q[i].body.req
  BY <1>2 DEF Single, In
<1> QED BY <1>4, <1>5 DEF n

\* What a send leaves in the queues, x being the client it is about.
Sent(x) ==
  /\ \A k \in 1..2 : Single(queue'[k])
  /\ Single(backQ')
  /\ \A r \in Requests :
       /\ In(queue'[1], r) => ~In(queue'[2], r)
       /\ \A k \in 1..2 : In(queue'[k], r) => ~In(backQ', r)
       /\ \A k \in 1..2 : In(queue'[k], r) => In(queue[k], r) \/ r = x
       /\ In(backQ', r) => In(backQ, r) \/ r = x

Unsent(x) ==
  x \in Requests => ~In(queue[1], x) /\ ~In(queue[2], x) /\ ~In(backQ, x)

LEMMA PutSent ==
  ASSUME OnePlace, NEW k \in 1..2, NEW t \in Nat, NEW c \in CCmd, Put(k, t, c),
         backQ' = backQ, Unsent(c.req)
  PROVE  Sent(c.req)
<1> DEFINE n == PutMsg(queue[k], t, c)
<1>1. /\ queue[k] \in Seq(Msg) /\ Len(queue[k]) <= QCap /\ Single(queue[k])
      /\ c.req \in Requests => ~In(queue[k], c.req)
  BY DEF OnePlace, Base, TypeOK, Singles, Unsent
<1>2. /\ Single(n)
      /\ \A r \in Requests : In(n, r) => In(queue[k], r) \/ r = c.req
  BY <1>1, PutSingle
<1>3. \A o \in 1..2 : queue'[o] = IF o = k THEN n ELSE queue[o]
  BY DEF Put, OnePlace, Base, TypeOK
<1> HIDE DEF n
<1>4. \A o \in 1..2 : Single(queue'[o])
  BY <1>2, <1>3 DEF OnePlace, Singles
<1>5. \A r \in Requests : \A o \in 1..2 :
        In(queue'[o], r) => In(queue[o], r) \/ (o = k /\ r = c.req)
  BY <1>2, <1>3
<1>6. \A r \in Requests :
        /\ In(queue'[1], r) => ~In(queue'[2], r)
        /\ \A o \in 1..2 : In(queue'[o], r) => ~In(backQ, r)
  BY <1>5 DEF OnePlace, Apart, Unsent
<1> QED BY <1>4, <1>5, <1>6 DEF Sent, OnePlace, Singles

LEMMA ReplySent ==
  ASSUME OnePlace, NEW c \in CCmd, Reply(c), Unsent(c.req)
  PROVE  Sent(c.req)
<1> DEFINE r == [c EXCEPT !.type = RESPONSE]
<1>1. r \in CCmd /\ r.req = c.req
  BY CmdTypes DEF CCmd
<1>2. c.cmd \in 1..2 /\ c.serial \in Nat /\ RESPONSE \in Nat
  BY DEF CCmd, RESPONSE
<1>3. CASE c.serial # 0
  <2>1. AppType(PidOfSerial(c.serial)) \in Nat
    BY <1>2 DEF AppType, PidOfSerial, APP
  <2>2. Put(c.cmd, AppType(PidOfSerial(c.serial)), r) /\ backQ' = backQ
    BY <1>3 DEF Reply, Put
  <2>3. Unsent(r.req)
    BY <1>1
  <2> HIDE DEF r
  <2>4. Sent(r.req)
    BY <1>1, <1>2, <2>1, <2>2, <2>3, PutSent
  <2> QED BY <1>1, <2>4
<1>4. CASE c.serial = 0
  <2>1. backQ' = PutMsg(backQ, RESPONSE, r) /\ queue' = queue
    BY <1>4 DEF Reply
  <2>2. /\ backQ \in Seq(Msg) /\ Len(backQ) <= QCap /\ Single(backQ)
        /\ r.req \in Requests => ~In(backQ, r.req)
    BY <1>1 DEF OnePlace, Base, TypeOK, Singles, Unsent
  <2> HIDE DEF r
  <2>3. /\ Single(backQ')
        /\ \A x \in Requests : In(backQ', x) => In(backQ, x) \/ x = r.req
    BY <1>1, <1>2, <2>1, <2>2, PutSingle
  <2>4. \A x \in Requests :
          /\ In(queue[1], x) => ~In(queue[2], x)
          /\ \A o \in 1..2 : In(queue[o], x) => ~In(backQ', x)
    BY <1>1, <2>3 DEF OnePlace, Apart, Unsent
  <2> QED BY <1>1, <2>1, <2>3, <2>4 DEF Sent, OnePlace, Singles
<1> QED BY <1>3, <1>4

LEMMA InitOnePlace == Init => OnePlace
<1> SUFFICES ASSUME Init PROVE OnePlace
  OBVIOUS
<1>1. /\ \A k \in 1..2 : queue[k] = <<>>
      /\ backQ = <<>> /\ DOMAIN <<>> = {}
      /\ InHand = {}
      /\ \A p \in Procs : \A i \in Handlers : saved[p][i].req = NoReq
  BY DEF Init, InHand, NoCmd
<1>2. NoReq \notin Requests
  BY ContainerAssumption DEF ContainerAssumption
<1>3. Singles
  BY <1>1, <1>2 DEF Singles, Single
<1>4. Apart
  BY <1>1, <1>2 DEF Apart, In, Held, Kept
<1> QED BY <1>3, <1>4, InitBase DEF OnePlace

LEMMA OnePlaceAsk ==
  ASSUME OnePlace, NEW r \in Requests, Ask(r)
  PROVE  OnePlace'
<1>1. CmdOf[r] \in 1..2 /\ REQUEST \in Nat
  BY ContainerAssumption DEF ContainerAssumption, REQUEST
<1>2. PICK c \in CCmd : /\ Put(CmdOf[r], REQUEST, c) /\ c.req = r
                       /\ backQ' = backQ
  <2>1. PICK sn \in SerialsOf[r], rn \in RetsOf[r] :
          /\ Put(CmdOf[r], REQUEST, ClientCmd(r, sn, rn))
          /\ ClientCmd(r, sn, rn) \in CCmd
    BY AskPuts
  <2>2. ClientCmd(r, sn, rn).req = r /\ backQ' = backQ
    BY DEF ClientCmd, Ask
  <2> QED BY <2>1, <2>2
<1>3. client[r] # "waiting"
  BY DEF Ask
<1>4. ~In(queue[1], r) /\ ~In(queue[2], r) /\ ~In(backQ, r)
      /\ ~Held(cur, InHand, r) /\ ~Kept(saved, r)
  BY <1>3 DEF OnePlace, Apart
<1>5. Sent(r)
  BY <1>1, <1>2, <1>4, PutSent DEF Unsent
<1>6. /\ UNCHANGED <<pid, lastPid, pc, cur, stateless, stateful, saved>>
      /\ InHand' = InHand
      /\ \A x \in Requests :
           client'[x] = IF x = r THEN "waiting" ELSE client[x]
  BY DEF Ask, procVars, InHand, OnePlace, Base, TypeOK
<1>7. Singles'
  BY <1>5, <1>6 DEF OnePlace, Singles, Sent
<1>8. Apart'
  BY <1>2, <1>4, <1>5, <1>6 DEF OnePlace, Apart, Sent
<1> QED BY <1>7, <1>8, BaseAsk DEF OnePlace

LEMMA OnePlaceDeliver ==
  ASSUME OnePlace, Deliver
  PROVE  OnePlace'
<1>1. backQ \in Seq(Msg) /\ backQ # <<>> /\ backQ' = Tail(backQ)
  BY DEF Deliver, OnePlace, Base, TypeOK
<1>2. /\ Tail(backQ) \in Seq(Msg) /\ Len(Tail(backQ)) = Len(backQ) - 1
      /\ \A j \in 1..Len(Tail(backQ)) : Tail(backQ)[j] = backQ[j + 1]
  BY <1>1, HeadTailProperties
<1>3. /\ DOMAIN backQ = 1..Len(backQ) /\ Len(backQ) \in Nat /\ Len(backQ) > 0
      /\ DOMAIN Tail(backQ) = 1..(Len(backQ) - 1)
      /\ Head(backQ) = backQ[1]
  BY <1>1, <1>2, LenProperties, EmptySeq
<1>4. \A j \in DOMAIN backQ' : /\ j \in Nat /\ j > 0
                               /\ j + 1 \in DOMAIN backQ
                               /\ backQ'[j] = backQ[j + 1]
  BY <1>1, <1>2, <1>3
<1>5. Single(backQ')
  BY <1>4 DEF OnePlace, Singles, Single
<1> DEFINE x == Head(backQ).body.req
<1>6. \A r \in Requests : In(backQ', r) => In(backQ, r) /\ r # x
  <2>1. x = backQ[1].body.req /\ 1 \in DOMAIN backQ
    BY <1>3
  <2> HIDE DEF x
  <2> QED BY <1>4, <2>1 DEF OnePlace, Singles, Single, In
<1>7. x \in Requests => In(backQ, x)
  BY <1>3 DEF In
<1>8. /\ UNCHANGED <<queue, pid, lastPid, pc, cur, stateless, stateful, saved>>
      /\ InHand' = InHand
      /\ \A r \in Requests : client'[r] = IF r = x THEN "answered" ELSE client[r]
  BY DEF Deliver, procVars, InHand, OnePlace, Base, TypeOK
<1> HIDE DEF x
<1>9. Singles'
  BY <1>5, <1>8 DEF OnePlace, Singles
<1>10. Apart'
  BY <1>6, <1>7, <1>8 DEF OnePlace, Apart
<1> QED BY <1>9, <1>10, BaseDeliver DEF OnePlace

\* Steps that move no request, though a process may take some with it.
LEMMA OnePlaceLess ==
  ASSUME OnePlace, Base', UNCHANGED <<client, queue, backQ>>,
         InHand' \subseteq InHand,
         \A p \in InHand' : cur'[p] = cur[p],
         \A p \in Procs : \A i \in Handlers :
           saved'[p][i].req = saved[p][i].req \/ saved'[p][i].req \notin Requests
  PROVE  OnePlace'
<1>1. \A r \in Requests : /\ Held(cur', InHand', r) => Held(cur, InHand, r)
                          /\ Kept(saved', r) => Kept(saved, r)
  BY DEF Held, Kept
<1>2. Singles'
  BY DEF OnePlace, Singles
<1>3. Apart'
  BY <1>1 DEF OnePlace, Apart
<1> QED BY <1>2, <1>3 DEF OnePlace

LEMMA OnePlaceStart ==
  ASSUME OnePlace, NEW p \in Procs, Start(p)
  PROVE  OnePlace'
<1>1. InHand' = InHand
  BY DEF Start, InHand, OnePlace, Base, TypeOK
<1>2. UNCHANGED <<client, queue, backQ, cur, saved>>
  BY DEF Start
<1> QED BY <1>1, <1>2, BaseStart, OnePlaceLess DEF OnePlace

LEMMA OnePlaceDie ==
  ASSUME OnePlace, NEW p \in Procs, Die(p)
  PROVE  OnePlace'
<1>1. /\ InHand' = InHand \ {p} /\ InHand \subseteq Procs
      /\ \A q \in Procs \ {p} : cur'[q] = cur[q] /\ saved'[q] = saved[q]
      /\ \A i \in Handlers : saved'[p][i] = NoCmd
      /\ UNCHANGED <<client, queue, backQ>>
  BY DEF Die, InHand, OnePlace, Base, TypeOK
<1>2. NoCmd.req \notin Requests
  BY ContainerAssumption DEF ContainerAssumption, NoCmd
<1> QED BY <1>1, <1>2, BaseDie, OnePlaceLess DEF OnePlace

\* A received request goes from the queue into the hands of the process.
LEMMA OnePlaceTake ==
  ASSUME OnePlace, NEW p \in Procs, NEW t, Take(p, t),
         pc[p] \in {"poll", "pollApp"},
         UNCHANGED <<client, backQ, pid, lastPid, stateless, stateful, saved>>
  PROVE  OnePlace'
<1> DEFINE k == SvcOf[p]
           q == queue[k]
           i == First(q, t)
           n == RemoveAt(q, i)
           x == q[i].body.req
<1>1. k \in 1..2
  BY ContainerAssumption DEF ContainerAssumption
<1>2. q \in Seq(Msg) /\ Single(q)
  BY <1>1 DEF OnePlace, Base, TypeOK, Singles
<1>3. i \in DOMAIN q
  BY <1>2, FirstProperties DEF Take
<1>4. /\ Single(n)
      /\ \A r \in Requests : In(n, r) => In(q, r) /\ r # x
  BY <1>2, <1>3, RemoveSingle
<1>5. x \in Requests => In(q, x)
  BY <1>3 DEF In
<1>6. /\ \A o \in 1..2 : queue'[o] = IF o = k THEN n ELSE queue[o]
      /\ cur' = [cur EXCEPT ![p] = q[i].body]
      /\ pc' = [pc EXCEPT ![p] = "busy"]
  BY DEF Take, OnePlace, Base, TypeOK
<1>7. p \notin InHand /\ InHand' = InHand \cup {p} /\ InHand \subseteq Procs
  BY <1>6 DEF InHand, OnePlace, Base, TypeOK
<1>8. cur'[p].req = x /\ \A y \in InHand : cur'[y] = cur[y]
  BY <1>6, <1>7 DEF OnePlace, Base, TypeOK
<1>9. q = queue[k]
  OBVIOUS
<1> HIDE DEF x, n, i, q, k
<1>10. \A r \in Requests : \A o \in 1..2 :
         In(queue'[o], r) => In(queue[o], r) /\ (o = k => r # x)
  BY <1>4, <1>6, <1>9
<1>11. \A r \in Requests : Held(cur', InHand', r) =>
         Held(cur, InHand, r) \/ r = x
  BY <1>7, <1>8 DEF Held
<1>12. x \in Requests =>
         /\ In(queue[k], x)
         /\ ~Held(cur, InHand, x) /\ ~Kept(saved, x) /\ ~In(backQ, x)
         /\ ~In(queue'[1], x) /\ ~In(queue'[2], x)
         /\ client[x] = "waiting"
  <2> SUFFICES ASSUME x \in Requests
               PROVE  /\ In(queue[k], x)
                      /\ ~Held(cur, InHand, x) /\ ~Kept(saved, x)
                      /\ ~In(backQ, x)
                      /\ ~In(queue'[1], x) /\ ~In(queue'[2], x)
                      /\ client[x] = "waiting"
    OBVIOUS
  <2>1. In(queue[k], x)
    BY <1>5, <1>9
  <2>2. ~Held(cur, InHand, x) /\ ~Kept(saved, x) /\ ~In(backQ, x)
        /\ client[x] = "waiting"
    BY <1>1, <2>1 DEF OnePlace, Apart
  <2>3. ~In(queue'[1], x) /\ ~In(queue'[2], x)
    BY <1>1, <1>10, <2>1 DEF OnePlace, Apart
  <2> QED BY <2>1, <2>2, <2>3
<1>13. Singles'
  <2>1. \A o \in 1..2 : Single(queue'[o])
    BY <1>4, <1>6 DEF OnePlace, Singles
  <2>2. \A y, z \in InHand' :
          cur'[y].req \in Requests /\ cur'[y].req = cur'[z].req => y = z
    BY <1>7, <1>8, <1>12 DEF OnePlace, Singles, Held
  <2> QED BY <2>1, <2>2 DEF OnePlace, Singles
<1>14. Apart'
  BY <1>10, <1>11, <1>12 DEF OnePlace, Apart
<1> QED BY <1>13, <1>14, BaseTake DEF OnePlace

LEMMA OnePlacePoll ==
  ASSUME OnePlace, NEW p \in Procs, PollRequest(p) \/ PollApp(p)
  PROVE  OnePlace'
<1>1. CASE Take(p, REQUEST) /\ PollRequest(p)
  BY <1>1, OnePlaceTake DEF PollRequest
<1>2. CASE Take(p, AppType(pid[p])) /\ PollApp(p)
  BY <1>2, OnePlaceTake DEF PollApp
<1>3. CASE ~(Take(p, REQUEST) /\ PollRequest(p))
           /\ ~(Take(p, AppType(pid[p])) /\ PollApp(p))
  <2>1. /\ UNCHANGED <<client, queue, backQ, cur, saved>>
        /\ InHand' = InHand
    BY <1>3 DEF PollRequest, PollApp, InHand, OnePlace, Base, TypeOK
  <2> QED BY <2>1, BasePoll, OnePlaceLess DEF OnePlace
<1> QED BY <1>1, <1>2, <1>3

LEMMA HandReleased ==
  ASSUME OnePlace, NEW p \in Procs, Processed(p)
  PROVE  /\ p \in InHand /\ InHand' = InHand \ {p} /\ InHand \subseteq Procs
         /\ cur[p] \in CCmd /\ client' = client
         /\ \A x \in InHand' : cur'[x] = cur[x]
         /\ \A r \in Requests : Held(cur', InHand', r) =>
              Held(cur, InHand, r) /\ cur[p].req # r
         /\ \A x, y \in InHand' :
              cur'[x].req \in Requests /\ cur'[x].req = cur'[y].req => x = y
<1>1. \A x \in Procs : /\ cur'[x] = IF x = p THEN NoCmd ELSE cur[x]
                       /\ pc'[x] = IF x = p THEN "poll" ELSE pc[x]
  BY DEF Processed, OnePlace, Base, TypeOK
<1>2. p \in InHand /\ InHand' = InHand \ {p} /\ InHand \subseteq Procs
  BY <1>1 DEF InHand, Processed
<1>3. cur[p] \in CCmd /\ client' = client
  BY DEF Processed, OnePlace, Base, Hands
<1>4. \A x \in InHand' : cur'[x] = cur[x] /\ x \in InHand /\ x # p
  BY <1>1, <1>2
<1>5. \A r \in Requests : Held(cur', InHand', r) =>
        Held(cur, InHand, r) /\ cur[p].req # r
  BY <1>2, <1>4 DEF Held, OnePlace, Singles
<1>6. \A x, y \in InHand' :
        cur'[x].req \in Requests /\ cur'[x].req = cur'[y].req => x = y
  BY <1>4 DEF OnePlace, Singles
<1> QED BY <1>2, <1>3, <1>4, <1>5, <1>6

\* An answer goes from the hands of the process into a queue.
LEMMA OnePlaceProcessAtOnce ==
  ASSUME OnePlace, NEW p \in Procs, Processed(p),
         ProcessNoFree(p) \/ ProcessSvcTest(p)
  PROVE  OnePlace'
<1> DEFINE c == Answer(p)
           x == cur[p].req
<1>1. Reply(c) /\ UNCHANGED <<stateless, stateful, saved>>
  BY DEF ProcessNoFree, ProcessSvcTest, Answer
<1>2. c \in CCmd /\ c.req = x
  <2>1. c \in CCmd
    BY HandReleased, CmdTypes DEF Answer
  <2>2. c.req = x
    BY HandReleased DEF Answer, CCmd
  <2> QED BY <2>1, <2>2
<1>3. x \in Requests => Held(cur, InHand, x)
  BY HandReleased DEF Held
<1>4. x \in Requests =>
        /\ ~In(queue[1], x) /\ ~In(queue[2], x) /\ ~In(backQ, x)
        /\ ~Kept(saved, x) /\ client[x] = "waiting"
  BY <1>3 DEF OnePlace, Apart
<1>5. Unsent(c.req)
  BY <1>2, <1>4 DEF Unsent
<1> HIDE DEF c
<1>6. Sent(x)
  BY <1>1, <1>2, <1>5, ReplySent
<1>7. \A r \in Requests : Held(cur', InHand', r) => Held(cur, InHand, r) /\ r # x
  BY HandReleased
<1> HIDE DEF x
<1>8. Singles'
  BY <1>1, <1>6, HandReleased DEF OnePlace, Singles, Sent
<1>9. client' = client /\ saved' = saved
  BY <1>1, HandReleased
<1>10. Apart'
  BY <1>4, <1>6, <1>7, <1>9 DEF OnePlace, Apart, Sent
<1> QED BY <1>8, <1>10, BaseProcessAtOnce DEF OnePlace

\* A request that waits for its nested call goes onto the coroutine's stack.
LEMMA OnePlaceProcessSvcTest2 ==
  ASSUME OnePlace, NEW p \in Procs, Processed(p), ProcessSvcTest2(p)
  PROVE  OnePlace'
<1> DEFINE h == FirstHandler(p)
           n == NestedCmd(SerialNo(pid[p], h), cur[p].origin)
           x == cur[p].req
<1>1. h \in Handlers
  <2>1. stateless[p] \subseteq Handlers /\ stateless[p] # {}
    BY DEF OnePlace, Base, TypeOK, ProcessSvcTest2
  <2> QED BY <2>1, FirstHandlerFree
<1>2. /\ saved' = [saved EXCEPT ![p] = [saved[p] EXCEPT ![h] = cur[p]]]
      /\ Put(1, REQUEST, n) /\ backQ' = backQ
  BY DEF ProcessSvcTest2, Put
<1>3. n \in CCmd /\ n.req \notin Requests
  <2>1. pid[p] \in Nat /\ cur[p].origin \in Requests
    BY HandReleased DEF OnePlace, Base, TypeOK, CCmd
  <2>2. SerialNo(pid[p], h) \in Nat
    BY <1>1, <2>1, Numbering
  <2>3. n \in CCmd
    BY <2>1, <2>2, CmdTypes
  <2>4. n.req \notin Requests
    BY ContainerAssumption DEF ContainerAssumption, NestedCmd
  <2> QED BY <2>3, <2>4
<1> HIDE DEF n, h
<1>4. x \in Requests =>
        /\ Held(cur, InHand, x)
        /\ ~In(queue[1], x) /\ ~In(queue[2], x) /\ ~In(backQ, x)
        /\ ~Kept(saved, x) /\ client[x] = "waiting"
  <2>1. x \in Requests => Held(cur, InHand, x)
    BY HandReleased DEF Held
  <2> QED BY <2>1 DEF OnePlace, Apart
<1>5. Unsent(n.req)
  BY <1>3 DEF Unsent
<1>6. Sent(n.req)
  BY <1>2, <1>3, <1>5, PutSent DEF REQUEST
<1>7. \A r \in Requests : Held(cur', InHand', r) => Held(cur, InHand, r) /\ r # x
  BY HandReleased
<1> HIDE DEF x
<1>8. \A q \in Procs : \A i \in Handlers :
        saved'[q][i].req = IF q = p /\ i = h THEN x ELSE saved[q][i].req
  BY <1>1, <1>2 DEF x, OnePlace, Base, TypeOK
<1>9. \A r \in Requests : Kept(saved', r) => Kept(saved, r) \/ r = x
  BY <1>8 DEF Kept
<1>10. Singles'
  <2>1. \A q, r \in Procs : \A i, j \in Handlers :
          saved'[q][i].req \in Requests /\ saved'[q][i].req = saved'[r][j].req =>
            q = r /\ i = j
    BY <1>4, <1>8 DEF OnePlace, Singles, Kept
  <2> QED BY <1>6, <2>1, HandReleased DEF OnePlace, Singles, Sent
<1>11. Apart'
  BY <1>3, <1>4, <1>6, <1>7, <1>9, HandReleased DEF OnePlace, Apart, Sent
<1> QED BY <1>10, <1>11, BaseProcessSvcTest2 DEF OnePlace

\* The coroutine that is resumed answers, and its stack is gone.
LEMMA OnePlaceProcessResponse ==
  ASSUME OnePlace, NEW p \in Procs, Processed(p), ProcessResponse(p)
  PROVE  OnePlace'
<1>1. PICK h \in stateful[p] :
        /\ Reply([saved[p][h] EXCEPT !.ret = 0, !.serial = 0,
                                     !.data = Append(cur[p].data, "r2")])
        /\ saved' = [saved EXCEPT ![p] = [saved[p] EXCEPT ![h] = NoCmd]]
  BY DEF ProcessResponse
<1> DEFINE c == [saved[p][h] EXCEPT !.ret = 0, !.serial = 0,
                                    !.data = Append(cur[p].data, "r2")]
           x == saved[p][h].req
<1>2. h \in Handlers /\ saved[p][h] \in CCmd
  BY DEF OnePlace, Base, TypeOK, HandlersPartition
<1>3. c \in CCmd /\ Reply(c)
  BY <1>1, ResumedTypes DEF OnePlace, Processed
<1>4. c.req = x
  BY <1>2 DEF CCmd
<1> HIDE DEF c
<1>5. x \in Requests =>
        /\ Kept(saved, x) /\ ~Held(cur, InHand, x)
        /\ ~In(queue[1], x) /\ ~In(queue[2], x) /\ ~In(backQ, x)
        /\ client[x] = "waiting"
  <2>1. x \in Requests => Kept(saved, x)
    BY <1>2 DEF Kept
  <2> QED BY <2>1 DEF OnePlace, Apart
<1>6. Unsent(c.req)
  BY <1>4, <1>5 DEF Unsent
<1>7. Sent(x)
  BY <1>3, <1>4, <1>6, ReplySent
<1>8. \A q \in Procs : \A i \in Handlers :
        saved'[q][i] = IF q = p /\ i = h THEN NoCmd ELSE saved[q][i]
  BY <1>1, <1>2 DEF OnePlace, Base, TypeOK
<1>9. NoCmd.req \notin Requests
  BY ContainerAssumption DEF ContainerAssumption, NoCmd
<1>10. \A r \in Requests : Kept(saved', r) => Kept(saved, r) /\ r # x
  BY <1>2, <1>8, <1>9 DEF Kept, OnePlace, Singles
<1>11. \A r \in Requests : Held(cur', InHand', r) => Held(cur, InHand, r)
  BY HandReleased
<1> HIDE DEF x
<1>12. Singles'
  <2>1. \A q, r \in Procs : \A i, j \in Handlers :
          saved'[q][i].req \in Requests /\ saved'[q][i].req = saved'[r][j].req =>
            q = r /\ i = j
    BY <1>8, <1>9 DEF OnePlace, Singles
  <2> QED BY <1>7, <2>1, HandReleased DEF OnePlace, Singles, Sent
<1>13. client' = client
  BY HandReleased
<1>14. Apart'
  BY <1>5, <1>7, <1>10, <1>11, <1>13 DEF OnePlace, Apart, Sent
<1> QED BY <1>12, <1>14, BaseProcessResponse DEF OnePlace

LEMMA OnePlaceNext == OnePlace /\ [Next]_vars => OnePlace'
<1> SUFFICES ASSUME OnePlace, [Next]_vars PROVE OnePlace'
  OBVIOUS
<1>1. ASSUME NEW r \in Requests, Ask(r) PROVE OnePlace'
  BY <1>1, OnePlaceAsk
<1>2. CASE Deliver
  BY <1>2, OnePlaceDeliver
<1>3. ASSUME NEW p \in Procs, Start(p) PROVE OnePlace'
  BY <1>3, OnePlaceStart
<1>4. ASSUME NEW p \in Procs, Crash(p) \/ DispatchAborts(p) PROVE OnePlace'
  BY <1>4, OnePlaceDie DEF Crash, DispatchAborts
<1>5. ASSUME NEW p \in Procs, PollRequest(p) \/ PollApp(p) PROVE OnePlace'
  BY <1>5, OnePlacePoll
<1>6. ASSUME NEW p \in Procs, ProcessMsg(p) PROVE OnePlace'
  <2>1. Processed(p)
    BY <1>6 DEF ProcessMsg, Processed
  <2> QED
    BY <1>6, <2>1, OnePlaceProcessAtOnce, OnePlaceProcessSvcTest2,
       OnePlaceProcessResponse
    DEF ProcessMsg
<1>7. CASE UNCHANGED vars
  <2>1. Base' /\ InHand' = InHand
    BY <1>7, BaseNext DEF OnePlace, vars, InHand
  <2> QED BY <1>7, <2>1, OnePlaceLess DEF vars
<1> QED BY <1>1, <1>2, <1>3, <1>4, <1>5, <1>6, <1>7 DEF Next, Loop

\* A client request is somewhere.
Placed(r) ==
  \/ \E k \in 1..2 : In(queue[k], r)
  \/ In(backQ, r)
  \/ Held(cur, InHand, r)
  \/ Kept(saved, r)

LEMMA OnePlaceCounted ==
  ASSUME OnePlace, NEW r \in Requests
  PROVE  /\ Copies(r) <= IF client[r] = "waiting" THEN 1 ELSE 0
         /\ Placed(r) => Copies(r) = 1
<1> DEFINE A == {at \in (1..2) \X (1..QCap) :
                   /\ at[2] \in DOMAIN queue[at[1]]
                   /\ queue[at[1]][at[2]].body.req = r}
           B == {j \in DOMAIN backQ : backQ[j].body.req = r}
           C == {p \in InHand : cur[p].req = r}
           D == {at \in Procs \X Handlers : saved[at[1]][at[2]].req = r}
<1>1. Copies(r) = Cardinality(A) + Cardinality(B)
                  + Cardinality(C) + Cardinality(D)
  BY DEF Copies
<1>2. \A a \in A : /\ a[1] \in 1..2 /\ a[2] \in DOMAIN queue[a[1]]
                   /\ queue[a[1]][a[2]].body.req = r
                   /\ a = <<a[1], a[2]>>
                   /\ In(queue[a[1]], r)
  BY DEF In
<1>3. \A j \in B : j \in DOMAIN backQ /\ backQ[j].body.req = r /\ In(backQ, r)
  BY DEF In
<1>4. \A p \in C : p \in InHand /\ cur[p].req = r /\ Held(cur, InHand, r)
  BY DEF Held
<1>5. \A a \in D : /\ a[1] \in Procs /\ a[2] \in Handlers
                   /\ saved[a[1]][a[2]].req = r
                   /\ a = <<a[1], a[2]>>
                   /\ Kept(saved, r)
  BY DEF Kept
<1>6. Placed(r) => A # {} \/ B # {} \/ C # {} \/ D # {}
  <2>1. ASSUME NEW k \in 1..2, In(queue[k], r)
        PROVE  A # {}
    <3>1. PICK j \in DOMAIN queue[k] : queue[k][j].body.req = r
      BY <2>1 DEF In
    <3>2. j \in 1..QCap
      <4>1. queue[k] \in Seq(Msg) /\ Len(queue[k]) <= QCap /\ QCap \in Nat
        BY ContainerAssumption DEF OnePlace, Base, TypeOK, ContainerAssumption
      <4>2. j \in 1..Len(queue[k]) /\ Len(queue[k]) \in Nat
        BY <4>1, LenProperties
      <4> QED BY <4>1, <4>2
    <3>3. <<k, j>> \in (1..2) \X (1..QCap)
          /\ <<k, j>>[1] = k /\ <<k, j>>[2] = j
      BY <3>2
    <3>4. <<k, j>> \in A
      BY <3>1, <3>3
    <3> QED BY <3>4
  <2>2. In(backQ, r) => B # {}
    BY DEF In
  <2>3. Held(cur, InHand, r) => C # {}
    BY DEF Held
  <2>4. ASSUME NEW p \in Procs, NEW i \in Handlers, saved[p][i].req = r
        PROVE  D # {}
    <3>1. /\ <<p, i>> \in Procs \X Handlers
          /\ <<p, i>>[1] = p /\ <<p, i>>[2] = i
      OBVIOUS
    <3>2. <<p, i>> \in D
      BY <2>4, <3>1
    <3> QED BY <3>2
  <2> QED BY <2>1, <2>2, <2>3, <2>4 DEF Placed, Kept
<1> HIDE DEF A, B, C, D
<1>7. A = {} \/ \E a : A = {a}
  <2>1. \A a, b \in A : a[1] = b[1]
    BY <1>2 DEF OnePlace, Apart
  <2>2. \A a, b \in A : a[2] = b[2]
    BY <1>2, <2>1 DEF OnePlace, Singles, Single
  <2>3. \A a, b \in A : a = b
    BY <1>2, <2>1, <2>2
  <2>4. ASSUME NEW a \in A PROVE A = {a}
    BY <2>3
  <2> QED BY <2>4
<1>8. B = {} \/ \E j : B = {j}
  <2>1. \A i, j \in B : i = j
    BY <1>3 DEF OnePlace, Singles, Single
  <2> QED BY <2>1
<1>9. C = {} \/ \E p : C = {p}
  <2>1. \A p, q \in C : p = q
    BY <1>4 DEF OnePlace, Singles
  <2> QED BY <2>1
<1>10. D = {} \/ \E a : D = {a}
  <2>1. \A a, b \in D : a[1] = b[1] /\ a[2] = b[2]
    BY <1>5 DEF OnePlace, Singles
  <2>2. \A a, b \in D : a = b
    BY <1>5, <2>1
  <2> QED BY <2>2
<1>11. /\ A # {} => B = {} /\ C = {} /\ D = {}
       /\ B # {} => C = {} /\ D = {}
       /\ C # {} => D = {}
  BY <1>2, <1>3, <1>4, <1>5 DEF OnePlace, Apart
<1>12. client[r] = "waiting" \/ (A = {} /\ B = {} /\ C = {} /\ D = {})
  BY <1>2, <1>3, <1>4, <1>5 DEF OnePlace, Apart
<1>13. /\ Cardinality(A) \in {0, 1} /\ (Cardinality(A) = 1 => A # {})
       /\ Cardinality(B) \in {0, 1} /\ (Cardinality(B) = 1 => B # {})
       /\ Cardinality(C) \in {0, 1} /\ (Cardinality(C) = 1 => C # {})
       /\ Cardinality(D) \in {0, 1} /\ (Cardinality(D) = 1 => D # {})
  BY <1>7, <1>8, <1>9, <1>10, FS_EmptySet, FS_Singleton
<1>14. /\ A # {} => Cardinality(A) = 1
       /\ B # {} => Cardinality(B) = 1
       /\ C # {} => Cardinality(C) = 1
       /\ D # {} => Cardinality(D) = 1
  BY <1>7, <1>8, <1>9, <1>10, FS_Singleton
<1> QED BY <1>1, <1>11, <1>12, <1>13, <1>6, <1>14

\* A request is in one place at most while its client waits and nowhere once
\* it is answered, so that nobody is answered twice.
THEOREM AnsweredAtMostOnce == Spec => []AnsweredOnce
<1>1. OnePlace => AnsweredOnce
  BY OnePlaceCounted DEF AnsweredOnce
<1> QED BY InitOnePlace, OnePlaceNext, <1>1, PTL DEF Spec

-----------------------------------------------------------------------------
(* The client requests in a queue.                                         *)

\* A set of numbers has a least one.
LEMMA LeastOf ==
  ASSUME NEW T \in SUBSET Nat, T # {}
  PROVE  \E n \in T : \A m \in T : n <= m
<1>1. PICK n \in T : \A m \in T : ~(<<m, n>> \in OpToRel(<, Nat))
  BY NatLessThanWellFounded, WFMin
<1>2. \A m \in T : ~(m < n)
  BY <1>1 DEF OpToRel
<1> QED BY <1>2

\* Induction, in first-order terms.
LEMMA UpFromZero ==
  ASSUME NEW S, 0 \in S, \A n \in Nat : n \in S => n + 1 \in S
  PROVE  \A n \in Nat : n \in S
<1> DEFINE T == Nat \ S
<1>1. SUFFICES ASSUME T # {} PROVE FALSE
  OBVIOUS
<1>2. PICK n \in T : \A m \in T : n <= m
  BY <1>1, LeastOf
<1>3. n # 0 /\ n - 1 \in Nat /\ n - 1 \notin T
  BY <1>2
<1> QED BY <1>2, <1>3

\* One message more: f is what the first n - 1 messages have.
Extended(f, q, n) ==
  IF ~IsOpen(q[n].body) THEN f[n - 1] ELSE Append(f[n - 1], q[n].body.req)

\* f counts up the client requests of q.
Unfolds(f, q) ==
  f = [n \in 0..Len(q) |-> IF n = 0 THEN <<>> ELSE Extended(f, q, n)]

LEMMA UnfoldsExists ==
  ASSUME NEW q \in Seq(Msg)
  PROVE  \E f : Unfolds(f, q)
<1> DEFINE To(f, m) ==
             f = [n \in 0..m |-> IF n = 0 THEN <<>> ELSE Extended(f, q, n)]
           S == {m \in Nat : \E f : To(f, m)}
<1>1. 0 \in S
  <2> DEFINE f == [n \in 0..0 |-> <<>>]
  <2>1. To(f, 0)
    OBVIOUS
  <2> QED BY <2>1
<1>2. ASSUME NEW m \in Nat, m \in S PROVE m + 1 \in S
  <2>1. PICK f : To(f, m)
    BY <1>2
  <2> DEFINE g == [n \in 0..(m + 1) |-> IF n = m + 1 THEN Extended(f, q, n)
                                        ELSE f[n]]
  <2>2. \A n \in 1..(m + 1) : g[n - 1] = f[n - 1]
    BY <2>1
  <2>3. \A n \in 1..(m + 1) : Extended(g, q, n) = Extended(f, q, n)
    BY <2>2 DEF Extended
  <2>4. \A n \in 0..m : f[n] = IF n = 0 THEN <<>> ELSE Extended(f, q, n)
    BY <2>1
  <2>5. \A n \in 0..(m + 1) : g[n] = IF n = 0 THEN <<>> ELSE Extended(g, q, n)
    BY <2>3, <2>4
  <2>6. g = [n \in 0..(m + 1) |-> g[n]]
    OBVIOUS
  <2> HIDE DEF g
  <2>7. To(g, m + 1)
    BY <2>5, <2>6
  <2> QED BY <2>7
<1> HIDE DEF S
<1>3. Len(q) \in S
  BY <1>1, <1>2, UpFromZero, LenProperties
<1> QED BY <1>3 DEF S, Unfolds

\* What the definition of ClientRequests means, step by step.
LEMMA ClientRequestsUnfold ==
  ASSUME NEW q \in Seq(Msg)
  PROVE  \E f : /\ ClientRequests(q) = f[Len(q)]
                /\ f[0] = <<>>
                /\ \A n \in 1..Len(q) : f[n] = Extended(f, q, n)
<1> DEFINE f == CHOOSE g : Unfolds(g, q)
<1>1. Unfolds(f, q)
  BY UnfoldsExists
<1>2. ClientRequests(q) = f[Len(q)]
  BY Zenon DEF ClientRequests, Unfolds, Extended
<1>3. Len(q) \in Nat
  BY LenProperties
<1> HIDE DEF f
<1> QED BY <1>1, <1>2, <1>3 DEF Unfolds

\* f unfolds ClientRequests(q).
Counts(f, q) ==
  /\ ClientRequests(q) = f[Len(q)]
  /\ f[0] = <<>>
  /\ \A n \in 1..Len(q) : f[n] = Extended(f, q, n)

LEMMA CountsExists ==
  ASSUME NEW q \in Seq(Msg)
  PROVE  \E f : Counts(f, q)
BY ClientRequestsUnfold DEF Counts

LEMMA CountsType ==
  ASSUME NEW q \in Seq(Msg), NEW f, Counts(f, q)
  PROVE  \A n \in 0..Len(q) : f[n] \in Seq(Requests)
<1> DEFINE S == {n \in Nat : n <= Len(q) => f[n] \in Seq(Requests)}
<1>1. Len(q) \in Nat
  BY LenProperties
<1>2. 0 \in S
  BY EmptySeq DEF Counts
<1>3. ASSUME NEW n \in Nat, n \in S PROVE n + 1 \in S
  <2> SUFFICES ASSUME n + 1 <= Len(q) PROVE f[n + 1] \in Seq(Requests)
    OBVIOUS
  <2>1. f[n] \in Seq(Requests) /\ n + 1 \in 1..Len(q) /\ (n + 1) - 1 = n
    BY <1>1, <1>3
  <2>2. f[n + 1] = Extended(f, q, n + 1)
    BY <2>1 DEF Counts
  <2>3. q[n + 1] \in Msg
    BY <2>1, ElementOfSeq
  <2>4. q[n + 1].body.req \in Requests \cup {NoReq}
    BY <2>3 DEF Msg, CCmd
  <2>5. IsOpen(q[n + 1].body) =>
          Append(f[n], q[n + 1].body.req) \in Seq(Requests)
    BY <2>1, <2>4, AppendProperties DEF IsOpen
  <2> QED BY <2>1, <2>2, <2>5 DEF Extended
<1> HIDE DEF S
<1>4. \A n \in Nat : n \in S
  BY <1>2, <1>3, UpFromZero
<1> QED BY <1>1, <1>4 DEF S

LEMMA ClientRequestsType ==
  ASSUME NEW q \in Seq(Msg)
  PROVE  ClientRequests(q) \in Seq(Requests)
<1>1. PICK f : Counts(f, q)
  BY CountsExists
<1>2. Len(q) \in 0..Len(q)
  BY LenProperties
<1> QED BY <1>1, <1>2, CountsType DEF Counts

\* Queues with the same first messages have the same first requests.
LEMMA SameBeginning ==
  ASSUME NEW q \in Seq(Msg), NEW r \in Seq(Msg), NEW f, NEW g,
         Counts(f, q), Counts(g, r), NEW m \in Nat, m <= Len(q), m <= Len(r),
         \A n \in 1..m : q[n] = r[n]
  PROVE  f[m] = g[m]
<1> DEFINE S == {n \in Nat : n <= m => f[n] = g[n]}
<1>1. Len(q) \in Nat /\ Len(r) \in Nat
  BY LenProperties
<1>2. 0 \in S
  BY DEF Counts
<1>3. ASSUME NEW n \in Nat, n \in S PROVE n + 1 \in S
  <2> SUFFICES ASSUME n + 1 <= m PROVE f[n + 1] = g[n + 1]
    OBVIOUS
  <2>1. /\ f[n] = g[n] /\ (n + 1) - 1 = n
        /\ n + 1 \in 1..Len(q) /\ n + 1 \in 1..Len(r) /\ n + 1 \in 1..m
    BY <1>1, <1>3
  <2>2. f[n + 1] = Extended(f, q, n + 1) /\ g[n + 1] = Extended(g, r, n + 1)
    BY <2>1 DEF Counts
  <2> QED BY <2>1, <2>2 DEF Extended
<1> HIDE DEF S
<1>4. m \in S
  BY <1>2, <1>3, UpFromZero
<1> QED BY <1>4 DEF S

\* msgsnd: a client's request is the last, a nested call or a response is none.
LEMMA ClientRequestsAppend ==
  ASSUME NEW q \in Seq(Msg), NEW m \in Msg
  PROVE  ClientRequests(Append(q, m)) =
           IF ~IsOpen(m.body) THEN ClientRequests(q)
           ELSE Append(ClientRequests(q), m.body.req)
<1> DEFINE r == Append(q, m)
<1>1. /\ r \in Seq(Msg) /\ Len(r) = Len(q) + 1 /\ r[Len(q) + 1] = m
      /\ \A n \in 1..Len(q) : q[n] = r[n]
      /\ Len(q) \in Nat
  BY AppendProperties, LenProperties
<1> HIDE DEF r
<1>2. PICK f : Counts(f, q)
  BY CountsExists
<1>3. PICK g : Counts(g, r)
  BY <1>1, CountsExists
<1>4. f[Len(q)] = g[Len(q)]
  BY <1>1, <1>2, <1>3, SameBeginning
<1>5. g[Len(q) + 1] = Extended(g, r, Len(q) + 1) /\ (Len(q) + 1) - 1 = Len(q)
  BY <1>1, <1>3 DEF Counts
<1>6. ClientRequests(r) = IF ~IsOpen(m.body) THEN ClientRequests(q)
                          ELSE Append(ClientRequests(q), m.body.req)
  BY <1>1, <1>2, <1>3, <1>4, <1>5 DEF Counts, Extended
<1> QED BY <1>6 DEF r

\* msgrcv of a message that is no client's request.
LEMMA ClientRequestsWithout ==
  ASSUME NEW q \in Seq(Msg), NEW i \in DOMAIN q, ~IsOpen(q[i].body)
  PROVE  ClientRequests(RemoveAt(q, i)) = ClientRequests(q)
<1> DEFINE r == RemoveAt(q, i)
<1>1. Len(q) \in Nat /\ i \in 1..Len(q) /\ DOMAIN q = 1..Len(q)
  BY LenProperties
<1>2. /\ r \in Seq(Msg) /\ Len(r) = Len(q) - 1
      /\ \A j \in DOMAIN r : /\ j < i => r[j] = q[j]
                             /\ j >= i => r[j] = q[j + 1]
  BY RemoveAtProperties
<1> HIDE DEF r
<1>3. DOMAIN r = 1..(Len(q) - 1)
  BY <1>2, LenProperties
<1>4. PICK f : Counts(f, q)
  BY CountsExists
<1>5. PICK g : Counts(g, r)
  BY <1>2, CountsExists
<1>6. f[i - 1] = g[i - 1]
  <2>1. PICK m \in Nat : m = i - 1
    BY <1>1
  <2>2. m <= Len(q) /\ m <= Len(r)
    BY <1>1, <1>2, <2>1
  <2>3. ASSUME NEW n \in 1..m PROVE q[n] = r[n]
    <3>1. n \in DOMAIN r /\ n < i
      BY <1>1, <1>3, <2>1
    <3> QED BY <1>2, <3>1
  <2>4. f[m] = g[m]
    BY <1>2, <1>4, <1>5, <2>2, <2>3, SameBeginning
  <2> QED BY <2>1, <2>4
<1>7. f[i] = f[i - 1]
  <2>1. f[i] = Extended(f, q, i)
    BY <1>1, <1>4 DEF Counts
  <2> QED BY <2>1 DEF Extended
<1> DEFINE S == {n \in Nat : i - 1 <= n /\ n <= Len(r) => g[n] = f[n + 1]}
<1>8. 0 \in S
  BY <1>1, <1>6, <1>7
<1>9. ASSUME NEW n \in Nat, n \in S PROVE n + 1 \in S
  <2> SUFFICES ASSUME i - 1 <= n + 1, n + 1 <= Len(r)
               PROVE  g[n + 1] = f[n + 2]
    OBVIOUS
  <2>1. CASE n + 1 = i - 1
    BY <1>1, <1>6, <1>7, <2>1
  <2>2. CASE n + 1 # i - 1
    <3>1. /\ g[n] = f[n + 1] /\ (n + 1) - 1 = n /\ (n + 2) - 1 = n + 1
          /\ n + 1 \in 1..Len(r) /\ n + 2 \in 1..Len(q) /\ n + 1 >= i
      BY <1>1, <1>2, <1>9, <2>2
    <3>2. r[n + 1] = q[n + 2]
      <4>1. n + 1 \in DOMAIN r /\ (n + 1) + 1 = n + 2
        BY <1>2, <1>3, <3>1
      <4> QED BY <1>2, <3>1, <4>1
    <3>3. g[n + 1] = Extended(g, r, n + 1) /\ f[n + 2] = Extended(f, q, n + 2)
      BY <1>4, <1>5, <3>1 DEF Counts
    <3> QED BY <3>1, <3>2, <3>3 DEF Extended
  <2> QED BY <2>1, <2>2
<1> HIDE DEF S
<1>10. Len(r) \in S /\ Len(r) \in Nat /\ i - 1 <= Len(r) /\ Len(r) + 1 = Len(q)
  BY <1>1, <1>2, <1>8, <1>9, UpFromZero, LenProperties
<1>11. g[Len(r)] = f[Len(q)]
  BY <1>10 DEF S
<1> QED BY <1>4, <1>5, <1>11 DEF Counts, r

\* A sequence that has a head keeps it when it grows.
LEMMA AppendToSome ==
  ASSUME NEW s \in Seq(Requests), s # <<>>, NEW y \in Requests
  PROVE  /\ Append(s, y) # <<>>
         /\ Head(Append(s, y)) = Head(s)
         /\ Tail(Append(s, y)) = Append(Tail(s), y)
<1>1. Append(s, y) # <<>>
  BY AppendProperties
<1> QED BY <1>1, HeadTailAppend

\* msgrcv of the first client request there is.
LEMMA ClientRequestsFirst ==
  ASSUME NEW q \in Seq(Msg), NEW i \in DOMAIN q, IsOpen(q[i].body),
         \A j \in 1..(i - 1) : ~IsOpen(q[j].body)
  PROVE  /\ ClientRequests(q) # <<>>
         /\ Head(ClientRequests(q)) = q[i].body.req
         /\ Tail(ClientRequests(q)) = ClientRequests(RemoveAt(q, i))
<1> DEFINE r == RemoveAt(q, i)
           x == q[i].body.req
<1>1. Len(q) \in Nat /\ i \in 1..Len(q) /\ DOMAIN q = 1..Len(q)
  BY LenProperties
<1>2. /\ r \in Seq(Msg) /\ Len(r) = Len(q) - 1
      /\ \A j \in DOMAIN r : /\ j < i => r[j] = q[j]
                             /\ j >= i => r[j] = q[j + 1]
  BY RemoveAtProperties
<1>3. x \in Requests
  <2>1. q[i] \in Msg
    BY <1>1, ElementOfSeq
  <2> QED BY <2>1 DEF Msg, CCmd, IsOpen
<1> HIDE DEF r
<1>4. DOMAIN r = 1..(Len(q) - 1)
  BY <1>2, LenProperties
<1>5. PICK f : Counts(f, q)
  BY CountsExists
<1>6. PICK g : Counts(g, r)
  BY <1>2, CountsExists
<1>7. f[i - 1] = <<>>
  <2> DEFINE S == {n \in Nat : n < i => f[n] = <<>>}
  <2>1. 0 \in S
    BY <1>5 DEF Counts
  <2>2. ASSUME NEW n \in Nat, n \in S PROVE n + 1 \in S
    <3> SUFFICES ASSUME n + 1 < i PROVE f[n + 1] = <<>>
      OBVIOUS
    <3>1. /\ f[n] = <<>> /\ (n + 1) - 1 = n /\ n + 1 \in 1..Len(q)
          /\ n + 1 \in 1..(i - 1)
      BY <1>1, <2>2
    <3>2. ~IsOpen(q[n + 1].body)
      BY <3>1
    <3>3. f[n + 1] = Extended(f, q, n + 1)
      BY <1>5, <3>1 DEF Counts
    <3> QED BY <3>1, <3>2, <3>3 DEF Extended
  <2> HIDE DEF S
  <2>3. i - 1 \in S
    BY <1>1, <2>1, <2>2, UpFromZero
  <2> QED BY <1>1, <2>3 DEF S
<1>8. g[i - 1] = <<>>
  <2>1. PICK m \in Nat : m = i - 1
    BY <1>1
  <2>2. m <= Len(q) /\ m <= Len(r)
    BY <1>1, <1>2, <2>1
  <2>3. ASSUME NEW n \in 1..m PROVE q[n] = r[n]
    <3>1. n \in DOMAIN r /\ n < i
      BY <1>1, <1>4, <2>1
    <3> QED BY <1>2, <3>1
  <2>4. f[m] = g[m]
    BY <1>2, <1>5, <1>6, <2>2, <2>3, SameBeginning
  <2> QED BY <1>7, <2>1, <2>4
<1>9. f[i] = Append(<<>>, x)
  BY <1>1, <1>5, <1>7 DEF Counts, Extended
<1> DEFINE Split(s, t) == s # <<>> /\ Head(s) = x /\ Tail(s) = t
<1>10. Split(f[i], g[i - 1])
  <2>1. <<>> \in Seq(Requests)
    BY EmptySeq
  <2> QED BY <1>3, <1>8, <1>9, <2>1, AppendProperties, HeadTailAppend
<1> DEFINE S == {n \in Nat : i - 1 <= n /\ n <= Len(r) => Split(f[n + 1], g[n])}
<1>11. 0 \in S
  BY <1>1, <1>10
<1>12. ASSUME NEW n \in Nat, n \in S PROVE n + 1 \in S
  <2> SUFFICES ASSUME i - 1 <= n + 1, n + 1 <= Len(r)
               PROVE  Split(f[n + 2], g[n + 1])
    OBVIOUS
  <2>1. CASE n + 1 = i - 1
    BY <1>1, <1>10, <2>1
  <2>2. CASE n + 1 # i - 1
    <3>0. Split(f[n + 1], g[n])
      <4>1. i - 1 <= n /\ n <= Len(r)
        BY <1>1, <1>2, <2>2
      <4> HIDE DEF Split
      <4> QED BY <1>12, <4>1
    <3>1. /\ Split(f[n + 1], g[n]) /\ (n + 1) - 1 = n /\ (n + 2) - 1 = n + 1
          /\ n + 1 \in 1..Len(r) /\ n + 2 \in 1..Len(q) /\ n + 1 >= i
          /\ n + 1 \in 0..Len(q)
      <4>1. /\ (n + 1) - 1 = n /\ (n + 2) - 1 = n + 1
            /\ n + 1 \in 1..Len(r) /\ n + 2 \in 1..Len(q) /\ n + 1 >= i
            /\ n + 1 \in 0..Len(q)
        BY <1>1, <1>2, <2>2
      <4> HIDE DEF Split
      <4> QED BY <3>0, <4>1
    <3> DEFINE y == q[n + 2].body.req
               open == IsOpen(q[n + 2].body)
    <3>2. r[n + 1] = q[n + 2]
      <4>1. n + 1 \in DOMAIN r /\ (n + 1) + 1 = n + 2
        BY <1>2, <1>4, <3>1
      <4> QED BY <1>2, <3>1, <4>1
    <3>3. /\ g[n + 1] = IF ~open THEN g[n] ELSE Append(g[n], y)
          /\ f[n + 2] = IF ~open THEN f[n + 1] ELSE Append(f[n + 1], y)
      BY <1>5, <1>6, <3>1, <3>2 DEF Counts, Extended
    <3>4. f[n + 1] \in Seq(Requests)
      BY <1>5, <3>1, CountsType
    <3>5. open => y \in Requests
      <4>1. q[n + 2] \in Msg
        BY <3>1, ElementOfSeq
      <4> QED BY <4>1 DEF Msg, CCmd, IsOpen
    <3> HIDE DEF y, open
    <3>6. CASE ~open
      BY <3>1, <3>3, <3>6
    <3>7. CASE open
      <4>0. y \in Requests /\ f[n + 1] # <<>>
        BY <3>1, <3>5, <3>7
      <4>1. /\ Append(f[n + 1], y) # <<>>
            /\ Head(Append(f[n + 1], y)) = Head(f[n + 1])
            /\ Tail(Append(f[n + 1], y)) = Append(Tail(f[n + 1]), y)
        BY <3>4, <4>0, AppendToSome
      <4> QED BY <3>1, <3>3, <3>7, <4>1
    <3> QED BY <3>6, <3>7
  <2> QED BY <2>1, <2>2
<1> HIDE DEF S, Split
<1>13. Len(r) \in S /\ Len(r) \in Nat /\ i - 1 <= Len(r) /\ Len(r) + 1 = Len(q)
  BY <1>1, <1>2, <1>11, <1>12, UpFromZero, LenProperties
<1>14. Split(f[Len(q)], g[Len(r)])
  BY <1>13 DEF S
<1> QED BY <1>5, <1>6, <1>14 DEF Counts, Split, r

-----------------------------------------------------------------------------
(* The container processes implement Service.                              *)

ServiceInv == Answers /\ OnePlace

LEMMA AnswerFields ==
  ASSUME Base, NEW p \in Procs, Processed(p)
  PROVE  /\ Answer(p) \in CCmd
         /\ Answer(p).req = cur[p].req /\ Answer(p).serial = cur[p].serial
<1>1. cur[p] \in CCmd
  BY DEF Base, Hands, Processed
<1>2. Answer(p) \in CCmd
  BY <1>1, CmdTypes DEF Answer
<1>3. Answer(p).req = cur[p].req /\ Answer(p).serial = cur[p].serial
  BY <1>1 DEF Answer, CCmd
<1> QED BY <1>2, <1>3

LEMMA ServiceInvInit == NoSerialForSvcTest2 /\ Init => ServiceInv
BY InitAnswers, InitOnePlace DEF ServiceInv

LEMMA ServiceInvNext == ServiceInv /\ [Next]_vars => ServiceInv'
BY AnswersNext, OnePlaceNext DEF ServiceInv

\* AbstractService's variables.
ToAsk == {r \in Requests : client[r] = "idle"}
Waiting == [k \in 1..2 |-> ClientRequests(queue[k])]
Working ==
  {r \in Requests :
     \/ \E p \in InHand : cur[p].req = r /\ IsOpen(cur[p])
     \/ \E p \in Procs : \E i \in Handlers : saved[p][i].req = r}
ReqsOf(q) == [i \in DOMAIN q |-> q[i].body.req]

\* The requests in the hands of a process or on the stack of a coroutine.
Busy(c, H, r) == \E p \in H : c[p].req = r /\ IsOpen(c[p])

LEMMA WorkingIs ==
  Working = {r \in Requests : Busy(cur, InHand, r) \/ Kept(saved, r)}
BY DEF Working, Busy, Kept

LEMMA WorkingNext ==
  Working' = {r \in Requests : Busy(cur', InHand', r) \/ Kept(saved', r)}
BY DEF Working, Busy, Kept

LEMMA WaitingNext == Waiting' = [k \in 1..2 |-> ClientRequests(queue'[k])]
BY Zenon DEF Waiting, ClientRequests

\* Steps that are none of the clients' business.
LEMMA Unnoticed ==
  ASSUME ToAsk' = ToAsk, Waiting' = Waiting, Working' = Working,
         ReqsOf(backQ') = ReqsOf(backQ)
  PROVE  UNCHANGED AbstractService!vars
BY Zenon DEF AbstractService!vars, ToAsk, Waiting, Working, ReqsOf

\* msgsnd of a client's request, or of another command.
LEMMA PutWaiting ==
  ASSUME TypeOK, NEW k \in 1..2, NEW t \in Nat, NEW c \in CCmd, Put(k, t, c)
  PROVE  IF ~IsOpen(c) THEN Waiting' = Waiting
         ELSE Waiting' \in {Waiting, [Waiting EXCEPT ![k] = Append(@, c.req)]}
<1> DEFINE q == queue[k]
           m == [lType |-> t, body |-> c]
           n == PutMsg(q, t, c)
<1>1. q \in Seq(Msg) /\ m \in Msg /\ m.body = c
  BY DEF TypeOK, Msg
<1>2. \A o \in 1..2 : queue'[o] = IF o = k THEN n ELSE queue[o]
  BY DEF Put, TypeOK
<1>3. n \in {q, Append(q, m)}
  BY Zenon DEF PutMsg
<1> HIDE DEF n
<1>4. ClientRequests(n) \in
        {ClientRequests(q), IF ~IsOpen(c) THEN ClientRequests(q)
                            ELSE Append(ClientRequests(q), c.req)}
  <2>1. CASE n = q
    BY <2>1
  <2>2. CASE n = Append(q, m)
    <3> HIDE DEF m, q
    <3>1. ClientRequests(Append(q, m)) =
            IF ~IsOpen(m.body) THEN ClientRequests(q)
            ELSE Append(ClientRequests(q), m.body.req)
      BY <1>1, ClientRequestsAppend
    <3> QED BY <1>1, <2>2, <3>1
  <2> QED BY <1>3, <2>1, <2>2
<1>5. \A o \in 1..2 : /\ Waiting[o] = ClientRequests(queue[o])
                      /\ Waiting'[o] = ClientRequests(queue'[o])
  BY WaitingNext DEF Waiting
<1> DEFINE now == Waiting'
<1>6. now = [o \in 1..2 |-> now[o]] /\ Waiting = [o \in 1..2 |-> Waiting[o]]
  BY WaitingNext DEF Waiting
<1>7. /\ \A o \in 1..2 \ {k} : now[o] = Waiting[o]
      /\ now[k] \in {Waiting[k], IF ~IsOpen(c) THEN Waiting[k]
                                 ELSE Append(Waiting[k], c.req)}
  BY <1>2, <1>4, <1>5
<1> HIDE DEF now
<1>8. IF ~IsOpen(c) THEN now = Waiting
      ELSE now \in {Waiting, [Waiting EXCEPT ![k] = Append(@, c.req)]}
  <2>1. CASE now[k] = Waiting[k]
    BY <1>6, <1>7, <2>1
  <2>2. CASE IsOpen(c) /\ now[k] = Append(Waiting[k], c.req)
    BY <1>6, <1>7, <2>2
  <2> QED BY <1>7, <2>1, <2>2
<1> QED BY <1>8 DEF now

LEMMA ReqsOfType ==
  ASSUME NEW q \in Seq(Msg)
  PROVE  /\ ReqsOf(q) \in Seq(Requests \cup {NoReq}) /\ Len(ReqsOf(q)) = Len(q)
         /\ \A i \in 1..Len(q) : ReqsOf(q)[i] = q[i].body.req
<1> DEFINE R == Requests \cup {NoReq}
<1>1. Len(q) \in Nat /\ DOMAIN q = 1..Len(q) /\ \A i \in 1..Len(q) : q[i] \in Msg
  BY LenProperties, ElementOfSeq
<1>2. \A i \in 1..Len(q) : q[i].body.req \in R
  BY <1>1 DEF Msg, CCmd
<1>3. ReqsOf(q) = [i \in 1..Len(q) |-> q[i].body.req]
  BY <1>1 DEF ReqsOf
<1>4. ReqsOf(q) \in [1..Len(q) -> R]
  BY <1>2, <1>3
<1>5. ReqsOf(q) \in Seq(R)
  BY <1>1, <1>4, SeqDef
<1>6. Len(ReqsOf(q)) = Len(q)
  <2>1. DOMAIN ReqsOf(q) = 1..Len(q) /\ DOMAIN ReqsOf(q) = 1..Len(ReqsOf(q))
        /\ Len(ReqsOf(q)) \in Nat
    BY <1>4, <1>5, LenProperties
  <2> QED BY <1>1, <2>1
<1> QED BY <1>3, <1>5, <1>6

\* msgsnd of an answer: queued behind the others, or refused.
LEMMA ReqsOfPut ==
  ASSUME NEW q \in Seq(Msg), Len(q) <= QCap, NEW t \in Nat, NEW c \in CCmd
  PROVE  ReqsOf(PutMsg(q, t, c)) \in {ReqsOf(q), Append(ReqsOf(q), c.req)}
<1> DEFINE m == [lType |-> t, body |-> c]
           a == Append(q, m)
           R == Requests \cup {NoReq}
<1>1. m \in Msg /\ m.body = c /\ c.req \in R
  BY DEF Msg, CCmd
<1>2. CASE PutMsg(q, t, c) = a
  <2> HIDE DEF m
  <2>1. /\ a \in Seq(Msg) /\ Len(a) = Len(q) + 1 /\ Len(q) \in Nat
        /\ \A i \in 1..Len(q) : a[i] = q[i]
        /\ a[Len(q) + 1] = m
    BY <1>1, AppendProperties, LenProperties
  <2> DEFINE b == Append(ReqsOf(q), c.req)
  <2>2. /\ ReqsOf(q) \in Seq(R) /\ Len(ReqsOf(q)) = Len(q)
        /\ \A i \in 1..Len(q) : ReqsOf(q)[i] = q[i].body.req
    BY ReqsOfType
  <2>3. /\ b \in Seq(R) /\ Len(b) = Len(q) + 1
        /\ \A i \in 1..Len(q) : b[i] = ReqsOf(q)[i]
        /\ b[Len(q) + 1] = c.req
    BY <1>1, <2>2, AppendProperties
  <2> HIDE DEF a, b, R
  <2>4. /\ ReqsOf(a) \in Seq(R) /\ Len(ReqsOf(a)) = Len(q) + 1
        /\ \A i \in 1..(Len(q) + 1) : ReqsOf(a)[i] = a[i].body.req
    BY <2>1, ReqsOfType DEF R
  <2>5. ASSUME NEW i \in 1..(Len(q) + 1) PROVE ReqsOf(a)[i] = b[i]
    <3>1. i \in 1..Len(q) \/ i = Len(q) + 1
      BY <2>1
    <3> QED BY <1>1, <2>1, <2>2, <2>3, <2>4, <3>1
  <2>6. ReqsOf(a) = b
    BY <2>3, <2>4, <2>5, SeqEqual
  <2> QED BY <1>2, <2>6 DEF b
<1>3. CASE PutMsg(q, t, c) # a
  BY <1>3, Zenon DEF PutMsg
<1> QED BY <1>2, <1>3

\* msgrcv of an answer by netio.
LEMMA ReqsOfTail ==
  ASSUME NEW q \in Seq(Msg), q # <<>>
  PROVE  ReqsOf(q) # <<>> /\ ReqsOf(Tail(q)) = Tail(ReqsOf(q))
<1> DEFINE R == Requests \cup {NoReq}
           a == ReqsOf(q)
           t == Tail(q)
           b == ReqsOf(t)
<1>1. /\ Len(q) \in Nat \ {0}
      /\ t \in Seq(Msg) /\ Len(t) = Len(q) - 1
      /\ \A i \in 1..Len(t) : t[i] = q[i + 1]
  BY HeadTailProperties, LenProperties, EmptySeq
<1>2. /\ a \in Seq(R) /\ Len(a) = Len(q)
      /\ \A i \in 1..Len(q) : a[i] = q[i].body.req
  BY ReqsOfType
<1> HIDE DEF t
<1>3. /\ b \in Seq(R) /\ Len(b) = Len(t)
      /\ \A i \in 1..Len(t) : b[i] = t[i].body.req
  BY <1>1, ReqsOfType
<1> HIDE DEF a, b, R
<1>4. a # <<>>
  BY <1>1, <1>2, EmptySeq
<1>5. /\ Tail(a) \in Seq(R) /\ Len(Tail(a)) = Len(q) - 1
      /\ \A i \in 1..Len(Tail(a)) : Tail(a)[i] = a[i + 1]
  BY <1>2, <1>4, HeadTailProperties
<1>6. ASSUME NEW i \in 1..(Len(q) - 1) PROVE b[i] = Tail(a)[i]
  <2>1. i \in 1..Len(t) /\ i \in 1..Len(Tail(a)) /\ i + 1 \in 1..Len(q)
    BY <1>1, <1>5
  <2> QED BY <1>1, <1>2, <1>3, <1>5, <2>1
<1>7. b = Tail(a)
  BY <1>1, <1>3, <1>5, <1>6, SeqEqual
<1> QED BY <1>4, <1>7 DEF a, b, t

LEMMA NoReqIsNobody == NoReq \notin Requests /\ NoCmd.req = NoReq
BY ContainerAssumption DEF ContainerAssumption, NoCmd

\* A client asks once: its request is queued or refused.
LEMMA AskImplements ==
  ASSUME ServiceInv, ~ClientsAskAgain, NEW r \in Requests, Ask(r)
  PROVE  AbstractService!Ask(r)
<1>1. r \in ToAsk /\ ToAsk' = ToAsk \ {r}
  <2>1. client[r] = "idle"
    BY DEF Ask
  <2>2. \A x \in Requests : client'[x] = IF x = r THEN "waiting" ELSE client[x]
    BY DEF Ask, ServiceInv, OnePlace, Base, TypeOK
  <2> QED BY <2>1, <2>2 DEF ToAsk
<1>2. Waiting' \in {Waiting, [Waiting EXCEPT ![CmdOf[r]] = Append(@, r)]}
  <2>1. CmdOf[r] \in 1..2 /\ REQUEST \in Nat /\ TypeOK
    BY ContainerAssumption
       DEF ContainerAssumption, REQUEST, ServiceInv, OnePlace, Base
  <2>2. PICK c \in CCmd :
          Put(CmdOf[r], REQUEST, c) /\ c.req = r /\ IsOpen(c)
    <3>1. PICK sn \in SerialsOf[r], rn \in RetsOf[r] :
            /\ Put(CmdOf[r], REQUEST, ClientCmd(r, sn, rn))
            /\ ClientCmd(r, sn, rn) \in CCmd
      BY AskPuts
    <3>2. ClientCmd(r, sn, rn).req = r /\ IsOpen(ClientCmd(r, sn, rn))
      BY NoReqIsNobody DEF ClientCmd, IsOpen, REQUEST, RESPONSE
    <3> QED BY <3>1, <3>2
  <2> QED BY <2>1, <2>2, PutWaiting
<1>3. Working' = Working
  <2>1. cur' = cur /\ saved' = saved /\ InHand' = InHand
    BY DEF Ask, procVars, InHand
  <2> QED BY <2>1, WorkingIs, WorkingNext
<1>4. backQ' = backQ
  BY DEF Ask
<1> QED BY <1>1, <1>2, <1>3, <1>4, Zenon
        DEF AbstractService!Ask, ToAsk, Waiting, Working, ReqsOf

\* A delivered answer: its client had asked, and will not again.
LEMMA DeliverImplements ==
  ASSUME ServiceInv, Deliver
  PROVE  AbstractService!Deliver
<1>1. backQ \in Seq(Msg) /\ backQ # <<>> /\ backQ' = Tail(backQ)
  BY DEF Deliver, ServiceInv, OnePlace, Base, TypeOK
<1>2. ReqsOf(backQ) # <<>> /\ ReqsOf(backQ') = Tail(ReqsOf(backQ))
  BY <1>1, ReqsOfTail
<1>3. ToAsk' = ToAsk
  <2> DEFINE x == Head(backQ).body.req
  <2>1. 1 \in DOMAIN backQ /\ Head(backQ) = backQ[1]
    BY <1>1, LenProperties, EmptySeq
  <2>2. x \in Requests => client[x] = "waiting"
    <3>1. x \in Requests => In(backQ, x)
      BY <2>1 DEF In
    <3> QED BY <3>1 DEF ServiceInv, OnePlace, Apart
  <2>3. client' = [client EXCEPT ![x] = "answered"]
    BY DEF Deliver
  <2> HIDE DEF x
  <2>4. \A y \in Requests : client'[y] = IF y = x THEN "answered" ELSE client[y]
    BY <2>3 DEF ServiceInv, OnePlace, Base, TypeOK
  <2> QED BY <2>2, <2>4 DEF ToAsk
<1>4. Waiting' = Waiting
  BY WaitingNext DEF Deliver, Waiting
<1>5. Working' = Working
  <2>1. cur' = cur /\ saved' = saved /\ InHand' = InHand
    BY DEF Deliver, procVars, InHand
  <2> QED BY <2>1, WorkingIs, WorkingNext
<1>6. ToAsk' \in {ToAsk} \cup {ToAsk \ {r} : r \in ToAsk}
  BY <1>3
<1> QED BY <1>2, <1>4, <1>5, <1>6, Zenon
        DEF AbstractService!Deliver, ToAsk, Waiting, Working, ReqsOf

\* A process that starts has nobody's request.
LEMMA StartUnnoticed ==
  ASSUME ServiceInv, NEW p \in Procs, Start(p)
  PROVE  UNCHANGED AbstractService!vars
<1>1. InHand' = InHand
  BY DEF Start, InHand, ServiceInv, OnePlace, Base, TypeOK
<1>2. UNCHANGED <<client, queue, backQ, cur, saved>>
  BY DEF Start
<1>3. Working' = Working
  BY <1>1, <1>2, WorkingIs, WorkingNext
<1>4. Waiting' = Waiting
  BY <1>2, WaitingNext DEF Waiting
<1>5. ToAsk' = ToAsk
  BY <1>2 DEF ToAsk
<1> QED BY <1>2, <1>3, <1>4, <1>5, Unnoticed

\* One that dies loses what it was working on.
LEMMA DieImplements ==
  ASSUME ServiceInv, NEW p \in Procs, Die(p)
  PROVE  AbstractService!Lose
<1>1. /\ InHand' = InHand \ {p} /\ InHand \subseteq Procs
      /\ \A q \in Procs \ {p} : cur'[q] = cur[q] /\ saved'[q] = saved[q]
      /\ \A i \in Handlers : saved'[p][i] = NoCmd
      /\ UNCHANGED <<client, queue, backQ>>
  BY DEF Die, InHand, ServiceInv, OnePlace, Base, TypeOK
<1>2. \A r \in Requests : /\ Busy(cur', InHand', r) => Busy(cur, InHand, r)
                          /\ Kept(saved', r) => Kept(saved, r)
  BY <1>1, NoReqIsNobody DEF Busy, Kept
<1>3. Working' \in SUBSET Working
  BY <1>2, WorkingIs, WorkingNext
<1>4. Waiting' = Waiting
  BY <1>1, WaitingNext DEF Waiting
<1>5. ToAsk' = ToAsk
  BY <1>1 DEF ToAsk
<1> QED BY <1>1, <1>3, <1>4, <1>5, Zenon
        DEF AbstractService!Lose, ToAsk, Waiting, Working, ReqsOf

\* Receiving a message moves its request, if any, into the hands of the
\* process, and leaves the others in their order.
LEMMA TakeImplements ==
  ASSUME ServiceInv, NEW p \in Procs, NEW t, Take(p, t),
         pc[p] \in {"poll", "pollApp"},
         UNCHANGED <<client, backQ, pid, lastPid, stateless, stateful, saved>>,
         LET q == queue[SvcOf[p]]
             i == First(q, t)
         IN  \/ ~IsOpen(q[i].body)
             \/ \A j \in 1..(i - 1) : ~IsOpen(q[j].body)
  PROVE  \/ UNCHANGED AbstractService!vars
         \/ AbstractService!Take(SvcOf[p])
<1> DEFINE k == SvcOf[p]
           q == queue[k]
           i == First(q, t)
           x == q[i].body.req
           open == IsOpen(q[i].body)
           n == RemoveAt(q, i)
<1>1. k \in 1..2
  BY ContainerAssumption DEF ContainerAssumption
<1>2. q \in Seq(Msg)
  BY <1>1 DEF ServiceInv, OnePlace, Base, TypeOK
<1>3. i \in DOMAIN q
  BY <1>2, FirstProperties DEF Take
<1>4. open => x \in Requests
  BY <1>2, <1>3, QueueElement DEF CCmd, IsOpen
<1>5. /\ \A o \in 1..2 : queue'[o] = IF o = k THEN n ELSE queue[o]
      /\ cur' = [cur EXCEPT ![p] = q[i].body]
      /\ pc' = [pc EXCEPT ![p] = "busy"]
  BY DEF Take, ServiceInv, OnePlace, Base, TypeOK
<1>6. /\ p \notin InHand /\ InHand' = InHand \cup {p} /\ InHand \subseteq Procs
      /\ cur'[p].req = x /\ IsOpen(cur'[p]) = open
      /\ \A y \in InHand : cur'[y] = cur[y]
  BY <1>5 DEF InHand, ServiceInv, OnePlace, Base, TypeOK
<1>7. ~open \/ \A j \in 1..(i - 1) : ~IsOpen(q[j].body)
  OBVIOUS
<1>8. ~open => ClientRequests(n) = ClientRequests(q)
  BY <1>2, <1>3, ClientRequestsWithout
<1>9. open => /\ ClientRequests(q) # <<>> /\ Head(ClientRequests(q)) = x
              /\ ClientRequests(n) = Tail(ClientRequests(q))
  BY <1>2, <1>3, <1>7, ClientRequestsFirst
<1>10. q = queue[k]
  OBVIOUS
<1> HIDE DEF n, open, x, i, q
<1> DEFINE now == Waiting'
<1>11. /\ now = [o \in 1..2 |-> ClientRequests(queue'[o])]
       /\ Waiting = [o \in 1..2 |-> ClientRequests(queue[o])]
  BY WaitingNext DEF Waiting
<1> HIDE DEF now
<1>12. ToAsk' = ToAsk /\ backQ' = backQ /\ saved' = saved
  BY DEF ToAsk
<1>13. Working' = {r \in Requests : r \in Working \/ (open /\ r = x)}
  <2>1. \A r : Busy(cur', InHand', r) <=> Busy(cur, InHand, r) \/ (open /\ r = x)
    BY <1>6 DEF Busy
  <2> QED BY <2>1, <1>12, WorkingIs, WorkingNext
<1>14. CASE ~open
  <2>1. now = Waiting
    BY <1>1, <1>5, <1>8, <1>10, <1>11, <1>14
  <2>2. Working' = Working
    BY <1>13, <1>14, WorkingIs
  <2>3. Waiting' = Waiting
    BY <2>1 DEF now
  <2> QED BY <2>2, <2>3, <1>12, Unnoticed
<1>15. CASE open
  <2>1. Waiting[k] # <<>> /\ Head(Waiting[k]) = x
    BY <1>1, <1>9, <1>10, <1>11, <1>15
  <2>2. now = [Waiting EXCEPT ![k] = Tail(@)]
    BY <1>1, <1>5, <1>9, <1>10, <1>11, <1>15
  <2>3. Waiting' = [Waiting EXCEPT ![k] = Tail(@)]
    BY <2>2 DEF now
  <2>4. Working' = Working \cup {Head(Waiting[k])}
    BY <1>4, <1>13, <1>15, <2>1, WorkingIs
  <2>5. AbstractService!Take(k)
    BY <2>1, <2>3, <2>4, <1>12, Zenon
       DEF AbstractService!Take, ToAsk, Waiting, Working, ReqsOf
  <2> QED BY <2>5
<1> QED BY <1>14, <1>15

\* Only results, of nested calls or taken for such, travel under other types
\* than REQUEST.
LEMMA OthersAreResults ==
  ASSUME ServiceInv, NEW k \in 1..2, NEW j \in DOMAIN queue[k],
         queue[k][j].lType # REQUEST
  PROVE  ~IsOpen(queue[k][j].body)
<1>1. queue[k][j] \in Elems(queue[k])
  BY DEF Elems
<1>2. Kind(k, queue[k][j])
  BY <1>1 DEF ServiceInv, Answers, Calls, QueueKinds
<1> QED BY <1>2 DEF Kind, IsOpen

\* A poll that finds a client request takes the oldest of its queue, because
\* messages it passes over are replies; any other poll is not noticed.
LEMMA PollImplements ==
  ASSUME ServiceInv, NEW p \in Procs, PollRequest(p) \/ PollApp(p)
  PROVE  \/ UNCHANGED AbstractService!vars
         \/ AbstractService!Take(SvcOf[p])
<1> DEFINE q == queue[SvcOf[p]]
<1>1. SvcOf[p] \in 1..2
  BY ContainerAssumption DEF ContainerAssumption
<1>2. q \in Seq(Msg)
  BY <1>1 DEF ServiceInv, OnePlace, Base, TypeOK
<1>3. CASE PollRequest(p) /\ Take(p, REQUEST)
  <2>1. ASSUME NEW j \in 1..(First(q, REQUEST) - 1)
        PROVE  ~IsOpen(q[j].body)
    <3>1. First(q, REQUEST) \in DOMAIN q /\ q[j].lType # REQUEST
      BY <1>2, <1>3, FirstProperties DEF Take
    <3>2. j \in DOMAIN q
      BY <1>2, <3>1, LenProperties
    <3> QED BY <1>1, <3>1, <3>2, OthersAreResults
  <2> QED BY <1>3, <2>1, TakeImplements DEF PollRequest
<1>4. CASE PollApp(p) /\ Take(p, AppType(pid[p]))
  <2> DEFINE t == AppType(pid[p])
             i == First(q, t)
  <2>1. t # REQUEST
    <3>1. pid[p] \in Nat /\ 0 \in Handlers
      BY ContainerAssumption
      DEF ServiceInv, OnePlace, Base, TypeOK, ContainerAssumption, Handlers
    <3>2. pc[p] # "dead"
      BY <1>4 DEF PollApp
    <3>3. pid[p] > 0
      BY <3>2 DEF ServiceInv, OnePlace, Base, Pids
    <3> QED BY <3>1, <3>3, Numbering
  <2>2. i \in DOMAIN q /\ q[i].lType = t
    BY <1>2, <1>4, FirstProperties DEF Take
  <2>3. ~IsOpen(q[i].body)
    BY <1>1, <2>1, <2>2, OthersAreResults
  <2> QED BY <1>4, <2>3, TakeImplements DEF PollApp
<1>5. CASE ~(PollRequest(p) /\ Take(p, REQUEST))
           /\ ~(PollApp(p) /\ Take(p, AppType(pid[p])))
  <2>1. /\ UNCHANGED <<client, queue, backQ, cur, saved>>
        /\ InHand' = InHand
    BY <1>5 DEF PollRequest, PollApp, InHand, ServiceInv, OnePlace, Base, TypeOK
  <2>2. Working' = Working
    BY <2>1, WorkingIs, WorkingNext
  <2>3. Waiting' = Waiting
    BY <2>1, WaitingNext DEF Waiting
  <2>4. ToAsk' = ToAsk
    BY <2>1 DEF ToAsk
  <2> QED BY <2>1, <2>2, <2>3, <2>4, Unnoticed
<1> QED BY <1>3, <1>4, <1>5

\* A reply to a nested call is none of the clients' business; an answer to a
\* client is queued behind the others or refused.
LEMMA ReplyMapped ==
  ASSUME ServiceInv, NEW c \in CCmd, Reply(c)
  PROVE  /\ Waiting' = Waiting
         /\ c.serial # 0 => backQ' = backQ
         /\ c.serial = 0 => ReqsOf(backQ') \in
                              {ReqsOf(backQ), Append(ReqsOf(backQ), c.req)}
<1> DEFINE r == [c EXCEPT !.type = RESPONSE]
           t == AppType(PidOfSerial(c.serial))
<1>1. r \in CCmd /\ r.req = c.req /\ ~IsOpen(r)
  BY CmdTypes DEF CCmd, IsOpen
<1>2. c.cmd \in 1..2 /\ c.serial \in Nat /\ RESPONSE \in Nat
  BY DEF CCmd, RESPONSE
<1>3. TypeOK
  BY DEF ServiceInv, OnePlace, Base
<1>4. CASE c.serial # 0
  <2>1. Put(c.cmd, t, r) /\ backQ' = backQ
    BY <1>4 DEF Reply, Put
  <2>2. t \in Nat
    BY <1>2 DEF AppType, PidOfSerial, APP
  <2> HIDE DEF r, t
  <2>4. Waiting' = Waiting
    BY <1>1, <1>2, <1>3, <2>1, <2>2, PutWaiting
  <2> QED BY <1>4, <2>1, <2>4
<1>5. CASE c.serial = 0
  <2>1. backQ' = PutMsg(backQ, RESPONSE, r) /\ queue' = queue
    BY <1>5 DEF Reply
  <2>2. backQ \in Seq(Msg) /\ Len(backQ) <= QCap
    BY <1>3 DEF TypeOK
  <2> HIDE DEF r
  <2>3. ReqsOf(backQ') \in {ReqsOf(backQ), Append(ReqsOf(backQ), r.req)}
    BY <1>1, <1>2, <2>1, <2>2, ReqsOfPut
  <2>4. Waiting' = Waiting
    BY <2>1, WaitingNext DEF Waiting
  <2> QED BY <1>1, <1>5, <2>3, <2>4
<1> QED BY <1>4, <1>5

\* What ProcessMsg must do to answer client r.
LEMMA Answered ==
  ASSUME NEW r \in Requests, r \in Working, client' = client,
         Waiting' = Waiting, Working' = Working \ {r},
         ReqsOf(backQ') \in {ReqsOf(backQ), Append(ReqsOf(backQ), r)}
  PROVE  AbstractService!Answer(r)
<1>1. ToAsk' = ToAsk
  BY DEF ToAsk
<1> QED BY <1>1, Zenon
        DEF AbstractService!Answer, ToAsk, Waiting, Working, ReqsOf

\* ProcessMsg lets go of the command it worked on, and of no other.
LEMMA HandGone ==
  ASSUME ServiceInv, NEW p \in Procs, Processed(p), NEW r \in Requests
  PROVE  Busy(cur', InHand', r) <=> Busy(cur, InHand, r) /\ cur[p].req # r
<1>1. /\ p \in InHand /\ InHand' = InHand \ {p} /\ InHand \subseteq Procs
      /\ \A x \in InHand' : cur'[x] = cur[x]
      /\ Held(cur', InHand', r) => Held(cur, InHand, r) /\ cur[p].req # r
  BY HandReleased DEF ServiceInv
<1>2. Busy(cur', InHand', r) => Busy(cur, InHand, r) /\ cur[p].req # r
  BY <1>1 DEF Busy, Held
<1>3. Busy(cur, InHand, r) /\ cur[p].req # r => Busy(cur', InHand', r)
  BY <1>1 DEF Busy
<1> QED BY <1>2, <1>3

\* svc_test, and a process without a free handler, answer a client or reply
\* to a nested call; an answer taken for such a reply is lost for its client.
LEMMA AtOnceImplements ==
  ASSUME ServiceInv, NEW p \in Procs, Processed(p),
         ProcessNoFree(p) \/ ProcessSvcTest(p)
  PROVE  \/ UNCHANGED AbstractService!vars
         \/ \E r \in Requests : AbstractService!Answer(r)
<1> DEFINE c == Answer(p)
           x == cur[p].req
<1>1. Reply(c) /\ saved' = saved /\ cur[p].type # RESPONSE
  BY DEF ProcessNoFree, ProcessSvcTest, Answer
<1>2. c \in CCmd /\ c.req = x /\ c.serial = cur[p].serial
  BY AnswerFields DEF ServiceInv, OnePlace
<1>3. /\ p \in InHand /\ cur[p] \in CCmd /\ client' = client
      /\ x \in Requests \cup {NoReq}
  BY HandReleased DEF ServiceInv, CCmd
<1>4. x = NoReq => c.serial # 0
  BY <1>2, <1>3 DEF ServiceInv, Answers, Contents, Worded
<1> HIDE DEF c
<1>5. /\ Waiting' = Waiting
      /\ c.serial # 0 => backQ' = backQ
      /\ c.serial = 0 => ReqsOf(backQ') \in
                           {ReqsOf(backQ), Append(ReqsOf(backQ), c.req)}
  BY <1>1, <1>2, ReplyMapped
<1>6. Working' = {r \in Working : r # x}
  <2>1. \A r \in Requests :
          Busy(cur', InHand', r) <=> Busy(cur, InHand, r) /\ r # x
    BY HandGone
  <2>2. x \in Requests => ~Kept(saved, x)
    <3>1. x \in Requests => Held(cur, InHand, x)
      BY <1>3 DEF Held
    <3> QED BY <3>1 DEF ServiceInv, OnePlace, Apart
  <2> HIDE DEF x
  <2> QED BY <1>1, <2>1, <2>2, WorkingIs, WorkingNext
<1>7. CASE x = NoReq
  <2>1. Working' = Working
    BY <1>6, <1>7, WorkingIs, NoReqIsNobody
  <2>2. ToAsk' = ToAsk
    BY <1>3 DEF ToAsk
  <2>3. backQ' = backQ
    BY <1>4, <1>5, <1>7
  <2> QED BY <1>5, <2>1, <2>2, <2>3, Unnoticed
<1>8. CASE x # NoReq
  <2>1. x \in Requests /\ IsOpen(cur[p])
    BY <1>1, <1>3, <1>8 DEF IsOpen
  <2>2. x \in Working
    BY <1>3, <2>1 DEF Working
  <2> HIDE DEF x
  <2>3. Working' = Working \ {x}
    BY <1>6
  <2>4. PICK r \in Requests : r = x
    BY <2>1
  <2>5. ReqsOf(backQ') \in {ReqsOf(backQ), Append(ReqsOf(backQ), r)}
    <3>1. CASE c.serial # 0
      <4>1. backQ' = backQ
        BY <1>5, <3>1
      <4> QED BY <4>1
    <3>2. CASE c.serial = 0
      BY <1>2, <1>5, <2>4, <3>2
    <3> QED BY <3>1, <3>2
  <2>6. r \in Working /\ Working' = Working \ {r}
    BY <2>2, <2>3, <2>4
  <2>7. AbstractService!Answer(r)
    BY <1>3, <1>5, <2>5, <2>6, Answered
  <2> QED BY <2>7
<1> QED BY <1>7, <1>8

\* A request whose coroutine is suspended is still being worked on.
LEMMA SuspendUnnoticed ==
  ASSUME ServiceInv, NEW p \in Procs, Processed(p), ProcessSvcTest2(p)
  PROVE  UNCHANGED AbstractService!vars
<1> DEFINE h == FirstHandler(p)
           s == SerialNo(pid[p], h)
           n == NestedCmd(s, cur[p].origin)
           x == cur[p].req
<1>1. h \in Handlers /\ h \in stateless[p]
  BY FirstHandlerFree
  DEF ServiceInv, OnePlace, Base, TypeOK, ProcessSvcTest2
<1>2. /\ p \in InHand /\ cur[p] \in CCmd /\ client' = client
  BY HandReleased DEF ServiceInv
<1>3. /\ saved' = [saved EXCEPT ![p] = [saved[p] EXCEPT ![h] = cur[p]]]
      /\ Put(1, REQUEST, n) /\ backQ' = backQ /\ cur[p].type # RESPONSE
  BY DEF ProcessSvcTest2, Put
<1>4. n \in CCmd /\ ~IsOpen(n)
  <2>1. pid[p] \in Nat /\ cur[p].origin \in Requests
    BY <1>2 DEF ServiceInv, OnePlace, Base, TypeOK, CCmd
  <2>2. s \in Nat
    BY <1>1, <2>1, Numbering
  <2>3. n \in CCmd
    BY <2>1, <2>2, CmdTypes
  <2>4. ~IsOpen(n)
    BY DEF NestedCmd, IsOpen
  <2> QED BY <2>3, <2>4
<1> HIDE DEF n, s, h
<1>5. Waiting' = Waiting
  <2>1. TypeOK
    BY DEF ServiceInv, OnePlace, Base
  <2> QED BY <1>3, <1>4, <2>1, PutWaiting DEF REQUEST
<1>6. saved[p][h].req \notin Requests
  <2>1. saved[p][h] = NoCmd
    BY <1>1 DEF ServiceInv, OnePlace, Base, HandlersPartition
  <2> QED BY <2>1, NoReqIsNobody
<1>7. x \in Requests => Busy(cur, InHand, x)
  BY <1>2, <1>3, NoReqIsNobody DEF Busy, IsOpen
<1>8. \A q \in Procs : \A i \in Handlers :
        saved'[q][i].req = IF q = p /\ i = h THEN x ELSE saved[q][i].req
  BY <1>1, <1>3 DEF ServiceInv, OnePlace, Base, TypeOK
<1>9. \A r \in Requests :
        Busy(cur', InHand', r) <=> Busy(cur, InHand, r) /\ r # x
  BY HandGone
<1> HIDE DEF x
<1>10. \A r \in Requests : Kept(saved', r) <=> Kept(saved, r) \/ r = x
  BY <1>1, <1>6, <1>8 DEF Kept
<1>11. Working' = Working
  BY <1>7, <1>9, <1>10, WorkingIs, WorkingNext
<1>12. ToAsk' = ToAsk
  BY <1>2 DEF ToAsk
<1> QED BY <1>3, <1>5, <1>11, <1>12, Unnoticed

\* The resumed coroutine answers for the request it had saved.
LEMMA ResumeImplements ==
  ASSUME ServiceInv, NEW p \in Procs, Processed(p), ProcessResponse(p)
  PROVE  \E r \in Requests : AbstractService!Answer(r)
<1>1. PICK h \in stateful[p] :
        /\ cur[p].type = RESPONSE
        /\ Reply([saved[p][h] EXCEPT !.ret = 0, !.serial = 0,
                                     !.data = Append(cur[p].data, "r2")])
        /\ saved' = [saved EXCEPT ![p] = [saved[p] EXCEPT ![h] = NoCmd]]
  BY DEF ProcessResponse
<1> DEFINE c == [saved[p][h] EXCEPT !.ret = 0, !.serial = 0,
                                    !.data = Append(cur[p].data, "r2")]
           x == saved[p][h].req
<1>2. h \in Handlers /\ saved[p][h] \in CCmd
  BY DEF ServiceInv, OnePlace, Base, TypeOK, HandlersPartition
<1>3. c \in CCmd /\ Reply(c)
  BY <1>1, ResumedTypes DEF ServiceInv, OnePlace, Processed
<1>4. c.req = x /\ c.serial = 0
  BY <1>2 DEF CCmd
<1> HIDE DEF c
<1>5. x \in Requests
  BY <1>2 DEF ServiceInv, Answers, Contents, CCmd
<1>6. x \in Working
  BY <1>2, <1>5 DEF Working
<1>7. /\ Waiting' = Waiting
      /\ ReqsOf(backQ') \in {ReqsOf(backQ), Append(ReqsOf(backQ), x)}
  BY <1>3, <1>4, ReplyMapped
<1>8. client' = client /\ p \in InHand
  BY HandReleased DEF ServiceInv
<1>9. cur[p].req \notin Requests
  <2>1. SvcOf[p] # 1
    BY DEF ServiceInv, OnePlace, Base, Idle
  <2>2. CallNo(cur[p]) # 0
    BY <1>1, <1>8, <2>1 DEF ServiceInv, Answers, Calls, HandKinds
  <2> QED BY <2>2, NoReqIsNobody DEF CallNo
<1>10. \A r \in Requests : Busy(cur', InHand', r) <=> Busy(cur, InHand, r)
  BY <1>9, HandGone
<1>11. ~Busy(cur, InHand, x)
  <2>1. Kept(saved, x)
    BY <1>2 DEF Kept
  <2>2. ~Held(cur, InHand, x)
    BY <1>5, <2>1 DEF ServiceInv, OnePlace, Apart
  <2> QED BY <2>2 DEF Held, Busy
<1>12. \A q \in Procs : \A i \in Handlers :
         saved'[q][i] = IF q = p /\ i = h THEN NoCmd ELSE saved[q][i]
  BY <1>1, <1>2 DEF ServiceInv, OnePlace, Base, TypeOK
<1>13. \A r \in Requests : Kept(saved', r) <=> Kept(saved, r) /\ r # x
  BY <1>2, <1>5, <1>12, NoReqIsNobody DEF Kept, ServiceInv, OnePlace, Singles
<1> HIDE DEF x
<1>14. Working' = Working \ {x}
  BY <1>10, <1>11, <1>13, WorkingIs, WorkingNext
<1>15. PICK r \in Requests : r = x
  BY <1>5
<1>16. /\ r \in Working /\ Working' = Working \ {r}
       /\ ReqsOf(backQ') \in {ReqsOf(backQ), Append(ReqsOf(backQ), r)}
  BY <1>6, <1>7, <1>14, <1>15
<1>17. AbstractService!Answer(r)
  BY <1>7, <1>8, <1>16, Answered
<1> QED BY <1>17

\* Every step of the processes is one of Service or is not noticed.
LEMMA NextImplements ==
  ~ClientsAskAgain /\ ServiceInv /\ [Next]_vars =>
    [AbstractService!Next]_(AbstractService!vars)
<1> SUFFICES ASSUME ~ClientsAskAgain, ServiceInv, [Next]_vars
             PROVE  [AbstractService!Next]_(AbstractService!vars)
  OBVIOUS
<1>1. ASSUME NEW r \in Requests, Ask(r) PROVE AbstractService!Next
  BY <1>1, AskImplements DEF AbstractService!Next
<1>2. CASE Deliver
  BY <1>2, DeliverImplements DEF AbstractService!Next
<1>3. ASSUME NEW p \in Procs, Start(p) PROVE UNCHANGED AbstractService!vars
  BY <1>3, StartUnnoticed
<1>4. ASSUME NEW p \in Procs, Crash(p) \/ DispatchAborts(p)
      PROVE  AbstractService!Next
  <2>1. Die(p)
    BY <1>4 DEF Crash, DispatchAborts
  <2> QED BY <2>1, DieImplements DEF AbstractService!Next
<1>5. ASSUME NEW p \in Procs, PollRequest(p) \/ PollApp(p)
      PROVE  UNCHANGED AbstractService!vars \/ AbstractService!Next
  <2>1. SvcOf[p] \in 1..2
    BY ContainerAssumption DEF ContainerAssumption
  <2> QED BY <1>5, <2>1, PollImplements DEF AbstractService!Next
<1>6. ASSUME NEW p \in Procs, ProcessMsg(p)
      PROVE  UNCHANGED AbstractService!vars \/ AbstractService!Next
  <2>1. Processed(p)
    BY <1>6 DEF ProcessMsg, Processed
  <2> QED
    BY <1>6, <2>1, AtOnceImplements, SuspendUnnoticed, ResumeImplements
    DEF ProcessMsg, AbstractService!Next
<1>7. CASE UNCHANGED vars
  <2>1. /\ UNCHANGED <<client, queue, backQ, cur, saved>> /\ InHand' = InHand
    BY <1>7 DEF vars, InHand
  <2>2. Working' = Working
    BY <2>1, WorkingIs, WorkingNext
  <2>3. Waiting' = Waiting /\ ToAsk' = ToAsk
    BY <2>1, WaitingNext DEF Waiting, ToAsk
  <2> QED BY <2>1, <2>2, <2>3, Unnoticed
<1> QED BY <1>1, <1>2, <1>3, <1>4, <1>5, <1>6, <1>7 DEF Next, Loop

LEMMA InitImplements == Init => AbstractService!Init
<1> SUFFICES ASSUME Init PROVE AbstractService!Init
  OBVIOUS
<1>1. ToAsk = Requests
  BY DEF Init, ToAsk
<1>2. Waiting = [k \in 1..2 |-> <<>>]
  <2>1. \A k \in 1..2 : queue[k] = <<>>
    BY DEF Init
  <2>2. <<>> \in Seq(Msg) /\ Len(<<>>) = 0
    BY EmptySeq
  <2>3. ClientRequests(<<>>) = <<>>
    BY <2>2, ClientRequestsUnfold
  <2> QED BY <2>1, <2>3 DEF Waiting
<1>3. Working = {}
  <2>1. InHand = {} /\ \A p \in Procs : \A i \in Handlers : saved[p][i] = NoCmd
    BY DEF Init, InHand
  <2> QED BY <2>1, NoReqIsNobody DEF Working
<1>4. ReqsOf(backQ) = <<>>
  BY DEF Init, ReqsOf
<1> QED BY <1>1, <1>2, <1>3, <1>4, Zenon
        DEF AbstractService!Init, ToAsk, Waiting, Working, ReqsOf

\* Where clients ask once, and those of the second command write no serial
\* number, the container processes implement Service, with all their
\* coroutines, nested calls, full queues, crashes and restarts: every request
\* is taken in its turn, worked on once and answered once, or lost.
THEOREM ContainerImplementsService ==
  ASSUME ~ClientsAskAgain, NoSerialForSvcTest2
  PROVE  Spec => ImplementsService
<1>1. Init => AbstractService!Init
  BY InitImplements
<1>2. ServiceInv /\ [Next]_vars => [AbstractService!Next]_(AbstractService!vars)
  BY NextImplements
<1> QED BY <1>1, <1>2, ServiceInvInit, ServiceInvNext, PTL
        DEF Spec, ImplementsService, AbstractService!Spec

-----------------------------------------------------------------------------
(* Nothing is lost.  When no process dies, each message in a queue works   *)
(* for a client request of its own: a request for itself, a nested call    *)
(* for the one its coroutine has saved.  So a queue that holds as many     *)
(* messages as there are client requests never refuses one, and what is    *)
(* taken from one place is always found in the next.                       *)

\* msgsnd with room: what was there stays, the message is there.
LEMMA PutWithRoom ==
  ASSUME NEW q \in Seq(Msg), Len(q) < QCap, NEW t \in Nat, NEW c \in CCmd
  PROVE  /\ \A r : In(q, r) => In(PutMsg(q, t, c), r)
         /\ In(PutMsg(q, t, c), c.req)
         /\ Serials(q) \cup {CallNo(c)} \subseteq Serials(PutMsg(q, t, c))
<1> DEFINE m == [lType |-> t, body |-> c]
           n == PutMsg(q, t, c)
<1>1. m \in Msg /\ m.body = c
  BY DEF Msg
<1>2. n = Append(q, m)
  BY DEF PutMsg
<1> HIDE DEF m, n
<1>3. /\ DOMAIN q = 1..Len(q) /\ Len(q) \in Nat
      /\ Len(n) = Len(q) + 1
      /\ \A j \in 1..Len(q) : n[j] = q[j]
      /\ n[Len(q) + 1] = m
      /\ n \in Seq(Msg)
  BY <1>1, <1>2, AppendProperties, LenProperties
<1>4. DOMAIN n = 1..(Len(q) + 1)
  BY <1>3, LenProperties
<1>5. /\ \A j \in DOMAIN q : j \in DOMAIN n /\ n[j] = q[j]
      /\ Len(q) + 1 \in DOMAIN n
  BY <1>3, <1>4
<1>6. \A r : In(q, r) => In(n, r)
  BY <1>5 DEF In
<1>7. In(n, c.req)
  BY <1>1, <1>3, <1>5 DEF In
<1>8. Serials(q) \cup {CallNo(c)} \subseteq Serials(n)
  BY <1>1, <1>3, <1>5 DEF Serials
<1> QED BY <1>6, <1>7, <1>8 DEF n

\* What msgrcv leaves: every message but the one it takes.
LEMMA RemoveLeaves ==
  ASSUME NEW q \in Seq(Msg), NEW i \in DOMAIN q
  PROVE  /\ \A r : In(q, r) => In(RemoveAt(q, i), r) \/ r = q[i].body.req
         /\ Serials(q) \subseteq
              Serials(RemoveAt(q, i)) \cup {CallNo(q[i].body)}
<1> DEFINE n == RemoveAt(q, i)
<1>1. /\ DOMAIN q = 1..Len(q) /\ Len(q) \in Nat /\ i \in 1..Len(q)
      /\ n \in Seq(Msg) /\ Len(n) = Len(q) - 1
  BY LenProperties, RemoveAtProperties
<1>2. DOMAIN n = 1..(Len(q) - 1)
  BY <1>1, LenProperties
<1>3. \A j \in DOMAIN n : /\ j < i => n[j] = q[j]
                          /\ j >= i => n[j] = q[j + 1]
  BY RemoveAtProperties
<1> HIDE DEF n
<1>4. ASSUME NEW j \in DOMAIN q, j # i
      PROVE  \E l \in DOMAIN n : n[l] = q[j]
  <2>1. CASE j < i
    <3>1. j \in DOMAIN n
      BY <1>1, <1>2, <2>1
    <3> QED BY <1>3, <2>1, <3>1
  <2>2. CASE ~(j < i)
    <3>1. j - 1 \in DOMAIN n /\ j - 1 >= i /\ (j - 1) + 1 = j
      BY <1>1, <1>2, <1>4, <2>2
    <3> QED BY <1>3, <3>1
  <2> QED BY <2>1, <2>2
<1>5. \A r : In(q, r) => In(n, r) \/ r = q[i].body.req
  BY <1>4 DEF In
<1>6. Serials(q) \subseteq Serials(n) \cup {CallNo(q[i].body)}
  BY <1>4 DEF Serials
<1> QED BY <1>5, <1>6 DEF n

\* A queue whose messages work for different clients, none of them r.
LEMMA RoomFor ==
  ASSUME IsFiniteSet(Requests), Cardinality(Requests) <= QCap,
         NEW q \in Seq(Msg), NEW r \in Requests,
         \A i, j \in DOMAIN q : q[i].body.origin = q[j].body.origin => i = j,
         \A i \in DOMAIN q : q[i].body.origin # r
  PROVE  Len(q) < QCap
<1> DEFINE h == [i \in 1..Len(q) |-> q[i].body.origin]
<1>1. Len(q) \in Nat /\ DOMAIN q = 1..Len(q)
  BY LenProperties
<1>2. \A i \in 1..Len(q) : q[i].body.origin \in Requests \ {r}
  <2>1. \A i \in DOMAIN q : q[i].body \in CCmd
    BY QueueElement
  <2> QED BY <1>1, <2>1 DEF CCmd
<1>3. h \in Injection(1..Len(q), Requests \ {r})
  BY <1>1, <1>2 DEF Injection, IsInjective
<1>4. /\ IsFiniteSet(Requests \ {r})
      /\ Cardinality(Requests \ {r}) = Cardinality(Requests) - 1
  BY FS_RemoveElement
<1>5. Cardinality(1..Len(q)) <= Cardinality(Requests \ {r})
  BY <1>3, <1>4, FS_Injection
<1>6. Cardinality(1..Len(q)) = Len(q)
  BY <1>1, FS_Interval
<1>7. Cardinality(Requests) \in Nat /\ QCap \in Nat
  BY FS_CardinalityType, ContainerAssumption DEF ContainerAssumption
<1> QED BY <1>1, <1>4, <1>5, <1>6, <1>7

\* Every process id given out is that of a process that runs.
Alive ==
  \A pd \in 1..lastPid : \E p \in Procs : pc[p] # "dead" /\ pid[p] = pd

\* So a nested call works for the request its coroutine has saved, and two
\* of them that work for the same request are the same call.
LEMMA NestedForKept ==
  ASSUME ServiceInv, Alive, NEW c \in InFlight, CallNo(c) # 0
  PROVE  /\ Kept(saved, c.origin)
         /\ \A d \in InFlight :
              CallNo(d) # 0 /\ d.origin = c.origin => CallNo(d) = CallNo(c)
<1>1. /\ Accounted /\ Contents /\ TypeOK /\ Singles /\ HandlersPartition
      /\ Hands
  BY DEF ServiceInv, Answers, Calls, Base, OnePlace
<1>2. ASSUME NEW d \in InFlight, CallNo(d) # 0
      PROVE  \E p \in Procs, i \in Handlers :
               /\ CallNo(d) = SerialNo(pid[p], i)
               /\ saved[p][i].req = d.origin
               /\ d.origin \in Requests
  <2>1. Known(d) /\ Owned(d)
    BY <1>1 DEF Accounted
  <2>2. PICK pd \in 1..lastPid, i \in Handlers :
          CallNo(d) = SerialNo(pd, i)
    BY <1>2, <2>1 DEF Known
  <2>3. PICK p \in Procs : pc[p] # "dead" /\ pid[p] = pd
    BY DEF Alive
  <2>4. i \in stateful[p] /\ saved[p][i].origin = d.origin
    BY <2>1, <2>2, <2>3 DEF Owned
  <2>5. saved[p][i].req = saved[p][i].origin
    BY <1>1, <2>4 DEF Contents
  <2>6. saved[p][i] \in CCmd
    BY <1>1, <2>4 DEF HandlersPartition, TypeOK
  <2> QED BY <2>2, <2>3, <2>4, <2>5, <2>6 DEF CCmd
<1>3. PICK p \in Procs, i \in Handlers :
        /\ CallNo(c) = SerialNo(pid[p], i)
        /\ saved[p][i].req = c.origin
        /\ c.origin \in Requests
  BY <1>2
<1>4. Kept(saved, c.origin)
  BY <1>3 DEF Kept
<1>5. ASSUME NEW d \in InFlight, CallNo(d) # 0, d.origin = c.origin
      PROVE  CallNo(d) = CallNo(c)
  <2>1. PICK o \in Procs, j \in Handlers :
          CallNo(d) = SerialNo(pid[o], j) /\ saved[o][j].req = d.origin
    BY <1>2, <1>5
  <2>2. o = p /\ j = i
    BY <1>1, <1>3, <1>5, <2>1 DEF Singles
  <2> QED BY <1>3, <2>1, <2>2
<1> QED BY <1>4, <1>5

\* No two messages of a queue work for the same request.
LEMMA DifferentOrigins ==
  ASSUME ServiceInv, Alive, NEW k \in 1..2, NEW i \in DOMAIN queue[k],
         NEW j \in DOMAIN queue[k],
         queue[k][i].body.origin = queue[k][j].body.origin
  PROVE  i = j
<1> DEFINE c == queue[k][i].body
           d == queue[k][j].body
<1>1. /\ queue[k] \in Seq(Msg) /\ Distinct(queue[k]) /\ Single(queue[k])
      /\ Apart /\ Contents
  BY DEF ServiceInv, Answers, Calls, Base, TypeOK, Alone, OnePlace, Singles
<1>2. /\ c \in CCmd /\ d \in CCmd /\ c \in InFlight /\ d \in InFlight
      /\ Worded(k, c) /\ Worded(k, d)
  <2>1. /\ queue[k][i] \in Elems(queue[k]) /\ queue[k][j] \in Elems(queue[k])
        /\ c \in CCmd /\ d \in CCmd
    BY <1>1, QueueElement
  <2> QED BY <1>1, <2>1 DEF InFlight, InQueues, Contents
<1>3. c.origin \in Requests /\ d.origin = c.origin
  BY <1>2 DEF CCmd
<1>4. CASE CallNo(c) = 0 /\ CallNo(d) = 0
  BY <1>1, <1>2, <1>3, <1>4, NoReqIsNobody DEF Worded, Single, CallNo
<1>5. CASE CallNo(c) # 0 /\ CallNo(d) # 0
  <2>1. CallNo(c) = CallNo(d)
    BY <1>2, <1>3, <1>5, NestedForKept
  <2> QED BY <1>1, <1>5, <2>1 DEF Distinct
<1>6. CASE CallNo(c) = 0 /\ CallNo(d) # 0
  <2>1. In(queue[k], c.origin) /\ Kept(saved, c.origin)
    BY <1>2, <1>3, <1>6, NestedForKept DEF Worded, In, CallNo
  <2> QED BY <1>1, <1>3, <2>1 DEF Apart
<1>7. CASE CallNo(c) # 0 /\ CallNo(d) = 0
  <2>1. In(queue[k], c.origin) /\ Kept(saved, c.origin)
    BY <1>2, <1>3, <1>7, NestedForKept DEF Worded, In, CallNo
  <2> QED BY <1>1, <1>3, <2>1 DEF Apart
<1> QED BY <1>4, <1>5, <1>6, <1>7

\* A request that is neither in a queue nor saved may be sent, and a nested
\* call may be made for it.
LEMMA RoomForNew ==
  ASSUME IsFiniteSet(Requests), Cardinality(Requests) <= QCap,
         ServiceInv, Alive, NEW k \in 1..2, NEW r \in Requests,
         ~In(queue[k], r), ~Kept(saved, r)
  PROVE  queue[k] \in Seq(Msg) /\ Len(queue[k]) < QCap
<1>1. queue[k] \in Seq(Msg) /\ Contents
  BY DEF ServiceInv, Answers, Calls, Base, TypeOK
<1>2. ASSUME NEW i \in DOMAIN queue[k], queue[k][i].body.origin = r
      PROVE  FALSE
  <2>1. queue[k][i] \in Elems(queue[k])
    BY <1>1, QueueElement
  <2>2. queue[k][i].body \in InFlight /\ Worded(k, queue[k][i].body)
    BY <1>1, <2>1 DEF InFlight, InQueues, Contents
  <2> QED BY <1>2, <2>2, NestedForKept DEF Worded, In, CallNo
<1> QED BY <1>1, <1>2, DifferentOrigins, RoomFor

\* The response to a nested call may be sent.
LEMMA RoomForResponse ==
  ASSUME IsFiniteSet(Requests), Cardinality(Requests) <= QCap,
         ServiceInv, Alive, NEW k \in 1..2, NEW p \in InHand,
         CallNo(cur[p]) # 0
  PROVE  queue[k] \in Seq(Msg) /\ Len(queue[k]) < QCap
<1> DEFINE r == cur[p].origin
<1>1. queue[k] \in Seq(Msg) /\ Contents /\ Apart /\ Hands /\ Alone
  BY DEF ServiceInv, Answers, Calls, Base, TypeOK, OnePlace
<1>2. p \in Procs /\ cur[p] \in CCmd /\ cur[p] \in InFlight
  BY <1>1 DEF InHand, Hands, InFlight
<1>3. r \in Requests /\ Kept(saved, r)
  BY <1>2, NestedForKept DEF CCmd
<1>4. ASSUME NEW i \in DOMAIN queue[k], queue[k][i].body.origin = r
      PROVE  FALSE
  <2>1. queue[k][i] \in Elems(queue[k])
    BY <1>1, QueueElement
  <2>2. queue[k][i].body \in InFlight /\ Worded(k, queue[k][i].body)
    BY <1>1, <2>1 DEF InFlight, InQueues, Contents
  <2>3. CallNo(queue[k][i].body) # 0
    <3>1. ~In(queue[k], r)
      BY <1>1, <1>3 DEF Apart
    <3> QED BY <1>4, <2>2, <3>1 DEF Worded, In, CallNo
  <2>4. CallNo(queue[k][i].body) = CallNo(cur[p])
    BY <1>2, <1>4, <2>2, <2>3, NestedForKept
  <2>5. CallNo(cur[p]) \in Serials(queue[k])
    BY <2>4 DEF Serials
  <2> QED BY <1>1, <1>2, <2>5 DEF Alone
<1> QED BY <1>1, <1>3, <1>4, DifferentOrigins, RoomFor

\* The answer to a client whose request is elsewhere may be sent.
LEMMA RoomForAnswer ==
  ASSUME IsFiniteSet(Requests), Cardinality(Requests) <= QCap,
         ServiceInv, NEW r \in Requests, ~In(backQ, r)
  PROVE  backQ \in Seq(Msg) /\ Len(backQ) < QCap
<1>1. backQ \in Seq(Msg) /\ Single(backQ) /\ AnswerIsComplete
  BY DEF ServiceInv, Answers, Contents, Calls, Base, TypeOK, OnePlace, Singles
<1>2. \A i \in DOMAIN backQ : /\ backQ[i].body.origin = backQ[i].body.req
                              /\ backQ[i].body.origin \in Requests
  <2> SUFFICES ASSUME NEW i \in DOMAIN backQ
               PROVE  /\ backQ[i].body.origin = backQ[i].body.req
                      /\ backQ[i].body.origin \in Requests
    OBVIOUS
  <2>1. backQ[i] \in Elems(backQ) /\ backQ[i].body \in CCmd
    BY <1>1, QueueElement
  <2> QED BY <1>1, <2>1 DEF AnswerIsComplete, CCmd
<1>3. \A i, j \in DOMAIN backQ :
        backQ[i].body.origin = backQ[j].body.origin => i = j
  BY <1>1, <1>2 DEF Single
<1>4. \A i \in DOMAIN backQ : backQ[i].body.origin # r
  BY <1>2 DEF In
<1> QED BY <1>1, <1>3, <1>4, RoomFor

\* Every request whose client waits is somewhere, and so is the call every
\* suspended coroutine waits for.
RequestsPlaced == \A r \in Requests : client[r] = "waiting" => Placed(r)
CallsPlaced ==
  \A p \in Procs : pc[p] # "dead" =>
    \A i \in stateful[p] : Called(SerialNo(pid[p], i))

\* Clients that write no serial number.
NoSerials == \A r \in Requests : SerialsOf[r] \subseteq {0}

KeptInv ==
  NoSerials /\ ServiceInv /\ Alive /\ RequestsPlaced /\ CallsPlaced

\* The serial numbers of a live process are numbers of nested calls.
LEMMA LiveSerial ==
  ASSUME Base, NEW p \in Procs, pc[p] # "dead", NEW i \in Handlers
  PROVE  SerialNo(pid[p], i) # 0
<1>1. pid[p] \in Nat /\ pid[p] > 0
  BY DEF Base, TypeOK, Pids
<1> QED BY <1>1, Numbering

LEMMA KeptFacts ==
  ASSUME KeptInv
  PROVE  /\ ServiceInv /\ Calls /\ Base /\ TypeOK /\ Hands /\ Apart
         /\ HandKinds /\ OnePlace
         /\ \A p \in InHand : cur[p].serial = CallNo(cur[p])
<1>1. /\ ServiceInv /\ Calls /\ Base /\ TypeOK /\ Hands /\ Apart
      /\ HandKinds /\ OnePlace
  BY DEF KeptInv, ServiceInv, Answers, Calls, Base, OnePlace
<1>2. ASSUME NEW p \in InHand
      PROVE  cur[p].serial = CallNo(cur[p])
  <2>1. CASE cur[p].req = NoReq
    BY <2>1 DEF CallNo
  <2>2. CASE cur[p].req # NoReq
    <3>1. cur[p] \in CCmd
      BY <1>1 DEF InHand, Hands
    <3>2. cur[p].req \in Requests
      BY <2>2, <3>1 DEF CCmd
    <3>3. cur[p].serial \in SerialsOf[cur[p].req] /\ ~Forged(cur[p])
      BY <1>1, <2>2, <3>2 DEF HandKinds, CallNo, Written, Forged, KeptInv,
                              NoSerials
    <3>4. cur[p].serial = 0
      BY <3>2, <3>3 DEF KeptInv, NoSerials
    <3> QED BY <2>2, <3>4 DEF CallNo
  <2> QED BY <2>1, <2>2
<1> QED BY <1>1, <1>2

\* Steps that start and resume no coroutine.
LEMMA CallsStay ==
  ASSUME KeptInv, UNCHANGED <<pid, stateful>>,
         \A p \in Procs : pc'[p] # "dead" => pc[p] # "dead",
         \A s : s # 0 /\ Called(s) => Called(s)'
  PROVE  CallsPlaced'
<1> SUFFICES ASSUME NEW p \in Procs, pc[p] # "dead", NEW i \in stateful[p]
             PROVE  Called(SerialNo(pid[p], i))'
  BY DEF CallsPlaced
<1>1. Called(SerialNo(pid[p], i))
  BY DEF KeptInv, CallsPlaced
<1>2. i \in Handlers
  BY KeptFacts DEF TypeOK
<1>3. SerialNo(pid[p], i) # 0
  BY <1>2, KeptFacts, LiveSerial
<1> QED BY <1>1, <1>3

LEMMA AliveStays ==
  ASSUME Alive, UNCHANGED <<pid, lastPid>>,
         \A p \in Procs : pc[p] # "dead" => pc'[p] # "dead"
  PROVE  Alive'
BY DEF Alive

\* A message sent to a queue with room.
LEMMA PutKeeps ==
  ASSUME TypeOK, NEW k \in 1..2, NEW t \in Nat, NEW c \in CCmd, Put(k, t, c),
         Len(queue[k]) < QCap
  PROVE  /\ \A o \in 1..2 : \A r : In(queue[o], r) => In(queue'[o], r)
         /\ \A o \in 1..2 : Serials(queue[o]) \subseteq Serials(queue'[o])
         /\ In(queue'[k], c.req)
         /\ CallNo(c) \in Serials(queue'[k])
<1> DEFINE n == PutMsg(queue[k], t, c)
<1>1. \A o \in 1..2 : queue'[o] = IF o = k THEN n ELSE queue[o]
  BY DEF Put, TypeOK
<1>2. queue[k] \in Seq(Msg)
  BY DEF TypeOK
<1>3. /\ \A r : In(queue[k], r) => In(n, r)
      /\ In(n, c.req)
      /\ Serials(queue[k]) \cup {CallNo(c)} \subseteq Serials(n)
  BY <1>2, PutWithRoom
<1> HIDE DEF n
<1> QED BY <1>1, <1>3

LEMMA KeptAsk ==
  ASSUME IsFiniteSet(Requests), Cardinality(Requests) <= QCap,
         KeptInv, NEW r \in Requests, Ask(r)
  PROVE  Alive' /\ RequestsPlaced' /\ CallsPlaced'
<1>0. PICK sn \in SerialsOf[r], rn \in RetsOf[r] :
        Put(CmdOf[r], REQUEST, ClientCmd(r, sn, rn))
  BY DEF Ask, Put
<1> DEFINE k == CmdOf[r]
           c == ClientCmd(r, sn, rn)
<1>1. k \in 1..2 /\ REQUEST \in Nat /\ c \in CCmd /\ c.req = r
  <2>1. sn \in Nat /\ rn \in Nat /\ CmdOf[r] \in 1..2
    BY ContainerAssumption DEF ContainerAssumption
  <2> QED BY <2>1, CmdTypes DEF ClientCmd, REQUEST
<1>2. /\ Put(k, REQUEST, c) /\ backQ' = backQ
      /\ UNCHANGED <<pid, lastPid, pc, cur, stateful, saved>>
      /\ \A x \in Requests \ {r} : client'[x] = client[x]
      /\ client[r] # "waiting"
  BY <1>0, KeptFacts DEF Ask, procVars, TypeOK
<1>3. \A o \in 1..2 : ~In(queue[o], r) /\ ~Kept(saved, r)
  BY <1>2, KeptFacts DEF Apart
<1> HIDE DEF k, c
<1>4. Len(queue[k]) < QCap
  BY <1>1, <1>3, KeptFacts, RoomForNew DEF KeptInv
<1>5. /\ \A o \in 1..2 : \A x : In(queue[o], x) => In(queue'[o], x)
      /\ \A o \in 1..2 : Serials(queue[o]) \subseteq Serials(queue'[o])
      /\ In(queue'[k], r)
  BY <1>1, <1>2, <1>4, KeptFacts, PutKeeps
<1>6. InHand' = InHand
  BY <1>2 DEF InHand
<1>7. RequestsPlaced'
  BY <1>1, <1>2, <1>5, <1>6 DEF KeptInv, RequestsPlaced, Placed
<1>8. CallsPlaced'
  <2>1. \A s : s # 0 /\ Called(s) => Called(s)'
    BY <1>2, <1>5, <1>6 DEF Called
  <2> QED BY <1>2, <2>1, CallsStay
<1> QED BY <1>2, <1>7, <1>8, AliveStays DEF KeptInv

LEMMA KeptDeliver ==
  ASSUME KeptInv, Deliver
  PROVE  Alive' /\ RequestsPlaced' /\ CallsPlaced'
<1> DEFINE x == Head(backQ).body.req
<1>1. /\ backQ # <<>> /\ backQ' = Tail(backQ) /\ queue' = queue
      /\ UNCHANGED <<pid, lastPid, pc, cur, stateful, saved>>
      /\ client' = [client EXCEPT ![x] = "answered"]
  BY DEF Deliver, procVars
<1>2. \A r : In(backQ, r) => In(backQ', r) \/ r = x
  <2>0. backQ \in Seq(Msg)
    BY KeptFacts DEF TypeOK
  <2>1. ASSUME NEW j \in DOMAIN backQ, j # 1
        PROVE  j - 1 \in DOMAIN Tail(backQ) /\ Tail(backQ)[j - 1] = backQ[j]
    <3>1. /\ Tail(backQ) \in Seq(Msg) /\ Len(Tail(backQ)) = Len(backQ) - 1
          /\ \A l \in 1..Len(Tail(backQ)) : Tail(backQ)[l] = backQ[l + 1]
      BY <1>1, <2>0, HeadTailProperties
    <3>2. j \in 1..Len(backQ) /\ Len(backQ) \in Nat
      BY <2>0, LenProperties
    <3>3. DOMAIN Tail(backQ) = 1..(Len(backQ) - 1)
      BY <3>1, LenProperties
    <3>4. j - 1 \in 1..(Len(backQ) - 1) /\ (j - 1) + 1 = j
      BY <2>1, <3>2
    <3> QED BY <3>1, <3>3, <3>4
  <2>2. Head(backQ) = backQ[1]
    BY <1>1, <2>0, HeadTailProperties
  <2> QED BY <1>1, <2>1, <2>2 DEF In
<1>3. InHand' = InHand
  BY <1>1 DEF InHand
<1> HIDE DEF x
<1>4. \A r \in Requests : client'[r] = "waiting" => client[r] = "waiting" /\ r # x
  BY <1>1, KeptFacts DEF TypeOK
<1>5. RequestsPlaced'
  BY <1>1, <1>2, <1>3, <1>4 DEF KeptInv, RequestsPlaced, Placed
<1>6. CallsPlaced'
  <2>1. \A s : s # 0 /\ Called(s) => Called(s)'
    BY <1>1, <1>3 DEF Called
  <2> QED BY <1>1, <2>1, CallsStay
<1> QED BY <1>1, <1>5, <1>6, AliveStays DEF KeptInv

LEMMA KeptStart ==
  ASSUME KeptInv, NEW p \in Procs, Start(p)
  PROVE  Alive' /\ RequestsPlaced' /\ CallsPlaced'
<1>1. /\ pc[p] = "dead" /\ lastPid' = lastPid + 1 /\ lastPid \in Nat
      /\ UNCHANGED <<client, queue, backQ, cur, stateful, saved>>
      /\ stateful[p] = {}
      /\ \A q \in Procs : /\ pid'[q] = IF q = p THEN lastPid + 1 ELSE pid[q]
                          /\ pc'[q] = IF q = p THEN "poll" ELSE pc[q]
  BY KeptFacts DEF Start, Base, TypeOK, Idle
<1>2. Alive'
  <2> SUFFICES ASSUME NEW pd \in 1..(lastPid + 1)
               PROVE  \E q \in Procs : pc'[q] # "dead" /\ pid'[q] = pd
    BY <1>1 DEF Alive
  <2>1. CASE pd = lastPid + 1
    BY <1>1, <2>1
  <2>2. CASE pd # lastPid + 1
    <3>1. pd \in 1..lastPid
      BY <1>1, <2>2
    <3>2. PICK q \in Procs : pc[q] # "dead" /\ pid[q] = pd
      BY <3>1 DEF KeptInv, Alive
    <3> QED BY <1>1, <3>2
  <2> QED BY <2>1, <2>2
<1>3. InHand' = InHand
  BY <1>1 DEF InHand
<1>4. RequestsPlaced'
  BY <1>1, <1>3 DEF KeptInv, RequestsPlaced, Placed
<1>5. CallsPlaced'
  <2> SUFFICES ASSUME NEW q \in Procs, pc'[q] # "dead", NEW i \in stateful[q]
               PROVE  Called(SerialNo(pid[q], i))'
    BY <1>1 DEF CallsPlaced
  <2>1. q # p /\ pid'[q] = pid[q] /\ pc[q] # "dead"
    BY <1>1
  <2>2. Called(SerialNo(pid[q], i))
    BY <2>1 DEF KeptInv, CallsPlaced
  <2> QED BY <1>1, <1>3, <2>1, <2>2 DEF Called
<1> QED BY <1>2, <1>4, <1>5

\* What a process takes from its queue it has in its hands.
LEMMA KeptTake ==
  ASSUME KeptInv, NEW p \in Procs, NEW t, Take(p, t),
         pc[p] \in {"poll", "pollApp"},
         UNCHANGED <<client, backQ, pid, lastPid, stateless, stateful, saved>>
  PROVE  Alive' /\ RequestsPlaced' /\ CallsPlaced'
<1> DEFINE k == SvcOf[p]
           q == queue[k]
           i == First(q, t)
           c == q[i].body
           n == RemoveAt(q, i)
<1>1. k \in 1..2 /\ q \in Seq(Msg)
  BY KeptFacts, ContainerAssumption DEF ContainerAssumption, TypeOK
<1>2. i \in DOMAIN q
  BY <1>1, FirstProperties DEF Take
<1>3. /\ \A o \in 1..2 : queue'[o] = IF o = k THEN n ELSE queue[o]
      /\ \A x \in Procs : /\ cur'[x] = IF x = p THEN c ELSE cur[x]
                          /\ pc'[x] = IF x = p THEN "busy" ELSE pc[x]
  BY KeptFacts DEF Take, TypeOK
<1>4. /\ \A r : In(q, r) => In(n, r) \/ r = c.req
      /\ Serials(q) \subseteq Serials(n) \cup {CallNo(c)}
  BY <1>1, <1>2, RemoveLeaves
<1>5. q = queue[k]
  OBVIOUS
<1> HIDE DEF n, c, i, q, k
<1>6. InHand' = InHand \cup {p} /\ p \notin InHand /\ cur'[p] = c
      /\ \A x \in InHand : cur'[x] = cur[x]
  BY <1>3 DEF InHand
<1>7. ASSUME NEW r, Placed(r)
      PROVE  Placed(r)'
  <2>1. ASSUME NEW o \in 1..2, In(queue[o], r)
        PROVE  In(queue'[o], r) \/ Held(cur', InHand', r)
    BY <1>3, <1>4, <1>5, <1>6, <2>1 DEF Held
  <2>2. Held(cur, InHand, r) => Held(cur', InHand', r)
    BY <1>6 DEF Held
  <2> QED BY <1>7, <2>1, <2>2 DEF Placed
<1>8. ASSUME NEW s, Called(s)
      PROVE  Called(s)'
  <2>1. ASSUME NEW o \in 1..2, s \in Serials(queue[o])
        PROVE  s \in Serials(queue'[o]) \/ \E x \in InHand' : CallNo(cur'[x]) = s
    BY <1>3, <1>4, <1>5, <1>6, <2>1
  <2>2. ASSUME NEW x \in InHand, CallNo(cur[x]) = s
        PROVE  \E y \in InHand' : CallNo(cur'[y]) = s
    BY <1>6, <2>2
  <2> QED BY <1>8, <2>1, <2>2 DEF Called
<1>9. RequestsPlaced'
  BY <1>7 DEF KeptInv, RequestsPlaced
<1>10. CallsPlaced'
  BY <1>3, <1>8, CallsStay
<1> QED BY <1>3, <1>9, <1>10, AliveStays DEF KeptInv

LEMMA KeptPoll ==
  ASSUME KeptInv, NEW p \in Procs, PollRequest(p) \/ PollApp(p)
  PROVE  Alive' /\ RequestsPlaced' /\ CallsPlaced'
<1>1. CASE Take(p, REQUEST) /\ PollRequest(p)
  BY <1>1, KeptTake DEF PollRequest
<1>2. CASE Take(p, AppType(pid[p])) /\ PollApp(p)
  BY <1>2, KeptTake DEF PollApp
<1>3. CASE ~(Take(p, REQUEST) /\ PollRequest(p))
           /\ ~(Take(p, AppType(pid[p])) /\ PollApp(p))
  <2>1. UNCHANGED <<client, queue, backQ, cur, saved, pid, lastPid, stateful>>
    BY <1>3 DEF PollRequest, PollApp
  <2>2. /\ pc[p] \in {"poll", "pollApp"}
        /\ \A x \in Procs : \/ pc'[x] = pc[x]
                            \/ x = p /\ pc'[x] \in {"poll", "pollApp"}
    BY <1>3, KeptFacts DEF PollRequest, PollApp, TypeOK
  <2>3. InHand' = InHand
    BY <2>2 DEF InHand
  <2>4. RequestsPlaced'
    BY <2>1, <2>3 DEF KeptInv, RequestsPlaced, Placed
  <2>5. CallsPlaced'
    <3>1. \A s : s # 0 /\ Called(s) => Called(s)'
      BY <2>1, <2>3 DEF Called
    <3> QED BY <2>1, <2>2, <3>1, CallsStay
  <2>6. Alive'
    BY <2>1, <2>2, AliveStays DEF KeptInv
  <2> QED BY <2>4, <2>5, <2>6
<1> QED BY <1>1, <1>2, <1>3

\* A result that finds room where it goes.
LEMMA ReplyKeeps ==
  ASSUME TypeOK, NEW c \in CCmd, Reply(c),
         c.serial # 0 => \A k \in 1..2 : Len(queue[k]) < QCap,
         c.serial = 0 => Len(backQ) < QCap
  PROVE  /\ \A o \in 1..2 : \A r : In(queue[o], r) => In(queue'[o], r)
         /\ \A r : In(backQ, r) => In(backQ', r)
         /\ \A o \in 1..2 : Serials(queue[o]) \subseteq Serials(queue'[o])
         /\ c.serial # 0 => \E o \in 1..2 : CallNo(c) \in Serials(queue'[o])
         /\ c.serial = 0 => In(backQ', c.req)
<1> DEFINE d == [c EXCEPT !.type = RESPONSE]
           t == AppType(PidOfSerial(c.serial))
<1>1. d \in CCmd /\ d.req = c.req /\ CallNo(d) = CallNo(c)
  BY CmdTypes DEF CCmd, CallNo
<1>2. c.cmd \in 1..2 /\ c.serial \in Nat /\ RESPONSE \in Nat
  BY DEF CCmd, RESPONSE
<1>3. t \in Nat
  BY <1>2 DEF AppType, PidOfSerial, APP
<1>4. CASE c.serial # 0
  <2>1. Put(c.cmd, t, d) /\ backQ' = backQ
    BY <1>4 DEF Reply, Put
  <2> HIDE DEF d, t
  <2>2. Len(queue[c.cmd]) < QCap
    BY <1>2, <1>4
  <2>3. /\ \A o \in 1..2 : \A r : In(queue[o], r) => In(queue'[o], r)
        /\ \A o \in 1..2 : Serials(queue[o]) \subseteq Serials(queue'[o])
        /\ CallNo(c) \in Serials(queue'[c.cmd])
    BY <1>1, <1>2, <1>3, <2>1, <2>2, PutKeeps
  <2> QED BY <1>2, <1>4, <2>1, <2>3
<1>5. CASE c.serial = 0
  <2>1. backQ' = PutMsg(backQ, RESPONSE, d) /\ queue' = queue
    BY <1>5 DEF Reply
  <2> HIDE DEF d, t
  <2>2. backQ \in Seq(Msg) /\ Len(backQ) < QCap
    BY <1>5 DEF TypeOK
  <2>3. /\ \A r : In(backQ, r) => In(backQ', r)
        /\ In(backQ', c.req)
    BY <1>1, <1>2, <2>1, <2>2, PutWithRoom
  <2> QED BY <1>5, <2>1, <2>3
<1> QED BY <1>4, <1>5

\* The hands after ProcessMsg: all but p's.
LEMMA HandsKept ==
  ASSUME OnePlace, NEW p \in Procs, Processed(p)
  PROVE  /\ \A r : Held(cur, InHand, r) => Held(cur', InHand', r) \/ r = cur[p].req
         /\ \A x \in InHand : (x \in InHand' /\ cur'[x] = cur[x]) \/ x = p
         /\ UNCHANGED <<client, pid, lastPid>>
         /\ \A x \in Procs : pc'[x] = pc[x] \/ (x = p /\ pc[x] = "busy" /\ pc'[x] = "poll")
<1>1. /\ p \in InHand /\ InHand' = InHand \ {p}
      /\ \A x \in InHand' : cur'[x] = cur[x]
  BY HandReleased
<1>2. \A r : Held(cur, InHand, r) => Held(cur', InHand', r) \/ r = cur[p].req
  BY <1>1 DEF Held
<1> QED BY <1>1, <1>2 DEF Processed, OnePlace, Base, TypeOK

LEMMA KeptAtOnce ==
  ASSUME IsFiniteSet(Requests), Cardinality(Requests) <= QCap,
         KeptInv, NEW p \in Procs, Processed(p),
         ProcessNoFree(p) \/ ProcessSvcTest(p)
  PROVE  Alive' /\ RequestsPlaced' /\ CallsPlaced'
<1> DEFINE c == Answer(p)
           x == cur[p].req
           s == CallNo(cur[p])
<1>1. Reply(c) /\ UNCHANGED <<stateful, saved>>
  BY DEF ProcessNoFree, ProcessSvcTest, Answer
<1>3. p \in InHand /\ cur[p] \in CCmd
  BY KeptFacts, HandReleased
<1>2. c \in CCmd /\ c.req = x /\ c.serial = s /\ CallNo(c) = s
  <2>1. c \in CCmd /\ c.req = x /\ c.serial = cur[p].serial
    BY KeptFacts, AnswerFields
  <2> QED BY <1>3, <2>1, KeptFacts DEF CallNo
<1>4. s # 0 => x = NoReq /\ \A k \in 1..2 : Len(queue[k]) < QCap
  <2>1. ASSUME s # 0, NEW k \in 1..2
        PROVE  Len(queue[k]) < QCap
    BY <1>3, <2>1, RoomForResponse DEF KeptInv
  <2> QED BY <2>1 DEF CallNo
<1>5. s = 0 => Len(backQ) < QCap
  <2>1. s = 0 => x \in Requests
    <3>1. Worded(SvcOf[p], cur[p])
      BY <1>3, KeptFacts DEF ServiceInv, Answers, Contents
    <3> QED BY <1>3, <3>1 DEF Worded, CCmd, CallNo
  <2>2. Held(cur, InHand, x)
    BY <1>3 DEF Held
  <2>3. x \in Requests => ~In(backQ, x)
    BY <2>2, KeptFacts DEF Apart
  <2> HIDE DEF x
  <2> QED BY <2>1, <2>3, RoomForAnswer DEF KeptInv
<1> HIDE DEF c
<1>6. /\ \A o \in 1..2 : \A r : In(queue[o], r) => In(queue'[o], r)
      /\ \A r : In(backQ, r) => In(backQ', r)
      /\ \A o \in 1..2 : Serials(queue[o]) \subseteq Serials(queue'[o])
      /\ s # 0 => \E o \in 1..2 : s \in Serials(queue'[o])
      /\ s = 0 => In(backQ', x)
  BY <1>1, <1>2, <1>4, <1>5, KeptFacts, ReplyKeeps
<1>7. /\ \A r : Held(cur, InHand, r) => Held(cur', InHand', r) \/ r = x
      /\ \A y \in InHand : (y \in InHand' /\ cur'[y] = cur[y]) \/ y = p
      /\ UNCHANGED <<client, pid, lastPid>>
      /\ \A y \in Procs : pc'[y] = pc[y] \/ (y = p /\ pc[y] = "busy" /\ pc'[y] = "poll")
  BY KeptFacts, HandsKept
<1> HIDE DEF x
<1>8. RequestsPlaced'
  <2> SUFFICES ASSUME NEW r \in Requests, Placed(r)
               PROVE  Placed(r)'
    BY <1>7 DEF KeptInv, RequestsPlaced
  <2>1. r = x => s = 0
    BY <1>4, NoReqIsNobody
  <2> QED BY <1>1, <1>6, <1>7, <2>1 DEF Placed
<1>9. CallsPlaced'
  <2>1. \A y : y # 0 /\ Called(y) => Called(y)'
    BY <1>6, <1>7 DEF Called
  <2> QED BY <1>1, <1>7, <2>1, CallsStay
<1>10. Alive'
  BY <1>7, AliveStays DEF KeptInv
<1> QED BY <1>8, <1>9, <1>10

\* The request goes onto the stack of the coroutine and its call is queued.
LEMMA KeptSvcTest2 ==
  ASSUME IsFiniteSet(Requests), Cardinality(Requests) <= QCap,
         KeptInv, NEW p \in Procs, Processed(p), ProcessSvcTest2(p)
  PROVE  Alive' /\ RequestsPlaced' /\ CallsPlaced'
<1> DEFINE h == FirstHandler(p)
           n == NestedCmd(SerialNo(pid[p], h), cur[p].origin)
           x == cur[p].req
<1>1. h \in stateless[p] /\ h \in Handlers
  <2>1. stateless[p] \subseteq Handlers /\ stateless[p] # {}
    BY KeptFacts DEF TypeOK, ProcessSvcTest2
  <2> QED BY <2>1, FirstHandlerFree
<1>2. /\ saved' = [saved EXCEPT ![p] = [saved[p] EXCEPT ![h] = cur[p]]]
      /\ stateful' = [stateful EXCEPT ![p] = stateful[p] \cup {h}]
      /\ Put(1, REQUEST, n) /\ backQ' = backQ
  BY DEF ProcessSvcTest2, Put
<1>3. p \in InHand /\ cur[p] \in CCmd
  BY KeptFacts, HandReleased
<1>4. CallNo(cur[p]) = 0 /\ x = cur[p].origin /\ x \in Requests
  <2>1. CallNo(cur[p]) = 0
    BY <1>3, KeptFacts DEF HandKinds, ProcessSvcTest2
  <2>2. Worded(SvcOf[p], cur[p])
    BY <1>3, KeptFacts DEF ServiceInv, Answers, Contents
  <2> QED BY <1>3, <2>1, <2>2 DEF Worded, CCmd, CallNo
<1>5. n \in CCmd /\ CallNo(n) = SerialNo(pid[p], h) /\ REQUEST \in Nat
  <2>1. pid[p] \in Nat
    BY KeptFacts DEF TypeOK
  <2>2. SerialNo(pid[p], h) \in Nat
    BY <1>1, <2>1, Numbering
  <2> QED BY <1>4, <2>2, CmdTypes DEF NestedCmd, REQUEST, CallNo
<1>6. Len(queue[1]) < QCap
  <2>1. Held(cur, InHand, x)
    BY <1>3 DEF Held
  <2>2. ~In(queue[1], x) /\ ~Kept(saved, x)
    BY <1>4, <2>1, KeptFacts DEF Apart
  <2> HIDE DEF x
  <2> QED BY <1>4, <2>2, RoomForNew DEF KeptInv
<1> HIDE DEF n, h
<1>7. /\ \A o \in 1..2 : \A r : In(queue[o], r) => In(queue'[o], r)
      /\ \A o \in 1..2 : Serials(queue[o]) \subseteq Serials(queue'[o])
      /\ SerialNo(pid[p], h) \in Serials(queue'[1])
  BY <1>2, <1>5, <1>6, KeptFacts, PutKeeps
<1>8. /\ \A r : Held(cur, InHand, r) => Held(cur', InHand', r) \/ r = x
      /\ \A y \in InHand : (y \in InHand' /\ cur'[y] = cur[y]) \/ y = p
      /\ UNCHANGED <<client, pid, lastPid>>
      /\ \A y \in Procs : pc'[y] = pc[y] \/ (y = p /\ pc[y] = "busy" /\ pc'[y] = "poll")
  BY KeptFacts, HandsKept
<1> HIDE DEF x
<1>9. /\ \A q \in Procs : \A i \in Handlers :
           saved'[q][i].req = IF q = p /\ i = h THEN x ELSE saved[q][i].req
      /\ saved[p][h] = NoCmd
  <2>1. saved[p][h] = NoCmd
    BY <1>1, KeptFacts DEF Base, HandlersPartition
  <2> QED BY <1>1, <1>2, <2>1, KeptFacts DEF x, TypeOK
<1>10. RequestsPlaced'
  <2> SUFFICES ASSUME NEW r \in Requests, Placed(r)
               PROVE  Placed(r)'
    BY <1>8 DEF KeptInv, RequestsPlaced
  <2>1. Kept(saved', x)
    BY <1>1, <1>9 DEF Kept
  <2>2. Kept(saved, r) => Kept(saved', r)
    BY <1>9, NoReqIsNobody DEF Kept
  <2> QED BY <1>2, <1>7, <1>8, <2>1, <2>2 DEF Placed
<1>11. \A s : s # 0 /\ Called(s) => Called(s)'
  BY <1>4, <1>7, <1>8 DEF Called
<1>12. CallsPlaced'
  <2> SUFFICES ASSUME NEW q \in Procs, pc'[q] # "dead", NEW i \in stateful'[q]
               PROVE  Called(SerialNo(pid[q], i))'
    BY DEF CallsPlaced
  <2>1. pc[q] # "dead" /\ pid' = pid
    BY <1>8
  <2>2. CASE q = p /\ i = h
    BY <1>7, <2>1, <2>2 DEF Called
  <2>3. CASE ~(q = p /\ i = h)
    <3>1. i \in stateful[q] /\ i \in Handlers
      BY <1>2, <2>3, KeptFacts DEF TypeOK
    <3>2. Called(SerialNo(pid[q], i)) /\ SerialNo(pid[q], i) # 0
      BY <2>1, <3>1, KeptFacts, LiveSerial DEF KeptInv, CallsPlaced
    <3> QED BY <1>11, <2>1, <3>2
  <2> QED BY <2>2, <2>3
<1>13. Alive'
  BY <1>8, AliveStays DEF KeptInv
<1> QED BY <1>10, <1>12, <1>13

\* The coroutine is resumed and its request answered.
LEMMA KeptResponse ==
  ASSUME IsFiniteSet(Requests), Cardinality(Requests) <= QCap,
         KeptInv, NEW p \in Procs, Processed(p), ProcessResponse(p)
  PROVE  Alive' /\ RequestsPlaced' /\ CallsPlaced'
<1>1. PICK h \in stateful[p] :
        /\ cur[p].type = RESPONSE
        /\ cur[p].serial = SerialNo(pid[p], h)
        /\ Reply([saved[p][h] EXCEPT !.ret = 0, !.serial = 0,
                                     !.data = Append(cur[p].data, "r2")])
        /\ stateful' = [stateful EXCEPT ![p] = stateful[p] \ {h}]
        /\ saved' = [saved EXCEPT ![p] = [saved[p] EXCEPT ![h] = NoCmd]]
  BY DEF ProcessResponse
<1> DEFINE c == [saved[p][h] EXCEPT !.ret = 0, !.serial = 0,
                                    !.data = Append(cur[p].data, "r2")]
           x == saved[p][h].req
<1>2. h \in Handlers /\ saved[p][h] \in CCmd
  BY KeptFacts DEF Base, TypeOK, HandlersPartition
<1>3. c \in CCmd /\ Reply(c)
  BY <1>1, KeptFacts, ResumedTypes DEF Processed
<1>4. c.req = x /\ c.serial = 0
  BY <1>2 DEF CCmd
<1>5. p \in InHand
  BY KeptFacts, HandReleased
<1>6. cur[p].serial = CallNo(cur[p]) /\ cur[p].req = NoReq
  <2>1. SvcOf[p] # 1
    BY KeptFacts DEF Base, Idle
  <2>2. CallNo(cur[p]) # 0
    BY <1>1, <1>5, <2>1, KeptFacts DEF HandKinds
  <2> QED BY <1>5, <2>2, KeptFacts DEF CallNo
<1>7. x \in Requests
  <2>1. x = saved[p][h].origin
    BY KeptFacts DEF ServiceInv, Answers, Contents
  <2> QED BY <1>2, <2>1 DEF CCmd
<1>8. Len(backQ) < QCap
  <2>1. Kept(saved, x)
    BY <1>2 DEF Kept
  <2>2. ~In(backQ, x)
    BY <1>7, <2>1, KeptFacts DEF Apart
  <2> HIDE DEF x
  <2> QED BY <1>7, <2>2, RoomForAnswer DEF KeptInv
<1> HIDE DEF c
<1>9. /\ \A o \in 1..2 : \A r : In(queue[o], r) => In(queue'[o], r)
      /\ \A r : In(backQ, r) => In(backQ', r)
      /\ \A o \in 1..2 : Serials(queue[o]) \subseteq Serials(queue'[o])
      /\ In(backQ', x)
  BY <1>3, <1>4, <1>8, KeptFacts, ReplyKeeps
<1>10. /\ \A r : Held(cur, InHand, r) =>
                   Held(cur', InHand', r) \/ r = cur[p].req
       /\ \A y \in InHand : (y \in InHand' /\ cur'[y] = cur[y]) \/ y = p
       /\ UNCHANGED <<client, pid, lastPid>>
       /\ \A y \in Procs : pc'[y] = pc[y] \/ (y = p /\ pc[y] = "busy" /\ pc'[y] = "poll")
  BY KeptFacts, HandsKept
<1> HIDE DEF x
<1>11. \A q \in Procs : \A i \in Handlers :
         saved'[q][i] = IF q = p /\ i = h THEN NoCmd ELSE saved[q][i]
  BY <1>1, <1>2, KeptFacts DEF TypeOK
<1>12. RequestsPlaced'
  <2> SUFFICES ASSUME NEW r \in Requests, Placed(r)
               PROVE  Placed(r)'
    BY <1>10 DEF KeptInv, RequestsPlaced
  <2>1. Kept(saved, r) => Kept(saved', r) \/ r = x
    BY <1>11 DEF Kept, x
  <2>2. r # cur[p].req
    BY <1>6, NoReqIsNobody
  <2> QED BY <1>9, <1>10, <2>1, <2>2 DEF Placed
<1>13. \A s : s # cur[p].serial /\ Called(s) => Called(s)'
  BY <1>6, <1>9, <1>10 DEF Called
<1>14. CallsPlaced'
  <2> SUFFICES ASSUME NEW q \in Procs, pc'[q] # "dead", NEW i \in stateful'[q]
               PROVE  Called(SerialNo(pid[q], i))'
    BY DEF CallsPlaced
  <2>1. pc[q] # "dead" /\ pid' = pid
    BY <1>10
  <2>2. i \in stateful[q] /\ i \in Handlers /\ ~(q = p /\ i = h)
    BY <1>1, KeptFacts DEF TypeOK
  <2>3. Called(SerialNo(pid[q], i))
    BY <2>1, <2>2 DEF KeptInv, CallsPlaced
  <2>4. SerialNo(pid[q], i) # cur[p].serial
    <3>1. /\ pid[q] \in Nat /\ pid[p] \in Nat /\ pid[q] > 0
          /\ pid[q] = pid[p] => q = p
      BY <2>1, KeptFacts DEF Base, TypeOK, Pids
    <3> QED BY <1>1, <1>2, <2>2, <3>1, NumberingInjective
  <2> QED BY <1>13, <2>1, <2>3, <2>4
<1>15. Alive'
  BY <1>10, AliveStays DEF KeptInv
<1> QED BY <1>12, <1>14, <1>15

LEMMA KeptInit == NoSerials /\ Init => KeptInv
<1> SUFFICES ASSUME NoSerials, Init PROVE KeptInv
  OBVIOUS
<1>1. Alive /\ RequestsPlaced /\ CallsPlaced
  BY DEF Init, Alive, RequestsPlaced, CallsPlaced
<1>2. NoSerialForSvcTest2
  BY DEF NoSerials, NoSerialForSvcTest2
<1> QED BY <1>1, <1>2, ServiceInvInit DEF KeptInv

LEMMA KeptNext ==
  ASSUME ~MayCrash, IsFiniteSet(Requests), Cardinality(Requests) <= QCap,
         KeptInv, [Next]_vars
  PROVE  KeptInv'
<1> SUFFICES Alive' /\ RequestsPlaced' /\ CallsPlaced'
  BY ServiceInvNext DEF KeptInv
<1>1. ASSUME NEW r \in Requests, Ask(r)
      PROVE  Alive' /\ RequestsPlaced' /\ CallsPlaced'
  BY <1>1, KeptAsk
<1>2. CASE Deliver
  BY <1>2, KeptDeliver
<1>3. ASSUME NEW p \in Procs, Start(p)
      PROVE  Alive' /\ RequestsPlaced' /\ CallsPlaced'
  BY <1>3, KeptStart
<1>4. ASSUME NEW p \in Procs, PollRequest(p) \/ PollApp(p)
      PROVE  Alive' /\ RequestsPlaced' /\ CallsPlaced'
  BY <1>4, KeptPoll
<1>5. ASSUME NEW p \in Procs, ProcessMsg(p)
      PROVE  Alive' /\ RequestsPlaced' /\ CallsPlaced'
  <2>1. Processed(p)
    BY <1>5 DEF ProcessMsg, Processed
  <2> QED BY <1>5, <2>1, KeptAtOnce, KeptSvcTest2, KeptResponse DEF ProcessMsg
<1>6. \A p \in Procs : ~Crash(p)
  BY DEF Crash
<1>7. \A p \in Procs : ~DispatchAborts(p)
  <2> SUFFICES ASSUME NEW p \in Procs, DispatchAborts(p) PROVE FALSE
    OBVIOUS
  <2>1. p \in InHand /\ cur[p].type = RESPONSE /\ pc[p] # "dead"
        /\ \A i \in stateful[p] : cur[p].serial # SerialNo(pid[p], i)
    BY DEF DispatchAborts, InHand
  <2>2. cur[p] \in RepliesTo(p)
    BY <2>1 DEF RepliesTo
  <2>3. ResponseFindsHandler /\ cur[p] \in CCmd
    BY <2>1, KeptFacts, CallsSafe DEF InHand, Hands
  <2>4. Forged(cur[p])
    BY <2>1, <2>2, <2>3 DEF ResponseFindsHandler, Forged
  <2> QED BY <2>3, <2>4 DEF Forged, CCmd, KeptInv, NoSerials
<1>8. CASE UNCHANGED vars
  <2>1. InHand' = InHand
    BY <1>8 DEF vars, InHand
  <2>2. RequestsPlaced'
    BY <1>8, <2>1 DEF vars, KeptInv, RequestsPlaced, Placed
  <2>3. Alive'
    BY <1>8, AliveStays DEF vars, KeptInv
  <2>4. CallsPlaced'
    <3>1. \A s : s # 0 /\ Called(s) => Called(s)'
      BY <1>8, <2>1 DEF vars, Called
    <3> QED BY <1>8, <3>1, CallsStay DEF vars
  <2> QED BY <2>2, <2>3, <2>4
<1> QED BY <1>1, <1>2, <1>3, <1>4, <1>5, <1>6, <1>7, <1>8 DEF Next, Loop

\* When no process dies, clients write no serial number and a queue holds as
\* many messages as there are client requests, no request is lost on its way
\* through processes, queues and coroutines.
THEOREM RequestsAreKept ==
  ASSUME ~MayCrash, NoSerials, IsFiniteSet(Requests),
         Cardinality(Requests) <= QCap
  PROVE  Spec => []RequestIsKept
<1>1. KeptInv /\ [Next]_vars => KeptInv'
  BY KeptNext
<1>2. KeptInv => RequestIsKept
  BY KeptFacts, OnePlaceCounted DEF KeptInv, RequestsPlaced, RequestIsKept
<1> QED BY KeptInit, <1>1, <1>2, PTL DEF Spec

\* Nor is the nested call a suspended coroutine waits for, or its response.
THEOREM CallsAreKept ==
  ASSUME ~MayCrash, NoSerials, IsFiniteSet(Requests),
         Cardinality(Requests) <= QCap
  PROVE  Spec => []CallIsKept
<1>1. KeptInv /\ [Next]_vars => KeptInv'
  BY KeptNext
<1>2. KeptInv => CallIsKept
  <2> SUFFICES ASSUME KeptInv, NEW p \in Procs, pc[p] # "dead",
                      NEW i \in stateful[p]
               PROVE  NestedCalls(SerialNo(pid[p], i)) = 1
    BY DEF CallIsKept
  <2>1. i \in Handlers
    BY KeptFacts DEF TypeOK
  <2>2. Called(SerialNo(pid[p], i))
    BY DEF KeptInv, CallsPlaced
  <2> QED BY <2>1, <2>2, KeptFacts, CallsCounted
<1> QED BY KeptInit, <1>1, <1>2, PTL DEF Spec

=============================================================================
