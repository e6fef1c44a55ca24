----------------------------- MODULE Container -----------------------------
(***************************************************************************)
(* The container processes behind the request queues: the polling loop of  *)
(* CContainerEventHandler, CServiceDispatcher with its stateless and       *)
(* stateful handlers, and the two services.  svc_test answers at once;     *)
(* svc_test2 sends a nested request to svc_test, suspends its coroutine    *)
(* (IService::Schedule) and answers when the response resumes it.          *)
(*                                                                         *)
(* Each process is one thread.  Its steps are the msgrcv for a REQUEST,    *)
(* the msgrcv for its own APP type when there was none, and ProcessMsg,    *)
(* which does at most one msgsnd.  All msgsnd calls are IPC_NOWAIT and     *)
(* their results are ignored.                                              *)
(***************************************************************************)
EXTENDS Naturals, Sequences, FiniteSets, SequencesExt

CONSTANTS Requests,        \* client requests, identified by their connection
          NoReq,           \* "no client connection": a nested request's CCmd
          Procs,           \* container processes
          SvcOf,           \* the service each process was started for, 1 or 2
          CmdOf,           \* the command of each client request, 1 or 2
          SerialsOf,       \* the serialno a client may write in its request
          RetsOf,          \* the ret a client may write in its request
          HandlerNum,      \* service objects per process (25 in main)
          MaxPid,          \* process ids handed out, 1..MaxPid
          QCap,            \* messages a queue holds before msgsnd fails
          ClientsAskAgain, \* do clients send requests without end?
          MayCrash         \* may container processes die?

UNFINISH_TASK_RET_FLAG == 2000000000

\* Clients may write any number but the one by which svc_test2 says that it is
\* suspended: svc_test would not answer, and its handler would not come back.
ASSUME ContainerAssumption ==
  /\ NoReq \notin Requests
  /\ SvcOf \in [Procs -> 1..2]
  /\ CmdOf \in [Requests -> 1..2]
  /\ \A r \in Requests : SerialsOf[r] \subseteq Nat
  /\ \A r \in Requests : RetsOf[r] \subseteq Nat \ {UNFINISH_TASK_RET_FLAG}
  /\ HandlerNum \in 1..100
  /\ MaxPid \in Nat
  /\ QCap \in Nat \ {0}
  /\ ClientsAskAgain \in BOOLEAN
  /\ MayCrash \in BOOLEAN

VARIABLES
  client,    \* client[r]: "idle", "waiting" or "answered"
  queue,     \* queue[k]: the queue of command k, 0xccccd and 0xcccce
  backQ,     \* the queue back to netio, 0xccccc
  pid,       \* pid[p]: the process id of p, 0 before it runs
  lastPid,   \* the last process id the system gave out
  pc,        \* pc[p]: "poll", "pollApp", "busy" or "dead"
  cur,       \* cur[p]: the command ProcessMsg works on
  stateless, \* stateless[p]: m_mapStatelessSvcQueue
  stateful,  \* stateful[p]: m_mapStatefulSvcQueue
  saved      \* saved[p][i]: the copy obj3 on the stack of coroutine i

vars == <<client, queue, backQ, pid, lastPid, pc, cur,
          stateless, stateful, saved>>
procVars == <<pid, lastPid, pc, cur, stateless, stateful, saved>>

-----------------------------------------------------------------------------
Handlers == 0..(HandlerNum - 1)

REQUEST == 1
RESPONSE == 2
APP == 3

NO_FREE_SVC_HANDLER == 21

\* Mutant: the service objects of a process all get its first index.
SerialNoOfProcess(pd, i) == pd * 100

\* Mutant: replies to nested calls travel under one type for all processes.
AppTypeOfAll(pd) == APP

\* The numbering that ties a nested call to a process and a coroutine:
\* container.cpp gives handler i the index pid * 100 + i, which is the serial
\* number of its nested requests; replies travel under the type pid * 10 + 3.
SerialNo(pd, i) == pd * 100 + i
PidOfSerial(s) == s \div 100
AppType(pd) == pd * 10 + APP

\* CCmd.  req stands for fd, family, IP and port of the client; data is the
\* parts of sData that the services wrote; origin, which the code does not
\* carry, is the client request a message ultimately works for.
Parts == {"r1", "r2", "err"}
CCmd == [req : Requests \cup {NoReq}, type : 0..RESPONSE, serial : Nat,
         cmd : 1..2, ret : Nat, data : Seq(Parts), origin : Requests]
Msg == [lType : Nat, body : CCmd]

NoCmd == [req |-> NoReq, type |-> 0, serial |-> 0]

\* The request DoRecv queues: type and socket are netio's, serial number and
\* ret stay what the client wrote.
ClientCmd(r, serial, ret) ==
  [req |-> r, type |-> REQUEST, serial |-> serial, cmd |-> CmdOf[r],
   ret |-> ret, data |-> <<>>, origin |-> r]

\* What SendRequest builds: a fresh CCmd, so no client, type 0, and the
\* caller's own command, by which the reply will be routed back.
NestedCmd(serial, r) ==
  [req |-> NoReq, type |-> 0, serial |-> serial, cmd |-> 2, ret |-> 0,
   data |-> <<>>, origin |-> r]

Init ==
  /\ client = [r \in Requests |-> "idle"]
  /\ queue = [k \in 1..2 |-> <<>>]
  /\ backQ = <<>>
  /\ pid = [p \in Procs |-> 0]
  /\ lastPid = 0
  /\ pc = [p \in Procs |-> "dead"]
  /\ cur = [p \in Procs |-> NoCmd]
  /\ stateless = [p \in Procs |-> {}]
  /\ stateful = [p \in Procs |-> {}]
  /\ saved = [p \in Procs |-> [i \in Handlers |-> NoCmd]]

-----------------------------------------------------------------------------
(* CMsgQueue.                                                              *)

\* Mutant: a full queue takes one more.
PutMsgUnbounded(q, lType, c) == Append(q, [lType |-> lType, body |-> c])

\* Mutant: a queue refuses a message while it has room for one more.
PutMsgOneLess(q, lType, c) ==
  IF Len(q) + 1 < QCap THEN Append(q, [lType |-> lType, body |-> c]) ELSE q

PutMsg(q, lType, c) ==
  IF Len(q) < QCap THEN Append(q, [lType |-> lType, body |-> c]) ELSE q

\* Mutant: the newest message of the type.
Newest(q, lType) ==
  CHOOSE i \in DOMAIN q : /\ q[i].lType = lType
                          /\ \A j \in (i + 1)..Len(q) : q[j].lType # lType

\* msgrcv with a positive type: the oldest message of exactly that type.
Has(q, lType) == \E i \in DOMAIN q : q[i].lType = lType
First(q, lType) ==
  CHOOSE i \in DOMAIN q : /\ q[i].lType = lType
                          /\ \A j \in 1..(i - 1) : q[j].lType # lType

-----------------------------------------------------------------------------
(* Netio's side of the queues.                                             *)

\* DoRecv queues the request; a refused message is lost.
Ask(r) ==
  /\ \/ client[r] = "idle"
     \/ ClientsAskAgain /\ client[r] = "answered"
  /\ client' = [client EXCEPT ![r] = "waiting"]
  /\ \E serial \in SerialsOf[r], ret \in RetsOf[r] :
       queue' = [queue EXCEPT ![CmdOf[r]] =
                   PutMsg(@, REQUEST, ClientCmd(r, serial, ret))]
  /\ UNCHANGED <<backQ, procVars>>

\* OnEventFire takes one response and sends it to the client it names.
Deliver ==
  /\ backQ # <<>>
  /\ backQ' = Tail(backQ)
  /\ client' = [client EXCEPT ![Head(backQ).body.req] = "answered"]
  /\ UNCHANGED <<queue, procVars>>

-----------------------------------------------------------------------------
(* Process start and crash.                                                *)

\* container's main after the forks: HandlerNum service objects, all
\* stateless, numbered from the new process id.
Start(p) ==
  /\ pc[p] = "dead"
  /\ lastPid < MaxPid
  /\ lastPid' = lastPid + 1
  /\ pid' = [pid EXCEPT ![p] = lastPid']
  /\ pc' = [pc EXCEPT ![p] = "poll"]
  /\ stateless' = [stateless EXCEPT ![p] = Handlers]
  /\ UNCHANGED <<client, queue, backQ, cur, stateful, saved>>

\* The queues outlive the process: its memory is gone, what it sent or was
\* sent stays.
Die(p) ==
  /\ pc' = [pc EXCEPT ![p] = "dead"]
  /\ cur' = [cur EXCEPT ![p] = NoCmd]
  /\ stateless' = [stateless EXCEPT ![p] = {}]
  /\ stateful' = [stateful EXCEPT ![p] = {}]
  /\ saved' = [saved EXCEPT ![p] = [i \in Handlers |-> NoCmd]]
  /\ UNCHANGED <<client, queue, backQ, pid, lastPid>>

Crash(p) ==
  /\ MayCrash
  /\ pc[p] # "dead"
  /\ Die(p)

-----------------------------------------------------------------------------
(* The polling loop: CContainerEventHandler::OnEventFire.                  *)

\* GetMsg of the first message of a type in the process's own queue.
Take(p, lType) ==
  LET k == SvcOf[p]
      i == First(queue[k], lType)
  IN  /\ Has(queue[k], lType)
      /\ cur' = [cur EXCEPT ![p] = queue[k][i].body]
      /\ queue' = [queue EXCEPT ![k] = RemoveAt(@, i)]
      /\ pc' = [pc EXCEPT ![p] = "busy"]

\* Mutant: without a REQUEST the handler returns (the commented-out return)
\* before it looks for APP messages.
PollRequestOnly(p) ==
  /\ pc[p] = "poll"
  /\ Take(p, REQUEST)
  /\ UNCHANGED <<client, backQ, pid, lastPid, stateless, stateful, saved>>

PollRequest(p) ==
  /\ pc[p] = "poll"
  /\ \/ Take(p, REQUEST)
     \/ /\ ~Has(queue[SvcOf[p]], REQUEST)
        /\ pc' = [pc EXCEPT ![p] = "pollApp"]
        /\ UNCHANGED <<queue, cur>>
  /\ UNCHANGED <<client, backQ, pid, lastPid, stateless, stateful, saved>>

PollApp(p) ==
  /\ pc[p] = "pollApp"
  /\ \/ Take(p, AppType(pid[p]))
     \/ /\ ~Has(queue[SvcOf[p]], AppType(pid[p]))
        /\ pc' = [pc EXCEPT ![p] = "poll"]
        /\ UNCHANGED <<queue, cur>>
  /\ UNCHANGED <<client, backQ, pid, lastPid, stateless, stateful, saved>>

-----------------------------------------------------------------------------
(* ProcessMsg, with CServiceDispatcher::Dispatch inside it.                *)

\* The end of ProcessMsg: a command with a serial number is taken for a nested
\* one and its result goes to the queue of the calling service, under the type
\* of the calling process; any other result goes back to netio.
Reply(c) ==
  LET r == [c EXCEPT !.type = RESPONSE]
  IN  IF c.serial # 0
      THEN /\ queue' = [queue EXCEPT ![c.cmd] =
                          PutMsg(@, AppType(PidOfSerial(c.serial)), r)]
           /\ UNCHANGED backQ
      ELSE /\ backQ' = PutMsg(backQ, RESPONSE, r)
           /\ UNCHANGED queue

\* The stateless handler Dispatch picks: the first of the map.
FirstHandler(p) ==
  CHOOSE i \in stateless[p] : \A j \in stateless[p] : i <= j

\* Mutant: without a free handler the request is dropped.
ProcessNoFreeSilent(p) ==
  /\ cur[p].type # RESPONSE
  /\ stateless[p] = {}
  /\ UNCHANGED <<queue, backQ, stateless, stateful, saved>>

\* No stateless handler left: the error is the answer.
ProcessNoFree(p) ==
  /\ cur[p].type # RESPONSE
  /\ stateless[p] = {}
  /\ Reply([cur[p] EXCEPT !.ret = NO_FREE_SVC_HANDLER, !.data = <<"err">>])
  /\ UNCHANGED <<stateless, stateful, saved>>

\* CSvcTest::Execute runs to its end: the handler is stateful only while it
\* runs and goes back to the stateless map.  It leaves ret alone, so a command
\* that came with one is answered with the error of ProcessMsg.
ProcessSvcTest(p) ==
  /\ cur[p].type # RESPONSE
  /\ stateless[p] # {}
  /\ SvcOf[p] = 1
  /\ Reply([cur[p] EXCEPT !.data = IF cur[p].ret = 0 THEN <<"r1">>
                                                    ELSE <<"err">>])
  /\ UNCHANGED <<stateless, stateful, saved>>

\* Mutant: the suspended handler is put back with the stateless ones.
ProcessSvcTest2NotKept(p) ==
  LET nested == NestedCmd(SerialNo(pid[p], FirstHandler(p)), cur[p].origin)
  IN  /\ cur[p].type # RESPONSE
      /\ stateless[p] # {}
      /\ SvcOf[p] = 2
      /\ queue' = [queue EXCEPT ![1] = PutMsg(@, REQUEST, nested)]
      /\ UNCHANGED <<backQ, stateless, stateful, saved>>

\* Mutant: ProcessMsg does not return on UNFINISH_TASK_RET_FLAG.
ProcessSvcTest2Replies(p) ==
  LET i == FirstHandler(p)
      nested == NestedCmd(SerialNo(pid[p], i), cur[p].origin)
  IN  /\ cur[p].type # RESPONSE
      /\ stateless[p] # {}
      /\ SvcOf[p] = 2
      /\ stateless' = [stateless EXCEPT ![p] = @ \ {i}]
      /\ stateful' = [stateful EXCEPT ![p] = @ \cup {i}]
      /\ saved' = [saved EXCEPT ![p][i] = cur[p]]
      /\ queue' = [queue EXCEPT ![1] = PutMsg(@, REQUEST, nested)]
      /\ backQ' = PutMsg(backQ, RESPONSE, cur[p])

\* CSvcTest2::Execute up to Schedule: copy the command, send the nested
\* request, suspend with UNFINISH_TASK_RET_FLAG; the handler stays stateful.
ProcessSvcTest2(p) ==
  LET i == FirstHandler(p)
      nested == NestedCmd(SerialNo(pid[p], i), cur[p].origin)
  IN  /\ cur[p].type # RESPONSE
      /\ stateless[p] # {}
      /\ SvcOf[p] = 2
      /\ stateless' = [stateless EXCEPT ![p] = @ \ {i}]
      /\ stateful' = [stateful EXCEPT ![p] = @ \cup {i}]
      /\ saved' = [saved EXCEPT ![p][i] = cur[p]]
      /\ queue' = [queue EXCEPT ![1] = PutMsg(@, REQUEST, nested)]
      /\ UNCHANGED backQ

\* Mutant: no obj3, the answer is built in the dispatcher's current command,
\* which by now is the response.
ProcessResponseNoCopy(p) ==
  \E i \in stateful[p] :
    /\ cur[p].type = RESPONSE
    /\ cur[p].serial = SerialNo(pid[p], i)
    /\ Reply([cur[p] EXCEPT !.serial = 0, !.data = Append(@, "r2")])
    /\ stateful' = [stateful EXCEPT ![p] = @ \ {i}]
    /\ stateless' = [stateless EXCEPT ![p] = @ \cup {i}]
    /\ saved' = [saved EXCEPT ![p][i] = NoCmd]

\* Mutant: the resumed handler is never erased from the stateful map.
ProcessResponseNotErased(p) ==
  \E i \in stateful[p] :
    /\ cur[p].type = RESPONSE
    /\ cur[p].serial = SerialNo(pid[p], i)
    /\ Reply([saved[p][i] EXCEPT !.ret = 0, !.serial = 0,
                                 !.data = Append(cur[p].data, "r2")])
    /\ stateless' = [stateless EXCEPT ![p] = @ \cup {i}]
    /\ UNCHANGED <<stateful, saved>>

\* A response resumes the coroutine its serial number names, which answers
\* for the command it had saved.
ProcessResponse(p) ==
  \E i \in stateful[p] :
    /\ cur[p].type = RESPONSE
    /\ cur[p].serial = SerialNo(pid[p], i)
    /\ Reply([saved[p][i] EXCEPT !.ret = 0, !.serial = 0,
                                 !.data = Append(cur[p].data, "r2")])
    /\ stateful' = [stateful EXCEPT ![p] = @ \ {i}]
    /\ stateless' = [stateless EXCEPT ![p] = @ \cup {i}]
    /\ saved' = [saved EXCEPT ![p][i] = NoCmd]

ProcessMsg(p) ==
  /\ pc[p] = "busy"
  /\ \/ ProcessNoFree(p)
     \/ ProcessSvcTest(p)
     \/ ProcessSvcTest2(p)
     \/ ProcessResponse(p)
  /\ pc' = [pc EXCEPT ![p] = "poll"]
  /\ cur' = [cur EXCEPT ![p] = NoCmd]
  /\ UNCHANGED <<client, pid, lastPid>>

\* The assertion of Dispatch that a response finds its handler fails, which
\* ends the process.
DispatchAborts(p) ==
  /\ pc[p] = "busy"
  /\ cur[p].type = RESPONSE
  /\ \A i \in stateful[p] : cur[p].serial # SerialNo(pid[p], i)
  /\ Die(p)

-----------------------------------------------------------------------------
Loop(p) ==
  \/ PollRequest(p)
  \/ PollApp(p)
  \/ ProcessMsg(p)
  \/ DispatchAborts(p)

Next ==
  \/ \E r \in Requests : Ask(r)
  \/ Deliver
  \/ \E p \in Procs : Start(p) \/ Crash(p) \/ Loop(p)

Spec == Init /\ [][Next]_vars

\* Every process runs and is started; netio keeps taking responses.
Fairness ==
  /\ \A p \in Procs : WF_vars(Loop(p)) /\ WF_vars(Start(p))
  /\ WF_vars(Deliver)

FairSpec == Spec /\ Fairness

-----------------------------------------------------------------------------
(* Properties.                                                             *)

TypeOK ==
  /\ client \in [Requests -> {"idle", "waiting", "answered"}]
  /\ queue \in [1..2 -> Seq(Msg)]
  /\ backQ \in Seq(Msg)
  /\ \A k \in 1..2 : Len(queue[k]) <= QCap
  /\ Len(backQ) <= QCap
  /\ pid \in [Procs -> 0..MaxPid]
  /\ lastPid \in 0..MaxPid
  /\ pc \in [Procs -> {"poll", "pollApp", "busy", "dead"}]
  /\ cur \in [Procs -> CCmd \cup {NoCmd}]
  /\ stateless \in [Procs -> SUBSET Handlers]
  /\ stateful \in [Procs -> SUBSET Handlers]
  /\ saved \in [Procs -> [Handlers -> CCmd \cup {NoCmd}]]

\* The copies of CCmd objects there are: in messages, in the hands of a
\* process, on the stack of a suspended coroutine.
Elems(q) == {q[i] : i \in DOMAIN q}
InQueues == Elems(queue[1]) \cup Elems(queue[2])
InHand == {p \in Procs : pc[p] = "busy"}

\* Every live process has each of its handlers in exactly one of the two maps
\* of the dispatcher, and a saved command for the suspended ones only.
HandlersPartition ==
  \A p \in Procs :
    /\ stateless[p] \cap stateful[p] = {}
    /\ pc[p] # "dead" => stateless[p] \cup stateful[p] = Handlers
    /\ \A i \in Handlers : i \in stateful[p] <=> saved[p][i] # NoCmd

\* A response, in the queue or in hand, names a coroutine suspended in the
\* process it is addressed to (the assertion in Dispatch), whatever crashes and
\* restarts there were; but for the result of a client's own request that was
\* taken for a nested call because the client wrote a serial number.
RepliesTo(p) ==
  {m.body : m \in {x \in Elems(queue[SvcOf[p]]) : x.lType = AppType(pid[p])}}
  \cup {c \in {cur[p]} : c.type = RESPONSE}

ResponseFindsHandler ==
  \A p \in Procs : pc[p] # "dead" =>
    \A c \in RepliesTo(p) :
      \/ \E i \in stateful[p] : c.serial = SerialNo(pid[p], i)
      \/ c.req # NoReq /\ c.serial \in SerialsOf[c.req] \ {0}

\* What the service of the second command does to a request with a serial
\* number is harmless until it has no free handler: the error then travels
\* like a reply to its own call.  Where clients write none to it:
NoSerialForSvcTest2 ==
  \A r \in Requests : CmdOf[r] = 2 => SerialsOf[r] \subseteq {0}

\* The reply that resumes a coroutine was computed for the request that
\* coroutine has saved, though handlers are reused and m_oCurCmdObj is shared.
ResumesOwnRequest ==
  \A p \in Procs : \A c \in RepliesTo(p) : \A i \in stateful[p] :
    c.serial = SerialNo(pid[p], i) => c.origin = saved[p][i].origin

\* A suspended coroutine has at most one nested call under way, and a handler
\* that is not suspended has none.
IsCall(c, s) == c.req = NoReq /\ c.serial = s

NestedCalls(s) ==
  Cardinality({at \in (1..2) \X (1..QCap) :
                 /\ at[2] \in DOMAIN queue[at[1]]
                 /\ IsCall(queue[at[1]][at[2]].body, s)})
  + Cardinality({p \in InHand : IsCall(cur[p], s)})

OneNestedCall ==
  \A p \in Procs : pc[p] # "dead" =>
    \A i \in Handlers :
      NestedCalls(SerialNo(pid[p], i)) <= IF i \in stateful[p] THEN 1 ELSE 0

\* A request exists in one place at most while its client waits, and nowhere
\* once it is answered: nobody is answered twice.
Copies(r) ==
  Cardinality({at \in (1..2) \X (1..QCap) :
                 /\ at[2] \in DOMAIN queue[at[1]]
                 /\ queue[at[1]][at[2]].body.req = r})
  + Cardinality({j \in DOMAIN backQ : backQ[j].body.req = r})
  + Cardinality({p \in InHand : cur[p].req = r})
  + Cardinality({at \in Procs \X Handlers : saved[at[1]][at[2]].req = r})

AnsweredOnce ==
  \A r \in Requests : Copies(r) <= IF client[r] = "waiting" THEN 1 ELSE 0

\* What netio is given to send is addressed to the client it was computed
\* for, and a success carries what every service on the way contributed.
AnswerIsComplete ==
  \A m \in Elems(backQ) :
    /\ m.body.req = m.body.origin
    /\ m.body.ret = 0 =>
         m.body.data = IF CmdOf[m.body.req] = 1 THEN <<"r1">>
                                                ELSE <<"r1", "r2">>

\* Seen from the containers, the client requests live as Service says, nested
\* calls and responses being none of the client's business: each is taken in
\* its turn, answered from one process, once, or lost with it, while it may be
\* in hand, then on a coroutine's stack.
IsOpen(c) == c.req # NoReq /\ c.type # RESPONSE

ClientRequests(q) ==
  LET among[n \in 0..Len(q)] ==  \* the first n messages
        IF n = 0 THEN <<>>
        ELSE IF ~IsOpen(q[n].body) THEN among[n - 1]
        ELSE Append(among[n - 1], q[n].body.req)
  IN  among[Len(q)]

AbstractService == INSTANCE Service WITH
  Cmds <- 1..2,
  idle <- {r \in Requests : client[r] = "idle"},
  queue <- [k \in 1..2 |-> ClientRequests(queue[k])],
  working <- {r \in Requests :
                \/ \E p \in InHand : cur[p].req = r /\ IsOpen(cur[p])
                \/ \E p \in Procs : \E i \in Handlers : saved[p][i].req = r},
  answers <- [i \in DOMAIN backQ |-> backQ[i].body.req]

ImplementsService == AbstractService!Spec

\* With queues as long as there are requests and processes that live, no
\* msgsnd is refused, though nested calls share the queues with requests: a
\* request whose client waits is somewhere, and the call a suspended coroutine
\* waits for is under way or its response is.
RequestIsKept ==
  \A r \in Requests : client[r] = "waiting" => Copies(r) = 1

CallIsKept ==
  \A p \in Procs : pc[p] # "dead" =>
    \A i \in stateful[p] : NestedCalls(SerialNo(pid[p], i)) = 1

\* A suspended coroutine is woken up again ("unfinished tasks wait to be
\* woken up again to go on", ProcessMsg).
SuspendedIsResumed ==
  \A p \in Procs : \A i \in Handlers :
    i \in stateful[p] ~> i \notin stateful[p]

\* Every client request is answered.
EveryRequestAnswered ==
  \A r \in Requests : client[r] = "waiting" ~> client[r] = "answered"

=============================================================================
