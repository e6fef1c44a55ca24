# A TLA+ development of the netio / container middleware

The repository is a small request/response middleware in C++. A front process,
`netio`, owns the TCP sockets; `container` processes run the services; System V
message queues connect them. This directory holds TLA+ modules for the parts
that carry the program's logic, TLC configurations that check them on small
instances, and TLAPS proofs of the main results for every instance.

All source paths below are relative to `src/netio/`.

## 1. The system

    client --TCP--> netio --queue 0xccccd (command 1)--> container 1 x 6
              ^       |  \--queue 0xcccce (command 2)--> container 2 x 6
              |       |                                     |
              |       +<------- queue 0xccccc (back) -------+
              |                  container 2 --0xccccd--> container 1 (nested call)
              +-- answer         container 1 --0xcccce, type pid*10+3--> container 2

| Component | State it keeps | Operations | Modelled in |
|---|---|---|---|
| `CReactor` (`src/reactor.cpp`) | `m_arrTcpSock` (slot per descriptor: event flag, client address), `m_vecFds` (watched descriptors), `m_arrMsg` (send buffer per descriptor), `m_arrEpollEvents` (the current batch) | `AddToWatchList`, `RemoveFromWatchList`, `CheckEvents`, `ProcessEvent`, `RunEventLoop` | `NetIo` |
| `CTcpNetHandler` (`src/tcp_net_handler.cpp`) | none of its own | `DoConn`, `DoRecv`, `DoSend`, `DoClose` | `NetIo` |
| `CNetIOUserEventHandler` | none | `OnEventFire`: at most one response per round | `NetIo` |
| `CMsgQueue`, `CMsgQManager` | `m_iMsgQId`, `m_mapGroupMsgqs`; the kernel's queues | `AddMsgQueue` with `Init`, `GetMsgQueue`, `PutMsg`, `GetMsg`, `delMsgQueue` with `Fini` | `MsgQueues`; sending and receiving on opened queues in `NetIo`, `Container` |
| `container.cpp`, `CContainerEventHandler` | process id, handlers | start, polling for REQUEST and then APP messages, `ProcessMsg` | `Container` |
| `CServiceDispatcher` | `m_mapStatelessSvcQueue`, `m_mapStatefulSvcQueue`, `m_oCurCmdObj` | `Dispatch`, `AddSvcHandler` | `Container` |
| `IService`, `svc_test`, `svc_test2` | coroutine stacks (the copy `obj3`) | `Execute`, `Schedule` | `Container` |
| PHP client (`testClient/NetUtil.php`) | one socket | `tcpCmd`: connect, write, read with a timeout, close | `NetIo`, `Container` |
| `CUSockUdpHandler`, `RespNotify` | a datagram socket | wake-up of netio | `Notify` |
| `CCacheManager`, `CModHashV1` | heads and buckets in shared memory, heads and iterators in each process | `Initalize`, `Incr`, `Set`, `Get`, `Delete`, `Reset`, `FullFillValue`, `SetIndexPointer`, `PrintAll` | `StatCache` (the steps of `Initalize` and `Incr`), `ModHash` (every call) |
| `CCmd` text format, `string_helper.h` | none | `ToString`, `InitCCmd`, `strPairAppendToMap` | `CmdCodec` |
| `CServiceLoader`, the rest of the main programs, `pth.h` | | loader, wiring, vendored code | not modelled |

What is hard in it, and what each part must guarantee:

* **Descriptor reuse.** An answer comes back to a descriptor *number*, after the
  client may have given up and another connection may own the number. The
  socket check in `AddToWatchList` compares ports only: which late answers that
  lets through (`ArmedOnlyWhenAnswered`), that it never loses the owner's
  (`AnswerReachesOwner`), and when the buffer holds what is sent (`OwnResponse`).
* **Edge-triggered epoll.** An edge is told once. Nothing may be forgotten when
  events are batched, handlers run in between and masks change (`NoMissedEdge`,
  `BacklogNotified`, `EveryRequestEnds`).
* **Events point to slots**, not to connections (`EventsAreCurrent`).
* **Four tables describe a descriptor**: the kernel's, epoll's, `m_vecFds`, the
  slot. Where they may part, and how (`TablesAgree`).
* **Nested calls.** A container process suspends a coroutine, reuses the shared
  current command for other work and must bring the reply to the coroutine, the
  process and finally the client it belongs to (`HandlersPartition`,
  `ResponseFindsHandler`, `ResumesOwnRequest`, `OneNestedCall`,
  `AnswerIsComplete`, `AnsweredOnce`), while processes crash and restart and
  full queues refuse messages.
* **Shared memory without locks.** Every process counts its requests in memory
  that outlives it, and initialises that memory on first use. What a counter
  may still promise when processes race and die: `MarkedMeansStored`,
  `NeverOvercounts`, `SoleWriterExact`.
* **One map behind many mappings.** Every process has its own heads, pointers and
  iterators over the same areas. They must agree on the layout (`AreasAgree`),
  never use each other's pointers (`PointersAreOwn`), and together behave as the
  one map that `CCacheManager` keeps through every start of a process
  (`ImplementsCacheMap`).
* **Queues opened, removed and opened again** by processes that start, fail and
  end in any order, with the objects of failed opens kept
  (`CrossingNeedsFailedInit`, `OpenedIsSized`).
* **Text taken apart and put together** six times on a request's way, with keys
  the client chooses (`RoutedBack`, `FirstValueCounts`, `AnswersSurvive`).
* **Fields the client may set.** `DoRecv` keeps the `serialno` and the `ret` of the
  client's text. By the one a result is sent to a container process instead of
  netio, by the other svc_test's answer becomes an error
  (`ResponseFindsHandler`, `AnswerIsComplete`, `AnswersSurvive`).
* **A wake-up per event**, whatever number of datagrams has arrived
  (`FullQueueIsNotified`, `NotifyReturns`), on sockets that are not always closed
  (`LeaksOnlyWhileDown`).
* **End to end**, a request is queued, worked on and answered at most once and in
  order, whoever dies and whatever is refused (`ImplementsService`).
* **Nothing checks a send.** A refused `msgsnd` is printed or ignored. Whom that
  costs the answer (`LostOnlyWhenRefused`), and when it cannot happen although
  nested calls share the queues with requests (`AnswerOnItsWay`, `RequestIsKept`,
  `CallIsKept`).
* **Progress.** Suspended handlers are resumed, requests answered
  (`SuspendedIsResumed`, `EveryRequestAnswered`).

`PROJECT.json` lists the hazards one by one, with the line where each bites.

## 2. The modules

### NetIo

One thread: `RunEventLoop`. A round is `Wait` (`epoll_wait` harvests the ready
list), `Fire` (`OnEventFire`), then one handler per harvested event, and
`EndRound`. `pc` is where the thread is; clients and containers take steps
between any two of these actions. `DoConn`'s accept loop is the `pc` value
`"accept"`, with an action per accepted connection, because clients may connect
while it runs.

| TLA+ | Code |
|---|---|
| `slot`, `watch`, `msgBuf`, `batch` | `m_arrTcpSock`, `m_vecFds`, `m_arrMsg`, `m_arrEpollEvents` |
| `fdConn`, `reg`, `edge`, `lsnEdge` | the kernel's descriptor table, epoll's registrations and ready list |
| `link`, `backlog`, `sent`, `rx`, `fin`, `got` | clients and their TCP connections |
| `reqQ`, `serving`, `backQ` | the request queues, the containers, the back queue |
| `SameClient` | the socket check of `AddToWatchList` |
| `EpollCtl`, `WatchForRead`, `WatchForSend` | `AddToWatchList`, split at its early return; `WatchForRead` is the call that passes the table's own entry, `WatchForSend` the one that passes a caller's item |
| `OnEventFire`, `DoRecv`, `DoRecvFailed`, `DoClose`, `AcceptOne`, `AcceptEnd` | the functions of those names, `DoConn` for the last two |

Choices made in the abstraction:

* A request and its answer are identified with the connection the request came
  from. The code has no such field: `conn` is only used to ask whose answer is
  where. `fd` and `addr` are what the code carries.
* `SameClient` compares ports. The code compares port, family and the texts of the
  IPs; the family is always the same, and both calls of `inet_ntoa` return its one
  static buffer, so `strcmp` compares a text with itself. `addr` keeps the IP because
  a response that passes also overwrites the slot's address.
* epoll follows the kernel: `EPOLL_CTL_ADD` and `MOD` queue the descriptor at
  once when it is ready for the new mask; arriving data is an edge for
  descriptors registered for input, a FIN for all; `epoll_wait` polls again and
  reports only what is still ready. Closing a descriptor removes its
  registration.
* `accept` may return any free descriptor (the kernel returns the lowest: fewer
  behaviours). The events of a batch are processed in any order, of which the
  array order of the code is one. `epoll_wait` takes the whole ready list; its
  limit of 100 events is never reached with these few descriptors.
* One `read` takes everything that has arrived. `MaxSegments` says in how many
  writes a client sends its request.
* `write` hands the answer to the kernel; whether the network delivers it is
  outside the model (see the hazard on `SO_LINGER`).
* `epoll_wait` returns after 10 ms at the latest, so rounds without events
  happen and the datagram of `RespNotify`, which only shortens the wait, is
  left out. So are the statistics counters, which have a module of
  their own.
* The branch of `ProcessEvent` that drops events with an unexpected flag has no
  action. `EventsAreCurrent` shows it is unreachable; were it reached, the
  model would deadlock, and deadlock is checked.

`Restart` is netio's death and its new start: every socket is closed, all tables
are as `Init` leaves them, and the queues still hold requests and responses of
the connections that are gone. Clients whose connection was cut see its end.

`ClientsMayClose`, `ReadMayFail`, `NetIoMayCrash` and `ContainersMayCrash` switch
on the failures a run is about.

### Container

Any number of processes, each one thread with its own program counter: the
`msgrcv` for a REQUEST, the `msgrcv` for its own APP type when there was none,
and `ProcessMsg`, which performs at most one `msgsnd` and is therefore one step.
Inside it, `Dispatch` and the coroutine switches are resolved into four cases:
no free handler, `svc_test` runs to its end, `svc_test2` suspends, a response
resumes a suspended handler.

`SerialsOf` and `RetsOf` are the numbers each client may write as `serialno` and `ret`,
which `DoRecv` leaves in the request. A serial number other than 0 makes `Reply` send
the result to a service's queue; a ret makes svc_test's answer an error text, for
svc_test never sets its own. The ret `UNFINISH_TASK_RET_FLAG`, by which a handler
of svc_test would count as suspended for ever, is left to `CmdCodec`.

| TLA+ | Code |
|---|---|
| `queue[1]`, `queue[2]`, `backQ` | the queues 0xccccd, 0xcccce, 0xccccc |
| `stateless`, `stateful` | the two maps of `CServiceDispatcher` |
| `cur` | the command in hand, `m_oCurCmdObj` |
| `saved` | `obj3` on the stack of each suspended coroutine |
| `SerialNo`, `PidOfSerial`, `AppType` | the arithmetic of `container.cpp:70` and of `ProcessMsg` |
| `Start`, `Crash` | the end of `main` after `fork`; the death of a process, whose messages stay in the queues (`Die`) |
| `DispatchAborts` | the assertion of `Dispatch` that fails, which ends the process |

`origin` is a ghost field: the client request a message ultimately works for.
`data` keeps which services contributed to the text of the answer. Process ids
are given out in order and never reused. `Dispatch` asserts that a response finds its
handler, or the process ends. `ResponseFindsHandler` says that only the result of a
client's own request, taken for a nested call because of the serial number the client
wrote, does not. A request of the second command with such a number is harmless as
long as svc_test2 finds a free handler, which answers from its copy; when there is none,
the error itself travels like a reply to a nested call, and may meet the coroutine
that has the number (`ContainerNoFree.cfg`). `NoSerialForSvcTest2` excludes that where a property
needs it.

### StatCache

The three areas of counters. Each process attaches on its first request
(`GetInstance`), stores the heads of the three areas, writes the magic number if
it did not find it, and then counts: `Incr` is `FindMeta` (is the bucket set?),
`FindNode` (copy the number), `AddNode` (write number + 1) and `AddSet` (write
`iHasSet`), each a separate access to memory every other process uses as well.
`Crash` may come between any two of them and leaves the memory as it is.

| TLA+ | Code |
|---|---|
| `magic`, `heads`, `hasSet`, `node` | the shared memory: magic number, area heads, and per bucket `iHasSet` and the number |
| `seen`, `bkt`, `temp` | `iInit`, the bucket of the `Incr` under way, `iTemp` |
| `KeysOf`, `BucketsOf` | which keys a process may build from its process id, which buckets a key may hash to |
| `adds`, `crashes` | ghosts: counts written to a bucket, deaths of a process |

`BucketsOf` gives a *set* per key: `ModToUint` adds up `sizeof(string) + 1` bytes
whatever the key's length, so bytes behind the end of a short key take part.
`Find` and `Add` of one `Incr` read the same string and agree. No program calls
`Delete` or `Reset`, so `iInvalid` is always 0 and has no variable.

### Service, the contract

What a client may rely on, without descriptors, processes or coroutines: a
request is asked for (and queued or refused), taken in the order of its queue,
worked on, answered (the answer queued or refused), and delivered in order. It
may be lost; it is never repeated or overtaken in its queue. `NetIo` implements it
with `ImplementsService`, where a connection that may still be asked for is one
in the backlog or whose slot is in READ (`Asking`), the queues are those of the
kernel without the fields netio adds, and `working` is what containers hold.
`Container` implements the same contract from the other side: nested calls
disappear (`ClientRequests`), and a request is being worked on while it is in some
process's hands or saved on a coroutine's stack. Between them the two modules
split the system at the queues: each has a plain version of the other half as
its environment.

### Notify

The datagrams carry nothing, so the socket's receive queue is a number. `told` is
what epoll has said of it: an `"edge"` on the ready list or an `"event"` in the
harvested batch. Netio reads one datagram per event (`ProcessEvent`), however
many have arrived, and a container's `sendto` blocks while the queue is full.
The queue of the model has `QLen` places. `socket()` fails at `MaxOpen`
descriptors, `sendto` when netio is down; the latter returns without `close`.
Either side may die and start again. `sawDown` is a ghost: the processes in
whose life netio was down at some time.

### ModHash and CacheMap

`ModHash` has one action per call of `CCacheManager` and `CModHashV1`; what happens
between the steps of two calls is `StatCache`'s subject. Addresses are numbers
from the start of the shared memory, sizes are constants, and a pointer is a
process and an address, so that a pointer read back by another process shows.
`obj` is each process's `m_stHead` of the three areas, `stored` the heads in the
memory, `begin` the position of `m_pIteratorStart`, `bucket` the buckets. `last`
records the call just made with its result.

`CacheMap` is the map that `CCacheManager` keeps for the processes that share it: `Set`,
`Get`, `Incr`, `Delete`, `Reset` and `FullFillValue` of an area, and `Initalize`, which
leaves the content as it is. The comment in `CCacheManager::Initalize` asks for the last
(heads are initialised once more, "没影响到存储的值内容就好"). `ImplementsCacheMap` states
that the buckets implement it for the keys that have one bucket, shared with no other
key (`Exact`): keys are not stored, so others are out of the question. It is not
the map `IChunkedIndex` documents, whose two initialisations make the data of an
initialised area invalid: that is `InitialisingInvalidates`, which the code does
not do (section 3). What the model shows besides:

* `SetIndexPointer` always refuses an area that is in use: `ReadAndCheckHead`
  returns 1001, uninitialised, when `iInited` is *not* 0. This is what keeps
  `PointersAreOwn`; with the test as its name suggests, another process's
  pointers would be adopted (the mutant of that property).
* `PrintAll` shows everything once per process. `Begin` returns the object's own
  iterator, which `Next` moves; from the second call on nothing is shown.
  `PrintsEverything`, what `intf_chunkedindex.h` says of `Begin` ("返回指向存储区头的迭代器"),
  is stated in the module and violated by `Initalize`, `PrintAll`, `PrintAll`.
* `iFreeNodeCount` is never changed after initialisation, so the free count is
  always the total and `GetIndexedNodeCount` always 0; they have no variable.

`Managed` and `Left` bound the calls that no program makes: the areas they are
made on and the bytes an area's size may exceed whole buckets by.

### CmdCodec

`SplitString`, `Trim`, `strPairAppendToMap`, `ToString` and `InitCCmd` as operators on
sequences of tokens, and one action per hop: `DoRecv`, the two services with
their nested call, and `OnEventFire`. A token is a name, a piece of a value, a
number, `"="`, `"&"` or a blank, and sizes are counted in tokens. `Before` is the
order of `std::map`, and `InOrder` the order in which its iterator returns the keys
that are left for `sData`: it decides which pairs are cut first when the text
exceeds the message. A cut may fall in a name, at an `=` or a blank or in a value.
`FirstValueCounts` is about the request as the service of its command finds it:
what `InitCCmd` makes of the text in its queue (`OnItsWay`), then the `CCmd` in the
service's hands. `atoll` is modelled by its result: the number a token stands
for, or 0. `Waits` is what `Dispatch` asks before it resumes a service: that one
waits for the response's serial number.

The client of the model writes `cmd` first, as `test.php` does, and any pieces
after it, among them keys named like fields of `CCmd`. Two of these matter to the
answer. With a `serialno` the answer goes to a service that waits for none, where
`Dispatch`'s assertion ends the way of the request. A `ret` stays in the command
while svc_test works, and `ProcessMsg` tests it after `Dispatch` (`Checked`): svc_test's
answer is replaced by `errCode=<ret>&resp=Err happend!`, and by
`UNFINISH_TASK_RET_FLAG` there is none (`where` is then `"unfinished"`). svc_test2 sets
its own `ret`, and its nested call bears none. `Told` is what the client is to be told
in each case. Left out: reads of more than 1000 bytes.

### MsgQueues

Every main program adds the same keys in the same order. `AddMsgQueue` is a
`msgget` (`MsgGet`) and an `IPC_SET` (`MsgSet`), between which any other process may
take steps, `ipcrm` included. A failed `Init` leaves `m_iMsgQId` at 0 and the
object in the map, and 0 is also the id of the first queue a kernel creates.
`made` is the kernel's history: the key each id was created for. Ids are given out
in order and not used again, as the kernel's sequence numbers achieve for a
long time. Messages remember under which key they were put and whether the
sender's `Init` of it had succeeded; types play no role here and a receive takes
the oldest. The forked container processes inherit their parent's ids and are
represented by it.

### MC modules and proof modules

Each module has an `MC` module for TLC, which gives the functions of the constants
(which address, command, service, key belongs to whom). `NetIoProofs`,
`ContainerProofs`, `ContainerAnswerProofs`, `StatCacheProofs`, `NotifyProofs`,
`MsgQueuesProofs`, `ModHashProofs` and `CmdCodecProofs` extend the modules they are
named after with the proofs of section 4. `Service` and `CacheMap` are only
instantiated.

## 3. The runs

| Run | Instance | What it shows |
|---|---|---|
| `NetIoStay` | 3 connections, 2 descriptors, queues of 1, containers crash, reads fail, clients wait | `TypeOK`, `OwnResponse` |
| `NetIoLeave` | 3 connections, 2 descriptors, queues of 2, one command, two clients of one port on different hosts, clients close at any moment, reads fail, containers die, netio dies and restarts | `ArmedOnlyWhenAnswered`, `EventsAreCurrent`, `TablesAgree`, `NoMissedEdge`, `AnswerReachesOwner`, `LostOnlyWhenRefused`, `ImplementsService` |
| `NetIoLive` | 2 connections, 2 descriptors, queues of 2, requests in one or two segments, netio dies, fair reactor and containers | `BacklogNotified`, `AnswerOnItsWay`, `EveryRequestEnds` |
| `ContainerSafe` | 3 processes (1 of service 1), 3 requests, one that may have a serial number and one that has a ret, 2 handlers each, queues of 2, 4 process ids | seven invariants of `Container`, `ImplementsService` |
| `ContainerLive` | 3 processes, 3 requests with or without a ret, 1 handler each, queues of 3, fair | `RequestIsKept`, `CallIsKept`, `SuspendedIsResumed`, `EveryRequestAnswered` |
| `StatCacheSafe` | 2 processes, 2 keys, 2 buckets of which one has a single writer, 4 counts per bucket, 1 crash each | `MarkedMeansStored`, `NeverOvercounts`, `SoleWriterExact` |
| `NotifyAll` | 3 containers, a queue of 2, 2 descriptors and 3 calls each, fair | `FullQueueIsNotified`, `LeaksOnlyWhileDown`, `NotifyReturns` |
| `ModHash` | 2 processes, areas of 1, 3 and 1 buckets, one key with its own bucket and one with two, values 0 and 1 | `TypeOK`, `AreasAgree`, `PointersAreOwn`, `ShowsAllOrNothing`, `ImplementsCacheMap` |
| `CmdCodec` | up to 3 of 13 pieces after `cmd`, both commands, messages of 45 tokens | `RoutedBack`, `FirstValueCounts`, `AnswersSurvive` |
| `MsgQueues` | 2 processes of which one may be refused calls, 2 keys, queues of 2, 4 queues created, 2 process ends | `CrossingNeedsFailedInit`, `OpenedIsSized` |
| `NetIoStale`, `ContainerStarved` | as small as the counterexample allows | disagreements 1 and 2 below |

`StatCache`, `Notify`, `CmdCodec` and `MsgQueues` have their `TypeOK` as well; it is
proved for every instance (section 4) and not repeated in the runs.

Bounds. Three connections over two descriptors make every situation of reuse
appear: a descriptor with a late response for its previous owner while the other
descriptor is in any state. A queue of one or two is full in some states and
holds a stale and a current message in others. `NetIoStay` with its queue of one
lets requests be refused. In `NetIoLeave` all three ask for the same command, so
that the third request or answer finds its queue full, with messages of clients
that are gone in it; the first two come from one port of two hosts, so that the late
response of one passes the socket check for the other. In `ContainerSafe` the serial
number a client may write is that of a handler of the first process started. With two handlers and two processes of the second
service, a handler can be reused, another be suspended, and a reply be addressed
to either process; four process ids allow one restart. `ContainerSafe` turns
deadlock checking off because all processes may have died with no process id left.
In `StatCacheSafe` one restarted process may come back under the other's key,
and one key may hash to either bucket; its deadlock checking is off because the
number of counts is bounded by `MaxAdds`.
In `NotifyAll` three senders meet a queue of two, so that it fills while netio's one
event is pending, and two lost descriptors use up a process's limit.
In `ModHash` the middle area has a neighbour on both sides, and the first key
shares its area with one that moves between two buckets; processes are
interchangeable, which the symmetry set uses (the temporal property it
checks is a safety property).
In `CmdCodec` three pieces allow a key to repeat and a third to stand between, and 45
tokens cut the longer requests after netio has added its fields, in a name, at
an `=` and in a value, while the answers still fit; its deadlock is the end of
the request.
In `MsgQueues` four queues let each of two keys be created twice, and two process
ends let a process find what another opened or removed in its absence; it ends
when they are used up.

Fairness. `NetIoLive` assumes that the reactor's thread keeps running (`epoll_wait` times
out, nothing in a round blocks), that a non-empty request queue is read and that
containers answer. Clients owe nothing, neither to write nor to wait, and netio's
death is never assumed.
`ContainerLive` assumes that every process keeps polling (its loop never blocks
on a queue), that processes are started and that netio takes responses.
Queues are large enough there for every message, which is what the code needs:
a refused message is lost for good.
`NotifyAll` assumes that netio's loop runs while netio does, and that each `sendto`
that could return does. Weak fairness per sender is enough although senders
compete for the room: the number of calls is finite. That netio is started
again is not assumed: a `sendto` to nobody fails, it does not block.

### Where the code disagrees with its comments

1. `NetIoStale`: `OnEventFire` writes the response into `m_arrMsg[fd]` before
   `AddToWatchList` compares the sockets. A client whose own answer is already
   in that buffer and waiting for EPOLLOUT is sent the late answer of the
   descriptor's former owner. (`ArmedOnlyWhenAnswered` still holds: the check
   looks after the event, by the port, and not after the buffer.)
2. `ContainerStarved`: "two messages per round" is one or the other; under a
   steady stream of requests suspended handlers are never resumed.

### Configurations kept beside the runs

These state a question whose answer is known and bounds what the runs may
claim; each takes seconds to check.

| Configuration | TLC reports |
|---|---|
| `NetIoReadFail.cfg` (with `MCNetIo`) | passes: `ArmedOnlyWhenAnswered`, `EventsAreCurrent` and `NoMissedEdge` survive the error path of `DoRecv`, netio's and the containers' deaths and two segments together |
| `NetIoClosedSlot.cfg` | `ClosedSlotsReset` violated: a read error closes the descriptor but leaves the slot's flag and `m_vecFds`, against the comment in `AddToWatchList` (`reactor.cpp:259`). `EveryRequestEnds` fails then as well: the descriptor's next connection is never registered with epoll |
| `NetIoSamePort.cfg` | `SlotNamesClient` violated: `AddToWatchList` is to check "客户端等信息是否一致" (`reactor.cpp:257`), but a late response from another host's same port passes and overwrites the slot's address |
| `ContainerNoFree.cfg` (with `MCContainer`) | `ResponseFindsHandler` violated: a client of the second command writes a serial number and no handler is free, so `NO_FREE_SVC_HANDLER` comes back as if it were the reply to a nested call |
| `ContainerDropped.cfg` (with `MCContainer`) | `SuspendedIsResumed` violated: the result of `PutMsg` for the nested request is ignored, and a full queue leaves the handler suspended for ever |
| `ModHashInvalidated.cfg` (with `MCModHash`) | `InitialisingInvalidates` violated: the interface says that initialising an initialised area makes its data invalid (`intf_chunkedindex.h:91` and `:100`); both initialisations keep it |
| `StatCacheLost.cfg` (with `MCStatCache`) | `EveryRequestCounted` violated: `Incr` finds and adds without a lock, so two processes that share a bucket can lose a count the area is said to record |

Two more statements of the code are violated when added to a run's
configuration: `PrintsEverything` in `ModHash`, above, and `AddedIsOpened` in
`MsgQueues`: `AddMsgQueue` prints "Init msgq Succ!" and returns 0 when `Init` has failed.

## 4. What is proved

### NetIoProofs

For all sets of connections, descriptors, addresses and
commands, all queue capacities and, unless an assumption says otherwise, with
closes, read failures, several segments, and crashes of containers and netio:

| Theorem | Assumes | States |
|---|---|---|
| `TypeCorrect` | | `Spec => []TypeOK` |
| `EventsStayCurrent` | | `Spec => []EventsAreCurrent` |
| `ArmedAnswered` | | `Spec => []ArmedOnlyWhenAnswered` |
| `OwnAnswers` | clients wait and write once, netio stays up | `Spec => []OwnResponse` |
| `TablesStayInStep` | | `Spec => []TablesAgree` |
| `AnswersReachOwners` | | `Spec => AnswerReachesOwner` |

The assumptions are the theorems' own, besides `NetIoAssumption` on the
constants; nothing is assumed about client addresses. Each is needed: `NetIoStale`
refutes `OwnResponse` when clients close, and netio's death makes every answer under
way a late one, as a client's close does.

The argument is a tower of inductive invariants.

* `TypeInv` adds to the types that a registered or armed descriptor is open and
  its slot in use (`OpenSlots`), that the batch holds at most one event per
  descriptor, and `EventsAreCurrent` itself. That last one is not inductive
  alone: a handler's close could take away the connection of another event if
  two events were about one descriptor.
* `MsgInv` adds that no two messages between `DoRecv` and `OnEventFire` are
  about the same connection (`MsgUnique`), that a connection is open on one
  descriptor at most (`ConnInv`), and what a message says about the connection
  it came from (`FlightInv`): it carries that one's address, and if the
  connection is still open it is on the descriptor named and its slot is in
  SEND. A message that passes the socket check is therefore the owner's own or a
  late one from a closed connection of the same port, because a slot names the port of
  the connection on its descriptor whatever has overwritten it; together with `OutMeansSend` that
  makes `ArmedOnlyWhenAnswered` inductive.
* `OwnInv`, when nobody closes early: a message in flight always finds its
  connection open on its descriptor, so the buffer of a descriptor that is armed
  holds its own answer.
* `TabInv`: the four tables agree or the descriptor is `Forgotten`, a read event has
  something to read where reads succeed, and what epoll is asked about it watches
  (`EventsWatched`, `FlightWatched`): a connection on a forgotten descriptor never gets
  an event, hence never sends a request, and nothing about it is in flight.

The edges of epoll:

| Theorem | Assumes | States |
|---|---|---|
| `EdgesAreKept` | | `Spec => []NoMissedEdge` |
| `BacklogIsNotified` | a descriptor for every client (`EnoughFds`) | `Spec => []BacklogNotified` |

`EdgeInv` joins `NoMissedEdge` to `MsgInv`, `OutMeansSend` and two facts about the
batch: it is empty between rounds (`BatchDone`), and a client that closed after
its event was harvested has left a new edge (`LateCloseSeen`). The second is why
`DoRecv` may drop its event: it has read all there was, and a FIN that arrived in
the meantime is still announced. A change of mask (`EdgeFire`) and a new
descriptor (`EdgeAccept`) bring their own edge, because `epoll_ctl` looks at the
descriptor.

`BacklogIsNotified` needs `EnoughFds`: with fewer descriptors `accept` fails with
connections left behind and the edge used up (`tcp_net_handler.cpp:55`).
With it, `AllTaken` shows by counting that when all descriptors are taken
everybody has been accepted, for connections are on distinct descriptors
(`ConnInv`).

The clients a refused `msgsnd` loses:

| Theorem | Assumes | States |
|---|---|---|
| `LostToFullQueues` | | `Spec => LostOnlyWhenRefused` |
| `AnswersComing` | no read failures, containers live, `Cardinality(Conns) <= QCap` | `Spec => []AnswerOnItsWay` |

Once `DoRecv` has put a slot in SEND, nothing is read from it again: its client is
answered only if its request or answer is between the queues or its answer is
armed (`StillServed`). `LostToFullQueues` names the only two steps after which
that is no longer so for a client that keeps a descriptor epoll watches: its request meets a full
queue (`RequestRefused`), or its request leaves a container and no answer
arrives on the back queue, because that one is full or the container died
(`AnswerRefused`). Both theorems are steps from `TabInv`. `FlightLoses` follows the
message: one that leaves `InFlight` either is such a loss or is delivered by
`OnEventFire`, where `MsgInv` says that its client, still there, has the descriptor
and the address it names, so that the socket check arms its answer (`ArmedStays`
keeps it armed). `AnswersComing` adds a pigeonhole (`RoomForOne`): messages between the
queues are about distinct connections, so a queue with a place for each has room
for a connection that has none in it. Crashes of netio and clients that leave need no
exception: what they leave behind in the queues still counts one per connection.

The contract is `NetIoImplementsService`: with any client addresses,
`Spec => ImplementsService`, the refinement `NetIoLeave` checks on its instance. Initial states map to the
initial state (`InitImplements`), and each action of `NetIo` to
a step of `Service` or a stutter under the inductive invariant `MsgInv`: `DoRecv` and
its failure are `Ask` or `Abandon`, `ContainerTake` is `Take`, `ContainerAnswer` is
`Answer`, `ContainerCrash` is `Lose`, `OnEventFire` is `Deliver`, closes and
`Restart` are `Abandon`. `MsgUnique` is needed where a connection must not be
worked on twice, and the lemmas `ConnsOfType`, `ConnsOfTail` and `ConnsOfPut` say
what the queue operations do under the mapping.

### ContainerProofs

For any requests, processes, services of the processes, commands of the requests,
numbers of handlers, process ids and places in the queues, with crashes and
restarts anywhere, clients that may ask again and clients that write any `ret` and
`serialno` (`RetsOf`, `SerialsOf`), under `ContainerAssumption` and what the table adds:

| Theorem | Assumes | States |
|---|---|---|
| `ContainerTypeCorrect` | | `Spec => []TypeOK` |
| `HandlersPartitioned` | | `Spec => []HandlersPartition` |
| `RepliesFindHandlers` | `NoSerialForSvcTest2` | `Spec => []ResponseFindsHandler` |
| `RepliesResumeTheirRequests` | `NoSerialForSvcTest2` | `Spec => []ResumesOwnRequest` |
| `NestedCallsCounted` | `NoSerialForSvcTest2` | `Spec => []OneNestedCall` |

`NoSerialForSvcTest2` says that the clients of the second command write no serial
number. Those of the first may, and then the assertion of `Dispatch` does fail, in
svc_test and for no response but theirs.

* `Base` adds to the types and the partition that a process holds a command
  exactly while it is busy, that svc_test never suspends, and that process ids
  are given out once (`Pids`).
* `Calls` follows the nested calls. `CallNo` is the serial number of a nested call, and
  0 for a client's own command, whatever its client wrote. `Alone`: such a number is
  in one message or in one process's hands. `Accounted`: it was made from a process id
  already given out, and as long as that process lives the handler it names is
  suspended for the request the call works for. `QueueKinds` and `HandKinds`:
  which types travel in which queue. A result `Forged` by a client's number stays in
  svc_test's queue, where the call it seems to answer would be, so that what a
  process of svc_test2 takes under its own type is a reply to one of its own calls,
  and what one of svc_test takes is forged. A new call's number is fresh because its
  handler was free, a restarted process's numbers are because its id is new
  (`Numbering`, `NumberingInjective`: this is where `HandlerNum <= 100` is needed),
  and the reply that resumes a coroutine was the last trace of its call.

### ContainerAnswerProofs

`AnswersComplete` and `AnsweredAtMostOnce`, each `Spec => [](its invariant)`, the
first under `NoSerialForSvcTest2`, the second under `ContainerAssumption` alone. The first
adds to `Calls` what commands say (`Contents`): a client's names the client it works for
and is in its service's queue, and the response to a nested call carries svc_test's
part. An error of svc_test does not hide in a success: it never runs out of
handlers, and a nested call has no `ret` that it could leave (`Worded`), for svc_test2
does not pass on the one its client wrote. The second follows each
client request through the places that can hold it (`OnePlace`): never twice in
one kind of place, never in two, and only while the client waits. Lost requests
are no exception: they are in no place.

`ContainerImplementsService`: where clients ask once (`~ClientsAskAgain`, for
`Service`'s requests are asked once) and `NoSerialForSvcTest2` holds,
`Spec => ImplementsService`, the refinement `ContainerSafe` checks on its instance. The
invariant is `ServiceInv`, both of the above. `Ask` and `Deliver` map to
themselves, a crash to `Lose`, `PollRequest` of a client's message
to `Take`, a step that replies to a client (svc_test, a resumed svc_test2, no free
handler) to `Answer`, one that sends a client's result astray for its serial number
to `Lose`, and starts, suspensions, failed assertions and all steps of nested calls to
stutters. The
lemmas about `ClientRequests` say what putting and taking a message does to the
queue as clients see it. `OnePlace` is needed for `working` to be a set: taking a
request that somebody already works on would be no step of `Service`.

`RequestsAreKept` and `CallsAreKept`, `Spec => []RequestIsKept` and
`Spec => []CallIsKept`: when no process dies (`~MayCrash`), no client writes a serial
number (`NoSerials`) and a queue has a place for every client request
(`Cardinality(Requests) <= QCap`), every request whose client
waits is in exactly one place, and every suspended coroutine's nested call, or its
response, is in exactly one. That so few places suffice is the point: a request
and the nested call made for it may use the same queue. The invariant is `KeptInv`:

* `Alive`: every process id given out is a living process's, so every nested call
  under way has a coroutine that waits for it (`NestedForKept`, from `Accounted`).
* Then each message of a queue works for a client request of its own
  (`DifferentOrigins`): a request for itself, a nested call for the one its
  coroutine keeps, which is in no queue. The pigeonhole `RoomFor` gives room for a
  message that works for another, which is what each of the three sends puts
  (`RoomForNew`, `RoomForResponse`, `RoomForAnswer`).
* `RequestsPlaced` and `CallsPlaced`: with room, what leaves one place arrives in the next.

Each condition is needed: `ContainerDropped` loses a call to a full queue, a
process that dies takes what it holds with it, and an answer with a serial number of
its client's goes to no client.

### NotifyProofs

For any processes, queue length, descriptor limit and number of calls:
`NotifyTypeCorrect`, `FullQueueNotified` and `LeakOnlyDown`, each
`Spec => [](its invariant)`. They are inductive only together with three facts: an
event is pending only during a round and stands for a datagram that is there, a
sender has the socket it sends on open, and no process has missed that netio is
down. The heart is that a queue which becomes full does so by an arrival, and
every arrival is an edge; a read makes room.

### MsgQueuesProofs

For any processes, keys and bounds: `MsgQueuesTypeCorrect`, `NoOtherCrossing` and
`OpenedSized`. The invariant `IInv` says that the kernel's table, an `Init` under way
and an opened object all name a queue that was created for their own key
(`IsFor`), that an opened object's queue has been sized, and that a message
of an opened object lies in a queue made for its key. Since ids are never used
again, removing and recreating queues cannot turn one key's id into another's,
and only the id 0 of a failed `Init` is left to cross.

### StatCacheProofs

For any number of processes, keys and buckets, any assignment of keys to
processes, any behaviour of the hash, and crashes anywhere (from
`StatCacheAssumption` alone):

| Theorem | States |
|---|---|
| `CacheTypeCorrect` | `Spec => []TypeOK` |
| `MarkImpliesHeads` | `Spec => []MarkedMeansStored` |
| `RacesNeverOvercount` | `Spec => []NeverOvercounts` |
| `SoleWriterCounts` | `Spec => []SoleWriterExact` |

* `MarkInv`: a process at area `a` has stored the heads before it, and heads are
  never taken away, so one that reaches the magic number has stored all.
* `RaceInv`: what an unfinished `Incr` has read is at most the number of counts
  written to its bucket, which only grows.
* `SoleAt(b, p)`: no other process reaches the bucket (`BucketOfIncr`); between
  `p`'s `Find` and `Add` the number read is still the bucket's; a bucket whose
  `iHasSet` is 0 has received only counts that died before `AddSet`, or the one
  under way. This last part is why a death costs at most one count.

### ModHashProofs

For any processes, keys, areas' sizes, sizes of heads and buckets, values and any
hash (from `ModHashAssumption` alone):

| Theorem | States |
|---|---|
| `LayoutTyped` | `Spec => []TypeOK` |
| `LayoutAreasAgree` | `Spec => []AreasAgree` |
| `LayoutPointersAreOwn` | `Spec => []PointersAreOwn` |
| `LayoutShows` | `Spec => []ShowsAllOrNothing` |
| `CacheMapImplemented` | `Spec => ImplementsCacheMap` |

* `LayoutInv`: a process is either detached or has all three heads set up over its
  own mapping, each iterator at its area's first bucket or behind the last (`SetUp`),
  and the heads in the memory are all zero or, field by field, those of the one
  layout with somebody's address (`Heads`). The arithmetic is in `AreasApart` and `CellsApart`: areas of
  `n` buckets and a head follow each other without a gap, so that a bucket of one is
  never a bucket or a head of another (`UnitSize` is a constant; the products are
  handled by `TimesUnit` and `WholeBuckets`).
* `LayoutShows` compares the walk of `PrintAll` with the area's set buckets.
* For the refinement, `Cell(k)` is the one bucket an exact key hashes to. A write
  to it changes the map at `k` and nowhere else (`OneWritten`); `Initalize` of an area in
  use is `CacheMap`'s, which leaves the map alone, and every other call is
  a stutter or `Reset` or `FullFillValue` of the whole area.

### CmdCodecProofs

For any pieces a client writes, in any number and of any length, any numbers, any
order of the characters, any socket and any message size with room for the
fields and the answers (from `CmdCodecAssumption` alone):

| Theorem | States |
|---|---|
| `CodecTyped` | `Spec => []TypeOK` |
| `AnswersRoutedBack` | `Spec => []RoutedBack` |
| `AnswersReachClient` | `Spec => []AnswersSurvive` |
| `FirstValuesGiven` | `Spec => []FirstValueCounts` |
| `ReadsBack` | `InitCCmd` reads the fields `ToString` wrote, however much data is cut |
| `PairsSurvive` | the data `InitCCmd` makes of a text has that text's pairs, fields aside |

The library's induction theorems take an operator and cannot be used by the
installed provers. Induction over numbers is had instead from `WFMin` and
`NatLessThanWellFounded`, which speak of sets: `LeastOf` and `UpFromZero` are the
two forms the proofs cite. From them come the recursion equations of the folds
(`SplitUnfolds`, `FlattenUnfolds`), from those what the helpers do:

* `AllJoined`, `JoinedSplits`: a text of pieces joined by a separator splits into
  these pieces; `PairSplits`, `TrimKeeps`: a piece `key=value` of trimmed words is that
  pair; `MapIs`: `strPairAppendToMap` keeps of each key the first pair.
* `InOrderIs`: with the total order `Before` (`BeforeTotal`, `BeforeTransitive`), the
  iterator lists each key once.
* `HeadTextSplits`, `ToStringIs`: a text of `ToString` is the nine fields, each a piece,
  and a beginning of the data. The fields come first, and the first pair of a key
  counts: that is `ReadsBack`. `MapOfText` is that a map written is the map read, and
  with it `PairsSurvive`.

`CodecInv` adds to `TypeOK` and `RoutedBack` the way back (`Hops`): the text of a client's
request leads to its socket until svc_test2 keeps a copy of it that does, its
nested call bears a serial number and no address, and a reply leads back again.
That is inductive by `ReadsBack`, whatever the data. `Answers` then says which pairs
the answer under way has, at svc_test2 and at netio, and is kept by `HopKeeps` and
`PairsSurvive`; that the answers are not cut is the room the assumption asks for.
It also says that the request's `ret` is still what its client wrote (`ClientRet`), which
is what `ProcessMsg` tests: an error instead of the answer is one with that very number
(`ToldFail` beside `ToldOne` and `ToldBoth`), and the nested call has none.

`FirstValuesGiven` has three parts.

* The client's text: `WrittenSplits` and `PieceIsPair` show that the code takes those
  pieces for pairs that have one `=`, and `ClientPairs` that the map it makes of the text
  is `DataKeys` with `FirstValue`.
* The cut: `SplitString` reads the beginning of a text as it reads the text, up to the
  last piece, which may be shorter (`CutSplits`). Applied to the separator `&` and again
  to `=`, this says that the piece that was cut is no pair, or has its key and a
  beginning of its value (`CutPair`; `TrimStarts` for a value cut after a blank).
  Since `InOrder` lists the keys by `Before`, what is missing comes after all that
  is there (`FirstPairsOfCut`).
* The hops: `FirstInv` adds to `CodecInv` that before `DoRecv` the text is what the client
  wrote. `DoRecv` establishes the property (`DoRecvFirst`), and later steps hand the
  request on (`RequestStays`): svc_test2's nested call is not mistaken for it, since
  then a copy is kept that differs from a new `CCmd`.

### Only model-checked

The four leads-to properties `EveryRequestEnds`, `SuspendedIsResumed`,
`EveryRequestAnswered` and `NotifyReturns`: liveness under weak fairness speaks of
ENABLED, which is out of the prover's reach. What they rest on in every state is
proved: no edge is missed and no client forgotten (`EdgesAreKept`,
`BacklogIsNotified`, `AnswersComing`), no request or nested call is lost
(`RequestsAreKept`, `CallsAreKept`), and a full datagram queue has been announced
(`FullQueueNotified`). What TLC adds, on its instances, is that the steps that
remain are taken.

## 5. Not modelled

* `CServiceLoader`: `dlopen` and `dlsym` at start, no state afterwards.
* The rest of the main programs, which wire objects together, and
  `main_control.cpp`, whose `main` is commented out.
* `pth.h`, a vendored header; the context switches it offers are inside
  `Container`'s `ProcessMsg`.
* The helpers of `NetUtil.php` other than `tcpCmd`.
* A command that names no service: the queue pointer stays uninitialised, so
  nothing can be said of where `PutMsg` would go.
* The iterator's `Prev` and comparison operators, which nothing calls, and
  `LockKey`, `UnLockKey`, `DumpToFile` and `LoadFromFile`, which do nothing.
