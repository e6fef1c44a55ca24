------------------------------- MODULE Notify -------------------------------
(***************************************************************************)
(* The wake-up datagrams.  A container that has put a response on the back *)
(* queue calls RespNotify: socket(), one blocking sendto() to netio's      *)
(* local datagram socket, close().  Netio watches that socket with an      *)
(* edge-triggered epoll and reads ONE datagram per event.                  *)
(*                                                                         *)
(* The datagrams have no content worth a model: the receive queue is their *)
(* number.  Netio's other events and the responses themselves are NetIo's. *)
(***************************************************************************)
EXTENDS Naturals

CONSTANTS Procs,     \* container processes
          QLen,      \* datagrams the receive queue holds before sendto blocks
          MaxOpen,   \* descriptors a process may open (RLIMIT_NOFILE)
          MaxCalls   \* bound: responses a process reports

ASSUME NotifyAssumption ==
  /\ QLen \in Nat \ {0}
  /\ MaxOpen \in Nat \ {0}
  /\ MaxCalls \in Nat

VARIABLES
  netio,   \* "down", "bound" (before RunEventLoop), "wait" or "events"
  rcvq,    \* datagrams in the receive queue of m_iUSockFd
  told,    \* what epoll has said of m_iUSockFd and netio not acted on yet:
           \* "edge", on the ready list; "event", in m_arrEpollEvents
  pc,      \* pc[p]: "idle", or "send" when p is inside sendto()
  open,    \* open[p]: sockets p has open
  calls,   \* calls[p]: how often p has called RespNotify
  sawDown  \* ghost: processes in whose life netio was down at some time

netioVars == <<netio, told>>
vars == <<netioVars, rcvq, pc, open, calls, sawDown>>

Init ==
  /\ netio = "down"
  /\ rcvq = 0
  /\ told = {}
  /\ pc = [p \in Procs |-> "idle"]
  /\ open = [p \in Procs |-> 0]
  /\ calls = [p \in Procs |-> 0]
  /\ sawDown = Procs

-----------------------------------------------------------------------------
(* Netio.                                                                  *)

\* unlink(), bind(): from here on containers find the socket by its path,
\* though nothing reads it yet.
InitUSockUdpSvr ==
  /\ netio = "down"
  /\ netio' = "bound"
  /\ UNCHANGED <<rcvq, told, pc, open, calls, sawDown>>

\* Mutant: the loop starts without the datagram socket in its watch list.
RunEventLoopTcpOnly ==
  /\ netio = "bound"
  /\ UNCHANGED vars

\* RunEventLoop first puts the socket into epoll, which queues it at once
\* when datagrams have arrived already.
RunEventLoop ==
  /\ netio = "bound"
  /\ netio' = "wait"
  /\ told' = IF rcvq > 0 THEN {"edge"} ELSE {}
  /\ UNCHANGED <<rcvq, pc, open, calls, sawDown>>

CheckEvents ==
  /\ netio = "wait"
  /\ netio' = "events"
  /\ told' = IF "edge" \in told /\ rcvq > 0 THEN {"event"} ELSE {}
  /\ UNCHANGED <<rcvq, pc, open, calls, sawDown>>

\* Mutant: an error of another handler ends ProcessEvent before this event.
ProcessEventCutShort ==
  /\ netio = "events"
  /\ netio' = "wait"
  /\ told' = told \ {"event"}
  /\ UNCHANGED <<rcvq, pc, open, calls, sawDown>>

\* ProcessEvent, DoRecv: one recvfrom() if there was an event.
ProcessEvent ==
  /\ netio = "events"
  /\ netio' = "wait"
  /\ rcvq' = IF "event" \in told THEN rcvq - 1 ELSE rcvq
  /\ told' = told \ {"event"}
  /\ UNCHANGED <<pc, open, calls, sawDown>>

\* The socket goes with the process, its path stays.  Senders blocked on it
\* look the path up again and find nobody.
Crash ==
  /\ netio # "down"
  /\ netio' = "down"
  /\ rcvq' = 0
  /\ told' = {}
  /\ sawDown' = Procs
  /\ UNCHANGED <<pc, open, calls>>

-----------------------------------------------------------------------------
(* RespNotify.                                                             *)

\* socket(), which fails when the process has no descriptor left: -1.
CreateSocket(p) ==
  /\ pc[p] = "idle"
  /\ calls[p] < MaxCalls
  /\ calls' = [calls EXCEPT ![p] = @ + 1]
  /\ IF open[p] < MaxOpen
     THEN /\ open' = [open EXCEPT ![p] = @ + 1]
          /\ pc' = [pc EXCEPT ![p] = "send"]
     ELSE UNCHANGED <<open, pc>>
  /\ UNCHANGED <<netioVars, rcvq, sawDown>>

\* Mutant: no close() after the datagram is sent.
SendToNoClose(p) ==
  /\ pc[p] = "send"
  /\ netio # "down"
  /\ rcvq < QLen
  /\ rcvq' = rcvq + 1
  /\ told' = IF netio = "bound" THEN told ELSE told \cup {"edge"}
  /\ pc' = [pc EXCEPT ![p] = "idle"]
  /\ UNCHANGED <<netio, open, calls, sawDown>>

\* sendto() returns once the datagram is in the queue; every arrival is an
\* edge for a registered socket.  Then close().
SendTo(p) ==
  /\ pc[p] = "send"
  /\ netio # "down"
  /\ rcvq < QLen
  /\ rcvq' = rcvq + 1
  /\ told' = IF netio = "bound" THEN told ELSE told \cup {"edge"}
  /\ pc' = [pc EXCEPT ![p] = "idle"]
  /\ open' = [open EXCEPT ![p] = @ - 1]
  /\ UNCHANGED <<netio, calls, sawDown>>

\* Nobody is bound to the path: -2, without close().
SendToFailed(p) ==
  /\ pc[p] = "send"
  /\ netio = "down"
  /\ pc' = [pc EXCEPT ![p] = "idle"]
  /\ UNCHANGED <<netioVars, rcvq, open, calls, sawDown>>

\* The process dies, wherever it is, and is started again.
Restart(p) ==
  /\ pc' = [pc EXCEPT ![p] = "idle"]
  /\ open' = [open EXCEPT ![p] = 0]
  /\ sawDown' = IF netio = "down" THEN sawDown \cup {p} ELSE sawDown \ {p}
  /\ UNCHANGED <<netioVars, rcvq, calls>>

-----------------------------------------------------------------------------
NetioLoop == RunEventLoop \/ CheckEvents \/ ProcessEvent

Notify(p) == SendTo(p) \/ SendToFailed(p)

Next ==
  \/ InitUSockUdpSvr
  \/ NetioLoop
  \/ Crash
  \/ \E p \in Procs : CreateSocket(p) \/ Notify(p) \/ Restart(p)

Spec == Init /\ [][Next]_vars

\* Netio's loop never blocks for long and a sender that can go on does.  That
\* netio is started again, or that containers notify, is not assumed.
Fairness ==
  /\ WF_vars(NetioLoop)
  /\ \A p \in Procs : WF_vars(Notify(p))

FairSpec == Spec /\ Fairness

-----------------------------------------------------------------------------
(* Properties.                                                             *)

\* Every variable has its type; the queue never exceeds its length and no
\* process its descriptors.
TypeOK ==
  /\ netio \in {"down", "bound", "wait", "events"}
  /\ rcvq \in 0..QLen
  /\ told \in SUBSET {"edge", "event"}
  /\ pc \in [Procs -> {"idle", "send"}]
  /\ open \in [Procs -> 0..MaxOpen]
  /\ calls \in [Procs -> 0..MaxCalls]
  /\ sawDown \in SUBSET Procs

\* One read per edge leaves a growing rest of datagrams that epoll will not
\* mention again (CUSockUdpHandler::DoRecv).  The rest may fill the queue, but
\* then the last arrival's edge or event is still to come: a full queue, on
\* which containers block, is never one netio has forgotten.
FullQueueIsNotified ==
  netio \in {"wait", "events"} /\ rcvq = QLen => told # {}

\* RespNotify closes its socket, but not when sendto fails.  What a process
\* has lost that way it lost because netio was down in its lifetime: blocking,
\* full queues and races of sends with netio's reads cost no descriptor.
LeaksOnlyWhileDown ==
  \A p \in Procs :
    open[p] > (IF pc[p] = "send" THEN 1 ELSE 0) => p \in sawDown

\* A container never stays in RespNotify for good, whatever rest has piled up
\* in the queue and however often netio dies and comes back.
NotifyReturns == \A p \in Procs : pc[p] = "send" ~> pc[p] = "idle"

=============================================================================
