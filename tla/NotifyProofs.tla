---------------------------- MODULE NotifyProofs ----------------------------
(***************************************************************************)
(* Proofs about Notify, for any number of containers, any queue length and *)
(* any limit on descriptors.                                               *)
(***************************************************************************)
EXTENDS Notify, TLAPS

\* What the three invariants need to be inductive: an event is only pending
\* in a round and stands for a datagram that is still there, a sender holds
\* the socket it sends on, and nobody has missed that netio is down.
IInv ==
  /\ TypeOK
  /\ FullQueueIsNotified
  /\ LeaksOnlyWhileDown
  /\ "event" \in told => netio = "events" /\ rcvq > 0
  /\ \A p \in Procs : pc[p] = "send" => open[p] > 0
  /\ netio = "down" => sawDown = Procs

\* Nothing of IInv depends on the initial number of containers.
LEMMA InitIInv == Init => IInv
  BY NotifyAssumption
  DEF Init, IInv, TypeOK, FullQueueIsNotified, LeaksOnlyWhileDown

\* Netio's own steps, those of its loop and of its end.
LEMMA NetioStep ==
  ASSUME IInv, InitUSockUdpSvr \/ NetioLoop \/ Crash
  PROVE  IInv'
<1> USE NotifyAssumption
       DEF IInv, TypeOK, FullQueueIsNotified, LeaksOnlyWhileDown
<1>1. CASE InitUSockUdpSvr
  BY <1>1 DEF InitUSockUdpSvr
<1>2. CASE RunEventLoop
  BY <1>2 DEF RunEventLoop
<1>3. CASE CheckEvents
  <2>1. rcvq = QLen => "edge" \in told
    BY <1>3 DEF CheckEvents
  <2>2. rcvq = QLen => told' = {"event"}
    BY <1>3, <2>1 DEF CheckEvents
  <2>3. told' = {} \/ (told' = {"event"} /\ rcvq > 0)
    <3>1. told' = IF "edge" \in told /\ rcvq > 0 THEN {"event"} ELSE {}
      BY <1>3 DEF CheckEvents
    <3> QED BY ONLY <3>1, Zenon
  <2>4. /\ netio' = "events"
        /\ UNCHANGED <<rcvq, pc, open, calls, sawDown>>
    BY <1>3 DEF CheckEvents
  <2>5. TypeOK'
    BY <2>3, <2>4
  <2>6. FullQueueIsNotified'
    BY <2>2, <2>4
  <2>7. LeaksOnlyWhileDown'
    BY <2>4
  <2>8. "event" \in told' => netio' = "events" /\ rcvq' > 0
    BY <2>3, <2>4
  <2> QED BY <2>4, <2>5, <2>6, <2>7, <2>8
<1>4. CASE ProcessEvent
  BY <1>4 DEF ProcessEvent
<1>5. CASE Crash
  BY <1>5 DEF Crash
<1> QED BY <1>1, <1>2, <1>3, <1>4, <1>5 DEF NetioLoop

\* The steps of one container: those of RespNotify and its restart.
LEMMA ProcStep ==
  ASSUME IInv, NEW p \in Procs, CreateSocket(p) \/ Notify(p) \/ Restart(p)
  PROVE  IInv'
<1> USE NotifyAssumption
       DEF IInv, TypeOK, FullQueueIsNotified, LeaksOnlyWhileDown, netioVars
<1>1. CASE CreateSocket(p)
  <2>1. CASE open[p] < MaxOpen
    BY <1>1, <2>1 DEF CreateSocket
  <2>2. CASE ~(open[p] < MaxOpen)
    BY <1>1, <2>2 DEF CreateSocket
  <2> QED BY <2>1, <2>2
<1>2. CASE SendTo(p)
  BY <1>2 DEF SendTo
<1>3. CASE SendToFailed(p)
  BY <1>3 DEF SendToFailed
<1>4. CASE Restart(p)
  BY <1>4 DEF Restart
<1> QED BY <1>1, <1>2, <1>3, <1>4 DEF Notify

\* IInv holds in every state of every behaviour.
THEOREM NotifyInvariant == Spec => []IInv
<1>1. IInv /\ [Next]_vars => IInv'
  <2> SUFFICES ASSUME IInv, [Next]_vars PROVE IInv'
    OBVIOUS
  <2>1. CASE UNCHANGED vars
    BY <2>1 DEF vars, netioVars, IInv, TypeOK, FullQueueIsNotified,
                LeaksOnlyWhileDown
  <2>2. CASE InitUSockUdpSvr \/ NetioLoop \/ Crash
    BY <2>2, NetioStep
  <2>3. CASE \E p \in Procs : CreateSocket(p) \/ Notify(p) \/ Restart(p)
    BY <2>3, ProcStep
  <2> QED BY <2>1, <2>2, <2>3 DEF Next
<1> QED BY InitIInv, <1>1, PTL DEF Spec

\* The variables keep their types: the receive queue its length, the
\* descriptors their limit, and no close() is for a socket that is not open.
THEOREM NotifyTypeCorrect == Spec => []TypeOK
<1>1. IInv => TypeOK
  BY DEF IInv
<1> QED BY NotifyInvariant, <1>1, PTL

\* However many containers there are and however short the queue, a full one
\* always has its edge or its event (DoRecv reads one datagram per event).
THEOREM FullQueueNotified == Spec => []FullQueueIsNotified
<1>1. IInv => FullQueueIsNotified
  BY DEF IInv
<1> QED BY NotifyInvariant, <1>1, PTL

\* RespNotify's missing close() costs descriptors only while netio is down.
THEOREM LeakOnlyDown == Spec => []LeaksOnlyWhileDown
<1>1. IInv => LeaksOnlyWhileDown
  BY DEF IInv
<1> QED BY NotifyInvariant, <1>1, PTL

=============================================================================
