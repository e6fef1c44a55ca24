-------------------------- MODULE MsgQueuesProofs --------------------------
(***************************************************************************)
(* Proofs about MsgQueues, for any processes, keys and bounds.             *)
(***************************************************************************)
EXTENDS MsgQueues, TLAPS

\* With the queues of m created, id is the one of key k.
IsFor(m, id, k) == id \in Ids /\ id < Len(m) /\ m[id + 1] = k

\* What the invariants need to be inductive: the kernel's table, an Init
\* under way and an opened object all name a queue created for their key.
IInv ==
  /\ TypeOK
  /\ \A k \in Keys : table[k] # NoQueue => IsFor(made, table[k], k)
  /\ \A p \in Procs : got[p] # NoQueue =>
       Adding(p) /\ IsFor(made, got[p], Order[step[p]])
  /\ \A p \in Procs : \A k \in opened[p] :
       IsFor(made, qid[p][k], k) /\ qid[p][k] \in sized
  /\ \A id \in Ids : \A i \in DOMAIN msgs[id] :
       msgs[id][i].init = "good" => IsFor(made, id, msgs[id][i].key)
  /\ taken.init = "good" /\ taken.msg.init = "good" =>
       taken.key = taken.msg.key

\* Keys are what Order lists.
LEMMA OrderKeys ==
  /\ Len(Order) \in Nat
  /\ \A i \in 1..Len(Order) : Order[i] \in Keys
  /\ DOMAIN Order = 1..Len(Order)
  BY MsgQueuesAssumption DEF MsgQueuesAssumption, Keys, Range

LEMMA InitIInv == Init => IInv
  BY MsgQueuesAssumption, OrderKeys
  DEF Init, IInv, TypeOK, NothingTaken, Outcomes, Ids

\* The queue created last leaves the others what they are.
LEMMA IsForStays ==
  ASSUME NEW m \in Seq(Keys), NEW k \in Keys, NEW id, NEW o, IsFor(m, id, o)
  PROVE  IsFor(Append(m, k), id, o)
<1>1. id \in Ids /\ id < Len(m) /\ m[id + 1] = o
  BY DEF IsFor
<1>2. id \in Nat /\ Len(m) \in Nat
  BY <1>1, MsgQueuesAssumption DEF Ids
<1>3. id + 1 \in 1..Len(m)
  BY <1>1, <1>2
<1>4. Append(m, k)[id + 1] = m[id + 1] /\ Len(Append(m, k)) = Len(m) + 1
  BY <1>3
<1> QED BY <1>1, <1>2, <1>4 DEF IsFor

\* What was created for a key stays created for it.
LEMMA MadeGrows ==
  ASSUME TypeOK, NEW k \in Keys, Created(k)
  PROVE  /\ made' \in Seq(Keys) /\ Len(made') <= MaxQueues
         /\ table' \in [Keys -> Ids \cup {NoQueue}]
         /\ table'[k] # NoQueue
         /\ table'[k] = table[k] \/ IsFor(made', table'[k], k)
         /\ \A o \in Keys \ {k} : table'[o] = table[o]
         /\ \A id \in Ids : \A o \in Keys :
              IsFor(made, id, o) => IsFor(made', id, o)
<1> USE MsgQueuesAssumption DEF TypeOK, Created, IsFor, Ids
<1>1. CASE table[k] # NoQueue
  BY <1>1
<1>2. CASE table[k] = NoQueue
  <2>1. /\ made' = Append(made, k)
        /\ table' = [table EXCEPT ![k] = Len(made)]
        /\ Len(made) < MaxQueues /\ Len(made) \in Nat
    BY <1>2
  <2>2. /\ made' \in Seq(Keys) /\ Len(made') = Len(made) + 1
        /\ \A i \in 1..Len(made) : made'[i] = made[i]
        /\ made'[Len(made) + 1] = k
    BY <2>1
  <2>3. ASSUME NEW id \in Ids, NEW o \in Keys, IsFor(made, id, o)
        PROVE  IsFor(made', id, o)
    <3>1. made \in Seq(Keys)
      OBVIOUS
    <3> QED BY <2>1, <2>3, <3>1, IsForStays
  <2>4. table'[k] = Len(made) /\ table'[k] \in Ids
    BY <2>1
  <2>5. IsFor(made', table'[k], k)
    BY <2>2, <2>4, <2>1
  <2>6. table' \in [Keys -> Ids \cup {NoQueue}]
    BY <2>1, <2>4
  <2>7. \A o \in Keys \ {k} : table'[o] = table[o]
    BY <2>1
  <2>8. table'[k] # NoQueue
    BY <2>4
  <2>9. Len(made') <= MaxQueues
    BY <2>1, <2>2
  <2> HIDE DEF IsFor
  <2> QED BY <2>2, <2>3, <2>5, <2>6, <2>7, <2>8, <2>9
<1> QED BY <1>1, <1>2

\* Starts, the steps of Init and ends.
LEMMA LocalStep ==
  ASSUME IInv, NEW p \in Procs,
         Start(p) \/ MsgGet(p) \/ MsgSet(p) \/ InitFailed(p) \/ Exit(p)
  PROVE  IInv'
<1> USE MsgQueuesAssumption, OrderKeys DEF IInv, TypeOK, Adding
<1>1. CASE Start(p)
  BY <1>1 DEF Start, kernel, IsFor
<1>2. CASE MsgGet(p)
  <2> DEFINE k == Order[step[p]]
  <2>1. k \in Keys /\ Created(k)
    BY <1>2 DEF MsgGet
  <2>2. /\ made' \in Seq(Keys) /\ Len(made') <= MaxQueues
        /\ table' \in [Keys -> Ids \cup {NoQueue}]
        /\ table'[k] # NoQueue
        /\ table'[k] = table[k] \/ IsFor(made', table'[k], k)
        /\ \A o \in Keys \ {k} : table'[o] = table[o]
        /\ \A id \in Ids : \A o \in Keys :
             IsFor(made, id, o) => IsFor(made', id, o)
    <3> HIDE DEF k
    <3> QED BY <2>1, MadeGrows
  <2>3. /\ got' = [got EXCEPT ![p] = table'[k]]
        /\ UNCHANGED <<sized, msgs, step, qid, opened, taken, exits>>
    BY <1>2 DEF MsgGet
  <2>4. TypeOK'
    BY <2>1, <2>2, <2>3
  <2>5. \A o \in Keys : table'[o] # NoQueue => IsFor(made', table'[o], o)
    BY <2>2
  <2>6. \A q \in Procs : got'[q] # NoQueue =>
          Adding(q)' /\ IsFor(made', got'[q], Order[step'[q]])
    <3> SUFFICES ASSUME NEW q \in Procs, got'[q] # NoQueue
                 PROVE  Adding(q)' /\ IsFor(made', got'[q], Order[step'[q]])
      OBVIOUS
    <3>1. CASE q = p
      <4>1. Adding(p)' /\ got'[p] = table'[k]
        BY <1>2, <2>3 DEF MsgGet
      <4>2. IsFor(made', table'[k], k)
        BY <2>1, <2>2, <2>5
      <4> QED BY <3>1, <4>1, <4>2, <2>3
    <3>2. CASE q # p
      <4>1. got'[q] = got[q] /\ step'[q] = step[q]
        BY <3>2, <2>3
      <4> QED BY <4>1, <2>2, <2>3
    <3> QED BY <3>1, <3>2
  <2>7. \A q \in Procs : \A o \in opened'[q] :
          IsFor(made', qid'[q][o], o) /\ qid'[q][o] \in sized'
    BY <2>2, <2>3
  <2>8. \A id \in Ids : \A i \in DOMAIN msgs'[id] :
          msgs'[id][i].init = "good" => IsFor(made', id, msgs'[id][i].key)
    <3> SUFFICES ASSUME NEW id \in Ids, NEW i \in DOMAIN msgs[id],
                        msgs[id][i].init = "good"
                 PROVE  IsFor(made', id, msgs[id][i].key)
      BY <2>3
    <3>1. msgs[id] \in Seq(Msg) /\ msgs[id][i] \in Msg
      OBVIOUS
    <3>2. msgs[id][i].key \in Keys
      BY <3>1 DEF Msg
    <3> QED BY <3>2, <2>2
  <2> QED BY <2>3, <2>4, <2>5, <2>6, <2>7, <2>8
<1>3. CASE MsgSet(p)
  <2> DEFINE k == Order[step[p]]
  <2>1. /\ k \in Keys /\ step[p] \in 1..Len(Order)
        /\ got[p] \in Ids /\ IsFor(made, got[p], k)
    BY <1>3 DEF MsgSet
  <2>2. /\ sized' = sized \cup {got[p]}
        /\ qid' = [qid EXCEPT ![p][k] = got[p]]
        /\ opened' = [opened EXCEPT ![p] = @ \cup {k}]
        /\ got' = [got EXCEPT ![p] = NoQueue]
        /\ step' = [step EXCEPT ![p] = @ + 1]
        /\ UNCHANGED <<table, made, msgs, taken, exits>>
    BY <1>3 DEF MsgSet
  <2> HIDE DEF k
  <2>3. TypeOK'
    BY <2>1, <2>2
  <2>4. made' = made
    BY <2>2
  <2>5. \A q \in Procs : \A o \in opened'[q] :
          IsFor(made, qid'[q][o], o) /\ qid'[q][o] \in sized'
    BY <2>1, <2>2
  <2>6. \A q \in Procs : got'[q] # NoQueue =>
          Adding(q)' /\ IsFor(made, got'[q], Order[step'[q]])
    BY <2>2
  <2> QED BY <2>2, <2>3, <2>4, <2>5, <2>6, SMTT(60)
<1>4. CASE InitFailed(p)
  BY <1>4 DEF InitFailed, kernel, IsFor
<1>5. CASE Exit(p)
  <2>1. /\ step' = [step EXCEPT ![p] = 0]
        /\ got' = [got EXCEPT ![p] = NoQueue]
        /\ qid' = [qid EXCEPT ![p] = [k \in Keys |-> 0]]
        /\ opened' = [opened EXCEPT ![p] = {}]
        /\ exits' \in 0..MaxExits
        /\ UNCHANGED <<table, made, sized, msgs, taken>>
    BY <1>5 DEF Exit, kernel
  <2>2. 0 \in Ids
    BY DEF Ids
  <2>3. TypeOK'
    BY <2>1, <2>2
  <2>4. \A q \in Procs : \A o \in opened'[q] :
          IsFor(made, qid'[q][o], o) /\ qid'[q][o] \in sized
    BY <2>1
  <2>5. \A q \in Procs : got'[q] # NoQueue =>
          Adding(q)' /\ IsFor(made, got'[q], Order[step'[q]])
    BY <2>1
  <2> QED BY <2>1, <2>3, <2>4, <2>5
<1> QED BY <1>1, <1>2, <1>3, <1>4, <1>5

\* Messages and removals.
LEMMA QueueStep ==
  ASSUME IInv, NEW k \in Keys,
         \/ Ipcrm(k)
         \/ \E p \in Procs : PutMsg(p, k) \/ GetMsg(p, k) \/ DelMsgQueue(p, k)
  PROVE  IInv'
<1> USE MsgQueuesAssumption DEF IInv, TypeOK, GetMsgQueue
<1>1. ASSUME NEW id \in Ids, Removed(id), UNCHANGED <<local, taken, exits>>
      PROVE  IInv'
  BY <1>1 DEF Removed, local, IsFor, Adding
<1>2. CASE Ipcrm(k)
  BY <1>1, <1>2 DEF Ipcrm, Removed, Live
<1>3. ASSUME NEW p \in Procs, DelMsgQueue(p, k)
      PROVE  IInv'
  <2>1. qid[p][k] \in Ids
    OBVIOUS
  <2>2. Removed(qid[p][k]) /\ UNCHANGED <<local, taken, exits>>
    BY <1>3 DEF DelMsgQueue
  <2> QED BY <1>1, <2>1, <2>2
<1>4. ASSUME NEW p \in Procs, PutMsg(p, k)
      PROVE  IInv'
  <2> DEFINE id == qid[p][k]
             m == [key |-> k, init |-> InitOf(p, k)]
  <2>1. /\ id \in Ids /\ Len(msgs[id]) < QCap /\ msgs[id] \in Seq(Msg)
        /\ msgs' = [msgs EXCEPT ![id] = Append(@, m)]
        /\ UNCHANGED <<table, made, sized, local, taken, exits>>
    BY <1>4 DEF PutMsg
  <2>2. m \in Msg /\ (m.init = "good" => IsFor(made, id, m.key))
    BY DEF Msg, InitOf, Outcomes
  <2> HIDE DEF id, m
  <2>3. TypeOK'
    BY <2>1, <2>2 DEF local
  <2>4. \A o \in Ids : \A i \in DOMAIN msgs'[o] :
          msgs'[o][i].init = "good" => IsFor(made, o, msgs'[o][i].key)
    BY <2>1, <2>2
  <2>5. UNCHANGED <<table, made, sized, step, got, qid, opened, taken>>
    BY <2>1 DEF local
  <2> QED BY <2>3, <2>4, <2>5 DEF Adding
<1>5. ASSUME NEW p \in Procs, GetMsg(p, k)
      PROVE  IInv'
  <2> DEFINE id == qid[p][k]
             m == Head(msgs[id])
  <2>1. /\ id \in Ids /\ msgs[id] \in Seq(Msg) /\ msgs[id] # <<>>
        /\ taken' = [key |-> k, init |-> InitOf(p, k), msg |-> m]
        /\ msgs' = [msgs EXCEPT ![id] = Tail(@)]
        /\ UNCHANGED <<table, made, sized, local, exits>>
    BY <1>5 DEF GetMsg
  <2>2. m \in Msg /\ (m.init = "good" => IsFor(made, id, m.key))
    BY <2>1
  <2>3. InitOf(p, k) \in Outcomes /\ (InitOf(p, k) = "good" => IsFor(made, id, k))
    BY DEF InitOf, Outcomes
  <2> HIDE DEF id, m
  <2>4. TypeOK'
    BY <2>1, <2>2, <2>3 DEF local
  <2>5. \A o \in Ids : \A i \in DOMAIN msgs'[o] :
          msgs'[o][i].init = "good" => IsFor(made, o, msgs'[o][i].key)
    BY <2>1
  <2>6. taken'.init = "good" /\ taken'.msg.init = "good" =>
          taken'.key = taken'.msg.key
    BY <2>1, <2>2, <2>3 DEF IsFor
  <2> QED BY <2>1, <2>4, <2>5, <2>6 DEF local, IsFor, Adding
<1> QED BY <1>2, <1>3, <1>4, <1>5

LEMMA StepIInv == IInv /\ [Next]_vars => IInv'
<1> SUFFICES ASSUME IInv, [Next]_vars PROVE IInv'
  OBVIOUS
<1>1. CASE UNCHANGED vars
  BY <1>1 DEF IInv, TypeOK, vars, kernel, local, IsFor, Adding
<1>2. CASE Next
  BY <1>2, LocalStep, QueueStep DEF Next
<1> QED BY <1>1, <1>2

\* AddMsgQueue, GetMsg, PutMsg and ipcrm in any interleaving: what the
\* invariants below need holds in every state.
THEOREM MsgQueuesInvariant == Spec => []IInv
  BY InitIInv, StepIInv, PTL DEF Spec

\* Every variable of MsgQueues keeps its type, and the ids its processes
\* hold are ids the kernel gave out or 0.
THEOREM MsgQueuesTypeCorrect == Spec => []TypeOK
  BY MsgQueuesInvariant, PTL DEF IInv

\* Messages only cross from key to key through a failed Init (AddMsgQueue,
\* PutMsg, GetMsg), for any number of processes, keys and removals.
THEOREM NoOtherCrossing == Spec => []CrossingNeedsFailedInit
<1>1. IInv => CrossingNeedsFailedInit
  BY DEF IInv, TypeOK, CrossingNeedsFailedInit, IsFor
<1> QED BY <1>1, MsgQueuesInvariant, PTL

\* A queue some process works with has had its size raised (Init).
THEOREM OpenedSized == Spec => []OpenedIsSized
<1>1. IInv => OpenedIsSized
  BY DEF IInv, OpenedIsSized
<1> QED BY <1>1, MsgQueuesInvariant, PTL

=============================================================================
