----------------------------- MODULE MsgQueues -----------------------------
(***************************************************************************)
(* CMsgQManager and CMsgQueue: how netio and the containers come to share  *)
(* the System V queues.  Every process adds all keys in the same order at  *)
(* its start; Init is a msgget, an IPC_STAT and an IPC_SET, any of which   *)
(* another process's steps and a removal of the queue may come between.    *)
(*                                                                         *)
(* A failed Init leaves m_iMsgQId and m_iKey at 0, and AddMsgQueue keeps   *)
(* the object and returns 0 all the same.  0 is also the id the kernel     *)
(* gives the first queue it ever creates.                                  *)
(***************************************************************************)
EXTENDS Naturals, Sequences, Functions

CONSTANTS Procs,      \* netio and the containers
          Order,      \* the keys as the main programs add them
          NoQueue,    \* "no queue" in the kernel's table
          Failing,    \* the processes the kernel may refuse calls
          QCap,       \* bound: messages in a queue
          MaxQueues,  \* bound: queues ever created
          MaxExits    \* bound: process ends

Keys == Range(Order)
Ids == 0..(MaxQueues - 1)

ASSUME MsgQueuesAssumption ==
  /\ Order \in Seq(Range(Order))
  /\ IsInjective(Order)
  /\ Failing \subseteq Procs
  /\ {QCap, MaxExits} \subseteq Nat
  /\ MaxQueues \in Nat \ {0}
  /\ NoQueue \notin Ids

VARIABLES
  table,  \* the kernel: table[k] is the id of k's queue
  made,   \* the kernel: the keys of the queues created, id 0 first
  sized,  \* the kernel: the queues whose msg_qbytes has been raised
  msgs,   \* the kernel: msgs[id], the messages in a queue
  step,   \* step[p]: 0 when down, or the number of the key p adds next
  got,    \* got[p]: iMsgId between msgget and IPC_SET
  qid,    \* qid[p][k]: m_iMsgQId
  opened, \* opened[p]: the keys with m_iKey set
  taken,  \* the last message taken, and under which key
  exits   \* process ends so far

kernel == <<table, made, sized, msgs>>
local == <<step, got, qid, opened>>
vars == <<kernel, local, taken, exits>>

-----------------------------------------------------------------------------
NothingTaken == [key |-> NoQueue, init |-> "failed", msg |-> NoQueue]

Init ==
  /\ table = [k \in Keys |-> NoQueue]
  /\ made = <<>>
  /\ sized = {}
  /\ msgs = [id \in Ids |-> <<>>]
  /\ step = [p \in Procs |-> 0]
  /\ got = [p \in Procs |-> NoQueue]
  /\ qid = [p \in Procs |-> [k \in Keys |-> 0]]
  /\ opened = [p \in Procs |-> {}]
  /\ taken = NothingTaken
  /\ exits = 0

Live(id) == \E k \in Keys : table[k] = id /\ id # NoQueue
Ready(p) == step[p] = Len(Order) + 1
Adding(p) == step[p] \in DOMAIN Order

Start(p) ==
  /\ step[p] = 0
  /\ step' = [step EXCEPT ![p] = 1]
  /\ UNCHANGED <<kernel, got, qid, opened, taken, exits>>

\* The kernel's side of msgget with IPC_CREAT.
Created(k) ==
  IF table[k] # NoQueue THEN UNCHANGED <<table, made>>
  ELSE /\ Len(made) < MaxQueues
       /\ table' = [table EXCEPT ![k] = Len(made)]
       /\ made' = Append(made, k)

\* Mutant: a queue that exists already is used as it is.
MsgGetExisting(p) ==
  /\ Adding(p) /\ got[p] = NoQueue
  /\ LET k == Order[step[p]]
     IN  IF table[k] # NoQueue
           THEN /\ qid' = [qid EXCEPT ![p][k] = table[k]]
                /\ opened' = [opened EXCEPT ![p] = @ \cup {k}]
                /\ step' = [step EXCEPT ![p] = @ + 1]
                /\ UNCHANGED <<table, made, got>>
           ELSE /\ Created(k)
                /\ got' = [got EXCEPT ![p] = table'[k]]
                /\ UNCHANGED <<qid, opened, step>>
  /\ UNCHANGED <<sized, msgs, taken, exits>>

\* AddMsgQueue and Init, up to msgget.
MsgGet(p) ==
  /\ Adding(p) /\ got[p] = NoQueue
  /\ Created(Order[step[p]])
  /\ got' = [got EXCEPT ![p] = table'[Order[step[p]]]]
  /\ UNCHANGED <<sized, msgs, step, qid, opened, taken, exits>>

\* Init from IPC_SET on.
MsgSet(p) ==
  /\ Adding(p) /\ got[p] # NoQueue
  /\ Live(got[p])
  /\ sized' = sized \cup {got[p]}
  /\ qid' = [qid EXCEPT ![p][Order[step[p]]] = got[p]]
  /\ opened' = [opened EXCEPT ![p] = @ \cup {Order[step[p]]}]
  /\ got' = [got EXCEPT ![p] = NoQueue]
  /\ step' = [step EXCEPT ![p] = @ + 1]
  /\ UNCHANGED <<table, made, msgs, taken, exits>>

\* Init when msgget fails, or IPC_SET does: the queue is gone, or p may not
\* raise msg_qbytes.  AddMsgQueue goes on to the next key.
InitFailed(p) ==
  /\ Adding(p)
  /\ \/ p \in Failing
     \/ got[p] # NoQueue /\ ~Live(got[p])
  /\ got' = [got EXCEPT ![p] = NoQueue]
  /\ step' = [step EXCEPT ![p] = @ + 1]
  /\ UNCHANGED <<kernel, qid, opened, taken, exits>>

-----------------------------------------------------------------------------
\* Mutant: the first queue of the map, whatever its key.
GetMsgQueueFirst(p, k) == qid[p][Order[1]]

\* GetMsgQueue: the object under the key, opened or not.
GetMsgQueue(p, k) == qid[p][k]

\* What Init made of p's object for k.
InitOf(p, k) == IF k \in opened[p] THEN "good" ELSE "failed"

\* PutMsg, when the kernel takes the message: the queue of that id exists
\* and has room.  Otherwise the message is lost and nothing changes.
PutMsg(p, k) ==
  /\ Ready(p)
  /\ LET id == GetMsgQueue(p, k)
     IN  /\ Live(id)
         /\ Len(msgs[id]) < QCap
         /\ msgs' = [msgs EXCEPT ![id] =
                       Append(@, [key |-> k, init |-> InitOf(p, k)])]
  /\ UNCHANGED <<table, made, sized, local, taken, exits>>

GetMsg(p, k) ==
  /\ Ready(p)
  /\ LET id == GetMsgQueue(p, k)
     IN  /\ Live(id) /\ msgs[id] # <<>>
         /\ taken' = [key |-> k, init |-> InitOf(p, k),
                      msg |-> Head(msgs[id])]
         /\ msgs' = [msgs EXCEPT ![id] = Tail(@)]
  /\ UNCHANGED <<table, made, sized, local, exits>>

\* The kernel's side of IPC_RMID: the queue and its messages are gone.
Removed(id) ==
  /\ Live(id)
  /\ table' = [k \in Keys |-> IF table[k] = id THEN NoQueue ELSE table[k]]
  /\ msgs' = [msgs EXCEPT ![id] = <<>>]
  /\ UNCHANGED <<made, sized>>

\* delMsgQueue, which removes the queue of whatever id Fini finds.
DelMsgQueue(p, k) ==
  /\ Ready(p)
  /\ Removed(GetMsgQueue(p, k))
  /\ UNCHANGED <<local, taken, exits>>

\* The administrator's ipcrm, which the comment of Fini recommends.
Ipcrm(k) ==
  /\ Removed(table[k])
  /\ UNCHANGED <<local, taken, exits>>

\* The process ends; the queues stay.
Exit(p) ==
  /\ step[p] # 0
  /\ exits < MaxExits
  /\ exits' = exits + 1
  /\ step' = [step EXCEPT ![p] = 0]
  /\ got' = [got EXCEPT ![p] = NoQueue]
  /\ qid' = [qid EXCEPT ![p] = [k \in Keys |-> 0]]
  /\ opened' = [opened EXCEPT ![p] = {}]
  /\ UNCHANGED <<kernel, taken>>

Next ==
  \/ \E p \in Procs :
       \/ Start(p) \/ MsgGet(p) \/ MsgSet(p) \/ InitFailed(p) \/ Exit(p)
       \/ \E k \in Keys : PutMsg(p, k) \/ GetMsg(p, k) \/ DelMsgQueue(p, k)
  \/ \E k \in Keys : Ipcrm(k)

Spec == Init /\ [][Next]_vars

-----------------------------------------------------------------------------
(* Properties.                                                             *)

Outcomes == {"good", "failed"}
Msg == [key : Keys, init : Outcomes]

\* Every variable has its type; no queue exceeds its capacity.
TypeOK ==
  /\ table \in [Keys -> Ids \cup {NoQueue}]
  /\ made \in Seq(Keys) /\ Len(made) <= MaxQueues
  /\ sized \subseteq Ids
  /\ msgs \in [Ids -> Seq(Msg)]
  /\ \A id \in Ids : Len(msgs[id]) <= QCap
  /\ step \in [Procs -> 0..(Len(Order) + 1)]
  /\ got \in [Procs -> Ids \cup {NoQueue}]
  /\ qid \in [Procs -> [Keys -> Ids]]
  /\ opened \in [Procs -> SUBSET Keys]
  /\ taken \in [key : Keys, init : Outcomes, msg : Msg] \cup {NothingTaken}
  /\ exits \in 0..MaxExits

\* However starts, failures, removals and restarts interleave, a message put
\* under one key is received under another only when the sender's or the
\* receiver's own Init of that key had failed: an id once good is never
\* another key's, though the queue behind it may be removed and made again.
CrossingNeedsFailedInit ==
  /\ \A id \in Ids : \A i \in DOMAIN msgs[id] :
       msgs[id][i].init = "good" => msgs[id][i].key = made[id + 1]
  /\ taken.init = "good" /\ taken.msg.init = "good" =>
       taken.key = taken.msg.key

\* Init has the queue's size raised before it gives out its id: a queue that
\* any process works with can hold MAX_QBYTES, even when its creator died
\* or was refused before its own IPC_SET.
OpenedIsSized ==
  \A p \in Procs : \A k \in opened[p] : Live(qid[p][k]) => qid[p][k] \in sized

\* "Init msgq Succ!" (the end of AddMsgQueue): an added key has its queue.
AddedIsOpened ==
  \A p \in Procs : \A i \in DOMAIN Order :
    i < step[p] => Order[i] \in opened[p]

=============================================================================
