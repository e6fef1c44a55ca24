------------------------------ MODULE Service ------------------------------
(***************************************************************************)
(* What the middleware promises about the requests entrusted to it,        *)
(* whatever descriptors, processes, coroutines and nested calls are behind *)
(* it: a request is queued once, taken in the order it was queued, worked  *)
(* on once and answered once, and the answers are delivered in the order   *)
(* they were given.  A request may be lost, where a queue is full or a     *)
(* process dies, but never repeated.                                       *)
(*                                                                         *)
(* NetIo implements this with containers that just answer, Container with  *)
(* a netio that just asks and delivers.                                    *)
(***************************************************************************)
EXTENDS Sequences

CONSTANTS Requests, \* client requests
          Cmds,     \* commands, that is services
          CmdOf     \* the command of each request

VARIABLES
  idle,    \* requests still to be made
  queue,   \* queue[k]: requests waiting for the service of k, oldest first
  working, \* requests a service is working on
  answers  \* answered requests, not delivered yet, oldest first

vars == <<idle, queue, working, answers>>

Init ==
  /\ idle = Requests
  /\ queue = [k \in Cmds |-> <<>>]
  /\ working = {}
  /\ answers = <<>>

\* A request is made and queued, or refused by a full queue.
Ask(r) ==
  /\ r \in idle
  /\ idle' = idle \ {r}
  /\ queue' \in {queue, [queue EXCEPT ![CmdOf[r]] = Append(@, r)]}
  /\ UNCHANGED <<working, answers>>

\* Some clients will not ask any more.
Abandon ==
  /\ idle' \in SUBSET idle
  /\ UNCHANGED <<queue, working, answers>>

Take(k) ==
  /\ queue[k] # <<>>
  /\ queue' = [queue EXCEPT ![k] = Tail(@)]
  /\ working' = working \cup {Head(queue[k])}
  /\ UNCHANGED <<idle, answers>>

\* The answer may be refused by a full queue as well.
Answer(r) ==
  /\ r \in working
  /\ working' = working \ {r}
  /\ answers' \in {answers, Append(answers, r)}
  /\ UNCHANGED <<idle, queue>>

\* A process dies with what it was working on.
Lose ==
  /\ working' \in SUBSET working
  /\ UNCHANGED <<idle, queue, answers>>

\* Who takes an answer may also shut out one client that has not asked yet:
\* netio knows clients by their descriptor and port, and may take one for
\* another.
Deliver ==
  /\ answers # <<>>
  /\ answers' = Tail(answers)
  /\ idle' \in {idle} \cup {idle \ {r} : r \in idle}
  /\ UNCHANGED <<queue, working>>

Next ==
  \/ \E r \in Requests : Ask(r) \/ Answer(r)
  \/ \E k \in Cmds : Take(k)
  \/ Abandon
  \/ Lose
  \/ Deliver

Spec == Init /\ [][Next]_vars

=============================================================================
