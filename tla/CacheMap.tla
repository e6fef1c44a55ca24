------------------------------ MODULE CacheMap ------------------------------
(***************************************************************************)
(* What CCacheManager keeps for the processes that share it: a map from    *)
(* keys to values.  A key set is found with that value, by every process,  *)
(* until it is deleted, set again or reset with its area.  Setting up the  *)
(* areas again, as each process does when it starts, leaves the map as it  *)
(* is: the comment in Initalize asks this of the code.  IChunkedIndex, the *)
(* interface of the areas, documents another map, which an initialisation  *)
(* empties.                                                                *)
(***************************************************************************)
EXTENDS Naturals

CONSTANTS Keys,    \* the keys
          Values,  \* what may be stored
          NoValue, \* "key not found"
          Areas,   \* the parts of the map that are filled and reset together
          AreaOf   \* AreaOf[k]: the part k is in

VARIABLES
  content,  \* content[k]: the value of k, or NoValue
  call      \* the last call, with its key and its value

vars == <<content, call>>

KeysIn(a) == {k \in Keys : AreaOf[k] = a}

Init ==
  /\ content = [k \in Keys |-> NoValue]
  /\ call = [call |-> "none"]

Set(k, v) ==
  /\ content' = [content EXCEPT ![k] = v]
  /\ call' = [call |-> "Set", key |-> k, value |-> v]

Incr(k) ==
  /\ content' = [content EXCEPT ![k] = IF @ = NoValue THEN 1 ELSE @ + 1]
  /\ call' = [call |-> "Incr", key |-> k]

Delete(k) ==
  /\ content' = [content EXCEPT ![k] = NoValue]
  /\ call' = [call |-> "Delete", key |-> k]

Get(k) ==
  /\ call' = [call |-> "Get", key |-> k, value |-> content[k]]
  /\ UNCHANGED content

Reset(a) ==
  /\ content' = [k \in Keys |-> IF AreaOf[k] = a THEN NoValue ELSE content[k]]
  /\ call' = [call |-> "Reset", area |-> a]

FullFillValue(a) ==
  /\ \E f \in [KeysIn(a) -> Values] :
       content' = [k \in Keys |-> IF AreaOf[k] = a THEN f[k] ELSE content[k]]
  /\ call' = [call |-> "FullFillValue", area |-> a]

\* A process sets up the heads of some areas; the content stays.
Initalize ==
  /\ \E as \in (SUBSET Areas) \ {{}} :
       call' = [call |-> "Initalize", areas |-> as]
  /\ UNCHANGED content

\* A call that concerns none of the keys: printing, ending.
Other ==
  /\ call' = [call |-> "none"]
  /\ UNCHANGED content

Next ==
  \/ \E k \in Keys :
       Incr(k) \/ Delete(k) \/ Get(k) \/ \E v \in Values : Set(k, v)
  \/ \E a \in Areas : Reset(a) \/ FullFillValue(a)
  \/ Initalize
  \/ Other

Spec == Init /\ [][Next]_vars

=============================================================================
