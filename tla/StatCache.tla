----------------------------- MODULE StatCache -----------------------------
(***************************************************************************)
(* The request counters in shared memory: CCacheManager over three         *)
(* CModHashV1 areas (netio, first service, second service).  Every process *)
(* attaches and initialises the areas on its first use, then counts each   *)
(* request with Incr, which is a Find followed by an Add, without a lock.  *)
(*                                                                         *)
(* The memory outlives the processes.  A bucket keeps no key: whatever key *)
(* hashes to it reads and writes the same number.  No program calls Set,   *)
(* Delete or Reset, so iInvalid stays 0 in every bucket and is left out.   *)
(***************************************************************************)
EXTENDS Naturals, FiniteSets

CONSTANTS Procs,      \* processes that count: netio and the containers
          Keys,       \* the keys: "netio_0", "c1_<pid % 100>", "c2_<...>"
          Buckets,    \* the buckets of the three areas
          NoKey,      \* "not counting yet"
          NoBucket,   \* "no Incr yet"
          KeysOf,     \* KeysOf[p]: the keys p may use, one per process id
          BucketsOf,  \* BucketsOf[k]: the buckets ModToUint may give for k
          MaxAdds,    \* bound: counts written to a bucket
          MaxCrashes  \* bound: deaths of a process

ASSUME StatCacheAssumption ==
  /\ KeysOf \in [Procs -> SUBSET Keys]
  /\ BucketsOf \in [Keys -> SUBSET Buckets]
  /\ NoKey \notin Keys
  /\ NoBucket \notin Buckets
  /\ MaxAdds \in Nat
  /\ MaxCrashes \in Nat

VARIABLES
  magic,   \* the int at the start of the memory: 1 once it is initialised
  heads,   \* the areas whose head has been stored
  hasSet,  \* hasSet[b]: iHasSet
  node,    \* node[b]: the number
  pc,      \* pc[p]: "off", the steps of Initalize and Incr, or "ready"
  seen,    \* seen[p]: iInit, the magic p found when it attached
  area,    \* area[p]: the area p initialises next
  key,     \* key[p]: the key p counts under while it lives
  bkt,     \* bkt[p]: the bucket of the Incr under way
  temp,    \* temp[p]: iTemp, what Find returned
  adds,    \* adds[b]: numbers written to b by Incr so far
  crashes  \* crashes[p]: how often p died

shared == <<magic, heads, hasSet, node>>
local == <<seen, area, key, bkt, temp>>
vars == <<shared, pc, local, adds, crashes>>

-----------------------------------------------------------------------------
\* NetIoStat, ContainerOneStat and ContainerTwoStat, in this order.
Areas == 1..3

Init ==
  /\ magic = 0
  /\ heads = {}
  /\ hasSet = [b \in Buckets |-> 0]
  /\ node = [b \in Buckets |-> 0]
  /\ pc = [p \in Procs |-> "off"]
  /\ seen = [p \in Procs |-> 0]
  /\ area = [p \in Procs |-> 1]
  /\ key = [p \in Procs |-> NoKey]
  /\ bkt = [p \in Procs |-> NoBucket]
  /\ temp = [p \in Procs |-> 0]
  /\ adds = [b \in Buckets |-> 0]
  /\ crashes = [p \in Procs |-> 0]

-----------------------------------------------------------------------------
(* GetInstance and Initalize, on a process's first request.                *)

Attach(p) ==
  /\ pc[p] = "off"
  /\ \E k \in KeysOf[p] : key' = [key EXCEPT ![p] = k]
  /\ seen' = [seen EXCEPT ![p] = magic]
  /\ area' = [area EXCEPT ![p] = 1]
  /\ pc' = [pc EXCEPT ![p] = "init"]
  /\ UNCHANGED <<shared, bkt, temp, adds, crashes>>

\* Mutant: initialising an area also clears its buckets.
InitalizeByNodeCountClears(p) ==
  /\ pc[p] = "init"
  /\ heads' = heads \cup {area[p]}
  /\ hasSet' = [b \in Buckets |-> 0]
  /\ node' = [b \in Buckets |-> 0]
  /\ area' = [area EXCEPT ![p] = @ + 1]
  /\ pc' = [pc EXCEPT ![p] = IF area[p] \in 1..2 THEN "init" ELSE "mark"]
  /\ UNCHANGED <<magic, seen, key, bkt, temp, adds, crashes>>

\* Both branches of Initalize call InitalizeByNodeCount for each area: it
\* sets the object up, StoreHead copies the head to the memory, and the
\* buckets are left as they are.
InitalizeByNodeCount(p) ==
  /\ pc[p] = "init"
  /\ heads' = heads \cup {area[p]}
  /\ area' = [area EXCEPT ![p] = @ + 1]
  /\ pc' = [pc EXCEPT ![p] = IF area[p] \in 1..2 THEN "init" ELSE "mark"]
  /\ UNCHANGED <<magic, hasSet, node, seen, key, bkt, temp,
                 adds, crashes>>

\* Mutant: the magic number is written before the last area.
MarkEarly(p) ==
  /\ pc[p] \in {"init", "mark"}
  /\ magic' = 1
  /\ pc' = [pc EXCEPT ![p] = IF pc[p] = "init" THEN "init" ELSE "ready"]
  /\ UNCHANGED <<heads, hasSet, node, local, adds, crashes>>

\* The magic number, only by a process that did not find it.
Mark(p) ==
  /\ pc[p] = "mark"
  /\ magic' = IF seen[p] = 0 THEN 1 ELSE magic
  /\ pc' = [pc EXCEPT ![p] = "ready"]
  /\ UNCHANGED <<heads, hasSet, node, local, adds, crashes>>

-----------------------------------------------------------------------------
(* Incr(key, 1).  ModToUint adds up sizeof(string) + 1 bytes from the      *)
(* start of the key's characters, so short keys bring in bytes behind      *)
(* their end: one call may pick another bucket than the last.  Find and    *)
(* Add of one Incr read the same string object and agree.                  *)

\* Find, its test of the bucket's metadata.
FindMeta(p) ==
  /\ pc[p] = "ready"
  /\ \E b \in BucketsOf[key[p]] :
       /\ bkt' = [bkt EXCEPT ![p] = b]
       /\ pc' = [pc EXCEPT ![p] = IF hasSet[b] = 1 THEN "read" ELSE "add"]
       /\ temp' = [temp EXCEPT ![p] = 0]
  /\ UNCHANGED <<shared, seen, area, key, adds, crashes>>

\* Find, its copy of the number.
FindNode(p) ==
  /\ pc[p] = "read"
  /\ temp' = [temp EXCEPT ![p] = node[bkt[p]]]
  /\ pc' = [pc EXCEPT ![p] = "add"]
  /\ UNCHANGED <<shared, seen, area, key, bkt, adds, crashes>>

\* Mutant: the sum is added to the bucket instead of replacing its number.
AddNodeOnTop(p) ==
  /\ pc[p] = "add"
  /\ adds[bkt[p]] < MaxAdds
  /\ node' = [node EXCEPT ![bkt[p]] = @ + temp[p] + 1]
  /\ adds' = [adds EXCEPT ![bkt[p]] = @ + 1]
  /\ pc' = [pc EXCEPT ![p] = "set"]
  /\ UNCHANGED <<magic, heads, hasSet, local, crashes>>

\* Add, the copy construction of the number in place.
AddNode(p) ==
  /\ pc[p] = "add"
  /\ adds[bkt[p]] < MaxAdds
  /\ node' = [node EXCEPT ![bkt[p]] = temp[p] + 1]
  /\ adds' = [adds EXCEPT ![bkt[p]] = @ + 1]
  /\ pc' = [pc EXCEPT ![p] = "set"]
  /\ UNCHANGED <<magic, heads, hasSet, local, crashes>>

AddSet(p) ==
  /\ pc[p] = "set"
  /\ hasSet' = [hasSet EXCEPT ![bkt[p]] = 1]
  /\ pc' = [pc EXCEPT ![p] = "ready"]
  /\ UNCHANGED <<magic, heads, node, local, adds, crashes>>

\* The process dies and is started again, under another process id.
Crash(p) ==
  /\ pc[p] # "off"
  /\ crashes[p] < MaxCrashes
  /\ crashes' = [crashes EXCEPT ![p] = @ + 1]
  /\ pc' = [pc EXCEPT ![p] = "off"]
  /\ seen' = [seen EXCEPT ![p] = 0]
  /\ area' = [area EXCEPT ![p] = 1]
  /\ key' = [key EXCEPT ![p] = NoKey]
  /\ bkt' = [bkt EXCEPT ![p] = NoBucket]
  /\ temp' = [temp EXCEPT ![p] = 0]
  /\ UNCHANGED <<shared, adds>>

-----------------------------------------------------------------------------
Next ==
  \E p \in Procs :
    \/ Attach(p)
    \/ InitalizeByNodeCount(p)
    \/ Mark(p)
    \/ FindMeta(p)
    \/ FindNode(p)
    \/ AddNode(p)
    \/ AddSet(p)
    \/ Crash(p)

Spec == Init /\ [][Next]_vars

-----------------------------------------------------------------------------
(* Properties.                                                             *)

\* Every variable has its type; no area beyond the third is initialised.
TypeOK ==
  /\ magic \in 0..1
  /\ heads \in SUBSET Areas
  /\ hasSet \in [Buckets -> 0..1]
  /\ node \in [Buckets -> Nat]
  /\ pc \in [Procs -> {"off", "init", "mark", "ready",
                       "read", "add", "set"}]
  /\ seen \in [Procs -> 0..1]
  /\ area \in [Procs -> 1..4]
  /\ \A p \in Procs : pc[p] = "init" => area[p] \in Areas
  /\ key \in [Procs -> Keys \cup {NoKey}]
  /\ \A p \in Procs : pc[p] # "off" => key[p] \in KeysOf[p]
  /\ bkt \in [Procs -> Buckets \cup {NoBucket}]
  /\ \A p \in Procs :
       pc[p] \in {"read", "add", "set"} => bkt[p] \in BucketsOf[key[p]]
  /\ temp \in [Procs -> Nat]
  /\ adds \in [Buckets -> 0..MaxAdds]
  /\ crashes \in [Procs -> 0..MaxCrashes]

\* The magic number stands in the memory only when all three heads do,
\* however many processes initialise at once and wherever they die.
MarkedMeansStored == magic = 1 => heads = Areas

\* Whatever Incr calls race in a bucket, it never shows more requests than
\* were counted in it.
NeverOvercounts == \A b \in Buckets : node[b] <= adds[b]

\* The processes whose keys may hash to a bucket.
Writers(b) == {p \in Procs : \E k \in KeysOf[p] : b \in BucketsOf[k]}

\* A bucket only one process counts in is exact, through every restart and
\* every initialisation by the others, up to one count per death of its
\* writer.
SoleWriterExact ==
  \A b \in Buckets : \A p \in Procs :
    Writers(b) = {p} => node[b] + crashes[p] >= adds[b]

\* "The counts of handled requests are recorded per process" (the comment in
\* Initalize): when nobody has died and nobody is in the middle of an Incr,
\* every number written is still counted.
EveryRequestCounted ==
  (\A p \in Procs : pc[p] \in {"off", "ready"} /\ crashes[p] = 0) =>
    \A b \in Buckets : node[b] = adds[b]

=============================================================================
