-------------------------- MODULE StatCacheProofs --------------------------
(***************************************************************************)
(* Proofs about StatCache, for any number of processes, keys and buckets,  *)
(* any assignment of keys to processes and any behaviour of the hash.      *)
(***************************************************************************)
EXTENDS StatCache, TLAPS

-----------------------------------------------------------------------------
(* The types.                                                              *)

LEMMA TypeInit == Init => TypeOK
  BY StatCacheAssumption, SMT DEF Init, TypeOK, Areas

LEMMA TypeNext == TypeOK /\ [Next]_vars => TypeOK'
<1> SUFFICES ASSUME TypeOK, [Next]_vars PROVE TypeOK'
  OBVIOUS
<1> USE StatCacheAssumption
<1>1. ASSUME NEW p \in Procs, Attach(p) PROVE TypeOK'
  BY <1>1, SMTT(20) DEF TypeOK, Attach, shared, Areas
<1>2. ASSUME NEW p \in Procs, InitalizeByNodeCount(p) PROVE TypeOK'
  <2>1. /\ pc[p] = "init"
        /\ area[p] \in 1..3
        /\ area' = [area EXCEPT ![p] = @ + 1]
        /\ pc' = [pc EXCEPT ![p] =
                    IF area[p] \in 1..2 THEN "init" ELSE "mark"]
    BY <1>2, SMT DEF TypeOK, InitalizeByNodeCount, Areas
  <2>2. area' \in [Procs -> 1..4]
    BY <2>1, SMT DEF TypeOK
  <2>3. pc' \in [Procs -> {"off", "init", "mark", "ready",
                           "read", "add", "set"}]
    BY <2>1, SMT DEF TypeOK
  <2>4. ASSUME NEW q \in Procs, pc'[q] = "init" PROVE area'[q] \in Areas
    BY <2>1, <2>4, SMT DEF TypeOK, Areas
  <2>5. heads' \in SUBSET Areas
    <3>1. heads' = heads \cup {area[p]} /\ area[p] \in Areas
      BY <1>2, <2>1 DEF InitalizeByNodeCount, Areas
    <3> QED
      BY <3>1 DEF TypeOK
  <2>6. ASSUME NEW q \in Procs
        PROVE  /\ pc'[q] # "off" => key'[q] \in KeysOf[q]
               /\ pc'[q] \in {"read", "add", "set"} =>
                    bkt'[q] \in BucketsOf[key'[q]]
    BY <1>2, <2>1, SMT DEF TypeOK, InitalizeByNodeCount
  <2> QED
    BY <1>2, <2>2, <2>3, <2>4, <2>5, <2>6, SMT
    DEF TypeOK, InitalizeByNodeCount
<1>3. ASSUME NEW p \in Procs, Mark(p) PROVE TypeOK'
  BY <1>3, SMTT(20) DEF TypeOK, Mark, local, Areas
<1>4. ASSUME NEW p \in Procs, FindMeta(p) PROVE TypeOK'
  BY <1>4, SMTT(20) DEF TypeOK, FindMeta, shared, Areas
<1>5. ASSUME NEW p \in Procs, FindNode(p) PROVE TypeOK'
  BY <1>5, SMTT(20) DEF TypeOK, FindNode, shared, Areas
<1>6. ASSUME NEW p \in Procs, AddNode(p) PROVE TypeOK'
  BY <1>6, SMTT(20) DEF TypeOK, AddNode, local, Areas
<1>7. ASSUME NEW p \in Procs, AddSet(p) PROVE TypeOK'
  BY <1>7, SMTT(20) DEF TypeOK, AddSet, local, Areas
<1>8. ASSUME NEW p \in Procs, Crash(p) PROVE TypeOK'
  BY <1>8, SMTT(20) DEF TypeOK, Crash, shared, Areas
<1>9. CASE UNCHANGED vars
  BY <1>9, SMTT(20) DEF TypeOK, vars, shared, local
<1> QED
  BY <1>1, <1>2, <1>3, <1>4, <1>5, <1>6, <1>7, <1>8, <1>9 DEF Next

\* Every variable of StatCache keeps its type, the bucket of a running Incr
\* is one of its key's, and Initalize stops after the third area.
THEOREM CacheTypeCorrect == Spec => []TypeOK
  BY TypeInit, TypeNext, PTL DEF Spec

-----------------------------------------------------------------------------
(* Initialisation.  A process at area a has stored the heads before it, and *)
(* heads are never taken away.                                              *)

MarkInv ==
  /\ MarkedMeansStored
  /\ \A p \in Procs :
       /\ pc[p] = "init" => \A a \in Areas : a < area[p] => a \in heads
       /\ pc[p] = "mark" => heads = Areas

LEMMA MarkInit == Init => MarkInv
  BY SMT DEF Init, MarkInv, MarkedMeansStored

LEMMA MarkNext == TypeOK /\ MarkInv /\ [Next]_vars => MarkInv'
<1> SUFFICES ASSUME TypeOK, MarkInv, [Next]_vars PROVE MarkInv'
  OBVIOUS
<1>1. ASSUME NEW p \in Procs, Attach(p) PROVE MarkInv'
  BY <1>1, SMTT(20)
  DEF TypeOK, MarkInv, MarkedMeansStored, Attach, shared, Areas
<1>2. ASSUME NEW p \in Procs, InitalizeByNodeCount(p) PROVE MarkInv'
  <2>1. heads' = heads \cup {area[p]} /\ area[p] \in 1..3 /\ pc[p] = "init"
    BY <1>2 DEF TypeOK, InitalizeByNodeCount, Areas
  <2>2. heads \subseteq heads' /\ heads' \subseteq Areas
    BY <2>1 DEF TypeOK, Areas
  <2>3. MarkedMeansStored'
    BY <1>2, <2>2 DEF MarkInv, MarkedMeansStored, InitalizeByNodeCount
  <2>4. \A a \in Areas : a <= area[p] => a \in heads'
    BY <2>1, SMT DEF MarkInv, Areas
  <2>5. ASSUME NEW q \in Procs, pc'[q] = "init", NEW a \in Areas, a < area'[q]
        PROVE  a \in heads'
    <3>1. CASE q = p
      <4>1. area'[q] = area[p] + 1
        BY <1>2, <3>1 DEF InitalizeByNodeCount, TypeOK
      <4> QED
        BY <2>1, <2>4, <2>5, <4>1, SMT DEF Areas
    <3>2. CASE q # p
      <4>1. pc[q] = "init" /\ area'[q] = area[q]
        BY <1>2, <2>5, <3>2 DEF InitalizeByNodeCount, TypeOK
      <4> QED
        BY <2>2, <2>5, <4>1 DEF MarkInv
    <3> QED
      BY <3>1, <3>2
  <2>6. ASSUME NEW q \in Procs, pc'[q] = "mark" PROVE heads' = Areas
    <3>1. CASE q = p
      <4>1. area[p] \notin 1..2
        BY <1>2, <2>6, <3>1 DEF InitalizeByNodeCount, TypeOK
      <4>2. \A a \in Areas : a <= area[p]
        BY <2>1, <4>1, SMT DEF Areas
      <4> QED
        BY <2>2, <2>4, <4>2
    <3>2. CASE q # p
      <4>1. pc[q] = "mark"
        BY <1>2, <2>6, <3>2 DEF InitalizeByNodeCount, TypeOK
      <4> QED
        BY <2>2, <4>1 DEF MarkInv
    <3> QED
      BY <3>1, <3>2
  <2> QED
    BY <2>3, <2>5, <2>6 DEF MarkInv
<1>3. ASSUME NEW p \in Procs, Mark(p) PROVE MarkInv'
  BY <1>3, SMTT(20)
  DEF TypeOK, MarkInv, MarkedMeansStored, Mark, local, Areas
<1>4. ASSUME NEW p \in Procs, FindMeta(p) PROVE MarkInv'
  BY <1>4, SMTT(20) DEF TypeOK, MarkInv, MarkedMeansStored, FindMeta, shared
<1>5. ASSUME NEW p \in Procs, FindNode(p) PROVE MarkInv'
  BY <1>5, SMTT(20) DEF TypeOK, MarkInv, MarkedMeansStored, FindNode, shared
<1>6. ASSUME NEW p \in Procs, AddNode(p) PROVE MarkInv'
  BY <1>6, SMTT(20) DEF TypeOK, MarkInv, MarkedMeansStored, AddNode, local
<1>7. ASSUME NEW p \in Procs, AddSet(p) PROVE MarkInv'
  BY <1>7, SMTT(20) DEF TypeOK, MarkInv, MarkedMeansStored, AddSet, local
<1>8. ASSUME NEW p \in Procs, Crash(p) PROVE MarkInv'
  BY <1>8, SMTT(20) DEF TypeOK, MarkInv, MarkedMeansStored, Crash, shared
<1>9. CASE UNCHANGED vars
  BY <1>9 DEF MarkInv, MarkedMeansStored, vars, shared, local
<1> QED
  BY <1>1, <1>2, <1>3, <1>4, <1>5, <1>6, <1>7, <1>8, <1>9 DEF Next

\* The magic number stands only when all heads are stored, however many
\* processes run Initalize at once and wherever they die in it.
THEOREM MarkImpliesHeads == Spec => []MarkedMeansStored
<1>1. Spec => []TypeOK
  BY CacheTypeCorrect
<1>2. MarkInv => MarkedMeansStored
  BY DEF MarkInv
<1> QED
  BY <1>1, <1>2, MarkInit, MarkNext, PTL DEF Spec

-----------------------------------------------------------------------------
(* Races.  What Find returned was at most the number of counts written to  *)
(* the bucket, and that number only grows.                                  *)

RaceInv ==
  /\ NeverOvercounts
  /\ \A p \in Procs : pc[p] = "add" => temp[p] <= adds[bkt[p]]

LEMMA RaceInit == Init => RaceInv
  BY SMT DEF Init, RaceInv, NeverOvercounts

\* The bucket of a process inside Incr is one of the buckets.
LEMMA BucketOfIncr ==
  ASSUME TypeOK, NEW p \in Procs, pc[p] \in {"read", "add", "set"}
  PROVE  bkt[p] \in Buckets /\ \E k \in KeysOf[p] : bkt[p] \in BucketsOf[k]
<1>1. key[p] \in KeysOf[p] /\ bkt[p] \in BucketsOf[key[p]]
  BY DEF TypeOK
<1>2. key[p] \in Keys
  BY <1>1, StatCacheAssumption
<1>3. BucketsOf[key[p]] \subseteq Buckets
  BY <1>2, StatCacheAssumption
<1> QED
  BY <1>1, <1>3

LEMMA RaceNext == TypeOK /\ RaceInv /\ [Next]_vars => RaceInv'
<1> SUFFICES ASSUME TypeOK, RaceInv, [Next]_vars PROVE RaceInv'
  OBVIOUS
<1> USE DEF RaceInv, NeverOvercounts
<1>1. ASSUME NEW p \in Procs, Attach(p) PROVE RaceInv'
  BY <1>1, SMTT(20) DEF TypeOK, Attach, shared
<1>2. ASSUME NEW p \in Procs, InitalizeByNodeCount(p) PROVE RaceInv'
  BY <1>2, SMTT(20) DEF TypeOK, InitalizeByNodeCount
<1>3. ASSUME NEW p \in Procs, Mark(p) PROVE RaceInv'
  BY <1>3, SMTT(20) DEF TypeOK, Mark, local
<1>4. ASSUME NEW p \in Procs, FindMeta(p) PROVE RaceInv'
  <2>1. key[p] \in Keys
    BY <1>4, StatCacheAssumption DEF TypeOK, FindMeta
  <2>2. BucketsOf[key[p]] \subseteq Buckets
    BY <2>1, StatCacheAssumption
  <2> QED
    BY <1>4, <2>2, SMTT(20) DEF TypeOK, FindMeta, shared
<1>5. ASSUME NEW p \in Procs, FindNode(p) PROVE RaceInv'
  <2>1. bkt[p] \in Buckets
    BY <1>5, BucketOfIncr DEF FindNode
  <2> QED
    BY <1>5, <2>1, SMTT(20) DEF TypeOK, FindNode, shared
<1>6. ASSUME NEW p \in Procs, AddNode(p) PROVE RaceInv'
  <2>1. bkt[p] \in Buckets
    BY <1>6, BucketOfIncr DEF AddNode
  <2>2. \A b \in Buckets : node'[b] <= adds'[b]
    BY <1>6, <2>1, SMTT(20) DEF TypeOK, AddNode, local
  <2>3. \A b \in Buckets : adds[b] <= adds'[b]
    BY <1>6, <2>1, SMTT(20) DEF TypeOK, AddNode, local
  <2>4. ASSUME NEW q \in Procs, pc'[q] = "add"
        PROVE  temp'[q] <= adds'[bkt'[q]]
    <3>1. pc[q] = "add" /\ temp'[q] = temp[q] /\ bkt'[q] = bkt[q]
      BY <1>6, <2>4 DEF TypeOK, AddNode, local
    <3>2. bkt[q] \in Buckets
      BY <3>1, BucketOfIncr
    <3>3. temp[q] \in Nat /\ adds[bkt[q]] \in Nat /\ adds'[bkt[q]] \in Nat
      BY <1>6, <2>1, <3>2, SMT DEF TypeOK, AddNode
    <3> QED
      BY <2>3, <3>1, <3>2, <3>3, SMT
  <2> QED
    BY <2>2, <2>4
<1>7. ASSUME NEW p \in Procs, AddSet(p) PROVE RaceInv'
  BY <1>7, SMTT(20) DEF TypeOK, AddSet, local
<1>8. ASSUME NEW p \in Procs, Crash(p) PROVE RaceInv'
  BY <1>8, SMTT(20) DEF TypeOK, Crash, shared
<1>9. CASE UNCHANGED vars
  BY <1>9 DEF vars, shared, local
<1> QED
  BY <1>1, <1>2, <1>3, <1>4, <1>5, <1>6, <1>7, <1>8, <1>9 DEF Next

\* However the Finds and Adds of unlocked Incr calls interleave, a bucket
\* never shows more requests than were counted in it.
THEOREM RacesNeverOvercount == Spec => []NeverOvercounts
<1>1. Spec => []TypeOK
  BY CacheTypeCorrect
<1>2. RaceInv => NeverOvercounts
  BY DEF RaceInv
<1> QED
  BY <1>1, <1>2, RaceInit, RaceNext, PTL DEF Spec

-----------------------------------------------------------------------------
(* One writer.  Between its Find and its Add nobody else touches the bucket; *)
(* a death costs at most one count, the one whose iHasSet was never written. *)

\* b misses at most the counts its writer p lost by dying.
SoleAt(b, p) ==
  /\ node[b] + crashes[p] >= adds[b]
  /\ (pc[p] = "add" /\ bkt[p] = b) => temp[p] + crashes[p] >= adds[b]
  /\ hasSet[b] = 0 =>
       adds[b] <= crashes[p] + (IF pc[p] = "set" /\ bkt[p] = b THEN 1 ELSE 0)

LEMMA SoleInit ==
  ASSUME Init, NEW b \in Buckets, NEW p \in Procs PROVE SoleAt(b, p)
BY SMT DEF Init, SoleAt

LEMMA SoleNext ==
  ASSUME TypeOK, [Next]_vars, NEW b \in Buckets, NEW p \in Procs,
         Writers(b) = {p}, SoleAt(b, p)
  PROVE  SoleAt(b, p)'
<1> USE DEF SoleAt
<1>a. ASSUME NEW q \in Procs, q # p, pc[q] \in {"read", "add", "set"}
      PROVE  bkt[q] # b
  <2>1. \E k \in KeysOf[q] : bkt[q] \in BucketsOf[k]
    BY <1>a, BucketOfIncr
  <2>2. q \notin Writers(b)
    BY <1>a
  <2> QED
    BY <2>1, <2>2 DEF Writers
<1>b. /\ node[b] \in Nat /\ adds[b] \in Nat /\ hasSet[b] \in 0..1
      /\ crashes[p] \in Nat /\ temp[p] \in Nat
  BY StatCacheAssumption, SMT DEF TypeOK
<1>1. ASSUME NEW q \in Procs, Attach(q) PROVE SoleAt(b, p)'
  BY <1>1, <1>b, SMTT(20) DEF TypeOK, Attach, shared
<1>2. ASSUME NEW q \in Procs, InitalizeByNodeCount(q) PROVE SoleAt(b, p)'
  BY <1>2, <1>b, SMTT(20) DEF TypeOK, InitalizeByNodeCount
<1>3. ASSUME NEW q \in Procs, Mark(q) PROVE SoleAt(b, p)'
  BY <1>3, <1>b, SMTT(20) DEF TypeOK, Mark, local
<1>4. ASSUME NEW q \in Procs, FindMeta(q) PROVE SoleAt(b, p)'
  BY <1>4, <1>b, SMTT(20) DEF TypeOK, FindMeta, shared
<1>5. ASSUME NEW q \in Procs, FindNode(q) PROVE SoleAt(b, p)'
  BY <1>5, <1>b, SMTT(20) DEF TypeOK, FindNode, shared
<1>6. ASSUME NEW q \in Procs, AddNode(q) PROVE SoleAt(b, p)'
  <2>1. CASE bkt[q] = b
    <3>1. q = p
      BY <1>6, <1>a, <2>1 DEF AddNode
    <3>2. /\ node'[b] = temp[p] + 1
          /\ adds'[b] = adds[b] + 1
          /\ pc'[p] = "set"
          /\ UNCHANGED <<hasSet, bkt, crashes>>
          /\ pc[p] = "add"
      BY <1>6, <2>1, <3>1 DEF TypeOK, AddNode, local
    <3> QED
      BY <1>b, <2>1, <3>1, <3>2, SMTT(20)
  <2>2. CASE bkt[q] # b
    BY <1>6, <1>b, <2>2, SMTT(20) DEF TypeOK, AddNode, local
  <2> QED
    BY <2>1, <2>2
<1>7. ASSUME NEW q \in Procs, AddSet(q) PROVE SoleAt(b, p)'
  <2>1. CASE bkt[q] = b
    <3>1. hasSet'[b] = 1
      BY <1>7, <2>1 DEF TypeOK, AddSet
    <3>2. UNCHANGED <<node, adds, crashes, temp, bkt>> /\ pc'[p] = "ready"
      BY <1>7, <1>a, <2>1 DEF TypeOK, AddSet, local
    <3> QED
      BY <1>b, <3>1, <3>2, SMT
  <2>2. CASE bkt[q] # b
    BY <1>7, <1>b, <2>2, SMTT(20) DEF TypeOK, AddSet, local
  <2> QED
    BY <2>1, <2>2
<1>8. ASSUME NEW q \in Procs, Crash(q) PROVE SoleAt(b, p)'
  BY <1>8, <1>b, SMTT(20) DEF TypeOK, Crash, shared
<1>9. CASE UNCHANGED vars
  BY <1>9 DEF vars, shared, local
<1> QED
  BY <1>1, <1>2, <1>3, <1>4, <1>5, <1>6, <1>7, <1>8, <1>9 DEF Next

SoleInv ==
  \A b \in Buckets : \A p \in Procs : Writers(b) = {p} => SoleAt(b, p)

LEMMA WritersConstant == ASSUME NEW b PROVE Writers(b)' = Writers(b)
BY DEF Writers

\* A bucket only one process counts in is exact up to one count per death of
\* that process, whoever else attaches, initialises, counts or dies.
THEOREM SoleWriterCounts == Spec => []SoleWriterExact
<1>1. Spec => []TypeOK
  BY CacheTypeCorrect
<1>2. Init => SoleInv
  BY SoleInit DEF SoleInv
<1>3. TypeOK /\ SoleInv /\ [Next]_vars => SoleInv'
  <2> SUFFICES ASSUME TypeOK, SoleInv, [Next]_vars,
                      NEW b \in Buckets, NEW p \in Procs, Writers(b)' = {p}
               PROVE  SoleAt(b, p)'
    BY DEF SoleInv
  <2>1. Writers(b) = {p}
    BY WritersConstant
  <2> QED
    BY <2>1, SoleNext DEF SoleInv
<1>4. SoleInv => SoleWriterExact
  BY DEF SoleInv, SoleAt, SoleWriterExact
<1> QED
  BY <1>1, <1>2, <1>3, <1>4, PTL DEF Spec

=============================================================================
