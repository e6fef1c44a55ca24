------------------------------ MODULE ModHash ------------------------------
(***************************************************************************)
(* CModHashV1, the bucket array behind CCacheManager: three areas laid out *)
(* one behind the other in one shared memory, every process with objects   *)
(* of its own over them.  One action is one call; StatCache interleaves    *)
(* the steps inside the calls.                                             *)
(*                                                                         *)
(* Addresses count from the start of the memory.  A pointer is an address  *)
(* in one process's mapping of it, <<process, address>>.                   *)
(***************************************************************************)
EXTENDS Naturals, FiniteSets, FiniteSetsExt

CONSTANTS Procs,     \* the processes
          Keys,      \* the keys with one of the prefixes netio_, c1_, c2_
          NoValue,   \* "key not found"
          NodeCount, \* the buckets of the three areas: 1, 100, 100
          AreaOf,    \* AreaOf[k]: the area of k's prefix
          Hashes,    \* Hashes[k]: the sums ModToUint may arrive at for k
          MagicSize, \* sizeof(int), the magic number before the first area
          HeadSize,  \* sizeof(stHead)
          UnitSize,  \* sizeof(stModHashV1Bucket)
          Managed,   \* bound: the areas that calls without a caller are made on
          Left,      \* bound: bytes InitalizeByCacheSize is given too many
          MaxValue   \* bound: the numbers stored

\* NetIoStat, ContainerOneStat and ContainerTwoStat, in this order.
Areas == 1..3

ASSUME ModHashAssumption ==
  /\ NodeCount \in [Areas -> Nat \ {0}]
  /\ AreaOf \in [Keys -> Areas]
  /\ Hashes \in [Keys -> (SUBSET Nat) \ {{}}]
  /\ {MagicSize, HeadSize} \subseteq Nat
  /\ UnitSize \in Nat \ {0}
  /\ Managed \subseteq Areas
  /\ Left \subseteq 0..(UnitSize - 1)
  /\ MaxValue \in Nat
  /\ NoValue \notin 0..MaxValue

VARIABLES
  obj,    \* obj[p][a]: m_stHead of p's object for a
  begin,  \* begin[p][a]: where m_pIteratorStart points
  stored, \* stored[a]: the head in the memory
  bucket, \* bucket[b]: the bucket at address b
  last    \* the last call, with what it returned or printed

vars == <<obj, begin, stored, bucket, last>>

-----------------------------------------------------------------------------
(* Heads.                                                                  *)

\* The constructor's head, over no memory; also what zeroed memory amounts
\* to, but for its specifier.
NoHead == [specifier |-> 17607181, inited |-> 0, buckNums |-> 0, total |-> 0,
           cache |-> <<>>, first |-> 0, end |-> 0]
Zeroed == [NoHead EXCEPT !.specifier = 0]

\* What both initialisations set, in p's mapping: n buckets behind a head at
\* address s, len bytes in all, the last bucket at end.
InitedHead(p, s, n, len, end) ==
  [specifier |-> NoHead.specifier, inited |-> 1, buckNums |-> n,
   total |-> len, cache |-> <<p, s>>, first |-> s + HeadSize, end |-> end]

\* InitalizeByNodeCount.
HeadByCount(p, s, n) ==
  LET size == n * UnitSize
  IN  InitedHead(p, s, n, size + HeadSize, s + HeadSize + size - UnitSize)

\* Mutant: the head's room is counted as room for buckets.
HeadBySizeAll(p, s, len) ==
  LET n == len \div UnitSize
      left == len - n * UnitSize
  IN  InitedHead(p, s, n, len, s + len - left - UnitSize)

\* InitalizeByCacheSize.
HeadBySize(p, s, len) ==
  LET n == (len - HeadSize) \div UnitSize
      left == (len - HeadSize) - n * UnitSize
  IN  InitedHead(p, s, n, len, s + len - left - UnitSize)

\* Initalize lays each area behind the one before, by its GetTotalSize.
HeadsOf(p) ==
  LET h1 == HeadByCount(p, MagicSize, NodeCount[1])
      h2 == HeadByCount(p, MagicSize + h1.total, NodeCount[2])
      h3 == HeadByCount(p, MagicSize + h1.total + h2.total, NodeCount[3])
  IN  <<h1, h2, h3>>

\* The addresses a head's pointers run through.
BucketsOf(h) == {h.first + i * UnitSize : i \in 0..(h.buckNums - 1)}

\* The layout, the same whoever computes it; nobody, here.
Layout == HeadsOf(NoValue)
AllBuckets == UNION {BucketsOf(Layout[a]) : a \in Areas}

\* No call on what the areas hold.
Silent == [call |-> "none"]

EmptyBucket == [hasSet |-> 0, invalid |-> 0, node |-> 0]

Attached(p) == obj[p][3].inited = 1

Init ==
  /\ obj = [p \in Procs |-> [a \in Areas |-> NoHead]]
  /\ begin = [p \in Procs |-> [a \in Areas |-> 0]]
  /\ stored = [a \in Areas |-> Zeroed]
  /\ bucket = [b \in AllBuckets |-> EmptyBucket]
  /\ last = Silent

-----------------------------------------------------------------------------
(* Attaching to the memory.                                                *)

\* GetInstance and Initalize: whatever the magic number says, all three
\* objects are set up and their heads stored; the buckets stay.
Initalize(p) ==
  /\ ~Attached(p)
  /\ obj' = [obj EXCEPT ![p] = HeadsOf(p)]
  /\ begin' = [begin EXCEPT ![p] = [a \in Areas |-> HeadsOf(p)[a].first]]
  /\ stored' = HeadsOf(p)
  /\ last' = [call |-> "Initalize", areas |-> Areas]
  /\ UNCHANGED bucket

\* An object set up again over its area, by the area's size; what does not
\* make up a whole bucket is left over.
InitalizeByCacheSize(p, a) ==
  /\ Attached(p)
  /\ \E left \in Left :
       LET s == obj[p][a].cache[2]
           h == HeadBySize(p, s, HeadSize + NodeCount[a] * UnitSize + left)
       IN  /\ obj' = [obj EXCEPT ![p][a] = h]
           /\ begin' = [begin EXCEPT ![p][a] = h.first]
           /\ stored' = [stored EXCEPT ![a] = h]
  /\ last' = [call |-> "Initalize", areas |-> {a}]
  /\ UNCHANGED bucket

\* Mutant: the test of iInited the other way round.
ReadAndCheckHeadInited(h) ==
  IF h.specifier # NoHead.specifier THEN 1000
  ELSE IF h.inited = 0 THEN 1001 ELSE 0

\* ReadAndCheckHead's verdict on the head it finds: one that says it is
\* initialised is refused.
ReadAndCheckHead(h) ==
  IF h.specifier # NoHead.specifier THEN 1000
  ELSE IF h.inited # 0 THEN 1001 ELSE 0

\* SetIndexPointer to the start of area a, to take it over as it is.
SetIndexPointer(p, a) ==
  /\ obj[p][a].cache # <<p, Layout[a].cache[2]>>
  /\ IF ReadAndCheckHead(stored[a]) = 0
       THEN obj' = [obj EXCEPT ![p][a] = stored[a]]
       ELSE UNCHANGED obj
  /\ last' = Silent
  /\ UNCHANGED <<begin, stored, bucket>>

\* The process ends; the memory stays.
Exit(p) ==
  /\ obj[p] # [a \in Areas |-> NoHead]
  /\ obj' = [obj EXCEPT ![p] = [a \in Areas |-> NoHead]]
  /\ begin' = [begin EXCEPT ![p] = [a \in Areas |-> 0]]
  /\ last' = Silent
  /\ UNCHANGED <<stored, bucket>>

-----------------------------------------------------------------------------
(* Keys.  CCacheManager sends a key to the object of its prefix; a key     *)
(* without one is refused with -1 before anything changes.                 *)

\* ModToUint: the bucket is the sum modulo the buckets of p's object.  The
\* sum runs over sizeof(string) + 1 bytes, so a short key may have several.
BucketAt(p, k, h) ==
  LET o == obj[p][AreaOf[k]] IN o.first + (h % o.buckNums) * UnitSize

Holds(b) == bucket[b].hasSet = 1 /\ bucket[b].invalid = 0

\* What Find leaves: the bucket's number, or the error 1003.
Lookup(b) == IF Holds(b) THEN bucket[b].node ELSE NoValue

\* Mutant: a bucket once deleted stays invalid.
WithNodeStale(b, v) == [bucket EXCEPT ![b].node = v, ![b].hasSet = 1]

\* Add's placement of a number.
WithNode(b, v) ==
  [bucket EXCEPT ![b] = [hasSet |-> 1, invalid |-> 0, node |-> v]]

\* CCacheManager::Set.
Set(p, k, v) ==
  /\ Attached(p)
  /\ \E h \in Hashes[k] : bucket' = WithNode(BucketAt(p, k, h), v)
  /\ last' = [call |-> "Set", key |-> k, value |-> v]
  /\ UNCHANGED <<obj, begin, stored>>

\* CCacheManager::Get.
Get(p, k) ==
  /\ Attached(p)
  /\ \E h \in Hashes[k] :
       last' = [call |-> "Get", key |-> k,
                value |-> Lookup(BucketAt(p, k, h))]
  /\ UNCHANGED <<obj, begin, stored, bucket>>

\* CCacheManager::Incr with 1: Find and Add hash the same string object.
Incr(p, k) ==
  /\ Attached(p)
  /\ \E h \in Hashes[k] :
       LET b == BucketAt(p, k, h)
           temp == IF Holds(b) THEN bucket[b].node ELSE 0
       IN  temp < MaxValue /\ bucket' = WithNode(b, temp + 1)
  /\ last' = [call |-> "Incr", key |-> k]
  /\ UNCHANGED <<obj, begin, stored>>

\* CCacheManager::Delete.
Delete(p, k) ==
  /\ Attached(p)
  /\ \E h \in Hashes[k] :
       bucket' = [bucket EXCEPT ![BucketAt(p, k, h)].invalid = 1]
  /\ last' = [call |-> "Delete", key |-> k]
  /\ UNCHANGED <<obj, begin, stored>>

\* CModHashV1::Reset, from the first bucket to the last.
Reset(p, a) ==
  /\ Attached(p)
  /\ bucket' = [b \in AllBuckets |->
                  IF b \in obj[p][a].first..obj[p][a].end
                    THEN [bucket[b] EXCEPT !.invalid = 1] ELSE bucket[b]]
  /\ last' = [call |-> "Reset", area |-> a]
  /\ UNCHANGED <<obj, begin, stored>>

\* FullFillValue; a vector that is not of the area's length is refused.
FullFillValue(p, a) ==
  /\ Attached(p)
  /\ \E vec \in [BucketsOf(obj[p][a]) -> 0..MaxValue] :
       bucket' = [b \in AllBuckets |->
                    IF b \in DOMAIN vec
                      THEN [hasSet |-> 1, invalid |-> 0, node |-> vec[b]]
                      ELSE bucket[b]]
  /\ last' = [call |-> "FullFillValue", area |-> a]
  /\ UNCHANGED <<obj, begin, stored>>

-----------------------------------------------------------------------------
(* Iterators.  Begin() hands out the object's own iterator, and PrintAll   *)
(* moves it with Next.                                                     *)

\* Mutant: the loop ends at the last bucket, like one over an STL range.
CompareStrictly(x, y) == x < y

\* Mutant: the loop runs while the iterators differ.
CompareDiffers(x, y) == x # y

\* Compare(End()) <= 0.
Compare(x, y) == x <= y

\* GetCurrentNode before each Next, over one area.
Walk(p, a) ==
  {b \in {begin[p][a] + i * UnitSize : i \in 0..obj[p][a].buckNums} :
     Compare(b, obj[p][a].end)}

\* CCacheManager::PrintAll.
PrintAll(p) ==
  /\ Attached(p)
  /\ begin' = [begin EXCEPT ![p] =
                 [a \in Areas |->
                    begin[p][a] + Cardinality(Walk(p, a)) * UnitSize]]
  /\ last' = [call |-> "PrintAll", shown |-> UNION {Walk(p, a) : a \in Areas}]
  /\ UNCHANGED <<obj, stored, bucket>>

-----------------------------------------------------------------------------
Next ==
  \E p \in Procs :
    \/ Initalize(p)
    \/ Exit(p)
    \/ PrintAll(p)
    \/ \E k \in Keys :
         Get(p, k) \/ Incr(p, k) \/ Delete(p, k)
         \/ \E v \in 0..MaxValue : Set(p, k, v)
    \/ \E a \in Managed :
         \/ SetIndexPointer(p, a)
         \/ InitalizeByCacheSize(p, a)
         \/ Reset(p, a)
         \/ FullFillValue(p, a)

Spec == Init /\ [][Next]_vars

-----------------------------------------------------------------------------
(* Properties.                                                             *)

\* Every variable has its type; an iterator is at most one bucket behind
\* its area, and no call touches an address that is not a bucket's.
TypeOK ==
  /\ \A p \in Procs : DOMAIN obj[p] = Areas /\ DOMAIN begin[p] = Areas
  /\ \A p \in Procs, a \in Areas :
       begin[p][a] \in obj[p][a].first..(obj[p][a].first
                                           + obj[p][a].buckNums * UnitSize)
  /\ DOMAIN stored = Areas
  /\ DOMAIN bucket = AllBuckets
  /\ \A b \in AllBuckets :
       bucket[b] \in [hasSet : 0..1, invalid : 0..1, node : 0..MaxValue]

\* The addresses an object's head and buckets take up.
Extent(h) == (h.cache[2])..(h.end + UnitSize - 1)

\* Whichever way and in whichever order the processes initialise, every
\* object over an area counts the same buckets at the same addresses as the
\* head in the memory says, and no area reaches into the next.
AreasAgree ==
  \A p \in Procs : Attached(p) =>
    \A a \in Areas :
      /\ BucketsOf(obj[p][a]) = BucketsOf(stored[a])
      /\ obj[p][a].end = Max(BucketsOf(obj[p][a]))
      /\ \A o \in Areas \ {a} :
           Extent(obj[p][a]) \cap Extent(obj[p][o]) = {}

\* Pointers differ from process to process (the comment in Initalize): no
\* object ever works with those another process stored in the memory.
PointersAreOwn ==
  \A p \in Procs, a \in Areas :
    obj[p][a].inited = 1 => obj[p][a].cache[1] = p

\* A PrintAll shows an area's buckets all or not at all (it shows none once
\* its iterators are behind the end), and never what lies outside them.
ShowsAllOrNothing ==
  last.call = "PrintAll" =>
    /\ last.shown \subseteq AllBuckets
    /\ \A a \in Areas :
         BucketsOf(Layout[a]) \cap last.shown \in {{}, BucketsOf(Layout[a])}

\* "Begin: an iterator at the head of the storage" (IChunkedIndex): every
\* PrintAll shows every bucket.
PrintsEverything == last.call = "PrintAll" => last.shown = AllBuckets

\* The keys that have one bucket, and that for themselves.
CellsOf(k) ==
  {Layout[AreaOf[k]].first + (h % NodeCount[AreaOf[k]]) * UnitSize :
     h \in Hashes[k]}
Exact == {k \in Keys : /\ Cardinality(CellsOf(k)) = 1
                       /\ \A o \in Keys \ {k} : CellsOf(k) \cap CellsOf(o) = {}}

\* "Initialising an area that is initialised already makes the data it held
\* invalid" (IChunkedIndex, of both initialisations): nothing is found then.
InitialisingInvalidates ==
  [][last'.call = "Initalize" =>
       \A a \in last'.areas : stored[a].inited = 1 =>
         \A b \in BucketsOf(Layout[a]) : Lookup(b)' = NoValue]_vars

\* For those keys the areas are one map, shared by all processes, whatever the
\* other keys do, that survives every exit and restart: "so the head is
\* initialised once more; as long as the values stored are not affected, all
\* is well" (the comment in CCacheManager::Initalize).  It is not the map that
\* IChunkedIndex documents, which InitialisingInvalidates describes.
AbstractMap == INSTANCE CacheMap WITH
  Keys <- Exact,
  Values <- 0..MaxValue,
  AreaOf <- [k \in Exact |-> AreaOf[k]],
  content <- [k \in Exact |-> Lookup(CHOOSE b \in CellsOf(k) : TRUE)],
  call <- IF \/ last.call \in {"Initalize", "Reset", "FullFillValue"}
             \/ last.call \in {"Set", "Get", "Incr", "Delete"} /\ last.key \in Exact
            THEN last ELSE Silent

ImplementsCacheMap == AbstractMap!Spec

=============================================================================
