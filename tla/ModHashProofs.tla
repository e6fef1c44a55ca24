--------------------------- MODULE ModHashProofs ---------------------------
(***************************************************************************)
(* Proofs about ModHash, for any number of processes, keys and buckets,    *)
(* any sizes of heads and buckets and any behaviour of the hash.           *)
(***************************************************************************)
EXTENDS ModHash, FunctionTheorems, FiniteSetTheorems, TLAPS

-----------------------------------------------------------------------------
(* Addresses: multiples of the bucket's size.                              *)

LEMMA TimesUnit ==
  ASSUME NEW i \in Nat, NEW j \in Nat
  PROVE  /\ i * UnitSize \in Nat
         /\ (i + 1) * UnitSize = i * UnitSize + UnitSize
         /\ i <= j => i * UnitSize <= j * UnitSize
         /\ i < j => i * UnitSize + UnitSize <= j * UnitSize
<1>1. UnitSize \in Nat /\ UnitSize > 0
  BY ModHashAssumption
<1>2. i * UnitSize \in Nat /\ (i + 1) * UnitSize = i * UnitSize + UnitSize
  BY <1>1
<1>3. ASSUME i <= j PROVE i * UnitSize <= j * UnitSize
  <2>1. j - i \in Nat /\ (j - i) * UnitSize >= 0
    BY <1>1, <1>3
  <2>2. j * UnitSize = i * UnitSize + (j - i) * UnitSize
    BY <1>1
  <2> QED BY <1>1, <1>2, <2>1, <2>2
<1>4. ASSUME i < j PROVE i * UnitSize + UnitSize <= j * UnitSize
  <2>1. j - (i + 1) \in Nat /\ (j - (i + 1)) * UnitSize >= 0
    BY <1>1, <1>4
  <2>2. j * UnitSize = (i + 1) * UnitSize + (j - (i + 1)) * UnitSize
    BY <1>1
  <2> QED BY <1>1, <1>2, <2>1, <2>2
<1> QED BY <1>2, <1>3, <1>4

LEMMA SameMultiple ==
  ASSUME NEW i \in Nat, NEW j \in Nat, i * UnitSize = j * UnitSize
  PROVE  i = j
<1>1. UnitSize \in Nat /\ UnitSize > 0
  BY ModHashAssumption
<1> QED BY <1>1, TimesUnit

\* A size that leaves less than a bucket over divides into the buckets it
\* was made of.
LEMMA WholeBuckets ==
  ASSUME NEW n \in Nat, NEW left \in Left
  PROVE  (n * UnitSize + left) \div UnitSize = n
<1>1. UnitSize \in Nat /\ UnitSize > 0 /\ left \in 0..(UnitSize - 1)
  BY ModHashAssumption
<1> DEFINE x == n * UnitSize + left
           d == x \div UnitSize
<1>2. x \in Nat
  BY <1>1, TimesUnit
<1>3. d \in Nat /\ d * UnitSize <= x /\ x < d * UnitSize + UnitSize
  BY <1>1, <1>2
<1>4. ~(d < n) /\ ~(n < d)
  BY <1>1, <1>3, TimesUnit
<1> QED BY <1>3, <1>4

-----------------------------------------------------------------------------
(* The layout.                                                             *)

Head == [specifier : Nat, inited : 0..1, buckNums : Nat, total : Nat,
         cache : {<<>>} \cup ((Procs \cup {NoValue}) \X Nat),
         first : Nat, end : Int]

\* Where area a starts, and its first and last bucket.
Start(a) == Layout[a].cache[2]
FirstOf(a) == Layout[a].first
EndOf(a) == Layout[a].end

\* h is a head for area a, set up in p's mapping.
Over(h, p, a) ==
  /\ h.specifier = NoHead.specifier
  /\ h.inited = 1
  /\ h.buckNums = NodeCount[a]
  /\ h.cache = <<p, Start(a)>>
  /\ h.first = FirstOf(a)
  /\ h.end = EndOf(a)

\* The start of each area, by hand.
StartAt(a) ==
  IF a = 1 THEN MagicSize
  ELSE IF a = 2 THEN MagicSize + (NodeCount[1] * UnitSize + HeadSize)
  ELSE MagicSize + (NodeCount[1] * UnitSize + HeadSize)
                 + (NodeCount[2] * UnitSize + HeadSize)

\* (Zenon cannot write out the specifier.)
LEMMA NoHeadFacts ==
  /\ NoHead \in Head
  /\ NoHead.specifier \in Nat
  /\ NoHead.specifier # 0
  /\ NoHead.inited = 0 /\ NoHead.buckNums = 0
  /\ NoHead.cache = <<>> /\ NoHead.first = 0 /\ NoHead.end = 0
  BY SMT DEF NoHead, Head

LEMMA Constants ==
  /\ MagicSize \in Nat /\ HeadSize \in Nat
  /\ UnitSize \in Nat /\ UnitSize > 0
  /\ \A a \in Areas : /\ NodeCount[a] \in Nat /\ NodeCount[a] > 0
                      /\ NodeCount[a] * UnitSize \in Nat
                      /\ NodeCount[a] * UnitSize >= UnitSize
                      /\ StartAt(a) \in Nat
<1>1. /\ MagicSize \in Nat /\ HeadSize \in Nat
      /\ UnitSize \in Nat /\ UnitSize > 0
      /\ \A a \in Areas : NodeCount[a] \in Nat /\ NodeCount[a] > 0
  BY ModHashAssumption
<1>2. ASSUME NEW a \in Areas
      PROVE  /\ NodeCount[a] * UnitSize \in Nat
             /\ NodeCount[a] * UnitSize >= UnitSize
  <2>1. 1 * UnitSize = UnitSize /\ 1 <= NodeCount[a]
    BY <1>1
  <2> QED BY <1>1, <2>1, TimesUnit
<1>3. ASSUME NEW a \in Areas PROVE StartAt(a) \in Nat
  BY <1>1, <1>2 DEF StartAt, Areas
<1> QED BY <1>1, <1>2, <1>3

\* What InitalizeByNodeCount gives every area.
LEMMA HeadsByHand ==
  ASSUME NEW p, NEW a \in Areas
  PROVE  HeadsOf(p)[a] =
           [specifier |-> NoHead.specifier, inited |-> 1,
            buckNums |-> NodeCount[a],
            total |-> NodeCount[a] * UnitSize + HeadSize,
            cache |-> <<p, StartAt(a)>>,
            first |-> StartAt(a) + HeadSize,
            end |-> StartAt(a) + HeadSize + NodeCount[a] * UnitSize - UnitSize]
<1> DEFINE By(s, n) ==
             [specifier |-> NoHead.specifier, inited |-> 1, buckNums |-> n,
              total |-> n * UnitSize + HeadSize, cache |-> <<p, s>>,
              first |-> s + HeadSize,
              end |-> s + HeadSize + n * UnitSize - UnitSize]
<1>1. \A s, n : HeadByCount(p, s, n) = By(s, n)
  BY DEF HeadByCount, InitedHead
<1>2. \A s, n : By(s, n).total = n * UnitSize + HeadSize
  OBVIOUS
<1> HIDE DEF By
<1>3. /\ HeadsOf(p)[1] = By(StartAt(1), NodeCount[1])
      /\ HeadsOf(p)[2] = By(StartAt(2), NodeCount[2])
      /\ HeadsOf(p)[3] = By(StartAt(3), NodeCount[3])
  BY <1>1, <1>2 DEF HeadsOf, Areas, StartAt
<1>4. HeadsOf(p)[a] = By(StartAt(a), NodeCount[a])
  BY <1>3 DEF Areas
<1> QED BY <1>4 DEF By

LEMMA FieldsByHand ==
  ASSUME NEW p, NEW a \in Areas
  PROVE  /\ HeadsOf(p)[a].specifier = NoHead.specifier
         /\ HeadsOf(p)[a].inited = 1
         /\ HeadsOf(p)[a].buckNums = NodeCount[a]
         /\ HeadsOf(p)[a].cache = <<p, StartAt(a)>>
         /\ HeadsOf(p)[a].first = StartAt(a) + HeadSize
         /\ HeadsOf(p)[a].end =
              StartAt(a) + HeadSize + NodeCount[a] * UnitSize - UnitSize
<1> DEFINE h == HeadsOf(p)[a]
           spec == NoHead.specifier
<1>1. h = [specifier |-> spec, inited |-> 1,
           buckNums |-> NodeCount[a],
           total |-> NodeCount[a] * UnitSize + HeadSize,
           cache |-> <<p, StartAt(a)>>,
           first |-> StartAt(a) + HeadSize,
           end |-> StartAt(a) + HeadSize + NodeCount[a] * UnitSize - UnitSize]
  BY HeadsByHand
<1> HIDE DEF h, spec
<1>2. /\ h.specifier = spec /\ h.inited = 1 /\ h.buckNums = NodeCount[a]
      /\ h.cache = <<p, StartAt(a)>> /\ h.first = StartAt(a) + HeadSize
      /\ h.end = StartAt(a) + HeadSize + NodeCount[a] * UnitSize - UnitSize
  BY <1>1
<1> QED BY <1>2 DEF h, spec

LEMMA LayoutByHand ==
  ASSUME NEW a \in Areas
  PROVE  /\ Start(a) = StartAt(a)
         /\ FirstOf(a) = StartAt(a) + HeadSize
         /\ EndOf(a) = FirstOf(a) + NodeCount[a] * UnitSize - UnitSize
<1>1. Start(a) = <<NoValue, StartAt(a)>>[2]
  BY FieldsByHand DEF Layout, Start
<1> QED BY <1>1, FieldsByHand DEF Layout, FirstOf, EndOf

LEMMA HeadsLaidOut ==
  ASSUME NEW p \in Procs \cup {NoValue}
  PROVE  /\ HeadsOf(p) \in [Areas -> Head]
         /\ \A a \in Areas : Over(HeadsOf(p)[a], p, a)
<1>1. ASSUME NEW a \in Areas PROVE HeadsOf(p)[a] \in Head
  <2> DEFINE spec == NoHead.specifier
             size == NodeCount[a] * UnitSize
             start == StartAt(a)
             total == size + HeadSize
             cache == <<p, StartAt(a)>>
             first == start + HeadSize
             end == start + HeadSize + size - UnitSize
  <2>0. /\ NodeCount[a] \in Nat /\ size \in Nat /\ start \in Nat
        /\ HeadSize \in Nat /\ UnitSize \in Nat
    BY Constants, Zenon
  <2>1. /\ NodeCount[a] \in Nat /\ total \in Nat /\ first \in Nat /\ end \in Int
        /\ spec \in Nat
    <3> HIDE DEF size, start, spec
    <3>1. total \in Nat /\ first \in Nat /\ end \in Int
      BY <2>0
    <3>2. spec \in Nat
      BY NoHeadFacts DEF spec
    <3> QED BY <2>0, <3>1, <3>2
  <2>2. cache \in {<<>>} \cup ((Procs \cup {NoValue}) \X Nat)
    BY Constants
  <2>3. HeadsOf(p)[a] =
          [specifier |-> spec, inited |-> 1, buckNums |-> NodeCount[a],
           total |-> total, cache |-> cache, first |-> first, end |-> end]
    BY HeadsByHand
  <2> HIDE DEF spec, total, cache, first, end
  <2> QED BY <2>1, <2>2, <2>3 DEF Head
<1>2. ASSUME NEW a \in Areas PROVE Over(HeadsOf(p)[a], p, a)
  BY FieldsByHand, LayoutByHand DEF Over
<1>3. DOMAIN HeadsOf(p) = Areas /\ HeadsOf(p) = [a \in Areas |-> HeadsOf(p)[a]]
  BY DEF HeadsOf, Areas
<1> QED BY <1>1, <1>2, <1>3

LEMMA AreaFacts ==
  ASSUME NEW a \in Areas
  PROVE  /\ Start(a) \in Nat
         /\ FirstOf(a) = Start(a) + HeadSize
         /\ FirstOf(a) \in Nat
         /\ EndOf(a) = FirstOf(a) + NodeCount[a] * UnitSize - UnitSize
         /\ EndOf(a) \in Nat
         /\ FirstOf(a) <= EndOf(a)
BY Constants, LayoutByHand

LEMMA AreasApart ==
  ASSUME NEW a \in Areas, NEW o \in Areas, a < o
  PROVE  EndOf(a) + UnitSize <= Start(o)
<1> DEFINE size(x) == NodeCount[x] * UnitSize
<1>1. \A x \in Areas : size(x) \in Nat /\ size(x) >= UnitSize
  BY Constants
<1>2. \A x \in Areas : /\ Start(x) = StartAt(x)
                       /\ EndOf(x) = StartAt(x) + HeadSize + size(x) - UnitSize
  BY LayoutByHand
<1>3. StartAt(1) = MagicSize
      /\ StartAt(2) = MagicSize + (size(1) + HeadSize)
      /\ StartAt(3) = MagicSize + (size(1) + HeadSize) + (size(2) + HeadSize)
  BY DEF StartAt
<1> HIDE DEF size
<1>4. (a = 1 /\ o = 2) \/ (a = 1 /\ o = 3) \/ (a = 2 /\ o = 3)
  BY DEF Areas
<1>5. 1 \in Areas /\ 2 \in Areas /\ 3 \in Areas
  BY DEF Areas
<1> QED BY <1>1, <1>2, <1>3, <1>4, <1>5, Constants

\* The buckets of area a.
Cells(a) == BucketsOf(Layout[a])

LEMMA CellsByHand ==
  ASSUME NEW a \in Areas
  PROVE  /\ Cells(a) = {FirstOf(a) + i * UnitSize : i \in 0..(NodeCount[a] - 1)}
         /\ \A p, h : Over(h, p, a) => BucketsOf(h) = Cells(a)
<1>1. Layout[a].buckNums = NodeCount[a] /\ Layout[a].first = FirstOf(a)
  BY FieldsByHand DEF Layout, FirstOf
<1> QED BY <1>1 DEF Cells, BucketsOf, Over

LEMMA CellBounds ==
  ASSUME NEW a \in Areas, NEW b \in Cells(a)
  PROVE  b \in Nat /\ FirstOf(a) <= b /\ b <= EndOf(a) /\ b \in AllBuckets
<1>1. PICK i \in 0..(NodeCount[a] - 1) : b = FirstOf(a) + i * UnitSize
  BY CellsByHand
<1>2. i \in Nat /\ NodeCount[a] \in Nat /\ i < NodeCount[a]
  BY Constants
<1>3. i * UnitSize \in Nat
      /\ i * UnitSize + UnitSize <= NodeCount[a] * UnitSize
  BY <1>2, TimesUnit
<1>4. b \in AllBuckets
  BY DEF AllBuckets, Cells
<1> QED BY <1>1, <1>3, <1>4, AreaFacts, Constants

\* An address between the ends of an area is that of one of its buckets, or
\* of none.
LEMMA CellsApart ==
  ASSUME NEW a \in Areas, NEW b \in AllBuckets
  PROVE  b \in Cells(a) <=> b \in FirstOf(a)..EndOf(a)
<1>1. ASSUME b \in Cells(a) PROVE b \in FirstOf(a)..EndOf(a)
  BY <1>1, CellBounds, AreaFacts
<1>2. ASSUME b \in FirstOf(a)..EndOf(a) PROVE b \in Cells(a)
  <2>1. PICK o \in Areas : b \in Cells(o)
    BY DEF AllBuckets, Cells
  <2>2. b \in Nat /\ FirstOf(o) <= b /\ b <= EndOf(o)
    BY <2>1, CellBounds
  <2>3. ~(a < o) /\ ~(o < a)
    BY <1>2, <2>2, AreasApart, AreaFacts, Constants
  <2> QED BY <2>1, <2>3 DEF Areas
<1> QED BY <1>1, <1>2

LEMMA LastCell ==
  ASSUME NEW a \in Areas
  PROVE  EndOf(a) = Max(Cells(a))
<1>1. EndOf(a) \in Cells(a)
  <2>1. NodeCount[a] - 1 \in 0..(NodeCount[a] - 1)
        /\ (NodeCount[a] - 1) * UnitSize + UnitSize = NodeCount[a] * UnitSize
    BY Constants, TimesUnit
  <2>2. EndOf(a) = FirstOf(a) + (NodeCount[a] - 1) * UnitSize
    BY <2>1, AreaFacts, Constants, TimesUnit
  <2> QED BY <2>1, <2>2, CellsByHand
<1>2. \A b \in Cells(a) : b \in Nat /\ EndOf(a) >= b
  BY CellBounds
<1>3. PICK m \in Cells(a) : m = Max(Cells(a)) /\ \A b \in Cells(a) : m >= b
  BY <1>1, <1>2 DEF Max
<1> QED BY <1>1, <1>2, <1>3

-----------------------------------------------------------------------------
(* The objects.                                                            *)

Bucket == [hasSet : 0..1, invalid : 0..1, node : 0..MaxValue]

Typed ==
  /\ obj \in [Procs -> [Areas -> Head]]
  /\ begin \in [Procs -> [Areas -> Nat]]
  /\ stored \in [Areas -> Head]
  /\ bucket \in [AllBuckets -> Bucket]

\* p has not attached.
Detached(p) ==
  /\ obj[p] = [a \in Areas |-> NoHead]
  /\ begin[p] = [a \in Areas |-> 0]

\* The iterator of an area is at its first bucket, or behind the last.
Behind(a) == FirstOf(a) + NodeCount[a] * UnitSize

SetUp(p) ==
  \A a \in Areas : /\ Over(obj[p][a], p, a)
                   /\ begin[p][a] \in {FirstOf(a), Behind(a)}

\* Until the first process attaches the memory is zeroed; then every area
\* has a head that some process stored.
Heads ==
  \/ /\ stored = [a \in Areas |-> Zeroed]
     /\ \A p \in Procs : Detached(p)
  \/ \A a \in Areas : \E p \in Procs : Over(stored[a], p, a)

LayoutInv == Typed /\ (\A p \in Procs : Detached(p) \/ SetUp(p)) /\ Heads

LEMMA OverFacts ==
  ASSUME NEW p, NEW a \in Areas, NEW h, Over(h, p, a)
  PROVE  /\ h.specifier = NoHead.specifier /\ h.inited = 1
         /\ h.buckNums = NodeCount[a]
         /\ h.cache = <<p, Start(a)>> /\ h.cache[1] = p
         /\ h.cache[2] = Start(a)
         /\ h.first = FirstOf(a) /\ h.end = EndOf(a)
<1>1. h.cache = <<p, Start(a)>>
  BY DEF Over
<1>2. h.cache[1] = p /\ h.cache[2] = Start(a)
  BY <1>1
<1> QED BY <1>1, <1>2 DEF Over

LEMMA ZeroedFacts ==
  /\ Zeroed \in Head
  /\ Zeroed.specifier = 0 /\ Zeroed.specifier # NoHead.specifier
<1>1. Zeroed.specifier = 0
  BY SMT DEF Zeroed, NoHead
<1>2. Zeroed \in Head
  BY SMT DEF Zeroed, NoHead, Head
<1> QED BY <1>1, <1>2, NoHeadFacts

\* An attached process has set up all three of its objects.
LEMMA AttachedSetUp ==
  ASSUME LayoutInv, NEW p \in Procs, Attached(p)
  PROVE  SetUp(p)
<1>1. 3 \in Areas
  BY DEF Areas
<1>2. Detached(p) => obj[p][3].inited = 0
  <2>1. Detached(p) => obj[p][3] = NoHead
    BY <1>1 DEF Detached
  <2> QED BY <2>1, NoHeadFacts
<1> QED BY <1>2 DEF LayoutInv, Attached

\* Before any call nobody is attached and the memory holds no head.
THEOREM LayoutInit == Init => LayoutInv
<1> SUFFICES ASSUME Init PROVE LayoutInv
  OBVIOUS
<1>1. \A b \in AllBuckets : EmptyBucket \in Bucket
  BY ModHashAssumption DEF EmptyBucket, Bucket
<1>2. Typed
  BY <1>1, NoHeadFacts, ZeroedFacts DEF Init, Typed
<1>3. \A p \in Procs : Detached(p)
  BY DEF Init, Detached
<1>4. Heads
  BY <1>3 DEF Init, Heads
<1> QED BY <1>2, <1>3, <1>4 DEF LayoutInv

-----------------------------------------------------------------------------
(* What the calls use.                                                     *)

\* ModToUint stays inside the area of its key.
LEMMA BucketOfKey ==
  ASSUME LayoutInv, NEW p \in Procs, Attached(p), NEW k \in Keys,
         NEW h \in Hashes[k]
  PROVE  /\ AreaOf[k] \in Areas
         /\ BucketAt(p, k, h) \in Cells(AreaOf[k])
         /\ BucketAt(p, k, h) \in AllBuckets
         /\ BucketAt(p, k, h) = FirstOf(AreaOf[k])
                                  + (h % NodeCount[AreaOf[k]]) * UnitSize
<1> DEFINE a == AreaOf[k]
<1>1. a \in Areas /\ h \in Nat
  BY ModHashAssumption
<1>2. Over(obj[p][a], p, a)
  BY <1>1, AttachedSetUp DEF SetUp
<1>3. BucketAt(p, k, h) = FirstOf(a) + (h % NodeCount[a]) * UnitSize
  <2>1. obj[p][a].first = FirstOf(a) /\ obj[p][a].buckNums = NodeCount[a]
    BY <1>2 DEF Over
  <2> QED BY <2>1, Zenon DEF BucketAt
<1>4. h % NodeCount[a] \in 0..(NodeCount[a] - 1)
  BY <1>1, Constants
<1>5. BucketAt(p, k, h) \in Cells(a)
  BY <1>1, <1>3, <1>4, CellsByHand
<1> QED BY <1>1, <1>3, <1>5, CellBounds

\* A printing that starts at the first bucket sees every bucket of the area,
\* one that starts behind the last none.
LEMMA WalkFacts ==
  ASSUME NEW p \in Procs, NEW a \in Areas, Over(obj[p][a], p, a)
  PROVE  /\ begin[p][a] = FirstOf(a) => Walk(p, a) = Cells(a)
         /\ begin[p][a] = Behind(a) => Walk(p, a) = {}
<1> DEFINE N == NodeCount[a]
<1>1. Walk(p, a) =
        {b \in {begin[p][a] + i * UnitSize : i \in 0..N} : b <= EndOf(a)}
  <2>1. obj[p][a].end = EndOf(a) /\ obj[p][a].buckNums = N
    BY DEF Over
  <2> QED BY <2>1, Zenon DEF Walk, Compare
<1>2. /\ N \in Nat /\ UnitSize \in Nat /\ UnitSize > 0 /\ FirstOf(a) \in Nat
      /\ N * UnitSize \in Nat
      /\ EndOf(a) = FirstOf(a) + N * UnitSize - UnitSize
  BY Constants, AreaFacts
<1>3. \A i \in 0..N : /\ i * UnitSize \in Nat
                      /\ i < N => i * UnitSize + UnitSize <= N * UnitSize
  BY <1>2, TimesUnit
<1>4. ASSUME begin[p][a] = FirstOf(a) PROVE Walk(p, a) = Cells(a)
  <2>1. ASSUME NEW i \in 0..N
        PROVE  FirstOf(a) + i * UnitSize <= EndOf(a) <=> i \in 0..(N - 1)
    <3>1. CASE i = N
      BY <3>1, <1>2
    <3>2. CASE i # N
      BY <3>2, <1>2, <1>3
    <3> QED BY <3>1, <3>2
  <2> DEFINE at(i) == FirstOf(a) + i * UnitSize
  <2>2. Walk(p, a) = {b \in {at(i) : i \in 0..N} : b <= EndOf(a)}
    BY <1>1, <1>4, Zenon
  <2>3. Cells(a) = {at(i) : i \in 0..(N - 1)}
    BY CellsByHand
  <2>4. 0..(N - 1) \subseteq 0..N
    BY <1>2
  <2>5. \A i \in 0..N : at(i) <= EndOf(a) <=> i \in 0..(N - 1)
    BY <2>1
  <2> HIDE DEF at
  <2> QED BY <2>2, <2>3, <2>4, <2>5
<1>5. ASSUME begin[p][a] = Behind(a) PROVE Walk(p, a) = {}
  <2>1. \A i \in 0..N : ~(Behind(a) + i * UnitSize <= EndOf(a))
    BY <1>2, <1>3 DEF Behind
  <2> QED BY <1>1, <1>5, <2>1
<1> QED BY <1>4, <1>5

LEMMA CellCount ==
  ASSUME NEW a \in Areas
  PROVE  IsFiniteSet(Cells(a)) /\ Cardinality(Cells(a)) = NodeCount[a]
<1> DEFINE N == NodeCount[a]
           f == [i \in 0..(N - 1) |-> FirstOf(a) + i * UnitSize]
<1>1. N \in Nat /\ N > 0 /\ FirstOf(a) \in Nat
  BY Constants, AreaFacts
<1>2. \A i, j \in 0..(N - 1) : f[i] = f[j] => i = j
  <2> SUFFICES ASSUME NEW i \in 0..(N - 1), NEW j \in 0..(N - 1), f[i] = f[j]
               PROVE i = j
    OBVIOUS
  <2>1. i \in Nat /\ j \in Nat
    OBVIOUS
  <2>2. i * UnitSize \in Nat /\ j * UnitSize \in Nat
    BY <2>1, TimesUnit
  <2>3. i * UnitSize = j * UnitSize
    BY <1>1, <2>2
  <2> QED BY <2>1, <2>3, SameMultiple
<1>3. f \in Bijection(0..(N - 1), Cells(a))
  <2>1. f \in [0..(N - 1) -> Cells(a)]
    BY CellsByHand
  <2>2. \A b \in Cells(a) : \E i \in 0..(N - 1) : f[i] = b
    BY CellsByHand
  <2> HIDE DEF f
  <2> QED BY <1>2, <2>1, <2>2, Fun_IsBij
<1>4. IsFiniteSet(0..(N - 1)) /\ Cardinality(0..(N - 1)) = N
  <2>1. 0 \in Int /\ N - 1 \in Int /\ ~(0 > N - 1) /\ (N - 1) - 0 + 1 = N
    BY <1>1
  <2> QED BY <2>1, FS_Interval, Zenon
<1>5. ExistsBijection(0..(N - 1), Cells(a))
  BY <1>3, Zenon DEF ExistsBijection
<1>6. IsFiniteSet(Cells(a)) /\ Cardinality(Cells(a)) = Cardinality(0..(N - 1))
  BY <1>4, <1>5, FS_Bijection, Zenon
<1> QED BY <1>4, <1>6

-----------------------------------------------------------------------------
(* Every call keeps the layout.                                            *)

\* The other processes' objects are no call's business.
LEMMA OthersKept ==
  ASSUME NEW q \in Procs, obj'[q] = obj[q], begin'[q] = begin[q]
  PROVE  (Detached(q) => Detached(q)') /\ (SetUp(q) => SetUp(q)')
BY DEF Detached, SetUp, Over

\* A head that some process stored stays one.
LEMMA StoredKept ==
  ASSUME LayoutInv, NEW p \in Procs, Attached(p)
  PROVE  \A a \in Areas : \E q \in Procs : Over(stored[a], q, a)
<1>1. SetUp(p)
  BY AttachedSetUp
<1>2. ~Detached(p)
  <2>1. 3 \in Areas
    BY DEF Areas
  <2>2. Detached(p) => obj[p][3] = NoHead
    BY <2>1 DEF Detached
  <2> QED BY <2>2, NoHeadFacts DEF Attached
<1> QED BY <1>2 DEF LayoutInv, Heads

LEMMA OnlyBuckets ==
  ASSUME LayoutInv, UNCHANGED <<obj, begin, stored>>,
         bucket' \in [AllBuckets -> Bucket]
  PROVE  LayoutInv'
<1>1. Typed'
  BY DEF LayoutInv, Typed
<1>2. \A p \in Procs : Detached(p)' \/ SetUp(p)'
  BY OthersKept DEF LayoutInv
<1>3. Heads'
  BY DEF LayoutInv, Heads, Over, Detached
<1> QED BY <1>1, <1>2, <1>3 DEF LayoutInv

LEMMA InitalizeKeeps ==
  ASSUME LayoutInv, NEW p \in Procs, Initalize(p)
  PROVE  LayoutInv'
<1>1. /\ HeadsOf(p) \in [Areas -> Head]
      /\ \A a \in Areas : Over(HeadsOf(p)[a], p, a)
  BY HeadsLaidOut
<1>2. /\ obj' = [obj EXCEPT ![p] = HeadsOf(p)]
      /\ begin' = [begin EXCEPT ![p] = [a \in Areas |-> HeadsOf(p)[a].first]]
      /\ stored' = HeadsOf(p)
      /\ bucket' = bucket
  BY DEF Initalize
<1>3. \A a \in Areas : HeadsOf(p)[a].first = FirstOf(a) /\ FirstOf(a) \in Nat
  BY <1>1, AreaFacts DEF Over
<1>4. [a \in Areas |-> HeadsOf(p)[a].first] \in [Areas -> Nat]
  BY <1>3
<1>5. Typed'
  BY <1>1, <1>2, <1>4 DEF LayoutInv, Typed
<1>6. /\ obj'[p] = HeadsOf(p)
      /\ begin'[p] = [a \in Areas |-> HeadsOf(p)[a].first]
      /\ \A q \in Procs \ {p} : obj'[q] = obj[q] /\ begin'[q] = begin[q]
  BY <1>2 DEF LayoutInv, Typed
<1>7. SetUp(p)'
  BY <1>1, <1>3, <1>6 DEF SetUp, Over
<1>8. \A q \in Procs \ {p} : Detached(q)' \/ SetUp(q)'
  BY <1>6, OthersKept DEF LayoutInv
<1>9. Heads'
  BY <1>1, <1>2 DEF Heads, Over
<1> QED BY <1>5, <1>7, <1>8, <1>9 DEF LayoutInv

\* The division by the bucket's size gives back the buckets the area has.
LEMMA HeadBySizeOver ==
  ASSUME NEW p \in Procs, NEW a \in Areas, NEW left \in Left
  PROVE  LET h == HeadBySize(p, Start(a), HeadSize + NodeCount[a] * UnitSize + left)
         IN  h \in Head /\ Over(h, p, a)
<1> DEFINE size == NodeCount[a] * UnitSize
           len == HeadSize + size + left
           h == HeadBySize(p, Start(a), len)
           spec == NoHead.specifier
<1>1. /\ left \in Nat /\ size \in Nat /\ HeadSize \in Nat /\ UnitSize \in Nat
      /\ NodeCount[a] \in Nat /\ len \in Nat
  BY Constants, ModHashAssumption
<1>2. len - HeadSize = size + left
  BY <1>1
<1>3. (len - HeadSize) \div UnitSize = NodeCount[a]
  BY <1>1, <1>2, WholeBuckets
<1>4. h = InitedHead(p, Start(a), NodeCount[a], len,
                     Start(a) + len - ((len - HeadSize) - size) - UnitSize)
  BY <1>3, Zenon DEF HeadBySize
<1>5. Start(a) + len - ((len - HeadSize) - size) - UnitSize = EndOf(a)
  BY <1>1, AreaFacts
<1>6. Start(a) + HeadSize = FirstOf(a) /\ FirstOf(a) \in Nat /\ EndOf(a) \in Nat
      /\ Start(a) \in Nat
  BY AreaFacts
<1>7. h = [specifier |-> spec, inited |-> 1, buckNums |-> NodeCount[a],
           total |-> len, cache |-> <<p, Start(a)>>, first |-> FirstOf(a),
           end |-> EndOf(a)]
  BY <1>4, <1>5, <1>6 DEF InitedHead
<1>8. spec \in Nat
  BY NoHeadFacts
<1>9. <<p, Start(a)>> \in {<<>>} \cup ((Procs \cup {NoValue}) \X Nat)
  BY <1>6
<1> HIDE DEF len, h, spec
<1>10. h \in Head
  BY <1>1, <1>6, <1>7, <1>8, <1>9 DEF Head
<1>11. /\ h.specifier = spec /\ h.inited = 1 /\ h.buckNums = NodeCount[a]
       /\ h.cache = <<p, Start(a)>> /\ h.first = FirstOf(a) /\ h.end = EndOf(a)
  BY <1>7
<1>12. Over(h, p, a)
  BY <1>11 DEF Over, spec
<1> QED BY <1>10, <1>12 DEF h, len

LEMMA InitalizeByCacheSizeKeeps ==
  ASSUME LayoutInv, NEW p \in Procs, NEW a \in Areas,
         InitalizeByCacheSize(p, a)
  PROVE  LayoutInv'
<1>1. SetUp(p)
  BY AttachedSetUp DEF InitalizeByCacheSize
<1>2. obj[p][a].cache[2] = Start(a)
  <2>1. obj[p][a].cache = <<p, Start(a)>>
    BY <1>1 DEF SetUp, Over
  <2> QED BY <2>1
<1>3. PICK left \in Left :
        LET h == HeadBySize(p, Start(a),
                            HeadSize + NodeCount[a] * UnitSize + left)
        IN  /\ obj' = [obj EXCEPT ![p][a] = h]
            /\ begin' = [begin EXCEPT ![p][a] = h.first]
            /\ stored' = [stored EXCEPT ![a] = h]
  BY <1>2, Zenon DEF InitalizeByCacheSize
<1> DEFINE h == HeadBySize(p, Start(a),
                           HeadSize + NodeCount[a] * UnitSize + left)
<1>4. h \in Head /\ Over(h, p, a)
  BY HeadBySizeOver
<1>5. /\ obj' = [obj EXCEPT ![p][a] = h]
      /\ begin' = [begin EXCEPT ![p][a] = h.first]
      /\ stored' = [stored EXCEPT ![a] = h]
      /\ bucket' = bucket
  BY <1>3 DEF InitalizeByCacheSize
<1> HIDE DEF h
<1>6. h.first = FirstOf(a) /\ FirstOf(a) \in Nat
  BY <1>4, AreaFacts DEF Over
<1>7. Typed'
  BY <1>4, <1>5, <1>6 DEF LayoutInv, Typed
<1>8. /\ \A q \in Procs \ {p} : obj'[q] = obj[q] /\ begin'[q] = begin[q]
      /\ obj'[p][a] = h /\ begin'[p][a] = FirstOf(a) /\ stored'[a] = h
      /\ \A o \in Areas \ {a} : /\ obj'[p][o] = obj[p][o]
                                /\ begin'[p][o] = begin[p][o]
                                /\ stored'[o] = stored[o]
  BY <1>5, <1>6 DEF LayoutInv, Typed
<1>9. SetUp(p)'
  <2>1. ASSUME NEW o \in Areas
        PROVE  /\ Over(obj'[p][o], p, o)
               /\ begin'[p][o] \in {FirstOf(o), Behind(o)}
    BY <1>1, <1>4, <1>8 DEF SetUp
  <2> QED BY <2>1 DEF SetUp, Over
<1>10. \A q \in Procs \ {p} : Detached(q)' \/ SetUp(q)'
  BY <1>8, OthersKept DEF LayoutInv
<1>11. \A o \in Areas : \E q \in Procs : Over(stored[o], q, o)
  BY StoredKept DEF InitalizeByCacheSize
<1>12. Heads'
  <2>1. ASSUME NEW o \in Areas PROVE \E q \in Procs : Over(stored'[o], q, o)
    BY <1>4, <1>8, <1>11
  <2> QED BY <2>1 DEF Heads, Over
<1> QED BY <1>7, <1>9, <1>10, <1>12 DEF LayoutInv

\* Whoever stored it, and even if nobody did, the head found is refused.
LEMMA HeadRefused ==
  ASSUME LayoutInv, NEW a \in Areas
  PROVE  ReadAndCheckHead(stored[a]) # 0
<1>1. CASE stored[a] = Zeroed
  BY <1>1, ZeroedFacts DEF ReadAndCheckHead
<1>2. CASE stored[a] # Zeroed
  <2>1. PICK p \in Procs : Over(stored[a], p, a)
    BY <1>2 DEF LayoutInv, Heads
  <2> QED BY <2>1 DEF Over, ReadAndCheckHead
<1> QED BY <1>1, <1>2

LEMMA SetIndexPointerKeeps ==
  ASSUME LayoutInv, NEW p \in Procs, NEW a \in Areas, SetIndexPointer(p, a)
  PROVE  UNCHANGED <<obj, begin, stored, bucket>> /\ LayoutInv'
<1>1. UNCHANGED <<obj, begin, stored, bucket>>
  BY HeadRefused DEF SetIndexPointer
<1> QED BY <1>1, OnlyBuckets DEF LayoutInv, Typed

LEMMA ExitKeeps ==
  ASSUME LayoutInv, NEW p \in Procs, Exit(p)
  PROVE  LayoutInv'
<1>1. /\ obj' = [obj EXCEPT ![p] = [a \in Areas |-> NoHead]]
      /\ begin' = [begin EXCEPT ![p] = [a \in Areas |-> 0]]
      /\ stored' = stored /\ bucket' = bucket
  BY DEF Exit
<1>2. [a \in Areas |-> NoHead] \in [Areas -> Head]
  BY NoHeadFacts
<1>3. Typed'
  BY <1>1, <1>2 DEF LayoutInv, Typed
<1>4. /\ obj'[p] = [a \in Areas |-> NoHead] /\ begin'[p] = [a \in Areas |-> 0]
      /\ \A q \in Procs \ {p} : obj'[q] = obj[q] /\ begin'[q] = begin[q]
  BY <1>1 DEF LayoutInv, Typed
<1>5. Detached(p)'
  BY <1>4 DEF Detached
<1>6. \A q \in Procs \ {p} : /\ Detached(q)' \/ SetUp(q)'
                             /\ Detached(q) => Detached(q)'
  BY <1>4, OthersKept DEF LayoutInv
<1>7. Heads'
  <2>1. CASE \A q \in Procs : Detached(q)
    <3>1. \A q \in Procs : Detached(q)'
      BY <1>5, <1>6, <2>1
    <3> QED BY <1>1, <3>1 DEF LayoutInv, Heads, Over
  <2>2. CASE ~ \A q \in Procs : Detached(q)
    BY <1>1, <2>2 DEF LayoutInv, Heads, Over
  <2> QED BY <2>1, <2>2
<1> QED BY <1>3, <1>5, <1>6, <1>7 DEF LayoutInv

LEMMA PrintAllKeeps ==
  ASSUME LayoutInv, NEW p \in Procs, PrintAll(p)
  PROVE  LayoutInv'
<1>1. SetUp(p)
  BY AttachedSetUp DEF PrintAll
<1> DEFINE to(a) == begin[p][a] + Cardinality(Walk(p, a)) * UnitSize
<1>2. /\ begin' = [begin EXCEPT ![p] = [a \in Areas |-> to(a)]]
      /\ UNCHANGED <<obj, stored, bucket>>
  BY DEF PrintAll
<1>3. ASSUME NEW a \in Areas PROVE to(a) = Behind(a) /\ Behind(a) \in Nat
  <2>1. Over(obj[p][a], p, a) /\ begin[p][a] \in {FirstOf(a), Behind(a)}
    BY <1>1 DEF SetUp
  <2>2. FirstOf(a) \in Nat /\ Behind(a) \in Nat
    BY AreaFacts, Constants DEF Behind
  <2>3. CASE begin[p][a] = FirstOf(a)
    <3>1. Cardinality(Walk(p, a)) = NodeCount[a]
      BY <2>1, <2>3, WalkFacts, CellCount
    <3> QED BY <2>2, <2>3, <3>1 DEF Behind
  <2>4. CASE begin[p][a] = Behind(a)
    <3>1. Cardinality(Walk(p, a)) = 0
      BY <2>1, <2>4, WalkFacts, FS_EmptySet
    <3>2. 0 * UnitSize = 0
      BY Constants
    <3>3. to(a) = Behind(a) + 0
      BY <2>4, <3>1, <3>2
    <3> QED BY <2>2, <3>3
  <2> QED BY <2>1, <2>3, <2>4
<1> HIDE DEF to
<1>4. Typed'
  BY <1>2, <1>3 DEF LayoutInv, Typed
<1>5. /\ \A a \in Areas : begin'[p][a] = Behind(a)
      /\ \A q \in Procs \ {p} : begin'[q] = begin[q]
  BY <1>2, <1>3 DEF LayoutInv, Typed
<1>6. SetUp(p)'
  BY <1>1, <1>2, <1>5 DEF SetUp, Over
<1>7. \A q \in Procs \ {p} : Detached(q)' \/ SetUp(q)'
  BY <1>2, <1>5, OthersKept DEF LayoutInv
<1>8. Heads'
  <2>1. \A a \in Areas : \E q \in Procs : Over(stored[a], q, a)
    BY StoredKept DEF PrintAll
  <2> QED BY <1>2, <2>1 DEF Heads, Over
<1> QED BY <1>4, <1>6, <1>7, <1>8 DEF LayoutInv

\* A bucket filled, and one made invalid.
LEMMA BucketForms ==
  /\ \A v \in 0..MaxValue : [hasSet |-> 1, invalid |-> 0, node |-> v] \in Bucket
  /\ \A x \in Bucket : [x EXCEPT !.invalid = 1] \in Bucket
BY DEF Bucket

LEMMA WithNodeTyped ==
  ASSUME LayoutInv, NEW b, NEW v \in 0..MaxValue
  PROVE  WithNode(b, v) \in [AllBuckets -> Bucket]
<1> DEFINE n == [hasSet |-> 1, invalid |-> 0, node |-> v]
<1>1. n \in Bucket
  BY BucketForms
<1>2. WithNode(b, v) = [bucket EXCEPT ![b] = n]
  BY Zenon DEF WithNode
<1> HIDE DEF n
<1> QED BY <1>1, <1>2 DEF LayoutInv, Typed

LEMMA SetKeeps ==
  ASSUME LayoutInv, NEW p \in Procs, NEW k \in Keys, NEW v \in 0..MaxValue,
         Set(p, k, v)
  PROVE  LayoutInv'
<1>1. PICK h \in Hashes[k] : bucket' = WithNode(BucketAt(p, k, h), v)
  BY DEF Set
<1> QED BY <1>1, WithNodeTyped, OnlyBuckets DEF Set

LEMMA IncrKeeps ==
  ASSUME LayoutInv, NEW p \in Procs, NEW k \in Keys, Incr(p, k)
  PROVE  LayoutInv'
<1>1. PICK h \in Hashes[k] :
        LET b == BucketAt(p, k, h)
            temp == IF Holds(b) THEN bucket[b].node ELSE 0
        IN  temp < MaxValue /\ bucket' = WithNode(b, temp + 1)
  BY DEF Incr
<1> DEFINE b == BucketAt(p, k, h)
           temp == IF Holds(b) THEN bucket[b].node ELSE 0
<1>2. b \in AllBuckets
  BY BucketOfKey DEF Incr
<1>3. temp \in 0..MaxValue /\ MaxValue \in Nat
  BY <1>2, ModHashAssumption DEF LayoutInv, Typed, Bucket
<1>4. temp < MaxValue /\ bucket' = WithNode(b, temp + 1)
  BY <1>1
<1> HIDE DEF b, temp
<1>5. temp + 1 \in 0..MaxValue
  BY <1>3, <1>4
<1> QED BY <1>4, <1>5, WithNodeTyped, OnlyBuckets DEF Incr

LEMMA DeleteKeeps ==
  ASSUME LayoutInv, NEW p \in Procs, NEW k \in Keys, Delete(p, k)
  PROVE  LayoutInv'
<1>1. PICK h \in Hashes[k] :
        bucket' = [bucket EXCEPT ![BucketAt(p, k, h)].invalid = 1]
  BY DEF Delete
<1>2. bucket' \in [AllBuckets -> Bucket]
  <2> DEFINE b == BucketAt(p, k, h)
  <2>1. b \in AllBuckets
    BY BucketOfKey DEF Delete
  <2> HIDE DEF b
  <2>2. [bucket[b] EXCEPT !.invalid = 1] \in Bucket
    BY <2>1, BucketForms DEF LayoutInv, Typed
  <2>3. bucket' = [bucket EXCEPT ![b] = [bucket[b] EXCEPT !.invalid = 1]]
    BY <1>1 DEF b
  <2> QED BY <2>2, <2>3 DEF LayoutInv, Typed
<1> QED BY <1>2, OnlyBuckets DEF Delete

LEMMA ResetKeeps ==
  ASSUME LayoutInv, NEW p \in Procs, NEW a \in Areas, Reset(p, a)
  PROVE  LayoutInv'
<1>1. ASSUME NEW b \in AllBuckets
      PROVE  (IF b \in obj[p][a].first..obj[p][a].end
                THEN [bucket[b] EXCEPT !.invalid = 1] ELSE bucket[b]) \in Bucket
  <2>1. bucket[b] \in Bucket
    BY DEF LayoutInv, Typed
  <2>2. [bucket[b] EXCEPT !.invalid = 1] \in Bucket
    BY <2>1, BucketForms
  <2> QED BY <2>1, <2>2
<1>2. bucket' \in [AllBuckets -> Bucket]
  BY <1>1 DEF Reset
<1> QED BY <1>2, OnlyBuckets DEF Reset

LEMMA FullFillValueKeeps ==
  ASSUME LayoutInv, NEW p \in Procs, NEW a \in Areas, FullFillValue(p, a)
  PROVE  LayoutInv'
<1>1. PICK vec \in [BucketsOf(obj[p][a]) -> 0..MaxValue] :
        bucket' = [b \in AllBuckets |->
                     IF b \in DOMAIN vec
                       THEN [hasSet |-> 1, invalid |-> 0, node |-> vec[b]]
                       ELSE bucket[b]]
  BY DEF FullFillValue
<1>2. ASSUME NEW b \in AllBuckets
      PROVE  (IF b \in DOMAIN vec
                THEN [hasSet |-> 1, invalid |-> 0, node |-> vec[b]]
                ELSE bucket[b]) \in Bucket
  <2>1. bucket[b] \in Bucket
    BY DEF LayoutInv, Typed
  <2>2. b \in DOMAIN vec => [hasSet |-> 1, invalid |-> 0, node |-> vec[b]] \in Bucket
    BY BucketForms
  <2> QED BY <2>1, <2>2
<1>3. bucket' \in [AllBuckets -> Bucket]
  BY <1>1, <1>2
<1> QED BY <1>3, OnlyBuckets DEF FullFillValue

\* The layout is inductive: one step per call.
THEOREM LayoutNext == LayoutInv /\ [Next]_vars => LayoutInv'
<1> SUFFICES ASSUME LayoutInv, [Next]_vars PROVE LayoutInv'
  OBVIOUS
<1>1. CASE UNCHANGED vars
  BY <1>1, OnlyBuckets DEF vars, LayoutInv, Typed
<1>2. CASE Next
  <2>1. PICK p \in Procs :
          \/ Initalize(p)
          \/ Exit(p)
          \/ PrintAll(p)
          \/ \E k \in Keys :
               Get(p, k) \/ Incr(p, k) \/ Delete(p, k)
               \/ \E v \in 0..MaxValue : Set(p, k, v)
          \/ \E a \in Managed :
               \/ SetIndexPointer(p, a)
               \/ InitalizeByCacheSize(p, a)
               \/ Reset(p, a)
               \/ FullFillValue(p, a)
    BY <1>2 DEF Next
  <2>2. Managed \subseteq Areas
    BY ModHashAssumption
  <2>3. CASE Initalize(p)
    BY <2>3, InitalizeKeeps
  <2>4. CASE Exit(p)
    BY <2>4, ExitKeeps
  <2>5. CASE PrintAll(p)
    BY <2>5, PrintAllKeeps
  <2>6. ASSUME NEW k \in Keys, Get(p, k) PROVE LayoutInv'
    BY <2>6, OnlyBuckets DEF Get, LayoutInv, Typed
  <2>7. ASSUME NEW k \in Keys, Incr(p, k) PROVE LayoutInv'
    BY <2>7, IncrKeeps
  <2>8. ASSUME NEW k \in Keys, Delete(p, k) PROVE LayoutInv'
    BY <2>8, DeleteKeeps
  <2>9. ASSUME NEW k \in Keys, NEW v \in 0..MaxValue, Set(p, k, v)
        PROVE  LayoutInv'
    BY <2>9, SetKeeps
  <2>10. ASSUME NEW a \in Managed, SetIndexPointer(p, a) PROVE LayoutInv'
    BY <2>2, <2>10, SetIndexPointerKeeps
  <2>11. ASSUME NEW a \in Managed, InitalizeByCacheSize(p, a) PROVE LayoutInv'
    BY <2>2, <2>11, InitalizeByCacheSizeKeeps
  <2>12. ASSUME NEW a \in Managed, Reset(p, a) PROVE LayoutInv'
    BY <2>2, <2>12, ResetKeeps
  <2>13. ASSUME NEW a \in Managed, FullFillValue(p, a) PROVE LayoutInv'
    BY <2>2, <2>13, FullFillValueKeeps
  <2> QED BY <2>1, <2>3, <2>4, <2>5, <2>6, <2>7, <2>8, <2>9, <2>10, <2>11,
             <2>12, <2>13
<1> QED BY <1>1, <1>2

\* The layout holds in every state.
THEOREM LayoutAlways == Spec => []LayoutInv
BY LayoutInit, LayoutNext, PTL DEF Spec

-----------------------------------------------------------------------------
(* The properties.                                                         *)

LEMMA LayoutTypeOK == LayoutInv => TypeOK
<1> SUFFICES ASSUME LayoutInv PROVE TypeOK
  OBVIOUS
<1>1. \A p \in Procs : DOMAIN obj[p] = Areas /\ DOMAIN begin[p] = Areas
  BY DEF LayoutInv, Typed
<1>2. ASSUME NEW p \in Procs, NEW a \in Areas
      PROVE  begin[p][a] \in obj[p][a].first..
                               (obj[p][a].first + obj[p][a].buckNums * UnitSize)
  <2>1. CASE Detached(p)
    <3>1. obj[p][a] = NoHead /\ begin[p][a] = 0
      BY <2>1 DEF Detached
    <3>2. obj[p][a].first = 0 /\ obj[p][a].buckNums = 0
      BY <3>1, NoHeadFacts
    <3>3. 0 * UnitSize = 0
      BY Constants
    <3> QED BY <3>1, <3>2, <3>3
  <2>2. CASE SetUp(p)
    <3>1. /\ obj[p][a].first = FirstOf(a) /\ obj[p][a].buckNums = NodeCount[a]
          /\ begin[p][a] \in {FirstOf(a), Behind(a)}
      BY <2>2 DEF SetUp, Over
    <3> QED BY <3>1, AreaFacts, Constants DEF Behind
  <2> QED BY <2>1, <2>2 DEF LayoutInv
<1>3. DOMAIN stored = Areas /\ DOMAIN bucket = AllBuckets
      /\ \A b \in AllBuckets :
           bucket[b] \in [hasSet : 0..1, invalid : 0..1, node : 0..MaxValue]
  BY DEF LayoutInv, Typed, Bucket
<1> QED BY <1>1, <1>2, <1>3 DEF TypeOK

\* Every variable has its type, no iterator leaves its area by more than one
\* bucket and no call touches an address that is not a bucket's, however the
\* processes initialise, exit and print.
THEOREM LayoutTyped == Spec => []TypeOK
BY LayoutAlways, LayoutTypeOK, PTL

LEMMA LayoutAgrees == LayoutInv => AreasAgree
<1> SUFFICES ASSUME LayoutInv, NEW p \in Procs, Attached(p), NEW a \in Areas
             PROVE  /\ BucketsOf(obj[p][a]) = BucketsOf(stored[a])
                    /\ obj[p][a].end = Max(BucketsOf(obj[p][a]))
                    /\ \A o \in Areas \ {a} :
                         Extent(obj[p][a]) \cap Extent(obj[p][o]) = {}
  BY DEF AreasAgree
<1>1. SetUp(p)
  BY AttachedSetUp
<1>2. PICK q \in Procs : Over(stored[a], q, a)
  BY StoredKept
<1>3. Over(obj[p][a], p, a)
  BY <1>1 DEF SetUp
<1>4. BucketsOf(obj[p][a]) = Cells(a) /\ BucketsOf(stored[a]) = Cells(a)
  BY <1>2, <1>3, CellsByHand
<1>5. obj[p][a].end = Max(BucketsOf(obj[p][a]))
  BY <1>3, <1>4, LastCell DEF Over
<1>6. \A o \in Areas : Extent(obj[p][o]) = Start(o)..(EndOf(o) + UnitSize - 1)
  <2> SUFFICES ASSUME NEW o \in Areas
               PROVE  Extent(obj[p][o]) = Start(o)..(EndOf(o) + UnitSize - 1)
    OBVIOUS
  <2>1. obj[p][o].cache = <<p, Start(o)>> /\ obj[p][o].end = EndOf(o)
    BY <1>1 DEF SetUp, Over
  <2>2. obj[p][o].cache[2] = Start(o)
    BY <2>1
  <2> QED BY <2>1, <2>2, Zenon DEF Extent
<1>7. ASSUME NEW o \in Areas \ {a}
      PROVE  Extent(obj[p][a]) \cap Extent(obj[p][o]) = {}
  <2>1. a < o \/ o < a
    BY DEF Areas
  <2>2. /\ Start(a) \in Nat /\ Start(o) \in Nat
        /\ EndOf(a) \in Nat /\ EndOf(o) \in Nat /\ UnitSize \in Nat
    BY AreaFacts, Constants
  <2>3. EndOf(a) + UnitSize <= Start(o) \/ EndOf(o) + UnitSize <= Start(a)
    BY <2>1, AreasApart
  <2>4. (Start(a)..(EndOf(a) + UnitSize - 1))
          \cap (Start(o)..(EndOf(o) + UnitSize - 1)) = {}
    BY <2>2, <2>3
  <2> QED BY <1>6, <2>4
<1> QED BY <1>4, <1>5, <1>7

\* For any number of processes and any sizes: whichever of the two ways they
\* initialise and in whichever order, all see the same buckets at the same
\* addresses as the head in the memory says, and no area reaches into another.
THEOREM LayoutAreasAgree == Spec => []AreasAgree
BY LayoutAlways, LayoutAgrees, PTL

LEMMA LayoutOwn == LayoutInv => PointersAreOwn
<1> SUFFICES ASSUME LayoutInv, NEW p \in Procs, NEW a \in Areas,
                    obj[p][a].inited = 1
             PROVE  obj[p][a].cache[1] = p
  BY DEF PointersAreOwn
<1>1. CASE Detached(p)
  <2>1. obj[p][a] = NoHead
    BY <1>1 DEF Detached
  <2> QED BY <2>1, NoHeadFacts
<1>2. CASE SetUp(p)
  <2>1. obj[p][a].cache = <<p, Start(a)>>
    BY <1>2 DEF SetUp, Over
  <2> QED BY <2>1
<1> QED BY <1>1, <1>2 DEF LayoutInv

\* No object ever works with the pointers another process stored, although
\* the heads in the memory hold nothing else.
THEOREM LayoutPointersAreOwn == Spec => []PointersAreOwn
BY LayoutAlways, LayoutOwn, PTL

-----------------------------------------------------------------------------
(* Printing.                                                               *)

LEMMA CellsDisjoint ==
  ASSUME NEW a \in Areas, NEW o \in Areas, a # o
  PROVE  Cells(a) \cap Cells(o) = {}
<1> SUFFICES ASSUME NEW b \in Cells(a), b \in Cells(o) PROVE FALSE
  OBVIOUS
<1>1. /\ b \in Nat /\ FirstOf(a) <= b /\ b <= EndOf(a)
      /\ FirstOf(o) <= b /\ b <= EndOf(o)
  BY CellBounds
<1>2. a < o \/ o < a
  BY DEF Areas
<1> QED BY <1>1, <1>2, AreasApart, AreaFacts, Constants

LEMMA PrintAllShows ==
  ASSUME LayoutInv, NEW p \in Procs, PrintAll(p)
  PROVE  ShowsAllOrNothing'
<1>1. SetUp(p)
  BY AttachedSetUp DEF PrintAll
<1>2. \A a \in Areas : Walk(p, a) \in {{}, Cells(a)}
  BY <1>1, WalkFacts DEF SetUp
<1> DEFINE shown == UNION {Walk(p, a) : a \in Areas}
<1>3. last' = [call |-> "PrintAll", shown |-> shown]
  BY DEF PrintAll
<1>4. shown \subseteq AllBuckets
  BY <1>2, CellBounds
<1>5. ASSUME NEW a \in Areas PROVE Cells(a) \cap shown \in {{}, Cells(a)}
  <2>1. \A o \in Areas \ {a} : Cells(a) \cap Walk(p, o) = {}
    BY <1>2, CellsDisjoint
  <2>2. Cells(a) \cap shown = Cells(a) \cap Walk(p, a)
    BY <2>1
  <2> QED BY <1>2, <2>2
<1> HIDE DEF shown
<1>6. last'.shown = shown
  BY <1>3
<1> QED BY <1>4, <1>5, <1>6 DEF ShowsAllOrNothing, Cells

LEMMA ShowsNext ==
  LayoutInv /\ ShowsAllOrNothing /\ [Next]_vars => ShowsAllOrNothing'
<1> SUFFICES ASSUME LayoutInv, ShowsAllOrNothing, [Next]_vars
             PROVE  ShowsAllOrNothing'
  OBVIOUS
<1>1. CASE UNCHANGED vars
  BY <1>1 DEF vars, ShowsAllOrNothing
<1>2. CASE Next
  <2>1. CASE \E p \in Procs : PrintAll(p)
    BY <2>1, PrintAllShows
  <2>2. CASE ~ \E p \in Procs : PrintAll(p)
    <3>1. PICK p \in Procs :
            \/ Initalize(p)
            \/ Exit(p)
            \/ \E k \in Keys : Get(p, k)
            \/ \E k \in Keys : Incr(p, k)
            \/ \E k \in Keys : Delete(p, k)
            \/ \E k \in Keys : \E v \in 0..MaxValue : Set(p, k, v)
            \/ \E a \in Managed : SetIndexPointer(p, a)
            \/ \E a \in Managed : InitalizeByCacheSize(p, a)
            \/ \E a \in Managed : Reset(p, a)
            \/ \E a \in Managed : FullFillValue(p, a)
      BY <1>2, <2>2, ZenonT(60) DEF Next
    <3>2. last'.call # "PrintAll"
      <4>1. CASE Initalize(p)
        BY <4>1 DEF Initalize
      <4>2. CASE Exit(p)
        BY <4>2 DEF Exit, Silent
      <4>3. CASE \E k \in Keys : Get(p, k)
        BY <4>3 DEF Get
      <4>4. CASE \E k \in Keys : Incr(p, k)
        BY <4>4 DEF Incr
      <4>5. CASE \E k \in Keys : Delete(p, k)
        BY <4>5 DEF Delete
      <4>6. CASE \E k \in Keys : \E v \in 0..MaxValue : Set(p, k, v)
        BY <4>6 DEF Set
      <4>7. CASE \E a \in Managed : SetIndexPointer(p, a)
        BY <4>7 DEF SetIndexPointer, Silent
      <4>8. CASE \E a \in Managed : InitalizeByCacheSize(p, a)
        BY <4>8 DEF InitalizeByCacheSize
      <4>9. CASE \E a \in Managed : Reset(p, a)
        BY <4>9 DEF Reset
      <4>10. CASE \E a \in Managed : FullFillValue(p, a)
        BY <4>10 DEF FullFillValue
      <4> QED BY <3>1, <4>1, <4>2, <4>3, <4>4, <4>5, <4>6, <4>7, <4>8, <4>9,
                 <4>10, Zenon
    <3> QED BY <3>2 DEF ShowsAllOrNothing
  <2> QED BY <2>1, <2>2
<1> QED BY <1>1, <1>2

\* A printing shows an area's buckets all or not at all, and nothing else,
\* for any number of buckets and any history of iterators.
THEOREM LayoutShows == Spec => []ShowsAllOrNothing
<1>1. Init => ShowsAllOrNothing
  BY DEF Init, Silent, ShowsAllOrNothing
<1> QED BY <1>1, LayoutAlways, ShowsNext, PTL DEF Spec

-----------------------------------------------------------------------------
(* The areas implement CacheMap for the keys that have a bucket of their   *)
(* own.                                                                    *)

Cell(k) == CHOOSE b \in CellsOf(k) : TRUE

\* AbstractMap's content and call.
Content == [k \in Exact |-> Lookup(Cell(k))]
Call ==
  IF \/ last.call \in {"Initalize", "Reset", "FullFillValue"}
     \/ last.call \in {"Set", "Get", "Incr", "Delete"} /\ last.key \in Exact
    THEN last ELSE Silent

\* What a bucket holds.
ValueOf(x) == IF x.hasSet = 1 /\ x.invalid = 0 THEN x.node ELSE NoValue

LEMMA CellsOfKey ==
  ASSUME NEW k \in Keys
  PROVE  CellsOf(k) \subseteq Cells(AreaOf[k]) /\ CellsOf(k) # {}
         /\ AreaOf[k] \in Areas
<1> DEFINE a == AreaOf[k]
<1>1. a \in Areas /\ Hashes[k] \in SUBSET Nat /\ Hashes[k] # {}
  BY ModHashAssumption
<1>2. CellsOf(k) = {FirstOf(a) + (h % NodeCount[a]) * UnitSize : h \in Hashes[k]}
  BY DEF CellsOf, FirstOf
<1>3. \A h \in Hashes[k] : h % NodeCount[a] \in 0..(NodeCount[a] - 1)
  BY <1>1, Constants
<1>4. Cells(a) = {FirstOf(a) + i * UnitSize : i \in 0..(NodeCount[a] - 1)}
  BY <1>1, CellsByHand
<1> HIDE DEF a
<1>5. CellsOf(k) \subseteq Cells(a) /\ CellsOf(k) # {}
  BY <1>1, <1>2, <1>3, <1>4
<1> QED BY <1>1, <1>5 DEF a

LEMMA ExactCell ==
  ASSUME NEW k \in Exact
  PROVE  /\ k \in Keys
         /\ CellsOf(k) = {Cell(k)}
         /\ Cell(k) \in Cells(AreaOf[k])
         /\ Cell(k) \in AllBuckets
         /\ \A o \in Keys \ {k} : Cell(k) \notin CellsOf(o)
<1>1. k \in Keys /\ Cardinality(CellsOf(k)) = 1
      /\ \A o \in Keys \ {k} : CellsOf(k) \cap CellsOf(o) = {}
  BY DEF Exact
<1>2. Cell(k) \in CellsOf(k)
  BY <1>1, CellsOfKey, Zenon DEF Cell
<1>3. IsFiniteSet(Cells(AreaOf[k]))
  BY <1>1, CellsOfKey, CellCount
<1>4. IsFiniteSet(CellsOf(k))
  BY <1>1, <1>3, CellsOfKey, FS_Subset
<1>5. PICK x : CellsOf(k) = {x}
  BY <1>1, <1>4, FS_Singleton
<1>6. CellsOf(k) = {Cell(k)}
  BY <1>2, <1>5
<1>7. Cell(k) \in Cells(AreaOf[k]) /\ AreaOf[k] \in Areas
  BY <1>1, <1>2, CellsOfKey
<1>8. Cell(k) \in AllBuckets
  BY <1>7, CellBounds
<1> QED BY <1>1, <1>2, <1>6, <1>7, <1>8

\* The calls on a key reach the buckets CellsOf names.
LEMMA BucketAmongCells ==
  ASSUME LayoutInv, NEW p \in Procs, Attached(p), NEW k \in Keys,
         NEW h \in Hashes[k]
  PROVE  BucketAt(p, k, h) \in CellsOf(k)
<1> DEFINE a == AreaOf[k]
<1>1. BucketAt(p, k, h) = FirstOf(a) + (h % NodeCount[a]) * UnitSize
  BY BucketOfKey
<1> QED BY <1>1 DEF CellsOf, FirstOf

LEMMA BucketExact ==
  ASSUME LayoutInv, NEW p \in Procs, Attached(p), NEW k \in Keys,
         NEW h \in Hashes[k]
  PROVE  /\ k \in Exact => BucketAt(p, k, h) = Cell(k)
         /\ \A o \in Exact \ {k} : Cell(o) # BucketAt(p, k, h)
BY BucketAmongCells, ExactCell

\* A call that writes one bucket.
LEMMA OneWritten ==
  ASSUME LayoutInv, NEW b \in AllBuckets, NEW n \in Bucket,
         bucket' = [bucket EXCEPT ![b] = n]
  PROVE  Content' = [k \in Exact |-> IF Cell(k) = b THEN ValueOf(n)
                                     ELSE Content[k]]
<1>1. ASSUME NEW k \in Exact
      PROVE  Lookup(Cell(k))' = IF Cell(k) = b THEN ValueOf(n)
                                ELSE Lookup(Cell(k))
  <2>1. Cell(k) \in AllBuckets
    BY ExactCell
  <2>2. bucket'[Cell(k)] = IF Cell(k) = b THEN n ELSE bucket[Cell(k)]
    BY <2>1 DEF LayoutInv, Typed
  <2> QED BY <2>2 DEF Lookup, Holds, ValueOf
<1> QED BY <1>1 DEF Content

\* One that writes none of the exact keys' buckets.
LEMMA NoneWritten ==
  ASSUME \A k \in Exact : bucket'[Cell(k)] = bucket[Cell(k)]
  PROVE  Content' = Content
BY DEF Content, Lookup, Holds

LEMMA OtherStep ==
  ASSUME Content' = Content, Call' = Silent
  PROVE  AbstractMap!Other
BY Zenon DEF AbstractMap!Other, Content, Call, Cell, Silent

LEMMA InitalizeStep ==
  ASSUME NEW as \in (SUBSET Areas) \ {{}}, Content' = Content,
         last' = [call |-> "Initalize", areas |-> as]
  PROVE  AbstractMap!Next
<1>1. Call' = [call |-> "Initalize", areas |-> as]
  BY DEF Call
<1>2. AbstractMap!Initalize
  BY <1>1, Zenon DEF AbstractMap!Initalize, Content, Call, Cell
<1> QED BY <1>2 DEF AbstractMap!Next

LEMMA SetImplements ==
  ASSUME LayoutInv, NEW p \in Procs, NEW k \in Keys, NEW v \in 0..MaxValue,
         Set(p, k, v)
  PROVE  AbstractMap!Next
<1>1. PICK h \in Hashes[k] : bucket' = WithNode(BucketAt(p, k, h), v)
  BY DEF Set
<1> DEFINE b == BucketAt(p, k, h)
           n == [hasSet |-> 1, invalid |-> 0, node |-> v]
<1>2. /\ b \in AllBuckets
      /\ k \in Exact => b = Cell(k)
      /\ \A o \in Exact \ {k} : Cell(o) # b
  BY BucketOfKey, BucketExact DEF Set
<1>3. n \in Bucket /\ ValueOf(n) = v
  BY BucketForms DEF ValueOf
<1>4. bucket' = [bucket EXCEPT ![b] = n]
  BY <1>1, Zenon DEF WithNode
<1>5. last' = [call |-> "Set", key |-> k, value |-> v]
  BY DEF Set
<1> HIDE DEF b, n
<1>6. Content' = [o \in Exact |-> IF Cell(o) = b THEN v ELSE Content[o]]
  BY <1>2, <1>3, <1>4, OneWritten
<1>7. CASE k \in Exact
  <2>1. Content' = [Content EXCEPT ![k] = v]
    BY <1>2, <1>6, <1>7 DEF Content
  <2>2. Call' = [call |-> "Set", key |-> k, value |-> v]
    BY <1>5, <1>7 DEF Call
  <2>3. AbstractMap!Set(k, v)
    BY <2>1, <2>2, Zenon DEF AbstractMap!Set, Content, Call, Cell
  <2> QED BY <1>7, <2>3 DEF AbstractMap!Next
<1>8. CASE k \notin Exact
  <2>1. Content' = Content
    BY <1>2, <1>6, <1>8 DEF Content
  <2>2. Call' = Silent
    BY <1>5, <1>8 DEF Call
  <2> QED BY <2>1, <2>2, OtherStep DEF AbstractMap!Next
<1> QED BY <1>7, <1>8

LEMMA IncrImplements ==
  ASSUME LayoutInv, NEW p \in Procs, NEW k \in Keys, Incr(p, k)
  PROVE  AbstractMap!Next
<1>1. PICK h \in Hashes[k] :
        LET b == BucketAt(p, k, h)
            temp == IF Holds(b) THEN bucket[b].node ELSE 0
        IN  temp < MaxValue /\ bucket' = WithNode(b, temp + 1)
  BY DEF Incr
<1> DEFINE b == BucketAt(p, k, h)
           temp == IF Holds(b) THEN bucket[b].node ELSE 0
           n == [hasSet |-> 1, invalid |-> 0, node |-> temp + 1]
<1>2. /\ b \in AllBuckets
      /\ k \in Exact => b = Cell(k)
      /\ \A o \in Exact \ {k} : Cell(o) # b
  BY BucketOfKey, BucketExact DEF Incr
<1>3. temp < MaxValue /\ bucket' = [bucket EXCEPT ![b] = n]
  BY <1>1, Zenon DEF WithNode
<1>4. temp \in 0..MaxValue /\ MaxValue \in Nat
  BY <1>2, ModHashAssumption DEF LayoutInv, Typed, Bucket
<1>5. temp + 1 = IF Lookup(b) = NoValue THEN 1 ELSE Lookup(b) + 1
  BY <1>2, ModHashAssumption DEF LayoutInv, Typed, Bucket, Lookup
<1>6. last' = [call |-> "Incr", key |-> k]
  BY DEF Incr
<1> HIDE DEF b, temp
<1>7. n \in Bucket /\ ValueOf(n) = temp + 1
  BY <1>3, <1>4, BucketForms DEF ValueOf
<1> HIDE DEF n
<1>8. Content' = [o \in Exact |-> IF Cell(o) = b THEN temp + 1 ELSE Content[o]]
  BY <1>2, <1>3, <1>7, OneWritten
<1>9. CASE k \in Exact
  <2>1. Content[k] = Lookup(b)
    BY <1>2, <1>9 DEF Content
  <2>2. Content' = [Content EXCEPT ![k] = temp + 1]
    BY <1>2, <1>8, <1>9 DEF Content
  <2>3. Content' =
          [Content EXCEPT ![k] = IF @ = NoValue THEN 1 ELSE @ + 1]
    BY <1>5, <2>1, <2>2
  <2>4. Call' = [call |-> "Incr", key |-> k]
    BY <1>6, <1>9 DEF Call
  <2>5. AbstractMap!Incr(k)
    BY <2>3, <2>4, Zenon DEF AbstractMap!Incr, Content, Call, Cell
  <2> QED BY <1>9, <2>5 DEF AbstractMap!Next
<1>10. CASE k \notin Exact
  <2>1. Content' = Content
    BY <1>2, <1>8, <1>10 DEF Content
  <2>2. Call' = Silent
    BY <1>6, <1>10 DEF Call
  <2> QED BY <2>1, <2>2, OtherStep DEF AbstractMap!Next
<1> QED BY <1>9, <1>10

LEMMA DeleteImplements ==
  ASSUME LayoutInv, NEW p \in Procs, NEW k \in Keys, Delete(p, k)
  PROVE  AbstractMap!Next
<1>1. PICK h \in Hashes[k] :
        bucket' = [bucket EXCEPT ![BucketAt(p, k, h)].invalid = 1]
  BY DEF Delete
<1> DEFINE b == BucketAt(p, k, h)
           n == [bucket[b] EXCEPT !.invalid = 1]
<1>2. /\ b \in AllBuckets
      /\ k \in Exact => b = Cell(k)
      /\ \A o \in Exact \ {k} : Cell(o) # b
  BY BucketOfKey, BucketExact DEF Delete
<1>3. bucket' = [bucket EXCEPT ![b] = n]
  BY <1>1
<1>4. last' = [call |-> "Delete", key |-> k]
  BY DEF Delete
<1> HIDE DEF b
<1>5. n \in Bucket /\ ValueOf(n) = NoValue
  <2>1. bucket[b] \in Bucket
    BY <1>2 DEF LayoutInv, Typed
  <2>2. n.invalid = 1
    BY <2>1 DEF Bucket
  <2> QED BY <2>1, <2>2, BucketForms DEF ValueOf
<1> HIDE DEF n
<1>6. Content' = [o \in Exact |-> IF Cell(o) = b THEN NoValue ELSE Content[o]]
  BY <1>2, <1>3, <1>5, OneWritten
<1>7. CASE k \in Exact
  <2>1. Content' = [Content EXCEPT ![k] = NoValue]
    BY <1>2, <1>6, <1>7 DEF Content
  <2>2. Call' = [call |-> "Delete", key |-> k]
    BY <1>4, <1>7 DEF Call
  <2>3. AbstractMap!Delete(k)
    BY <2>1, <2>2, Zenon DEF AbstractMap!Delete, Content, Call, Cell
  <2> QED BY <1>7, <2>3 DEF AbstractMap!Next
<1>8. CASE k \notin Exact
  <2>1. Content' = Content
    BY <1>2, <1>6, <1>8 DEF Content
  <2>2. Call' = Silent
    BY <1>4, <1>8 DEF Call
  <2> QED BY <2>1, <2>2, OtherStep DEF AbstractMap!Next
<1> QED BY <1>7, <1>8

LEMMA GetImplements ==
  ASSUME LayoutInv, NEW p \in Procs, NEW k \in Keys, Get(p, k)
  PROVE  AbstractMap!Next
<1>1. PICK h \in Hashes[k] :
        last' = [call |-> "Get", key |-> k, value |-> Lookup(BucketAt(p, k, h))]
  BY DEF Get
<1>2. k \in Exact => BucketAt(p, k, h) = Cell(k)
  BY BucketExact DEF Get
<1>3. Content' = Content
  BY NoneWritten DEF Get
<1>4. CASE k \in Exact
  <2>1. Content[k] = Lookup(BucketAt(p, k, h))
    BY <1>2, <1>4 DEF Content
  <2>2. Call' = [call |-> "Get", key |-> k, value |-> Content[k]]
    BY <1>1, <1>4, <2>1 DEF Call
  <2>3. AbstractMap!Get(k)
    BY <1>3, <2>2, Zenon DEF AbstractMap!Get, Content, Call, Cell
  <2> QED BY <1>4, <2>3 DEF AbstractMap!Next
<1>5. CASE k \notin Exact
  <2>1. Call' = Silent
    BY <1>1, <1>5 DEF Call
  <2> QED BY <1>3, <2>1, OtherStep DEF AbstractMap!Next
<1> QED BY <1>4, <1>5

\* An exact key's bucket is inside an area just when the key is the area's.
LEMMA CellInArea ==
  ASSUME NEW k \in Exact, NEW a \in Areas
  PROVE  /\ Cell(k) \in Cells(a) <=> AreaOf[k] = a
         /\ Cell(k) \in FirstOf(a)..EndOf(a) <=> AreaOf[k] = a
<1>1. /\ k \in Keys /\ Cell(k) \in Cells(AreaOf[k]) /\ Cell(k) \in AllBuckets
      /\ AreaOf[k] \in Areas
  BY ExactCell, CellsOfKey
<1>2. Cell(k) \in Cells(a) <=> AreaOf[k] = a
  BY <1>1, CellsDisjoint
<1> QED BY <1>1, <1>2, CellsApart

LEMMA ResetImplements ==
  ASSUME LayoutInv, NEW p \in Procs, NEW a \in Areas, Reset(p, a)
  PROVE  AbstractMap!Next
<1>1. obj[p][a].first = FirstOf(a) /\ obj[p][a].end = EndOf(a)
  BY AttachedSetUp DEF Reset, SetUp, Over
<1>2. ASSUME NEW k \in Exact
      PROVE  Lookup(Cell(k))' = IF AreaOf[k] = a THEN NoValue
                                ELSE Lookup(Cell(k))
  <2>1. Cell(k) \in AllBuckets
    BY ExactCell
  <2>2. bucket[Cell(k)] \in Bucket
    BY <2>1 DEF LayoutInv, Typed
  <2>3. bucket'[Cell(k)] =
          IF AreaOf[k] = a THEN [bucket[Cell(k)] EXCEPT !.invalid = 1]
          ELSE bucket[Cell(k)]
    BY <1>1, <2>1, CellInArea DEF Reset
  <2> QED BY <2>2, <2>3 DEF Lookup, Holds, Bucket
<1>3. Content' = [k \in Exact |-> IF AreaOf[k] = a THEN NoValue
                                  ELSE Content[k]]
  BY <1>2 DEF Content
<1>4. Call' = [call |-> "Reset", area |-> a]
  BY DEF Reset, Call
<1>5. AbstractMap!Reset(a)
  <2> DEFINE area == [k \in Exact |-> AreaOf[k]]
  <2>1. Content' = [k \in Exact |-> IF area[k] = a THEN NoValue
                                    ELSE Content[k]]
    BY <1>3
  <2> QED BY <1>4, <2>1, Zenon DEF AbstractMap!Reset, Content, Call, Cell
<1> QED BY <1>5 DEF AbstractMap!Next

LEMMA FullFillValueImplements ==
  ASSUME LayoutInv, NEW p \in Procs, NEW a \in Areas, FullFillValue(p, a)
  PROVE  AbstractMap!Next
<1>1. BucketsOf(obj[p][a]) = Cells(a)
  BY AttachedSetUp, CellsByHand DEF FullFillValue, SetUp
<1>2. PICK vec \in [Cells(a) -> 0..MaxValue] :
        bucket' = [b \in AllBuckets |->
                     IF b \in DOMAIN vec
                       THEN [hasSet |-> 1, invalid |-> 0, node |-> vec[b]]
                       ELSE bucket[b]]
  BY <1>1 DEF FullFillValue
<1> DEFINE area == [k \in Exact |-> AreaOf[k]]
           mine == {k \in Exact : area[k] = a}
           f == [k \in mine |-> vec[Cell(k)]]
<1>3. f \in [mine -> 0..MaxValue]
  BY CellInArea
<1>4. ASSUME NEW k \in Exact
      PROVE  Lookup(Cell(k))' = IF area[k] = a THEN f[k] ELSE Lookup(Cell(k))
  <2>1. Cell(k) \in AllBuckets
    BY ExactCell
  <2>2. Cell(k) \in DOMAIN vec <=> area[k] = a
    BY CellInArea
  <2>3. CASE area[k] = a
    <3>1. bucket'[Cell(k)] = [hasSet |-> 1, invalid |-> 0, node |-> vec[Cell(k)]]
      BY <1>2, <2>1, <2>2, <2>3
    <3> QED BY <2>3, <3>1 DEF Lookup, Holds
  <2>4. CASE area[k] # a
    <3>1. bucket'[Cell(k)] = bucket[Cell(k)]
      BY <1>2, <2>1, <2>2, <2>4
    <3> QED BY <2>4, <3>1 DEF Lookup, Holds
  <2> QED BY <2>3, <2>4
<1> HIDE DEF f
<1>5. Content' = [k \in Exact |-> IF area[k] = a THEN f[k] ELSE Content[k]]
  BY <1>4 DEF Content
<1>6. Call' = [call |-> "FullFillValue", area |-> a]
  BY DEF FullFillValue, Call
<1>7. AbstractMap!FullFillValue(a)
  BY <1>3, <1>5, <1>6, Zenon
     DEF AbstractMap!FullFillValue, AbstractMap!KeysIn, Content, Call, Cell
<1> QED BY <1>7 DEF AbstractMap!Next

LEMMA NextImplements ==
  ASSUME LayoutInv, [Next]_vars
  PROVE  [AbstractMap!Next]_(AbstractMap!vars)
<1>1. CASE UNCHANGED vars
  <2>1. Content' = Content /\ Call' = Call
    BY <1>1 DEF vars, Content, Call, Lookup, Holds
  <2>2. UNCHANGED AbstractMap!vars
    BY <2>1, Zenon DEF AbstractMap!vars, Content, Call, Cell
  <2> QED BY <2>2
<1>2. ASSUME NEW p \in Procs, Exit(p) \/ PrintAll(p)
      PROVE  AbstractMap!Next
  <2>1. bucket' = bucket
    BY <1>2 DEF Exit, PrintAll
  <2>2. Call' = Silent
    BY <1>2 DEF Exit, PrintAll, Call, Silent
  <2> QED BY <2>1, <2>2, NoneWritten, OtherStep DEF AbstractMap!Next
<1>3. ASSUME NEW p \in Procs, NEW a \in Areas, SetIndexPointer(p, a)
      PROVE  AbstractMap!Next
  <2>1. bucket' = bucket
    BY <1>3 DEF SetIndexPointer
  <2>2. Call' = Silent
    BY <1>3 DEF SetIndexPointer, Call, Silent
  <2> QED BY <2>1, <2>2, NoneWritten, OtherStep DEF AbstractMap!Next
<1>5. ASSUME NEW p \in Procs, Initalize(p)
      PROVE  AbstractMap!Next
  <2>1. bucket' = bucket /\ last' = [call |-> "Initalize", areas |-> Areas]
    BY <1>5 DEF Initalize
  <2>2. Areas \in (SUBSET Areas) \ {{}}
    BY DEF Areas
  <2> QED BY <2>1, <2>2, NoneWritten, InitalizeStep
<1>6. ASSUME NEW p \in Procs, NEW a \in Areas, InitalizeByCacheSize(p, a)
      PROVE  AbstractMap!Next
  <2>1. bucket' = bucket /\ last' = [call |-> "Initalize", areas |-> {a}]
    BY <1>6 DEF InitalizeByCacheSize
  <2> QED BY <2>1, NoneWritten, InitalizeStep
<1>4. CASE Next
  <2>1. Managed \subseteq Areas
    BY ModHashAssumption
  <2> QED BY <1>2, <1>3, <1>4, <1>5, <1>6, <2>1, SetImplements, GetImplements,
             IncrImplements, DeleteImplements, ResetImplements,
             FullFillValueImplements DEF Next
<1> QED BY <1>1, <1>4

LEMMA InitImplements == Init => AbstractMap!Init
<1> SUFFICES ASSUME Init PROVE AbstractMap!Init
  OBVIOUS
<1>1. \A k \in Exact : Lookup(Cell(k)) = NoValue
  BY ExactCell DEF Init, EmptyBucket, Lookup, Holds
<1>2. Content = [k \in Exact |-> NoValue]
  BY <1>1 DEF Content
<1>3. Call = [call |-> "none"]
  BY DEF Init, Call, Silent
<1> QED BY <1>2, <1>3, Zenon DEF AbstractMap!Init, Content, Call, Cell

\* For any number of processes, keys and buckets, the three areas are one map
\* that outlasts every process, for every key with a bucket of its own:
\* initialising the areas again leaves what they hold, as the comment in
\* CCacheManager::Initalize asks and against what IChunkedIndex documents.
THEOREM CacheMapImplemented == Spec => ImplementsCacheMap
<1>1. Init => AbstractMap!Init
  BY InitImplements
<1>2. LayoutInv /\ [Next]_vars => [AbstractMap!Next]_(AbstractMap!vars)
  BY NextImplements
<1> QED BY <1>1, <1>2, LayoutAlways, PTL
        DEF Spec, ImplementsCacheMap, AbstractMap!Spec

=============================================================================
